CONSTANTS
    c1 = c1
    c2 = c2
    Conns <- MCConns
    NoConn = NoConn
    Servers <- ThreeServers
    MaxFaults = 1
    MaxStops = 0
SPECIFICATION FairSpec
INVARIANTS
    UpMeansTable
PROPERTIES
    OrphansStayUp
    GoesThrough
    PagesEnd
