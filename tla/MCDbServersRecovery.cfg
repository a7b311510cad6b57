CONSTANTS
    c1 = c1
    c2 = c2
    Conns <- MCConns
    NoConn = NoConn
    Servers <- LoginAndComment
    MaxFaults = 1
    MaxStops = 1
SPECIFICATION VisitedSpec
INVARIANTS
    TypeOK
    WaitsAreServed
PROPERTIES
    Recovers
