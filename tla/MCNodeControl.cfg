CONSTANTS
    Scripts = {s1, s2, s3}
    Pids = {p1, p2, p3}
    None = None
    MaxCrashes = 1
SPECIFICATION FairSpec
INVARIANTS
    TypeOK
    OneSite
    NoComeback
    NeverAllGone
PROPERTIES
    OneSurvivor
    Serves
    StopEnds
CHECK_DEADLOCK FALSE
