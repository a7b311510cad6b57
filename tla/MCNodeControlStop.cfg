CONSTANTS
    Scripts = {s1, s2}
    Pids = {p1, p2}
    None = None
    MaxCrashes = 0
SPECIFICATION Spec
INVARIANTS
    StopWaitsForNode
CHECK_DEADLOCK FALSE
