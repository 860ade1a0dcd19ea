CONSTANTS
    ap = ap
    s1 = s1
    s2 = s2
    None = None
    Ap = ap
    Nodes <- Cell
    InRange <- Reach
    Loads <- Traffic
    StopAfterHeader = TRUE
    RetryLimit = 1
    MaxBeacons = 1
    MaxAnswers = 1
SPECIFICATION Spec
INVARIANTS
    ReadyToReceive
    HandedOnce
    AckedIsHanded
    WaitsEnd
CHECK_DEADLOCK FALSE
