SPECIFICATION FairSpec
CONSTANTS
    s1 = s1  c1 = c1  c2 = c2
    Sites = {s1}
    Chunks = {c1, c2}
    Owner <- MCOwner
    Priority <- MCPriority
    Size <- MCSize
    HeaderSize = 2
    ServerTypes = {"MDC", "CLOUD"}
    ConnMax = 1
    MaxJoins = 2
INVARIANTS TypeOK HeaderThenWhole CloseIsWhole SendingCounts
PROPERTIES HandoffSpec DeliveredArrives
CHECK_DEADLOCK FALSE
