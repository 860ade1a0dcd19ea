CONSTANTS
  c1 = c1
  c2 = c2
  a1 = a1
  a2 = a2
  Chunk = {c1, c2}
  AP = {a1, a2}
  None = None
  Probe = Probe
  NumStops = 2
  StopTasks <- CollectThenUpload
  StopLoc <- Apart
  Road <- NoWhere
  InitLoc <- OffPath
  Plan <- PlanOneEach
  Policies = {"STRICT_PLAN"}
  ConnMax = 1
  MaxJoins = 2
  Lossy = TRUE
SPECIFICATION Spec
INVARIANTS
  TypeOK
  OneTransfer
  WorkBits
  NoTransferUnjoined
  TaskTruth
PROPERTIES
  NoLeaveDuringReception
  DoneWhenUploaded
CHECK_DEADLOCK FALSE
