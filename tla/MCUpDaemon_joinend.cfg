CONSTANTS
  c1 = c1
  c2 = c2
  a1 = a1
  a2 = a2
  Chunk = {c1}
  AP = {a1}
  None = None
  Probe = Probe
  NumStops = 2
  StopTasks <- CollectThenUpload
  StopLoc <- Apart
  Road <- NoWhere
  InitLoc <- Depot
  Plan <- PlanNone
  Policies = {"EVERYTHING"}
  ConnMax = 1
  MaxJoins = 1
  Lossy = FALSE
SPECIFICATION Spec
INVARIANTS
  JoinFindsStop
CHECK_DEADLOCK FALSE
