CONSTANTS
  c1 = c1
  c2 = c2
  a1 = a1
  a2 = a2
  Chunk = {c1, c2}
  AP = {a1}
  None = None
  Probe = Probe
  NumStops = 3
  StopTasks <- WayPoints
  StopLoc <- Apart
  Road <- NoWhere
  InitLoc <- Depot
  Plan <- PlanOnA1
  Policies = {"TIMELINE", "TEST"}
  ConnMax = 1
  MaxJoins = 2
  Lossy = FALSE
SPECIFICATION Spec
INVARIANTS
  LiveTimeouts
  Awake
CHECK_DEADLOCK FALSE
