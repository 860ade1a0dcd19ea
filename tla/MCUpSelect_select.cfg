SPECIFICATION Spec
CONSTANTS
  Chunk = {1, 2, 3}
  Ap = {11, 12}
  PathAps <- Stops
  Plan <- OneEach
  AppFiles <- Files
  Rates = {1, 2}
  ConnMax = 1
  Grace = 1
  Clock = {0, 2}
  MaxJoins = 2
INVARIANTS
  ChoiceAsAssumed
  LastInTimeWins
CHECK_DEADLOCK FALSE
