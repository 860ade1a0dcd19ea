CONSTANTS
  a = a
  s = s
  Active = {a}
  Passive = {s}
  None = None
  Pair <- Apart
  KeepInitShort = 2
  KeepInit = 3
  KeepIdle = 4
  KeepIntvl = 1
  MaxIdle = 2
  Msl2 = 2
  RexmtTime <- Backoff
  PersistTime = 1
  PersistIdle = 3
  MaxShift = 2
  MaxInput = 3
SPECIFICATION FairSpec
INVARIANTS
  TypeOK
  Answers
  Guarded
PROPERTIES
  ClosesEnd
  ServiceSpec
CHECK_DEADLOCK FALSE
