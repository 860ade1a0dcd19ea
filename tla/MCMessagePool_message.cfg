CONSTANTS
  Flows <- MCFlows
  Workers = {1}
  MsgCap = 4
  InfoListMax = 1
  PayloadListMax = 1
  SmallInfo = 1
  CachedPayload = 2
  HeaderRoom = 1
  SerialSize = 3
  InfoTypes = {"default", "other"}
  Default = "default"
  Asked <- MCAsked
  Reals = {1}
  Virtuals = {2}
  FragUnits = {2}
  Never = 3
  Dues <- MCDues
  Threads = {FALSE}
SPECIFICATION Spec
VIEW View
INVARIANTS OneOwner Whole EarliestIsLeast
CHECK_DEADLOCK FALSE
