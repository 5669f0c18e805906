SPECIFICATION Spec
CHECK_DEADLOCK FALSE
CONSTANTS
  Slots <- SharedSlots
  UserVs <- OneUserVs
  Worlds <- AllWorlds
  VsName <- UniqueName
  MinRps = 1
  Generations = 3
  MaxFaults = 1
INVARIANTS TypeOK RunningHasFault InjectsOnlyWhereItMay FailedHasCause
PROPERTIES EachImplementsLifecycle
