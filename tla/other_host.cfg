SPECIFICATION Spec
CHECK_DEADLOCK FALSE
CONSTANTS
  Slots <- SharedSlots
  UserVs <- OtherUserVs
  Worlds <- OneWorld
  VsName <- UniqueName
  MinRps = 1
  Generations = 3
  MaxFaults = 1
INVARIANTS FailedForItsHost
