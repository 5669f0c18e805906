SPECIFICATION Spec
CHECK_DEADLOCK FALSE
CONSTANTS
  Slots <- CrossSlots
  UserVs <- NoUserVs
  Worlds <- OneWorld
  VsName <- UniqueName
  MinRps = 1
  Generations = 3
  MaxFaults = 1
INVARIANTS RunningHasFault
