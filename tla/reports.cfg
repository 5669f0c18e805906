SPECIFICATION FairSpec
CHECK_DEADLOCK FALSE
CONSTANTS
  Windows <- ShortWideOrInvalid
  MaxDelay = 1
  MaxClock = 2
  MaxErrors = 1
  MaxCrashes = 1
  MaxGen = 2
INVARIANTS TypeOK BaselineMissesByTheDelay
PROPERTIES ReportCompletes ImpactMapSettles
