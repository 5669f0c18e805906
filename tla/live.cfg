SPECIFICATION FairSpec
CHECK_DEADLOCK FALSE
CONSTANTS
  n1 = n1
  n2 = n2
  o1 = o1
  o2 = o2
  Operators = {o1}
  Nodes <- TwoNodes
  Specs <- AllSpecs
  Placements <- Stable
  Edits <- NoEdit
  FreshCache = FALSE
  MaxClock = 2
  MaxErrors = 2
  MaxCrashes = 1
  MaxLag = 1
INVARIANTS TypeOK FaultIsOwned InvalidNeverInjects JobsTracked LeftoversWereRefused
PROPERTIES NoReinjection ImplementsLifecycle DeletionCompletes RunEnds CleanupCompletes OrphansCollected
