SPECIFICATION Spec
CHECK_DEADLOCK FALSE
CONSTANTS
  n1 = n1
  n2 = n2
  o1 = o1
  o2 = o2
  Operators = {o1, o2}
  Nodes <- NoNodes
  Specs <- EdgeOrBad
  Placements <- NoPlacement
  Edits <- RightOrSpoil
  FreshCache = TRUE
  MaxClock = 2
  MaxErrors = 1
  MaxCrashes = 1
  MaxLag = 1
SYMMETRY Symmetry
INVARIANTS OneFault SucceededRanItsDuration
PROPERTIES FinalizerHolds
