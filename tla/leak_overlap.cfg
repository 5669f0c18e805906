SPECIFICATION FairSpec
CHECK_DEADLOCK FALSE
CONSTANTS
  n1 = n1
  n2 = n2
  o1 = o1
  o2 = o2
  Operators = {o1, o2}
  Nodes <- NoNodes
  Specs <- EdgeSpecs
  Placements <- NoPlacement
  Edits <- NoEdit
  FreshCache = TRUE
  MaxClock = 1
  MaxErrors = 0
  MaxCrashes = 1
  MaxLag = 1
PROPERTIES NoFaultLeftBehind
