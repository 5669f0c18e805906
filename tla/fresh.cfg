SPECIFICATION HistorySpec
CHECK_DEADLOCK FALSE
CONSTANTS
  n1 = n1
  o1 = o1
  Operators = {o1}
  Nodes <- OneNode
  Specs <- EitherSpec
  Placements <- MovingOne
  Edits <- KindEdits
  FreshCache = TRUE
  MaxClock = 2
  MaxErrors = 2
  MaxCrashes = 1
  MaxLag = 1
PROPERTIES PhaseMovesForward ImplementsHistory
