SPECIFICATION Spec
CHECK_DEADLOCK FALSE
CONSTANTS
  n1 = n1
  n2 = n2
  Nodes <- OneNode
  Scenarios <- TimedScenario
  Pods <- NoPods
  Replicas = 0
  Duration = 2
  MaxClock = 5
  MaxFaults = 0
INVARIANTS CleanedMeansQuiet
