SPECIFICATION FairSpec
CHECK_DEADLOCK FALSE
CONSTANTS
  n1 = n1
  n2 = n2
  Nodes <- TwoNodes
  Scenarios <- ScenarioTypes
  Pods <- FourPods
  Replicas = 3
  Duration = 1
  MaxClock = 2
  MaxFaults = 1
INVARIANTS TypeOK TargetsKilled EarlySuccessIsEarned
PROPERTIES ChaosEnds
