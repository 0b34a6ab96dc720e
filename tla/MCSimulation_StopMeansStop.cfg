CONSTANTS
  P1 = P1
  P2 = P2
  NoMessage = NoMessage
  T1 = T1
  Tester <- OneTester
  DrawnPriority = {2}
  Proc <- TwoProcesses
  MaxMessages = 1
  PriorityWeight = 1
  AgingThreshold = 1
  AgingPeriod = 2
  MaxQueueSize = 1
  Builds = {"GUI"}
  SimulationSeconds = 1
SPECIFICATION FairSimulation
CHECK_DEADLOCK FALSE
PROPERTIES StopMeansStop
