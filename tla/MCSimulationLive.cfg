CONSTANTS
  P1 = P1
  P2 = P2
  T1 = T1
  NoMessage = NoMessage
  Tester = {}
  DrawnPriority = {2}
  Proc <- TwoProcesses
  MaxMessages = 2
  PriorityWeight = 1
  AgingThreshold = 1
  AgingPeriod = 1
  MaxQueueSize = 1
  Builds = {"NO_GUI", "GUI"}
  SimulationSeconds = 0
SPECIFICATION FairSimulation
CHECK_DEADLOCK FALSE
PROPERTIES ComesToItsEnd StopsCleanly Delivered
