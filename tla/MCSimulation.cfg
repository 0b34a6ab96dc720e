CONSTANTS
  P1 = P1
  P2 = P2
  NoMessage = NoMessage
  T1 = T1
  Tester <- OneTester
  DrawnPriority = {2}
  Proc <- TwoProcesses
  MaxMessages = 2
  PriorityWeight = 1
  AgingThreshold = 1
  AgingPeriod = 2
  MaxQueueSize = 1
  Builds = {"NO_GUI", "GUI", "STRESS"}
  SimulationSeconds = 1
SPECIFICATION SimulationSpec
CHECK_DEADLOCK FALSE
SYMMETRY Symmetry
INVARIANTS FinalReport
PROPERTIES QuietAtTheEnd ImplementsChannel
