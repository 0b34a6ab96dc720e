CONSTANTS
  P1 = P1
  P2 = P2
  NoMessage = NoMessage
  Tester = {}
  DrawnPriority = {1, 2, 3}
  Proc <- TwoProcesses
  MaxMessages = 3
  PriorityWeight = 1
  AgingThreshold = 1
  AgingPeriod = 2
  MaxQueueSize = 1
SPECIFICATION SteadySpec
CHECK_DEADLOCK FALSE
SYMMETRY Symmetry
INVARIANTS TypeOK CountersAgree AtMostOnce SenderOrderKept
PROPERTIES ImplementsDispatcher NothingComesBack
