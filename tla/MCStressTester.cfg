CONSTANTS
  P1 = P1
  P2 = P2
  T1 = T1
  T2 = T2
  Main = Main
  Sender <- AllSenders
  Proc <- Processes
  TestThread <- TwoThreads
  Envelope <- MessageIDs
  PriorityWeight = 10
  MaxQueueSize = 3
  MaxSent = 3
  LossMessages = 2
  HeavyMessages = 1
  MessagesPerThread = 2
  LossAtLeast = 4
  LossAtMost = 2
SPECIFICATION FairStress
CHECK_DEADLOCK FALSE
INVARIANTS StressTypeOK Conserved NextLineCatchesUp RateIsDefined LossRateIsAtMostAll OnlyLossMayFail OwnSendsAreCounted
PROPERTIES ComesToResults
