CONSTANTS
  e1 = e1
  e2 = e2
  e3 = e3
  e4 = e4
  t1 = t1
  t2 = t2
  t3 = t3
  Envelope <- FourEnvelopes
  Thread <- ThreeThreads
  PriorityWeight = 10
  MaxQueueSize = 3
  MaxAge = 1
SPECIFICATION FairSpec
INVARIANTS QueueTypeOK NoLostWakeup
PROPERTIES NeverStuck
