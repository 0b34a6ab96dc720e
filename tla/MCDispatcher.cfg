CONSTANTS
  e1 = e1
  e2 = e2
  e3 = e3
  Envelope <- ThreeEnvelopes
  PriorityWeight = 10
  AgingThreshold = 5
  AgingPeriod = 20
SPECIFICATION FairLoopSpec
INVARIANTS LoopTypeOK AgeBound
PROPERTIES StarvationFree
