CONSTANTS
  e1 = e1
  e2 = e2
  e3 = e3
  e4 = e4
  Envelope <- FourEnvelopes
  PriorityWeight = 3
  AgingThreshold = 2
SPECIFICATION FairSpec
INVARIANTS TypeOK SentOrder OldestOfItsPriorityFirst
PROPERTIES ImplementsLanes HighIsNeverOvertaken StarvationFree
