SPECIFICATION FairSpec
CONSTANTS
  w1 = w1
  w2 = w2
  N = 2
  Workers <- TwoSlots
  Ends <- SomeEnds
  MaxFaults = 1
  MaxRequests = 1
  MaxGen = 3
INVARIANTS
  TypeOK
  EachStageOnce
  DigestFollowsSummary
  CompletionIsConsistent
PROPERTIES
  CheckpointKeepsChildren
  EveryRunEnds
CHECK_DEADLOCK FALSE
