SPECIFICATION FairSpec
CONSTANTS
  batch = batch
  i1 = i1
  i2 = i2
  w1 = w1
  w2 = w2
  v1 = v1
  None = None
  Roots <- OneBatch
  Kids <- TwoItems
  Workers <- TwoSlots
  Readers <- NoReaders
  Zombies = FALSE
  MaxFaults = 0
  MaxGen = 5
PROPERTIES
  CompletesWithoutReaders
CHECK_DEADLOCK FALSE
