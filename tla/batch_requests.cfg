SPECIFICATION FairSpec
CONSTANTS
  r1 = r1
  r2 = r2
  m1 = m1
  m2 = m2
  c1 = c1
  c2 = c2
  None = None
  Requests <- TwoRows
  Target <- TwoContents
  Maintainers <- TwoMaintainers
  MaxJobs = 2
  BatchSize = 2
  Limit = 2
  MaxCrashes = 2
INVARIANTS
  TypeOK
  NothingIsStranded
  AppliedOnce
  CallsAreBounded
PROPERTIES
  EveryRequestEnds
CHECK_DEADLOCK FALSE
