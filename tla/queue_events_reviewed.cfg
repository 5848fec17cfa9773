SPECIFICATION FairSpec

CONSTANTS
  Jobs <- Pair
  Workers <- Workers1
  NoJob = NoJob
  KeyOf <- OwnKey
  Children <- PipelineChildren
  Malformed = {}
  LegacyJobs = {}
  Authority <- NoFence
  Zombies = FALSE
  Workloads <- Together
  MaxCrashes = 1
  MaxClaims = 1
  pipeline = pipeline
  child = child
  original = original
  duplicate = duplicate
  shared = shared
  w1 = w1
  w2 = w2

PROPERTIES
  EveryEventIsReviewed

CHECK_DEADLOCK FALSE
