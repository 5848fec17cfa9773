SPECIFICATION Spec

CONSTANTS
  Jobs <- Mixed
  Workers <- Workers1
  NoJob = NoJob
  KeyOf <- TwinKey
  Children <- PipelineChildren
  Malformed <- Malformed1
  LegacyJobs <- Legacy1
  Authority <- NoFence
  Zombies = FALSE
  Workloads <- PairOrTwins
  MaxCrashes = 0
  MaxClaims = 2
  pipeline = pipeline
  child = child
  original = original
  duplicate = duplicate
  shared = shared
  w1 = w1
  w2 = w2

INVARIANTS
  PendingEventsAreCurrent
  CompletedIsFinal
  OutcomesAreCaptured

CHECK_DEADLOCK FALSE
