SPECIFICATION Spec

CONSTANTS
  Jobs <- Single
  Workers <- Workers1
  NoJob = NoJob
  KeyOf <- OwnKey
  Children <- NoChildren
  Malformed = {}
  LegacyJobs <- Single
  Authority <- NoFence
  Zombies = FALSE
  Workloads <- Together
  MaxCrashes = 0
  MaxClaims = 2
  pipeline = pipeline
  child = child
  original = original
  duplicate = duplicate
  shared = shared
  w1 = w1
  w2 = w2

INVARIANTS
  EveryEventEmitsTelemetry

CHECK_DEADLOCK FALSE
