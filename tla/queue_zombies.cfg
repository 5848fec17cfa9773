SPECIFICATION FairSpec

CONSTANTS
  Jobs <- Single
  Workers <- Workers2
  NoJob = NoJob
  KeyOf <- OwnKey
  Children <- NoChildren
  Malformed = {}
  LegacyJobs = {}
  Authority <- MaybeOwned
  Zombies = TRUE
  Workloads <- Together
  MaxCrashes = 1
  MaxClaims = 2
  pipeline = pipeline
  child = child
  original = original
  duplicate = duplicate
  shared = shared
  w1 = w1
  w2 = w2

INVARIANTS
  TypeOK
  OneHolderPerGeneration
  ReportsAreTrue
PROPERTIES
  NoEffectAfterOutcome
  ImplementsLifecycle
  EveryClaimEnds

CHECK_DEADLOCK FALSE
