SPECIFICATION Spec

CONSTANTS
  Contents <- Page
  Jobs <- Two
  NoJob = NoJob
  ContentOf <- OnPage
  Workloads <- Mixed
  Runs <- Requests
  MaxRetries = 1
  MaxClaims = 2
  page = page
  first = first
  second = second
  r1 = r1
  r2 = r2

SYMMETRY RequestSymmetry

INVARIANTS
  TypeOK
  OneSummaryPerContent
  OutputEndsOwnership
  CompletedHasOutput
  RetriesFollowClaims
  OwnerMatchesStatus
PROPERTIES
  ActiveOwnerIsUndisturbed
  ReturnedContentIsFree

CHECK_DEADLOCK FALSE
