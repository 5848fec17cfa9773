SPECIFICATION Spec

CONSTANTS
  Contents <- Page
  Jobs <- One
  NoJob = NoJob
  ContentOf <- OnPage
  Workloads <- OneSummary
  Runs <- Request
  MaxRetries = 1
  MaxClaims = 2
  page = page
  first = first
  second = second
  r1 = r1
  r2 = r2

PROPERTIES
  RetryRenewsOwnership

CHECK_DEADLOCK FALSE
