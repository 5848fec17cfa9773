SPECIFICATION FairSpec

CONSTANTS
  Events <- TwoEvents
  Workers <- TwoWorkers
  Corruptible <- SecondMaybe
  Window = 2
  LeaseTime = 1
  MaxAttempts = 2
  BaseBackoff = 1
  MaxBackoff = 2
  MaxRetryAfter = 2
  MaxAge = 3
  Retention = 0
  ExhaustedRetention = 0
  MaxKeys = 2
  e1 = e1
  e2 = e2
  w1 = w1
  w2 = w2


INVARIANTS
  TypeOK
  LeaseIsExclusive
  OneNotificationPerAlert
  RetriesComeInTime

PROPERTIES
  SettledIsFinal
  EveryAlertSettles
