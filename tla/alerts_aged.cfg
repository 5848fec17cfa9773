SPECIFICATION FairSpec

CONSTANTS
  Events <- OneEvent
  Workers <- OneWorker
  Corruptible = {}
  Window = 2
  LeaseTime = 2
  MaxAttempts = 2
  BaseBackoff = 1
  MaxBackoff = 2
  MaxRetryAfter = 2
  MaxAge = 4
  Retention = 1
  ExhaustedRetention = 2
  MaxKeys = 2
  e1 = e1
  e2 = e2
  w1 = w1
  w2 = w2

PROPERTIES
  AgeCeilingExhausts
