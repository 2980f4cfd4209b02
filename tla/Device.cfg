SPECIFICATION FairSpec
CONSTANTS
  Notes = {1, 2, 3}
  Own = {1, 2}
  Created <- MCCreated
  Fire <- MCFire
  Every <- MCEvery
  Match = {1, 2, 3}
  PageLimit = 2
  PowEpochLength = 2
  s1 = s1
  s2 = s2
  Syncs = {s1, s2}
  MaxTime = 1
  MaxFaults = 1
INVARIANTS
  TypeOK
  DeliveredOrKnown
  FailedOnlyIfRefused
  PendingNeverHidden
  CacheCoherent
  AcknowledgedOrReset
  OnSchedule
  PagesAdjoin
PROPERTIES
  Settled
CHECK_DEADLOCK FALSE
