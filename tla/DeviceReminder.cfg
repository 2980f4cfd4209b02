SPECIFICATION Spec
CONSTANTS
  Notes = {1, 2, 3}
  Own = {1, 2}
  Created <- MCCreated
  Fire <- MCFireOnce
  Every <- MCEvery
  Match = {1, 2, 3}
  PageLimit = 2
  PowEpochLength = 2
  s1 = s1
  s2 = s2
  Syncs = {s1, s2}
  MaxTime = 1
  MaxFaults = 1
INVARIANTS
  AcknowledgedOnce
CHECK_DEADLOCK FALSE
