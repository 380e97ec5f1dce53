\* Two workers: leases that run out, crashes, retries, a failing statement.
SPECIFICATION Spec
CONSTANTS
  w1 = w1  w2 = w2  w3 = w3
  Workers = {w1, w2}
  Nobody = Nobody
  TTL = 1
  Interval = 1
  MaxRetries = 2
  MaxTime = 3
  MaxFaults = 1
INVARIANTS
  TypeOK
  AtomicExclusion
PROPERTIES
  OnlyHolderReleases
  StaleLockRecovered
  RunJobReturns
CHECK_DEADLOCK FALSE
