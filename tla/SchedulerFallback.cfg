\* Three workers: the ORM fallback breaks the lock inside a lease.
SPECIFICATION Spec
CONSTANTS
  w1 = w1  w2 = w2  w3 = w3
  Workers = {w1, w2, w3}
  Nobody = Nobody
  TTL = 2
  Interval = 1
  MaxRetries = 1
  MaxTime = 1
  MaxFaults = 0
INVARIANTS
  LeaseExclusion
CHECK_DEADLOCK FALSE
