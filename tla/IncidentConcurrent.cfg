\* Concurrent requests: what holds whatever the interleaving.
SPECIFICATION Spec
CONSTANTS
  r1 = r1  r2 = r2  r3 = r3  r4 = r4  r5 = r5  u1 = u1  u2 = u2
  Requests = {r1, r2, r3}
  Pool = 3
  Users = {u1}
  None = None
INVARIANTS
  TypeOK
  StatusMatchesTimeline
  NoSequenceGaps
  PublishedOnceCommitted
PROPERTIES
  RequestReturns
CHECK_DEADLOCK FALSE
