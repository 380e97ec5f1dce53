\* The event loop alone: two channels, a filtered and a wildcard subscription.
SPECIFICATION Spec
CONSTANTS
  t1 = t1  t2 = t2  op = op  sim = sim  s1 = s1  s2 = s2
  alert = alert  telemetry = telemetry  incident = incident
  Threads = {t1}
  Loop = t1
  Subs = {s1, s2}
  Channels = {op, sim}
  Wildcard = "*"
  Kinds = {telemetry, incident}
  Critical = {incident}
  Heartbeat = "heartbeat"
  None = None
  ChannelOf <- MCChannelOf
  Admits <- MCAdmits
  Capacity = 1
  MaxPublished = 3
  MaxBeat = 2
INVARIANTS
  LoopExact
PROPERTIES
  ImplementsOrderedFeed
CHECK_DEADLOCK FALSE
