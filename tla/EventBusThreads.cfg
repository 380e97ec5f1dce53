\* Two publishing threads, one bounded queue of one envelope.
SPECIFICATION Spec
CONSTANTS
  t1 = t1  t2 = t2  op = op  sim = sim  s1 = s1  s2 = s2
  alert = alert  telemetry = telemetry  incident = incident
  Threads = {t1, t2}
  Loop = t1
  Subs = {s1}
  Channels = {op}
  Wildcard = "*"
  Kinds = {alert, telemetry}
  Critical = {alert}
  Heartbeat = "heartbeat"
  None = None
  ChannelOf <- OneChannelOf
  Admits <- OneAdmits
  Capacity = 1
  MaxPublished = 3
  MaxBeat = 0
INVARIANTS
  TypeOK
  QueueBound
  DeliveredExact
  
  ThreadFifo
PROPERTIES
  PublishReturns
  
CHECK_DEADLOCK FALSE
