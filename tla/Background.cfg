SPECIFICATION Spec
CONSTANTS
  \* Simulation runs
  Slots = 2
  Clients = {s1, s2}
  Watchers = {s1}
  Engines = {"px4", "gazebo"}
  MaxStarts = 2
  MaxChanges = 1
  MaxArrivals = 2
  \* Exports
  MaxRetries = 3
  \* Streams
  Versions <- MCVersions
  Happenings <- MCHappenings
  MaxSockets = 3
  QueueSize = 1
  Reconnects = 1
INVARIANT
  BackgroundSound
PROPERTY
  BackgroundLive
CHECK_DEADLOCK FALSE
