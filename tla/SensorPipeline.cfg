SPECIFICATION Spec
CONSTANTS
  d1 = d1
  d2 = d2
  d3 = d3
  s1 = s1
  s2 = s2
  w1 = w1
  w2 = w2
  None = None
  Detection = {d1, d2, d3}
  Sensor = {s1, s2}
  Disabled = {}
  SensorOf <- MCSensorOf
  Stamp <- MCStamp
  Place <- MCPlace
  Poor = {d3}
  Fence = {1}
  Worker = {w1, w2}
  Confirm = 2
  Window = 2
  Coast = 0
  Lose = 0
  Retire = 1
  MaxDelta = 3
  MaxDistance = 4
  MaxTime = 3
INVARIANTS
  TypeOK
  HistoryComplete
  RowMatchesHistory
  AlertsFollowTrack

  
CHECK_DEADLOCK FALSE
SYMMETRY Workers
