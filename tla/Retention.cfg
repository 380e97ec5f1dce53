SPECIFICATION Spec
CONSTANTS
  i1 = i1
  i2 = i2
  w1 = w1
  w2 = w2
  h1 = h1
  Incident = {i1, i2}
  Bare = {i2}
  Age <- MCAge
  Worker = {w1, w2}
  Kinds <- MCKinds
  Format = {"JSON"}
  Hold = {h1}
  Selections = {{i1, i2}}
  Updates <- MCUpdates
  DefaultAge = 1
  MaxPayload = 2
  MaxChecks = 2
INVARIANTS
  ArchivesSound
  
  PreviewCoversPurge
  
PROPERTIES
  HoldStopsLaterWork
  PurgeKeepsCopy
CHECK_DEADLOCK FALSE
