SPECIFICATION SeenSpec
CONSTANTS
  r1 = r1  r2 = r2  c1 = c1  c2 = c2  v1 = v1  v2 = v2  u1 = u1  u2 = u2
  \* The scenario
  Requests = {r1, r2}
  OpsOf <- MCOpsOf
  NoRequest = NoRequest
  Puts = {"COMPLETED"}
  Batches = {2}
  Duration = 2
  MaxTick = 2
  MaxEdits = 1
  \* The mission
  Callers = {c1, c2}
  Payloads <- MCPayloads
  MaxRestarts = 1
  MaxRequests = 5
  \* The swarm, its decisions and its flight
  Clients = {c1, c2}
  Vehicles = {v1, v2}
  NoVehicle = NoVehicle
  Separation <- MCSeparation
  Explicit = {1}
  Rosters <- MCRosters
  MaxChanges = 2
  MaxLives = 2
  Operators = {c1, c2}
  Cooldowns = {1}
  Standard = 2
  Span = 2
  MaxPolicies = 2
  MaxRuns = 2
  Routes <- MCRoutes
  Shifts = {3, 4}
  Cooldown = 2
  MaxSnapshots = 3
  MaxTicks = 4
  MaxAsked = 4
  \* Authority and logins
  Users = {u1, u2}
  MaxMutations = 3
  MaxHits = 2
  Window = 2
  MaxFailed = 2
  Lockout = 2
  MaxTime = 4
  MaxLogins = 3
  \* Intelligence
  Tracks <- MCTracks
  Layouts <- MCLayouts
  Moves <- MCMoves
  Evidence = {{}, {"COORDINATED"}, {"COORDINATED", "RAPID_CHANGE"}}
  Scores = {0, 100}
  Groups = {"group"}
  Signatures = {"joined", "moved"}
  Capacity = 2
  Interval = 2
  Latest = 2
  MaxRecords = 3
SYMMETRY ClientSymmetry
INVARIANTS
  
  MissionSound
  
  
  
  IntelligenceSound
CHECK_DEADLOCK FALSE
