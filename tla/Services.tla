------------------------------ MODULE Services ------------------------------
(* The services of the backend that share no state with each other: the    *)
(* simulation's (scenarios, missions, the swarm's rows, its safety         *)
(* decisions and its flight), authority and logins, and the intelligence   *)
(* store with its scoring and its history.  A behaviour belongs to one of  *)
(* them, chosen at the start, and the others stay in an initial state.     *)
EXTENDS Integers, Sequences, FiniteSets

CONSTANTS
    Requests, OpsOf, NoRequest, Puts, Batches, Duration, MaxTick, MaxEdits,
    Callers, Payloads, MaxRestarts, MaxRequests,
    Clients, Vehicles, NoVehicle, Separation, Explicit, Rosters, MaxChanges, MaxLives,
    Operators, Cooldowns, Standard, Span, MaxPolicies, MaxRuns,
    Routes, Shifts, Cooldown, MaxSnapshots, MaxTicks, MaxAsked,
    Users, MaxMutations,
    MaxHits, Window, MaxFailed, Lockout, MaxTime, MaxLogins,
    Tracks, Layouts, Moves, Evidence, Scores,
    Groups, Signatures, Capacity, Interval, Latest, MaxRecords

VARIABLES
    part,
    scenario, sensor, stored, registry, session, req, seen, edits, raced,
    payload, mission, items, progress, flight, caller, served, restarts, aborted,
    overtaken, telemetry,
    row, rows, engines, client, changes, overlapped, outdated, gaps, life,
    policies, inForce, last, operator, wall, generation, decisions, crossed,
    clock, craft, config, triggered, recording, index, replay, taken, epoch, visited, asked,
    serial, disabled, member, custom, exists, mutation, mutations, admitted, met, overreach,
    store, hits, list, now, failures, lock, login, logins, sessions, admittedAt, disturbed, wrong,
    intruded,
    trackRows, open, holding, tracks, groups, home, formed, mind, heard, priority, ready,
    lastBehaviors, roster, told, ledger, trackChanges, focus, spoiled, stale,
    classifier, anomaly, behind, assessment, streak, settled, above, below, peak,
    queue, lastSnapshot, signatures, counters, hands, archive, observed, offered, refused,
    accepted, resets, failed, abreast

Scenario == INSTANCE ScenarioExecution
Mission == INSTANCE MissionExecution
Control == INSTANCE SwarmControl
Safety == INSTANCE SwarmSafety
Flight == INSTANCE SwarmSimulation
Rights == INSTANCE Authority WITH crossed <- met
Guard == INSTANCE LoginGuard
Store == INSTANCE IntelligenceStore
             WITH rows <- trackRows, last <- lastBehaviors, changes <- trackChanges,
                  outdated <- stale
Scoring == INSTANCE TrackScoring WITH mind <- classifier, priority <- assessment
History == INSTANCE IntelligenceHistory
               WITH stored <- archive, clock <- observed, life <- resets,
                    Flushers <- Clients, MaxTime <- Latest

-----------------------------------------------------------------------------
Init ==
    /\ part \in {"scenario", "mission", "swarm", "safety", "flight", "rights", "login", "store",
                 "scoring", "history"}
    /\ Scenario!Init /\ (part # "scenario" => seen = Scenario!Ticks)
    /\ Mission!Init /\ (part # "mission" => payload = <<>>)
    /\ Control!Init /\ Safety!Init /\ Flight!Init
    /\ Rights!Init
    /\ part # "rights" => serial /\ disabled = {} /\ custom = {} /\ admitted = {}
    /\ Guard!Init /\ (part # "login" => store = "memory")
    /\ Store!Init /\ (part # "store" => trackRows = <<>>)
    /\ Scoring!Init /\ History!Init

scenarioVars == <<scenario, sensor, stored, registry, session, req, seen, edits, raced>>
missionVars == <<payload, mission, items, progress, flight, caller, served, restarts, aborted,
                 overtaken, telemetry>>
swarmVars == <<row, rows, engines, client, changes, overlapped, outdated, gaps, life>>
safetyVars == <<policies, inForce, last, operator, wall, generation, decisions, crossed>>
flightVars == <<clock, craft, config, triggered, recording, index, replay, taken, epoch, visited,
                asked>>
rightsVars == <<serial, disabled, member, custom, exists, mutation, mutations, admitted, met,
                overreach>>
loginVars == <<store, hits, list, now, failures, lock, login, logins, sessions, admittedAt,
               disturbed, wrong, intruded>>
storeVars == <<trackRows, open, holding, tracks, groups, home, formed, mind, heard, priority,
               ready, lastBehaviors, roster, told, ledger, trackChanges, focus, spoiled, stale>>
scoringVars == <<classifier, anomaly, behind, assessment, streak, settled, above, below, peak>>
historyVars == <<queue, lastSnapshot, signatures, counters, hands, archive, observed, offered,
                 refused, accepted, resets, failed, abreast>>
vars == <<part, scenarioVars, missionVars, swarmVars, safetyVars, flightVars,
          rightsVars, loginVars, storeVars, scoringVars, historyVars>>

Next ==
    \/ /\ part = "scenario"
       /\ Scenario!Next
       /\ UNCHANGED <<part, missionVars, swarmVars, safetyVars, flightVars, rightsVars, loginVars,
                      storeVars, scoringVars, historyVars>>
    \/ /\ part = "mission"
       /\ Mission!Next
       /\ UNCHANGED <<part, scenarioVars, swarmVars, safetyVars, flightVars, rightsVars,
                      loginVars, storeVars, scoringVars, historyVars>>
    \/ /\ part = "swarm"
       /\ Control!Next
       /\ UNCHANGED <<part, scenarioVars, missionVars, safetyVars, flightVars, rightsVars,
                      loginVars, storeVars, scoringVars, historyVars>>
    \/ /\ part = "safety"
       /\ Safety!Next
       /\ UNCHANGED <<part, scenarioVars, missionVars, swarmVars, flightVars, rightsVars,
                      loginVars, storeVars, scoringVars, historyVars>>
    \/ /\ part = "flight"
       /\ Flight!Next
       /\ UNCHANGED <<part, scenarioVars, missionVars, swarmVars, safetyVars, rightsVars,
                      loginVars, storeVars, scoringVars, historyVars>>
    \/ /\ part = "rights"
       /\ Rights!Next
       /\ UNCHANGED <<part, scenarioVars, missionVars, swarmVars, safetyVars, flightVars,
                      loginVars, storeVars, scoringVars, historyVars>>
    \/ /\ part = "login"
       /\ Guard!Next
       /\ UNCHANGED <<part, scenarioVars, missionVars, swarmVars, safetyVars, flightVars,
                      rightsVars, storeVars, scoringVars, historyVars>>
    \/ /\ part = "store"
       /\ Store!Next
       /\ UNCHANGED <<part, scenarioVars, missionVars, swarmVars, safetyVars, flightVars,
                      rightsVars, loginVars, scoringVars, historyVars>>
    \/ /\ part = "scoring"
       /\ Scoring!Next
       /\ UNCHANGED <<part, scenarioVars, missionVars, swarmVars, safetyVars, flightVars,
                      rightsVars, loginVars, storeVars, historyVars>>
    \/ /\ part = "history"
       /\ History!Next
       /\ UNCHANGED <<part, scenarioVars, missionVars, swarmVars, safetyVars, flightVars,
                      rightsVars, loginVars, storeVars, scoringVars>>

Spec == Init /\ [][Next]_vars

-----------------------------------------------------------------------------
(* A scenario whose session reports no error has stored or still carries   *)
(* every observation it counts; and while requests do not overlap, the     *)
(* row, the stop flag and the clock tell the same story.                   *)
ScenarioSound ==
    part = "scenario" => Scenario!TypeOK /\ Scenario!ObservationsKept /\ Scenario!SerialAgreement

(* What flies is the mission that was posted, an abort is final, and the   *)
(* progress shown agrees with the row.                                     *)
MissionSound ==
    part = "mission" =>
        /\ Mission!TypeOK
        /\ Mission!FlightMatchesPlan /\ Mission!AbortSticks /\ Mission!ProgressAgrees

(* A cached engine is current, members hold slots of their own, decisions  *)
(* respect the cooldown and the policy in force is the last one stored;    *)
(* formations keep vehicles apart and a healthy verdict hides no event.    *)
SwarmSound ==
    /\ part = "swarm" =>
           /\ Control!TypeOK
           /\ Control!CacheFresh /\ Control!SlotsOwn /\ Control!NeverConnected
           /\ Control!FormationApart /\ Control!HealthReflectsEvents
    /\ part = "safety" => Safety!SafetySound

(* The multi-vehicle simulation: one leader, decisions in time and no      *)
(* oftener than the cooldown, missions completed in order, and a recording *)
(* that replays what was taken.                                            *)
FlightSound == part = "flight" => Flight!TypeOK /\ Flight!SimulationSound

(* No active super admin is lost and nobody hands out more than he holds;  *)
(* logins keep to the rate and to the lock.                                *)
AccessSound ==
    /\ part = "rights" => Rights!AuthoritySound
    /\ part = "login" => Guard!LoginSound

(* The store's groups and priorities are those of a batch until an update  *)
(* cuts a group; states and flags are earned by evaluations in a row; and  *)
(* the history loses no record uncounted.                                  *)
IntelligenceSound ==
    /\ part = "store" => Store!StoreSound
    /\ part = "scoring" => Scoring!ScoringSound
    /\ part = "history" => History!HistorySound

(* The store's groups are always those of a batch over all its tracks.     *)
StoreMatchesBatch == Store!GroupsExact

=============================================================================
