-------------------------- MODULE SwarmSimulation --------------------------
(* The multi-vehicle orchestrator: simulation clock, vehicles on their way *)
(* through waypoints, swarm engine, safety decisions, the recorder and the *)
(* replay of what it recorded.                                             *)
(*                                                                         *)
(* One process-wide orchestrator serves every request and the handlers run *)
(* one after the other here; the regression scenarios take members out of  *)
(* the swarm engine and move vehicles between two ticks.                   *)
EXTENDS SwarmEngine

CONSTANTS
    Routes,       \* bound: the waypoint lists a client may assign
    Shifts,       \* bound: the places a vehicle may be moved to
    Cooldown,     \* ticks between two decisions about the same pair
    MaxSnapshots, \* snapshots the recorder keeps
    MaxTicks,     \* bound: snapshots taken
    MaxAsked   \* bound: requests beside the steps

VARIABLES
    clock,      \* [tick, running]
    craft,      \* the orchestrator's vehicles: place, target, waypoints, next waypoint
    config,     \* configuration of the swarm engine
    triggered,  \* safety engine: when each condition last led to a decision
    recording,  \* snapshots of the recorder
    index,      \* event_index: positions of the snapshots with safety events
    replay,     \* [cursor, status] of the replay engine
    taken,      \* history: snapshots taken
    epoch,      \* history: starts of the clock
    visited,    \* history: waypoints each vehicle has come to
    asked       \* history: requests

vars == <<clock, craft, config, triggered, recording, index, replay, taken, epoch, visited, asked>>

Approach(p, t) == IF p < t THEN p + 1 ELSE IF p > t THEN p - 1 ELSE p
NoReplay == [cursor |-> 0, status |-> "none"]

(* initialize_swarm: vehicles in a row, the first one leads.               *)
Fleet == SetToSeq(Vehicles)
Spread == 2
Parked(i) == [at |-> Spread * i, target |-> Spread * i, waypoints |-> <<>>, next |-> 1]
Enrolled[n \in 0..Len(Fleet)] ==
    IF n = 0 THEN NoMembers
    ELSE RegisterMember(Enrolled[n - 1], Fleet[n], IF n = 1 THEN "LEADER" ELSE "FOLLOWER")

Init ==
    /\ clock = [tick |-> 0, running |-> FALSE]
    /\ craft = [v \in Vehicles |-> Parked(CHOOSE i \in DOMAIN Fleet : Fleet[i] = v)]
    /\ config = Enrolled[Len(Fleet)]
    /\ triggered = [k \in {"critical", "warning"} \X Pairs([v \in Vehicles |-> 0]) |-> 0]
    /\ recording = <<>>
    /\ index = <<>>
    /\ replay = NoReplay
    /\ taken = 0
    /\ epoch = 0
    /\ visited = [v \in Vehicles |-> {}]
    /\ asked = 0

-----------------------------------------------------------------------------
(* Requests and scenario interventions between ticks.                      *)

Asked == asked < MaxAsked /\ asked' = asked + 1

(* start sets the time back to zero, and nothing else.                     *)
Start ==
    /\ Asked
    /\ clock' = [tick |-> 0, running |-> TRUE]
    /\ epoch' = epoch + 1
    /\ UNCHANGED <<craft, config, triggered, recording, index, replay, taken, visited>>

Pause ==
    /\ Asked
    /\ clock' = [clock EXCEPT !.running = FALSE]
    /\ UNCHANGED <<craft, config, triggered, recording, index, replay, taken, epoch, visited>>

Assign(v, route) ==
    /\ Asked
    /\ craft' = [craft EXCEPT ![v].waypoints = route, ![v].next = 1,
                              ![v].target = IF route = <<>> THEN @ ELSE route[1]]
    /\ visited' = [visited EXCEPT ![v] = {}]
    /\ UNCHANGED <<clock, config, triggered, recording, index, replay, taken, epoch>>

Shift(v, place) ==
    /\ Asked
    /\ craft' = [craft EXCEPT ![v].at = place]
    /\ UNCHANGED <<clock, config, triggered, recording, index, replay, taken, epoch, visited>>

(* Loss of a vehicle to the swarm engine; the orchestrator goes on flying it. *)
Lose(v) ==
    /\ Asked
    /\ v \in Ids(config)
    /\ config' = RemoveMember(config, v)
    /\ UNCHANGED <<clock, craft, triggered, recording, index, replay, taken, epoch, visited>>

Lead(v) ==
    /\ Asked
    /\ config' = SetLeader(config, v)
    /\ UNCHANGED <<clock, craft, triggered, recording, index, replay, taken, epoch, visited>>

-----------------------------------------------------------------------------
(* One tick, in the order of the pipeline.                                 *)

Ticked == IF clock.running THEN [clock EXCEPT !.tick = @ + 1] ELSE clock

Arrived(c, place) == c.waypoints # <<>> /\ place = c.target
HasNext(c) == c.next < Len(c.waypoints)

Flown(c) ==
    LET place == Approach(c.at, c.target)
        turns == Arrived(c, place) /\ HasNext(c)
        next == IF turns THEN c.next + 1 ELSE c.next
    IN [c EXCEPT !.at = place, !.next = next,
                 !.target = IF turns THEN c.waypoints[next] ELSE @]

(* A mission counts as completed once its last waypoint is the target.     *)
Completed(c) == c.waypoints # <<>> /\ c.next >= Len(c.waypoints)

(* Every vehicle reports in every tick, so telemetry is never stale.  The  *)
(* vehicles keep to a row across the heading, and a slot of the V that is  *)
(* behind the leader is missed by far: nothing flies to its slot.          *)
States(flown, cfg) ==
    [v \in Ids(cfg) |->
        LET i == PlaceOf(cfg, v)
        IN [role |-> cfg.members[i].role, slot |-> cfg.members[i].slot,
            at |-> flown[v].at, stale |-> FALSE,
            deviates |-> MissionOffsets(cfg, "V_FORMATION")[v].x # 0]]

(* Mutant: a condition may be decided again one tick early. *)
TriggersEarly(key, now) == now - triggered[key] >= Cooldown - 1

CanTrigger(key, now) == now - triggered[key] >= Cooldown

Decided(level, pair, now) == level # "none" /\ CanTrigger(<<level, pair>>, now)

Snapshot(now, running, flown, cfg, decided) ==
    LET states == States(flown, cfg)
    IN [tick |-> now, running |-> running,
        health |-> Health(cfg.leader, states),
        alarmed |-> SafetyEvents(cfg.leader, states) # {},
        level |-> SeparationLevel([v \in Vehicles |-> flown[v].at]),
        decided |-> decided,
        completed |-> {v \in Vehicles : Completed(flown[v])},
        number |-> taken + 1, epoch |-> epoch]

(* Mutant: the oldest snapshot is dropped one too late. *)
KeptLate == IF Len(recording) > MaxSnapshots THEN Tail(recording) ELSE recording

(* record_snapshot drops the oldest snapshot at the limit and leaves the   *)
(* positions of the index as they are.                                     *)
Kept == IF Len(recording) >= MaxSnapshots THEN Tail(recording) ELSE recording

Record(snapshot) ==
    /\ recording' = Append(Kept, snapshot)
    /\ index' = IF snapshot.alarmed THEN Append(index, Len(Kept)) ELSE index

Tick ==
    /\ taken < MaxTicks
    /\ LET now == Ticked.tick
           flown == [v \in Vehicles |-> Flown(craft[v])]
           place == [v \in Vehicles |-> flown[v].at]
           level == SeparationLevel(place)
           pair == ClosestPair(place)
           decided == Decided(level, pair, now)
       IN /\ clock' = Ticked
          /\ craft' = flown
          /\ visited' = [v \in Vehicles |->
                IF Arrived(craft[v], place[v]) THEN visited[v] \cup {craft[v].next} ELSE visited[v]]
          /\ triggered' = IF decided THEN [triggered EXCEPT ![<<level, pair>>] = now] ELSE triggered
          /\ Record(Snapshot(now, clock.running, flown, config, decided))
    /\ taken' = taken + 1
    /\ UNCHANGED <<config, replay, epoch, asked>>

-----------------------------------------------------------------------------
(* The replay engine reads the recorder of the orchestrator while it still *)
(* records.  The cursor counts from 0.                                     *)

Load ==
    /\ Asked
    /\ replay' = [cursor |-> 0, status |-> "PAUSED"]
    /\ UNCHANGED <<clock, craft, config, triggered, recording, index, taken, epoch, visited>>

Play ==
    /\ Asked
    /\ replay.status # "none"
    /\ recording # <<>>
    /\ replay' = [replay EXCEPT !.status = "PLAYING"]
    /\ UNCHANGED <<clock, craft, config, triggered, recording, index, taken, epoch, visited>>

(* seek_tick goes to the first snapshot of a tick and stays without one.   *)
FirstOf(tick) ==
    CHOOSE i \in DOMAIN recording :
        /\ recording[i].tick = tick
        /\ \A j \in 1..(i - 1) : recording[j].tick # tick

SeekTick(tick) ==
    /\ Asked
    /\ replay.status # "none"
    /\ replay' = IF \E i \in DOMAIN recording : recording[i].tick = tick
                 THEN [replay EXCEPT !.cursor = FirstOf(tick) - 1]
                 ELSE replay
    /\ UNCHANGED <<clock, craft, config, triggered, recording, index, taken, epoch, visited>>

StepReplay(delta) ==
    /\ Asked
    /\ replay.status # "none"
    /\ recording # <<>>
    /\ LET moved == replay.cursor + delta
           last == Len(recording) - 1
       IN replay' = [replay EXCEPT !.cursor = IF moved < 0 THEN 0 ELSE IF moved > last THEN last ELSE moved]
    /\ UNCHANGED <<clock, craft, config, triggered, recording, index, taken, epoch, visited>>

(* jump_to_next_safety_event takes the first position past the cursor, in  *)
(* the order the events were recorded.                                     *)
JumpNext ==
    /\ Asked
    /\ replay.status # "none"
    /\ \E k \in DOMAIN index :
          /\ index[k] > replay.cursor
          /\ \A j \in 1..(k - 1) : index[j] <= replay.cursor
          /\ replay' = [replay EXCEPT !.cursor = index[k]]
    /\ UNCHANGED <<clock, craft, config, triggered, recording, index, taken, epoch, visited>>

JumpPrevious ==
    /\ Asked
    /\ replay.status # "none"
    /\ \E k \in DOMAIN index :
          /\ index[k] < replay.cursor
          /\ \A j \in (k + 1)..Len(index) : index[j] >= replay.cursor
          /\ replay' = [replay EXCEPT !.cursor = index[k]]
    /\ UNCHANGED <<clock, craft, config, triggered, recording, index, taken, epoch, visited>>

Next ==
    \/ Start \/ Pause \/ Tick \/ Load \/ Play \/ JumpNext \/ JumpPrevious
    \/ \E v \in Vehicles, route \in Routes : Assign(v, route)
    \/ \E v \in Vehicles, place \in Shifts : Shift(v, place)
    \/ \E v \in Vehicles : Lose(v) \/ Lead(v)
    \/ \E tick \in 0..MaxTicks : SeekTick(tick)
    \/ \E delta \in {-1, 1} : StepReplay(delta)

Spec == Init /\ [][Next]_vars

-----------------------------------------------------------------------------
TypeOK ==
    /\ clock \in [tick : 0..MaxTicks, running : BOOLEAN]
    /\ config.leader \in Vehicles \cup {NoVehicle}
    /\ Len(recording) <= MaxSnapshots
    /\ \A k \in DOMAIN index : index[k] \in 0..(MaxSnapshots - 1)
    /\ replay.cursor \in 0..(MaxSnapshots - 1)
    /\ replay.status \in {"none", "PAUSED", "PLAYING"}

Dropped == taken - Len(recording)

(* The engine's configuration: the leader's id names a member with the     *)
(* leader's role, nobody else has it, and members hold the slots 0..n-1 in *)
(* their order, whatever was lost and whoever was made leader before.      *)
OneLeader ==
    /\ \A i \in DOMAIN config.members : config.members[i].slot = i - 1
    /\ {config.members[i].id : i \in {i \in DOMAIN config.members :
            config.members[i].role = "LEADER"}} = {config.leader} \ {NoVehicle}
    /\ config.leader = NoVehicle <=> config.members = <<>>

(* Two decisions at one level are a cooldown of simulated time apart, or   *)
(* the clock was started anew in between, or they are about two pairs.     *)
CooldownKept ==
    Cardinality(Vehicles) = 2 =>
        \A i, j \in DOMAIN recording :
            (/\ i < j
             /\ recording[i].decided /\ recording[j].decided
             /\ recording[i].level = recording[j].level
             /\ recording[i].epoch = recording[j].epoch) =>
                recording[j].tick - recording[i].tick >= Cooldown

(* Before the clock is started a second time, vehicles that come too close *)
(* and stay so at one level for a cooldown of ticks lead to a decision.    *)
CloseCallDecided ==
    \A i, j \in DOMAIN recording :
        (/\ i < j
         /\ recording[j].epoch <= 1
         /\ recording[j].tick - recording[i].tick >= Cooldown
         /\ \A k \in i..j : recording[k].level = recording[j].level
         /\ recording[j].level # "none") =>
            \E k \in i..j : recording[k].decided

(* A mission is reported as completed only after the vehicle came to every *)
(* waypoint before the last.                                               *)
CompletedAfterWaypoints ==
    \A v \in Vehicles :
        (recording # <<>> /\ Completed(craft[v])) =>
            1..(Len(craft[v].waypoints) - 1) \subseteq visited[v]

(* While nothing has been dropped, the event index points at snapshots     *)
(* with safety events, at all of them and in order.                        *)
IndexExact ==
    Dropped = 0 =>
        /\ {index[k] + 1 : k \in DOMAIN index} = {i \in DOMAIN recording : recording[i].alarmed}
        /\ \A j, k \in DOMAIN index : j < k => index[j] < index[k]

(* A recording is in the order it was taken, and time goes back only where *)
(* the clock was started anew.                                             *)
TimeOrdered ==
    \A i \in 1..(Len(recording) - 1) :
        LET a == recording[i]
            b == recording[i + 1]
        IN /\ b.number = a.number + 1
           /\ a.epoch = b.epoch => b.tick = a.tick + (IF b.running THEN 1 ELSE 0)

(* The replay cursor stays on a snapshot of the recording, also while the  *)
(* recorder drops snapshots behind it.                                     *)
CursorInRange == recording # <<>> => replay.cursor < Len(recording)

(* A swarm mission compiled from the engine's configuration gives each     *)
(* member a place of its own, but for the grid.                            *)
MissionsApart ==
    \A kind \in Formations \ {"GRID"} :
        LET place == MissionOffsets(config, kind)
        IN \A v, w \in DOMAIN place : v # w => place[v] # place[w]

SimulationSound ==
    /\ OneLeader /\ MissionsApart /\ CooldownKept /\ CloseCallDecided /\ CompletedAfterWaypoints
    /\ IndexExact /\ TimeOrdered /\ CursorInRange

=============================================================================
