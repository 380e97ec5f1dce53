-------------------------- MODULE SensorPipeline --------------------------
(***************************************************************************)
(* From a sensor report to a track: ingestion, candidate selection with    *)
(* gating and scoring, fusion, track history and lifecycle, threat         *)
(* assessment, geofences and alerts (ingestion/, tracking/, fusion/,       *)
(* threats/, geofencing/, alerts/).                                        *)
(*                                                                         *)
(* A worker is a request that processes one detection: it reads the track, *)
(* later reads what the update derives from, then flushes and commits.     *)
(* The database is READ COMMITTED.  Two workers meet only at the row lock  *)
(* of the UPDATE and at the unique (track_id, sequence) and detection_id.  *)
(* An UPDATE writes the columns that differ from what the session loaded.  *)
(*                                                                         *)
(* Abstractions: a position is a cell of a line, fusion goes half way, and *)
(* detections carry no altitude, velocity, heading (all optional); whether *)
(* a report leaves a poor track quality is a property of the report; of a  *)
(* threat assessment only the breached geofence is kept.                   *)
(***************************************************************************)
EXTENDS Integers, Sequences, FiniteSets

CONSTANTS
  Detection,   \* detection ids; the id of a track derives from its first one
  Sensor,
  Disabled,    \* sensors whose status is DISABLED
  SensorOf, Stamp, Place,  \* [Detection -> sensor, timestamp, cell]
  Poor,        \* detections that leave a confirmed track with quality < 0.30
  Fence,       \* cells inside the geofence
  Worker,      \* requests that process detections
  None,
  Confirm, Window,         \* confirmation_count, confirmation_window_seconds
  Coast, Lose, Retire,     \* coast, lost and archive timeouts
  MaxDelta, MaxDistance,   \* time and distance gates
  MaxTime      \* bound: the wall clock

ASSUME PipelineAssumption ==
  /\ Disabled \subseteq Sensor
  /\ SensorOf \in [Detection -> Sensor]
  /\ Stamp \in [Detection -> 0 .. MaxTime]
  /\ Place \in [Detection -> Nat]
  /\ Poor \subseteq Detection
  /\ None \notin Detection
  /\ None \notin {"NEW", "ACTIVE", "STALE", "LOST", "ARCHIVED", "OPEN", "RESOLVED"}
  /\ {Confirm, Window, Coast, Lose, Retire, MaxTime} \subseteq Nat
  /\ {MaxDelta, MaxDistance} \subseteq Nat \ {0}

VARIABLES
  now,         \* wall clock
  fenceOn,     \* the geofence row is enabled
  assoc,       \* rows of track_associations: the track of a detection
  track,       \* rows of tracks
  history,     \* [Track -> states of its track_history rows, by sequence]
  threats,     \* [Track -> assessment: None, or whether it names a breach]
  alerts,      \* rows of alerts, as (track, type) with their status
  job,         \* local variables of each worker
  sweep,       \* plan of the lifecycle service's current run
  stale        \* tracks written from an outdated row, or without a history entry

vars == <<now, fenceOn, assoc, track, history,
          threats, alerts, job, sweep, stale>>
config == <<now, fenceOn>>
tables == <<assoc, track, history, threats, alerts, stale>>

-----------------------------------------------------------------------------
Track == Detection
State == {"NEW", "ACTIVE", "STALE", "LOST", "ARCHIVED"}
AlertType == {"TRACK_DETECTED", "TRACK_LOST", "GEOFENCE_BREACH", "DATA_QUALITY_LOW"}

TrackRow == [state : State \cup {None}, first : 0 .. MaxTime, last : 0 .. MaxTime,
             place : Nat, sources : Nat]
NoTrack == [state |-> None, first |-> 0, last |-> 0, place |-> 0, sources |-> 0]
Job == [step : {"idle", "begin", "prepare", "create", "flush", "limbo"},
        det : Detection \cup {None}, target : Track \cup {None},
        old : TrackRow, new : TrackRow, seq : Nat]
NoJob == [step |-> "idle", det |-> None, target |-> None,
          old |-> NoTrack, new |-> NoTrack, seq |-> 0]
Plan == [to : State \cup {None}, seq : Nat]
NoPlan == [t \in Track |-> [to |-> None, seq |-> 0]]

Exists(t) == track[t].state # None
AssocOf(t) == {d \in Detection : assoc[d] = t}
SensorsOf(t) == {SensorOf[d] : d \in AssocOf(t)}
Length(t) == Len(history[t])
Locked(t) == \E w \in Worker : job[w].step = "limbo" /\ job[w].target = t

TypeOK ==
  /\ now \in 0 .. MaxTime
  /\ fenceOn \in BOOLEAN
  /\ assoc \in [Detection -> Track \cup {None}]
  /\ track \in [Track -> TrackRow]
  /\ history \in [Track -> Seq(State)]
  /\ threats \in [Track -> BOOLEAN \cup {None}]
  /\ alerts \in [Track \X AlertType -> {None, "OPEN", "RESOLVED"}]
  /\ job \in [Worker -> Job]
  /\ sweep \in [Track -> Plan]
  /\ stale \subseteq Track

Init ==
  /\ now = 0
  /\ fenceOn = TRUE
  /\ assoc = [d \in Detection |-> None]
  /\ track = [t \in Track |-> NoTrack]
  /\ history = [t \in Track |-> <<>>]
  /\ threats = [t \in Track |-> None]
  /\ alerts = [a \in Track \X AlertType |-> None]
  /\ job = [w \in Worker |-> NoJob]
  /\ sweep = NoPlan
  /\ stale = {}

-----------------------------------------------------------------------------
(* The clock, and what operators configure meanwhile.                      *)

Tick ==
  /\ now < MaxTime
  /\ now' = now + 1
  /\ UNCHANGED <<fenceOn, tables, job, sweep>>

ChangeGeofence ==
  /\ fenceOn' = ~fenceOn
  /\ UNCHANGED <<now, tables, job, sweep>>

-----------------------------------------------------------------------------
(* DetectionIngestionService.ingest: one row for each (sensor, source id); *)
(* a report ingested before yields the row there is.                       *)

(* The normalizer refuses a report from the future.                        *)
Acceptable(d) == SensorOf[d] \notin Disabled /\ Stamp[d] <= now

(* A simulation step also processes what it ingests, duplicates included.  *)
IngestAndProcess(w, d) ==
  /\ job[w].step = "idle"
  /\ Acceptable(d)
  /\ job' = [job EXCEPT ![w] = [NoJob EXCEPT !.step = "begin", !.det = d]]
  /\ UNCHANGED <<config, tables, sweep>>

-----------------------------------------------------------------------------
(* Candidates, gating, scoring.                                            *)

Distance(a, b) == IF a >= b THEN a - b ELSE b - a

Candidates(d) == {t \in Track : track[t].state \in {"NEW", "ACTIVE", "STALE"}}

(* Twice the spatial multiplier: the gate of a STALE track is 1.5 as wide. *)
Multiplier(t) == IF track[t].state = "STALE" THEN 3 ELSE 2

Gate(d, t) ==
  /\ Distance(Stamp[d], track[t].last) <= MaxDelta
  /\ 2 * Distance(Place[d], track[t].place) <= Multiplier(t) * MaxDistance

(* The weights 0.50 (space) and 0.20 (time), renormalised over the fields  *)
(* that are present, on the common denominator 6 * MaxDistance * MaxDelta. *)
Score(d, t) ==
  LET near == 6 * MaxDistance - (12 \div Multiplier(t)) * Distance(Place[d], track[t].place)
      soon == MaxDelta - Distance(Stamp[d], track[t].last)
  IN  50 * near * MaxDelta + 20 * soon * 6 * MaxDistance

Qualifying(d) ==
  {t \in Candidates(d) : Gate(d, t) /\ 10 * Score(d, t) >= 6 * 70 * 6 * MaxDistance * MaxDelta}

(* Ties go to the nearer track, then the sooner, then the older one.       *)
Better(d, t, u) ==
  LET rank(v) == <<0 - Score(d, v), Distance(Place[d], track[v].place),
                   Distance(Stamp[d], track[v].last), track[v].first>>
  IN  \E i \in 1 .. 4 : /\ rank(t)[i] < rank(u)[i]
                        /\ \A j \in 1 .. i - 1 : rank(t)[j] = rank(u)[j]

Winners(d) == {t \in Qualifying(d) : \A u \in Qualifying(d) : ~Better(d, u, t)}

-----------------------------------------------------------------------------
(* process_detection.                                                      *)

(* The idempotency check and the candidates; the winner's row stays in the *)
(* session.                                                                *)
Duplicate(w) ==
  /\ job[w].step = "begin"
  /\ assoc[job[w].det] # None
  /\ job' = [job EXCEPT ![w] = NoJob]
  /\ UNCHANGED <<config, tables, sweep>>

Choose(w, t) ==
  /\ job[w].step = "begin"
  /\ assoc[job[w].det] = None
  /\ t \in Winners(job[w].det)
  /\ job' = [job EXCEPT ![w].step = "prepare", ![w].target = t, ![w].old = track[t]]
  /\ UNCHANGED <<config, tables, sweep>>

ChooseNew(w) ==
  /\ job[w].step = "begin"
  /\ assoc[job[w].det] = None
  /\ Qualifying(job[w].det) = {}
  /\ LET d == job[w].det IN
     job' = [job EXCEPT ![w].step = "create", ![w].target = d,
               ![w].new = [state |-> "NEW", first |-> Stamp[d], last |-> Stamp[d],
                           place |-> Place[d], sources |-> 1]]
  /\ UNCHANGED <<config, tables, sweep>>

(* fuse_kinematics, applied only by a detection that is not older.         *)
FuseApart(d, row) ==
  [row EXCEPT !.place = (row.place - 2 * Place[d]) \div 2, !.last = Stamp[d]]

Fuse(d, row) ==
  IF Stamp[d] >= row.last
  THEN [row EXCEPT !.place = (row.place + Place[d]) \div 2, !.last = Stamp[d]]
  ELSE row

Confirmed(d, row, t) ==
  /\ row.state = "NEW"
  /\ Stamp[d] <= row.first + Window
  /\ Cardinality({e \in AssocOf(t) : Stamp[e] \in row.first .. row.first + Window}) + 1 >= Confirm

NextState(d, row, t) ==
  IF Confirmed(d, row, t) \/ row.state = "STALE" THEN "ACTIVE" ELSE row.state

SourcesAlways(d, row, t) == row.sources + 1
Sources(d, row, t) == IF SensorOf[d] \in SensorsOf(t) THEN row.sources ELSE row.sources + 1

(* The queries of _associate_to_track, on the associations and the history *)
(* there are now; what they change is the row loaded by Choose.            *)
Prepare(w) ==
  LET d == job[w].det
      t == job[w].target
      row == job[w].old
  IN
  /\ job[w].step = "prepare"
  /\ job' = [job EXCEPT ![w].step = "flush",
                        ![w].new = [Fuse(d, row) EXCEPT !.state = NextState(d, row, t),
                                                        !.sources = Sources(d, row, t)],
                        ![w].seq = Length(t) + 1]
  /\ UNCHANGED <<config, tables, sweep>>

-----------------------------------------------------------------------------
(* Alerts: a type that is open for the track is not raised again.          *)

Breaches(row) == fenceOn /\ row.place \in Fence

(* evaluate_track upserts the one assessment of the track.                 *)
Assess(row) == Breaches(row)

(* compute_track_quality below 0.30.                                       *)
PoorQuality(d) == d \in Poor

AlertsOfLater(before, row, d) ==
  IF Breaches(row) THEN {"GEOFENCE_BREACH"} ELSE {}

DetectionAlerts(before, row, d) ==
  {y \in AlertType :
     \/ y = "TRACK_DETECTED" /\ before = "NEW" /\ row.state = "ACTIVE"
     \/ y = "GEOFENCE_BREACH" /\ Breaches(row) /\ row.state \notin {"LOST", "ARCHIVED"}
     \/ y = "DATA_QUALITY_LOW" /\ row.state = "ACTIVE" /\ PoorQuality(d)}

Raised(t, types) == {a \in {t} \X types : alerts[a] # "OPEN"}
Resolved(a) == IF alerts[a] = "OPEN" THEN "RESOLVED" ELSE alerts[a]
Open(raised) == [a \in Track \X AlertType |-> IF a \in raised THEN "OPEN" ELSE alerts[a]]

-----------------------------------------------------------------------------
(* The unique detection_id of track_associations.                          *)
NeverTaken(d) == TRUE
Unassociated(d) == assoc[d] = None

(* The end of process_detection.  The session flushes the UPDATE of the    *)
(* track before it opens the savepoint of the two inserts.                 *)

Merge(w, row) ==
  LET old == job[w].old  new == job[w].new
  IN  [f \in DOMAIN row |-> IF new[f] # old[f] THEN new[f] ELSE row[f]]

Fresh(w) == job[w].old = track[job[w].target]

(* Threat assessment and alerts belong to the same transaction.            *)
Record(w, t, row, raised) ==
  /\ assoc' = [assoc EXCEPT ![job[w].det] = t]
  /\ track' = [track EXCEPT ![t] = row]
  /\ history' = [history EXCEPT ![t] = Append(@, job[w].new.state)]
  /\ threats' = [threats EXCEPT ![t] = Assess(job[w].new)]
  /\ alerts' = Open(raised)

(* _associate_to_track.                                                    *)
Associate(w) ==
  LET d == job[w].det
      t == job[w].target
  IN
  /\ job[w].step = "flush"
  /\ ~Locked(t)
  /\ Unassociated(d)
  /\ job[w].seq = Length(t) + 1
  /\ Record(w, t, Merge(w, track[t]), Raised(t, DetectionAlerts(job[w].old.state, job[w].new, d)))
  /\ stale' = IF Fresh(w) THEN stale ELSE stale \cup {t}
  /\ job' = [job EXCEPT ![w] = NoJob]
  /\ UNCHANGED <<config, sweep>>

(* Another request took the sequence number: rollback, and the step fails. *)
LoseSequence(w) ==
  /\ job[w].step = "flush"
  /\ ~Locked(job[w].target)
  /\ Unassociated(job[w].det)
  /\ job[w].seq # Length(job[w].target) + 1
  /\ job' = [job EXCEPT ![w] = NoJob]
  /\ UNCHANGED <<config, tables, sweep>>

(* Another request associated the detection: the savepoint is undone and   *)
(* DUPLICATE returned, but the UPDATE flushed before stays in the          *)
(* transaction, with its row lock ...                                      *)
LoseDetection(w) ==
  /\ job[w].step = "flush"
  /\ ~Locked(job[w].target)
  /\ ~Unassociated(job[w].det)
  /\ job' = [job EXCEPT ![w].step = "limbo"]
  /\ UNCHANGED <<config, tables, sweep>>

(* ... until the next commit of the session, for another detection, writes *)
(* it, or the session is closed.                                           *)
LeaveLimbo(w) ==
  LET t == job[w].target IN
  /\ job[w].step = "limbo"
  /\ \/ /\ track' = [track EXCEPT ![t] = Merge(w, track[t])]
        /\ stale' = IF Merge(w, track[t]) = track[t] THEN stale ELSE stale \cup {t}
     \/ UNCHANGED <<track, stale>>
  /\ job' = [job EXCEPT ![w] = NoJob]
  /\ UNCHANGED <<config, assoc, history, threats, alerts, sweep>>

(* _create_new_track; the id derives from the detection, so a second       *)
(* creation conflicts with the first and is a DUPLICATE.                   *)
CreateTrack(w) ==
  LET d == job[w].det IN
  /\ job[w].step = "create"
  /\ IF Unassociated(d)
     THEN Record(w, d, job[w].new, Raised(d, DetectionAlerts(None, job[w].new, d)))
     ELSE UNCHANGED <<assoc, track, history, threats, alerts>>
  /\ job' = [job EXCEPT ![w] = NoJob]
  /\ UNCHANGED <<config, sweep, stale>>

(* A failing statement or commit: everything the request wrote is undone.  *)
Fail(w) ==
  /\ job[w].step \in {"prepare", "create", "flush"}
  /\ job' = [job EXCEPT ![w] = NoJob]
  /\ UNCHANGED <<config, tables, sweep>>

-----------------------------------------------------------------------------
(* TrackLifecycleService.advance: each track moves at most one state; all  *)
(* moves are one transaction.                                              *)

Due(t, to) ==
  CASE to = "STALE"    -> track[t].state = "ACTIVE" /\ now > track[t].last + Coast
    [] to = "LOST"     -> track[t].state = "STALE" /\ now > track[t].last + Lose
    [] to = "ARCHIVED" -> track[t].state = "LOST" /\ now > track[t].last + Retire
    [] OTHER           -> FALSE

BeginAdvance ==
  LET to(t) == IF \E s \in State : Due(t, s) THEN CHOOSE s \in State : Due(t, s) ELSE None
  IN
  /\ sweep = NoPlan
  /\ sweep' = [t \in Track |-> IF to(t) = None THEN NoPlan[t]
                               ELSE [to |-> to(t), seq |-> Length(t) + 1]]
  /\ sweep' # NoPlan
  /\ UNCHANGED <<config, assoc, track, history, threats, alerts, stale, job>>

Moved == {t \in Track : sweep[t].to # None}
MovedTo(s) == {t \in Track : sweep[t].to = s}

(* The rows of a move: STALE evaluates the threat again (but raises no     *)
(* alert), LOST raises, ARCHIVED resolves every alert of the track.        *)
Transition ==
  /\ track' = [t \in Track |-> IF t \in Moved THEN [track[t] EXCEPT !.state = sweep[t].to]
                               ELSE track[t]]
  /\ history' = [t \in Track |-> IF t \in Moved THEN Append(history[t], sweep[t].to)
                                 ELSE history[t]]
  /\ threats' = [t \in Track |-> IF t \in MovedTo("STALE") THEN Assess(track[t])
                                 ELSE threats[t]]
  /\ alerts' = [a \in Track \X AlertType |->
       CASE a[1] \in MovedTo("LOST") /\ a[2] = "TRACK_LOST" -> "OPEN"
         [] a[1] \in MovedTo("ARCHIVED") -> Resolved(a)
         [] OTHER -> alerts[a]]

CommitAdvance ==
  /\ sweep # NoPlan
  /\ \A t \in Moved : ~Locked(t)
  /\ \/ /\ \A t \in Moved : sweep[t].seq = Length(t) + 1
        /\ Transition
     \/ UNCHANGED <<track, history, threats, alerts>>
  /\ sweep' = NoPlan
  /\ UNCHANGED <<config, assoc, stale, job>>

-----------------------------------------------------------------------------
Process(w) ==
  \/ Duplicate(w) \/ ChooseNew(w) \/ \E t \in Track : Choose(w, t)
  \/ Prepare(w) \/ Associate(w) \/ LoseSequence(w) \/ LoseDetection(w)
  \/ LeaveLimbo(w) \/ CreateTrack(w) \/ Fail(w)

Next ==
  \/ Tick
  \/ ChangeGeofence
  \/ \E d \in Detection, w \in Worker : IngestAndProcess(w, d)
  \/ \E w \in Worker : Process(w)
  \/ BeginAdvance
  \/ CommitAdvance

Spec == Init /\ [][Next]_vars

-----------------------------------------------------------------------------
(* Properties.                                                             *)

(* The history of a track is complete: one NEW or ACTIVE entry for each    *)
(* associated detection, whichever requests were rolled back, lost their   *)
(* sequence number or returned DUPLICATE (tracking/service.py:388-432).    *)
HistoryComplete ==
  \A t \in Track :
    Cardinality({i \in 1 .. Length(t) : history[t][i] \in {"NEW", "ACTIVE"}})
      = Cardinality(AssocOf(t))

(* The row of a track agrees with its history and its associations, unless *)
(* it was written from an outdated row or by an UPDATE whose savepoint was *)
(* undone (tracking/service.py:332-352, 388-432).                          *)
RowMatchesHistory ==
  \A t \in Track : Exists(t) /\ t \notin stale =>
    /\ track[t].state = history[t][Length(t)]
    /\ track[t].sources = Cardinality(SensorsOf(t))

(* Alerts keep up with every track that was not written so: a confirmation *)
(* was alerted, a lost track has its alert open, an archived one has none  *)
(* open, and a breach in the assessment of a live track is an open alert   *)
(* (tracking/service.py:446-470, tracking/lifecycle.py:107-116).           *)
AlertsFollowTrack ==
  \A t \in Track \ stale :
    /\ (\E i \in 1 .. Length(t) : history[t][i] = "ACTIVE")
         => alerts[<<t, "TRACK_DETECTED">>] # None
    /\ track[t].state = "LOST" => alerts[<<t, "TRACK_LOST">>] = "OPEN"
    /\ track[t].state = "ARCHIVED" => \A y \in AlertType : alerts[<<t, y>>] # "OPEN"
    /\ threats[t] = TRUE /\ track[t].state \in {"NEW", "ACTIVE"}
         => alerts[<<t, "GEOFENCE_BREACH">>] = "OPEN"

(* A lost or archived track comes back only through a request that had     *)
(* read it before it was lost, and a detection never changes its track     *)
(* (tracking/service.py:46-58, 385).                                       *)
NoRevival == [][
  /\ \A t \in Track : track[t].state \in {"LOST", "ARCHIVED"}
                        /\ track'[t].state \notin {"LOST", "ARCHIVED"} => t \in stale'
  /\ \A d \in Detection : assoc[d] # None => assoc'[d] = assoc[d]]_vars

=============================================================================
