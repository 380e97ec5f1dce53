----------------------- MODULE SensorPipeline_proofs ------------------------
(***************************************************************************)
(* Theorems of SensorPipeline for any detections, sensors, geofence, gates *)
(* and timeouts and any number of concurrent requests.                     *)
(***************************************************************************)
EXTENDS SensorPipeline, FiniteSetTheorems, SequenceTheorems, TLAPS

Live == {"NEW", "ACTIVE", "STALE"}
Updating == {"prepare", "flush", "limbo"}

(* A track exists from the association of its first detection on.          *)
Founded(t) == assoc[t] = t

TracksFounded ==
  /\ \A d \in Detection : assoc[d] # None => Founded(assoc[d])
  /\ \A t \in Track : Exists(t) => Founded(t)

(* What a request carries.  It updates a track that was live when it read  *)
(* it.  Its number is that of the next place as long as nothing has been   *)
(* associated with the track since, and then its count of sources is right.*)
JobOK(w) ==
  LET j == job[w] IN
  /\ j.step # "idle" => j.det \in Detection
  /\ j.step \in Updating => j.target \in Track /\ Exists(j.target) /\ j.old.state \in Live
  /\ j.step \in {"flush", "limbo"} => j.new.state \in {"NEW", "ACTIVE"}
  /\ j.step = "create" => j.new.state = "NEW" /\ j.new.sources = 1
  /\ j.step = "flush" =>
       /\ j.seq <= Length(j.target) + 1
       /\ j.seq = Length(j.target) + 1 => j.new.sources = Sources(j.det, j.old, j.target)

(* What the lifecycle service plans holds until the history moves on or    *)
(* the row is overwritten.                                                 *)
From(to) ==
  CASE to = "STALE" -> "ACTIVE" [] to = "LOST" -> "STALE" [] OTHER -> "LOST"

PlanOK(t) ==
  sweep[t].to # None =>
    /\ sweep[t].to \in {"STALE", "LOST", "ARCHIVED"}
    /\ Exists(t)
    /\ sweep[t].seq <= Length(t) + 1
    /\ sweep[t].seq = Length(t) + 1 /\ t \notin stale => track[t].state = From(sweep[t].to)

WorkInv ==
  /\ TypeOK
  /\ TracksFounded
  /\ \A w \in Worker : JobOK(w)
  /\ \A t \in Track : PlanOK(t)

FiniteInv == \A t \in Track : IsFiniteSet(AssocOf(t)) /\ IsFiniteSet(SensorsOf(t))

(* Only a track that was confirmed gets past NEW.                          *)
WasActive(t) == \E i \in 1 .. Length(t) : history[t][i] = "ACTIVE"
ConfirmedFirst ==
  \A t \in Track \ stale : track[t].state \in State \ {"NEW"} => WasActive(t)

-----------------------------------------------------------------------------
(* Rows.                                                                   *)

Fields == {"state", "first", "last", "place", "sources"}

LEMMA Constants ==
  /\ MaxTime \in Nat /\ Stamp \in [Detection -> 0 .. MaxTime]
  /\ Place \in [Detection -> Nat] /\ SensorOf \in [Detection -> Sensor]
  /\ None \notin Detection /\ None \notin State
  /\ None # "OPEN" /\ None # "RESOLVED"
BY PipelineAssumption DEF State

LEMMA NoneTyped == NoTrack \in TrackRow /\ NoJob \in Job /\ NoPlan \in [Track -> Plan]
<1>1. NoTrack \in TrackRow
  BY Constants DEF NoTrack, TrackRow
<1>2. NoJob \in Job
  BY <1>1 DEF NoJob, Job
<1>3. NoPlan \in [Track -> Plan]
  BY DEF NoPlan, Plan
<1> QED
  BY <1>1, <1>2, <1>3

(* Merge takes each column from what the request wrote, or as it is.       *)
LEMMA MergeRow ==
  ASSUME NEW w \in Worker, job[w] \in Job, NEW row \in TrackRow
  PROVE  /\ Merge(w, row) \in TrackRow
         /\ Merge(w, row).state \in {job[w].new.state, row.state}
         /\ job[w].old = row => Merge(w, row) = job[w].new
<1> DEFINE old == job[w].old
           new == job[w].new
           m == Merge(w, row)
<1>1. old \in TrackRow /\ new \in TrackRow
  BY DEF Job
<1>2. DOMAIN row = Fields /\ DOMAIN new = Fields
  BY <1>1 DEF TrackRow, Fields
<1>3. m = [f \in Fields |-> IF new[f] # old[f] THEN new[f] ELSE row[f]]
  BY <1>2 DEF Merge
<1>4. /\ m.state \in {new.state, row.state} /\ m.first \in {new.first, row.first}
      /\ m.last \in {new.last, row.last} /\ m.place \in {new.place, row.place}
      /\ m.sources \in {new.sources, row.sources}
  BY <1>3 DEF Fields
<1>5. m = [state |-> m.state, first |-> m.first, last |-> m.last, place |-> m.place, sources |-> m.sources]
  BY <1>3 DEF Fields
<1>6. m \in TrackRow
  <2>1. /\ m.state \in State \union {None} /\ m.first \in 0 .. MaxTime /\ m.last \in 0 .. MaxTime
        /\ m.place \in Nat /\ m.sources \in Nat
    BY <1>1, <1>4 DEF TrackRow
  <2> HIDE DEF m
  <2> QED
    BY <1>5, <2>1 DEF TrackRow
<1>7. ASSUME old = row
      PROVE  m = new
  <2>1. m = [f \in Fields |-> new[f]]
    BY <1>3, <1>7
  <2>2. new = [f \in Fields |-> new[f]]
    BY <1>1, <1>2 DEF TrackRow
  <2> QED
    BY <2>1, <2>2
<1> QED
  BY <1>4, <1>6, <1>7

-----------------------------------------------------------------------------
(* Steps that move one request and leave the tables alone.                 *)

LEMMA JobOnly ==
  ASSUME WorkInv, NEW w \in Worker, NEW j \in Job,
         job' = [job EXCEPT ![w] = j], UNCHANGED <<config, tables, sweep>>, JobOK(w)'
  PROVE  WorkInv'
<1>1. UNCHANGED <<now, fenceOn, assoc, track, history, threats, alerts, stale, sweep>>
  BY DEF config, tables
<1>2. TypeOK'
  BY <1>1 DEF WorkInv, TypeOK
<1>3. TracksFounded'
  BY <1>1 DEF WorkInv, TracksFounded, Founded, Exists
<1>4. ASSUME NEW v \in Worker, v # w
      PROVE  JobOK(v)'
  <2>1. JobOK(v) /\ job'[v] = job[v]
    BY <1>4 DEF WorkInv, TypeOK
  <2> QED
    BY <1>1, <2>1 DEF JobOK, Exists, Length, Sources, SensorsOf, AssocOf
<1>5. \A t \in Track : PlanOK(t)'
  BY <1>1 DEF WorkInv, PlanOK, Exists, Length
<1> QED
  BY <1>2, <1>3, <1>4, <1>5 DEF WorkInv

LEMMA Idle ==
  ASSUME WorkInv, NEW w \in Worker, job' = [job EXCEPT ![w] = NoJob],
         UNCHANGED <<config, tables, sweep>>
  PROVE  WorkInv'
<1>1. job'[w] = NoJob
  BY DEF WorkInv, TypeOK
<1>2. JobOK(w)'
  BY <1>1 DEF JobOK, NoJob, Updating
<1> QED
  BY <1>2, NoneTyped, JobOnly

LEMMA IngestWork ==
  ASSUME WorkInv, NEW w \in Worker, NEW d \in Detection, IngestAndProcess(w, d)
  PROVE  WorkInv'
<1> DEFINE j == [NoJob EXCEPT !.step = "begin", !.det = d]
<1>1. j \in Job /\ j.step = "begin" /\ j.det = d
  BY NoneTyped DEF Job, NoJob
<1>2. job' = [job EXCEPT ![w] = j] /\ UNCHANGED <<config, tables, sweep>>
  BY DEF IngestAndProcess
<1> HIDE DEF j
<1>3. job'[w] = j
  BY <1>2 DEF WorkInv, TypeOK
<1>4. JobOK(w)'
  BY <1>1, <1>3 DEF JobOK, Updating
<1> QED
  BY <1>1, <1>2, <1>4, JobOnly

LEMMA ChooseWork ==
  ASSUME WorkInv, NEW w \in Worker, NEW t \in Track, Choose(w, t)
  PROVE  WorkInv'
<1> DEFINE j == [job[w] EXCEPT !.step = "prepare", !.target = t, !.old = track[t]]
<1>1. job[w] \in Job /\ track[t] \in TrackRow /\ JobOK(w)
  BY DEF WorkInv, TypeOK
<1>2. j \in Job /\ j.step = "prepare" /\ j.det = job[w].det /\ j.target = t /\ j.old = track[t]
  BY <1>1 DEF Job
<1>3. job' = [job EXCEPT ![w] = j] /\ UNCHANGED <<config, tables, sweep>>
  BY DEF Choose
<1> HIDE DEF j
<1>4. job'[w] = j
  BY <1>3 DEF WorkInv, TypeOK
<1>5. track[t].state \in Live
  BY DEF Choose, Winners, Qualifying, Candidates, Live
<1>6. job[w].det \in Detection
  BY <1>1 DEF JobOK, Choose
<1>7. Exists(t)' /\ track' = track
  BY <1>3, <1>5, Constants DEF tables, Exists, Live, State
<1>8. JobOK(w)'
  BY <1>2, <1>4, <1>5, <1>6, <1>7 DEF JobOK, Exists
<1> QED
  BY <1>2, <1>3, <1>8, JobOnly

LEMMA ChooseNewWork ==
  ASSUME WorkInv, NEW w \in Worker, ChooseNew(w)
  PROVE  WorkInv'
<1> DEFINE d == job[w].det
           row == [state |-> "NEW", first |-> Stamp[d], last |-> Stamp[d], place |-> Place[d], sources |-> 1]
           j == [job[w] EXCEPT !.step = "create", !.target = d, !.new = row]
<1>1. job[w] \in Job /\ d \in Detection
  BY DEF WorkInv, TypeOK, JobOK, ChooseNew
<1>2. row \in TrackRow
  <2>1. Stamp[d] \in 0 .. MaxTime /\ Place[d] \in Nat
    BY <1>1, Constants
  <2> QED
    BY <2>1 DEF TrackRow, State
<1>3. j \in Job /\ j.step = "create" /\ j.det = d /\ j.new.state = "NEW" /\ j.new.sources = 1
  BY <1>1, <1>2 DEF Job, Track
<1>4. job' = [job EXCEPT ![w] = j] /\ UNCHANGED <<config, tables, sweep>>
  BY DEF ChooseNew
<1> HIDE DEF j
<1>5. job'[w] = j
  BY <1>4 DEF WorkInv, TypeOK
<1>6. JobOK(w)'
  BY <1>1, <1>3, <1>5 DEF JobOK, Updating
<1> QED
  BY <1>3, <1>4, <1>6, JobOnly

(* The columns an update changes.                                          *)
Updated(d, row, t) ==
  [Fuse(d, row) EXCEPT !.state = NextState(d, row, t), !.sources = Sources(d, row, t)]

LEMMA FusedRow ==
  ASSUME NEW d \in Detection, NEW row \in TrackRow, NEW t \in Track, row.state \in Live
  PROVE  /\ Updated(d, row, t) \in TrackRow
         /\ Updated(d, row, t).state \in {"NEW", "ACTIVE"}
         /\ Updated(d, row, t).sources = Sources(d, row, t)
<1>1. Stamp[d] \in 0 .. MaxTime /\ Place[d] \in Nat /\ row.place \in Nat /\ row.sources \in Nat
  BY Constants DEF TrackRow
<1>2. (row.place + Place[d]) \div 2 \in Nat
  BY <1>1
<1>3. Fuse(d, row) \in TrackRow
  BY <1>1, <1>2 DEF Fuse, TrackRow
<1>4. NextState(d, row, t) \in {"NEW", "ACTIVE"}
  BY DEF NextState, Live
<1>5. Sources(d, row, t) \in Nat
  BY <1>1 DEF Sources
<1> QED
  BY <1>3, <1>4, <1>5 DEF Updated, TrackRow, State

LEMMA PrepareWork ==
  ASSUME WorkInv, NEW w \in Worker, Prepare(w)
  PROVE  WorkInv'
<1>1. job[w] \in Job /\ JobOK(w) /\ job[w].step = "prepare"
  BY DEF WorkInv, TypeOK, Prepare
<1>2. PICK d \in Detection, t \in Track, row \in TrackRow :
        /\ job[w].det = d /\ job[w].target = t /\ job[w].old = row
        /\ row.state \in Live /\ Exists(t)
  BY <1>1 DEF Job, JobOK, Updating
<1>3. PICK new : new = Updated(d, row, t)
  OBVIOUS
<1>4. /\ new \in TrackRow /\ new.state \in {"NEW", "ACTIVE"}
      /\ new.sources = Sources(d, row, t)
  BY <1>2, <1>3, FusedRow
<1>5. PICK n \in Nat : n = Length(t) + 1
  BY <1>2 DEF Length, WorkInv, TypeOK
<1>6. PICK j : j = [job[w] EXCEPT !.step = "flush", !.new = new, !.seq = n]
  OBVIOUS
<1>7. job' = [job EXCEPT ![w] = j] /\ UNCHANGED <<config, tables, sweep>>
  <2>1. job' = [job EXCEPT ![w].step = "flush", ![w].new = new, ![w].seq = n]
    BY <1>2, <1>3, <1>5 DEF Prepare, Updated
  <2> QED
    BY <1>6, <2>1 DEF Prepare, WorkInv, TypeOK
<1>8. /\ j \in Job /\ j.step = "flush" /\ j.det = d /\ j.target = t /\ j.old = row /\ j.new = new
      /\ j.seq = n
  BY <1>1, <1>2, <1>4, <1>5, <1>6 DEF Job
<1>9. job'[w] = j /\ UNCHANGED <<assoc, track, history>>
  BY <1>7 DEF WorkInv, TypeOK, tables
<1>10. JobOK(w)'
  <2>1. Length(t)' = Length(t) /\ Exists(t)' /\ Sources(d, row, t)' = Sources(d, row, t)
    BY <1>2, <1>9 DEF Length, Exists, Sources, SensorsOf, AssocOf
  <2> QED
    BY <1>2, <1>4, <1>5, <1>8, <1>9, <2>1 DEF JobOK
<1> QED
  BY <1>7, <1>8, <1>10, JobOnly

LEMMA LoseDetectionWork ==
  ASSUME WorkInv, NEW w \in Worker, LoseDetection(w)
  PROVE  WorkInv'
<1> DEFINE j == [job[w] EXCEPT !.step = "limbo"]
<1>1. job[w] \in Job /\ JobOK(w) /\ job[w].step = "flush"
  BY DEF WorkInv, TypeOK, LoseDetection
<1>2. /\ j \in Job /\ j.step = "limbo" /\ j.det = job[w].det /\ j.target = job[w].target
      /\ j.old = job[w].old /\ j.new = job[w].new
  BY <1>1 DEF Job
<1>3. job' = [job EXCEPT ![w] = j] /\ UNCHANGED <<config, tables, sweep>>
  BY DEF LoseDetection
<1> HIDE DEF j
<1>4. job'[w] = j /\ UNCHANGED track
  BY <1>3 DEF WorkInv, TypeOK, tables
<1>5. JobOK(w)'
  BY <1>1, <1>2, <1>4 DEF JobOK, Updating, Exists
<1> QED
  BY <1>2, <1>3, <1>5, JobOnly

-----------------------------------------------------------------------------
(* Steps that write the tables.  A track's history and associations grow   *)
(* together, and its row changes with them or is marked stale.             *)

Grows(t) ==
  /\ Exists(t) => Exists(t)'
  /\ t \in stale => t \in stale'
  /\ \/ Length(t)' = Length(t) + 1
     \/ /\ Length(t)' = Length(t) /\ AssocOf(t)' = AssocOf(t)
        /\ t \in stale' \/ track'[t].state = track[t].state

LEMMA JobKept ==
  ASSUME WorkInv, NEW w \in Worker, job'[w] = job[w], \A t \in Track : Grows(t)
  PROVE  JobOK(w)'
<1>1. JobOK(w) /\ job[w] \in Job
  BY DEF WorkInv, TypeOK
<1>2. CASE job[w].step \notin Updating
  BY <1>1, <1>2 DEF JobOK, Updating
<1>3. CASE job[w].step \in Updating
  <2>1. PICK t, d, row :
          /\ t \in Track
          /\ job[w].target = t /\ job[w].det = d /\ job[w].old = row
          /\ Exists(t) /\ Grows(t)
    BY <1>1, <1>3 DEF JobOK
  <2>2. Length(t) \in Nat /\ Length(t)' \in Nat /\ job[w].seq \in Nat
    BY <1>1, <2>1 DEF Grows, Length, WorkInv, TypeOK, Job
  <2>3. CASE Length(t)' = Length(t) + 1
    BY <1>1, <1>3, <2>1, <2>2, <2>3 DEF JobOK, Grows
  <2>4. CASE Length(t)' = Length(t) /\ AssocOf(t)' = AssocOf(t)
    <3>1. Sources(d, row, t)' = Sources(d, row, t)
      BY <2>4 DEF Sources, SensorsOf
    <3> QED
      BY <1>1, <1>3, <2>1, <2>2, <2>4, <3>1 DEF JobOK, Grows
  <2> QED
    BY <2>1, <2>3, <2>4 DEF Grows
<1> QED
  BY <1>2, <1>3

LEMMA PlanKept ==
  ASSUME WorkInv, NEW t \in Track, sweep'[t] = sweep[t], Grows(t)
  PROVE  PlanOK(t)'
<1>1. PlanOK(t) /\ Length(t) \in Nat /\ sweep[t].seq \in Nat
  BY DEF WorkInv, TypeOK, Length, Plan
<1> QED
  BY <1>1 DEF PlanOK, Grows

(* The rows of an update: of one track, one detection and its alerts.      *)
LEMMA RecordEffect ==
  ASSUME WorkInv, NEW w \in Worker, NEW t \in Track, NEW row \in TrackRow, NEW d \in Detection,
         d = job[w].det, NEW s \in State, s = job[w].new.state,
         NEW raised \in SUBSET ({t} \X AlertType), Record(w, t, row, raised)
  PROVE  /\ assoc' \in [Detection -> Track \union {None}]
         /\ track' \in [Track -> TrackRow]
         /\ history' \in [Track -> Seq(State)]
         /\ threats' \in [Track -> BOOLEAN \union {None}]
         /\ alerts' \in [Track \X AlertType -> {None, "OPEN", "RESOLVED"}]
         /\ assoc'[d] = t /\ \A e \in Detection : e # d => assoc'[e] = assoc[e]
         /\ track'[t] = row /\ \A u \in Track : u # t => track'[u] = track[u]
         /\ history'[t] = Append(history[t], s) /\ Length(t)' = Length(t) + 1
         /\ \A u \in Track : u # t => history'[u] = history[u] /\ Length(u)' = Length(u)
<1> USE DEF Track
<1>1. /\ assoc' \in [Detection -> Track \union {None}]
      /\ assoc'[d] = t /\ \A e \in Detection : e # d => assoc'[e] = assoc[e]
  BY DEF Record, WorkInv, TypeOK
<1>2. /\ track' \in [Track -> TrackRow]
      /\ track'[t] = row /\ \A u \in Track : u # t => track'[u] = track[u]
  BY DEF Record, WorkInv, TypeOK
<1>3. /\ history' = [history EXCEPT ![t] = Append(history[t], s)]
      /\ history[t] \in Seq(State)
  BY DEF Record, WorkInv, TypeOK
<1>4. Append(history[t], s) \in Seq(State) /\ Len(Append(history[t], s)) = Len(history[t]) + 1
  BY <1>3
<1>5. /\ history' \in [Track -> Seq(State)]
      /\ history'[t] = Append(history[t], s)
      /\ \A u \in Track : u # t => history'[u] = history[u]
  BY <1>3, <1>4 DEF WorkInv, TypeOK
<1>6. Assess(job[w].new) \in BOOLEAN
  BY DEF Assess, Breaches, WorkInv, TypeOK
<1>7. threats' \in [Track -> BOOLEAN \union {None}]
  BY <1>6 DEF Record, WorkInv, TypeOK
<1>8. alerts' \in [Track \X AlertType -> {None, "OPEN", "RESOLVED"}]
  BY DEF Record, Open, WorkInv, TypeOK
<1> QED
  BY <1>1, <1>2, <1>4, <1>5, <1>7, <1>8 DEF Length

LEMMA RaisedOf ==
  ASSUME NEW t \in Track, NEW types \in SUBSET AlertType
  PROVE  Raised(t, types) \in SUBSET ({t} \X AlertType)
BY DEF Raised

(* A detection that joins a founded track, or founds one.                  *)
LEMMA RecordWork ==
  ASSUME WorkInv, NEW w \in Worker, NEW t \in Track, NEW row \in TrackRow, NEW d \in Detection,
         d = job[w].det, NEW s \in State, s = job[w].new.state,
         NEW raised \in SUBSET ({t} \X AlertType), Record(w, t, row, raised),
         assoc[d] = None, row.state # None, Exists(t) \/ t = d,
         stale \subseteq stale', stale' \subseteq Track,
         job' = [job EXCEPT ![w] = NoJob], UNCHANGED <<config, sweep>>
  PROVE  /\ WorkInv'
         /\ AssocOf(t)' = AssocOf(t) \union {d}
         /\ \A u \in Track : u # t => AssocOf(u)' = AssocOf(u)
<1> USE DEF Track
<1>1. /\ AssocOf(t)' = AssocOf(t) \union {d}
      /\ \A u \in Track : u # t => AssocOf(u)' = AssocOf(u)
  <2>1. assoc'[d] = t /\ \A e \in Detection : e # d => assoc'[e] = assoc[e]
    BY RecordEffect
  <2> QED
    BY <2>1, Constants DEF AssocOf
<1>2. \A u \in Track : Grows(u)
  <2>1. /\ track'[t] = row /\ \A u \in Track : u # t => track'[u] = track[u]
        /\ Length(t)' = Length(t) + 1
        /\ \A u \in Track : u # t => Length(u)' = Length(u)
    BY RecordEffect
  <2> QED
    BY <1>1, <2>1 DEF Grows, Exists
<1>3. TypeOK'
  <2>1. job' \in [Worker -> Job]
    BY NoneTyped DEF WorkInv, TypeOK
  <2> QED
    BY <2>1, RecordEffect DEF WorkInv, TypeOK, config
<1>4. TracksFounded'
  <2>1. /\ assoc'[d] = t /\ \A e \in Detection : e # d => assoc'[e] = assoc[e]
        /\ \A u \in Track : u # t => track'[u] = track[u]
    BY RecordEffect
  <2>2. assoc[t] = t \/ t = d
    BY DEF WorkInv, TracksFounded, Founded
  <2>3. assoc'[t] = t
    BY <2>1, <2>2
  <2>4. \A e \in Detection : assoc[e] # None => assoc[assoc[e]] = assoc[e] /\ assoc[e] \in Detection
    BY DEF WorkInv, TypeOK, TracksFounded, Founded
  <2>5. \A e \in Detection : assoc[e] = e => assoc'[e] = e
    BY <2>1, Constants
  <2>6. ASSUME NEW e \in Detection, assoc'[e] # None
        PROVE  assoc'[assoc'[e]] = assoc'[e]
    BY <2>1, <2>3, <2>4, <2>5, <2>6
  <2>7. ASSUME NEW u \in Track, Exists(u)'
        PROVE  assoc'[u] = u
    BY <2>1, <2>3, <2>5, <2>7 DEF Exists, WorkInv, TracksFounded, Founded
  <2> QED
    BY <2>6, <2>7 DEF TracksFounded, Founded
<1>5. \A v \in Worker : JobOK(v)'
  <2>1. job'[w] = NoJob /\ \A v \in Worker : v # w => job'[v] = job[v]
    BY DEF WorkInv, TypeOK
  <2>2. JobOK(w)'
    BY <2>1 DEF JobOK, NoJob, Updating
  <2> QED
    BY <1>2, <2>1, <2>2, JobKept
<1>6. \A u \in Track : PlanOK(u)'
  BY <1>2, PlanKept
<1> QED
  BY <1>1, <1>3, <1>4, <1>5, <1>6 DEF WorkInv

(* An update that commits, and a creation that does.                       *)
LEMMA Associates ==
  ASSUME WorkInv, NEW w \in Worker, Associate(w)
  PROVE  \E d \in Detection, t \in Track, row \in TrackRow, s \in {"NEW", "ACTIVE"},
            new \in TrackRow, old \in TrackRow :
           LET raised == Raised(t, DetectionAlerts(old.state, new, d)) IN
           /\ d = job[w].det /\ t = job[w].target /\ old = job[w].old /\ new = job[w].new
           /\ s = new.state /\ old.state \in Live
           /\ row.state \in {s, track[t].state} /\ row.state # None
           /\ old = track[t] => row = new
           /\ Record(w, t, row, raised) /\ raised \in SUBSET ({t} \X AlertType)
           /\ assoc[d] = None /\ Exists(t)
           /\ new.sources = Sources(d, old, t)
           /\ stale' = IF old = track[t] THEN stale ELSE stale \union {t}
           /\ job' = [job EXCEPT ![w] = NoJob] /\ UNCHANGED <<config, sweep>>
<1>1. job[w] \in Job /\ JobOK(w) /\ job[w].step = "flush"
  BY DEF WorkInv, TypeOK, Associate
<1>2. PICK d \in Detection, t \in Track, old \in TrackRow, new \in TrackRow :
        /\ d = job[w].det /\ t = job[w].target /\ old = job[w].old /\ new = job[w].new
        /\ new.state \in {"NEW", "ACTIVE"} /\ Exists(t) /\ old.state \in Live
        /\ job[w].seq = Length(t) + 1 => new.sources = Sources(d, old, t)
  BY <1>1 DEF Job, JobOK, Updating
<1>3. track[t] \in TrackRow /\ track[t].state # None
  BY <1>2 DEF WorkInv, TypeOK, Exists
<1>4. PICK row \in TrackRow : row = Merge(w, track[t])
  BY <1>1, <1>3, MergeRow
<1>5. /\ row.state \in {new.state, track[t].state}
      /\ old = track[t] => row = new
  BY <1>1, <1>2, <1>3, <1>4, MergeRow
<1>6. row.state # None
  BY <1>2, <1>3, <1>5, Constants DEF State
<1>7. DetectionAlerts(old.state, new, d) \in SUBSET AlertType
  BY DEF DetectionAlerts
<1>8. Raised(t, DetectionAlerts(old.state, new, d)) \in SUBSET ({t} \X AlertType)
  BY <1>7, RaisedOf
<1>9. /\ Record(w, t, row, Raised(t, DetectionAlerts(old.state, new, d)))
      /\ assoc[d] = None
      /\ stale' = IF old = track[t] THEN stale ELSE stale \union {t}
      /\ job' = [job EXCEPT ![w] = NoJob] /\ UNCHANGED <<config, sweep>>
      /\ job[w].seq = Length(t) + 1
  BY <1>2, <1>4 DEF Associate, Unassociated, Fresh
<1>10. PICK s \in {"NEW", "ACTIVE"} : s = new.state
  BY <1>2
<1> DEFINE Joins(d_, t_, row_, s_, new_, old_) ==
        LET raised == Raised(t_, DetectionAlerts(old_.state, new_, d_)) IN
        /\ d_ = job[w].det /\ t_ = job[w].target /\ old_ = job[w].old /\ new_ = job[w].new
        /\ s_ = new_.state /\ old_.state \in Live
        /\ row_.state \in {s_, track[t_].state} /\ row_.state # None
        /\ old_ = track[t_] => row_ = new_
        /\ Record(w, t_, row_, raised) /\ raised \in SUBSET ({t_} \X AlertType)
        /\ assoc[d_] = None /\ Exists(t_)
        /\ new_.sources = Sources(d_, old_, t_)
        /\ stale' = IF old_ = track[t_] THEN stale ELSE stale \union {t_}
        /\ job' = [job EXCEPT ![w] = NoJob] /\ UNCHANGED <<config, sweep>>
<1>11. Joins(d, t, row, s, new, old)
  BY <1>2, <1>5, <1>6, <1>8, <1>9, <1>10
<1>12. \E d_ \in Detection, t_ \in Track, row_ \in TrackRow, s_ \in {"NEW", "ACTIVE"},
          new_ \in TrackRow, old_ \in TrackRow : Joins(d_, t_, row_, s_, new_, old_)
  <2> HIDE DEF Joins
  <2> QED
    BY <1>11
<1> QED
  BY <1>12

Founds(w) == CreateTrack(w) /\ Unassociated(job[w].det)

LEMMA FoundsTrack ==
  ASSUME WorkInv, NEW w \in Worker, Founds(w)
  PROVE  \E d \in Detection, row \in TrackRow :
           LET raised == Raised(d, DetectionAlerts(None, row, d)) IN
           /\ d = job[w].det /\ row = job[w].new /\ row.state = "NEW" /\ row.sources = 1
           /\ Record(w, d, row, raised) /\ raised \in SUBSET ({d} \X AlertType)
           /\ assoc[d] = None /\ ~Exists(d) /\ AssocOf(d) = {}
           /\ stale' = stale
           /\ job' = [job EXCEPT ![w] = NoJob] /\ UNCHANGED <<config, sweep>>
<1>1. job[w] \in Job /\ JobOK(w) /\ job[w].step = "create"
  BY DEF WorkInv, TypeOK, Founds, CreateTrack
<1>2. PICK d \in Detection, row \in TrackRow :
        d = job[w].det /\ row = job[w].new /\ row.state = "NEW" /\ row.sources = 1
  BY <1>1 DEF Job, JobOK
<1>3. DetectionAlerts(None, row, d) \in SUBSET AlertType
  BY DEF DetectionAlerts
<1>4. Raised(d, DetectionAlerts(None, row, d)) \in SUBSET ({d} \X AlertType)
  BY <1>3, RaisedOf DEF Track
<1>5. /\ Record(w, d, row, Raised(d, DetectionAlerts(None, row, d))) /\ assoc[d] = None
      /\ stale' = stale /\ job' = [job EXCEPT ![w] = NoJob] /\ UNCHANGED <<config, sweep>>
  BY <1>2 DEF Founds, CreateTrack, Unassociated
<1>6. assoc[d] # d
  BY <1>5, Constants
<1>7. ~Exists(d) /\ AssocOf(d) = {}
  BY <1>6, Constants DEF WorkInv, TracksFounded, Founded, AssocOf, Track
<1> QED
  BY <1>2, <1>4, <1>5, <1>7

LEMMA AssociateWork ==
  ASSUME WorkInv, NEW w \in Worker, Associate(w)
  PROVE  WorkInv'
<1>1. PICK d \in Detection, t \in Track, row \in TrackRow, s \in State, raised \in SUBSET (Track \X AlertType) :
        /\ raised \subseteq {t} \X AlertType
        /\ d = job[w].det /\ s = job[w].new.state /\ row.state # None
        /\ Record(w, t, row, raised) /\ assoc[d] = None /\ Exists(t)
        /\ stale \subseteq stale' /\ stale' \subseteq stale \union {t}
        /\ job' = [job EXCEPT ![w] = NoJob] /\ UNCHANGED <<config, sweep>>
  <2>1. PICK d \in Detection, t \in Track, row \in TrackRow, s \in {"NEW", "ACTIVE"},
            new \in TrackRow, old \in TrackRow :
           LET raised == Raised(t, DetectionAlerts(old.state, new, d)) IN
           /\ d = job[w].det /\ new = job[w].new
           /\ s = new.state /\ row.state # None
           /\ Record(w, t, row, raised) /\ raised \in SUBSET ({t} \X AlertType)
           /\ assoc[d] = None /\ Exists(t)
           /\ stale' = IF old = track[t] THEN stale ELSE stale \union {t}
           /\ job' = [job EXCEPT ![w] = NoJob] /\ UNCHANGED <<config, sweep>>
    BY Associates
  <2>2. s \in State
    BY DEF State
  <2>3. stale \subseteq stale' /\ stale' \subseteq stale \union {t}
    BY <2>1
  <2> QED
    BY <2>1, <2>2, <2>3
<1>2. stale' \subseteq Track
  BY <1>1 DEF WorkInv, TypeOK
<1> QED
  BY <1>1, <1>2, RecordWork

LEMMA CreateTrackWork ==
  ASSUME WorkInv, NEW w \in Worker, CreateTrack(w)
  PROVE  WorkInv'
<1>1. CASE Founds(w)
  <2>1. PICK d \in Detection, row \in TrackRow, raised \in SUBSET (Track \X AlertType) :
           /\ raised \subseteq {d} \X AlertType /\ d = job[w].det /\ row = job[w].new /\ row.state = "NEW"
           /\ Record(w, d, row, raised) /\ assoc[d] = None
           /\ stale' = stale
           /\ job' = [job EXCEPT ![w] = NoJob] /\ UNCHANGED <<config, sweep>>
    <3>1. PICK d \in Detection, row \in TrackRow :
           LET raised == Raised(d, DetectionAlerts(None, row, d)) IN
           /\ d = job[w].det /\ row = job[w].new /\ row.state = "NEW"
           /\ Record(w, d, row, raised) /\ raised \in SUBSET ({d} \X AlertType)
           /\ assoc[d] = None /\ stale' = stale
           /\ job' = [job EXCEPT ![w] = NoJob] /\ UNCHANGED <<config, sweep>>
      BY <1>1, FoundsTrack
    <3>2. {d} \X AlertType \subseteq Track \X AlertType
      BY DEF Track
    <3> QED
      BY <3>1, <3>2
  <2>2. "NEW" \in State /\ d \in Track /\ row.state # None
    BY <2>1, Constants DEF State, Track
  <2>3. stale \subseteq stale' /\ stale' \subseteq Track
    BY <2>1 DEF WorkInv, TypeOK
  <2> QED
    BY <2>1, <2>2, <2>3, RecordWork
<1>2. CASE ~Founds(w)
  <2>1. job' = [job EXCEPT ![w] = NoJob] /\ UNCHANGED <<config, tables, sweep>>
    BY <1>2 DEF CreateTrack, Founds, tables
  <2> QED
    BY <2>1, Idle
<1> QED
  BY <1>1, <1>2

LEMMA LeaveLimboWork ==
  ASSUME WorkInv, NEW w \in Worker, LeaveLimbo(w)
  PROVE  /\ WorkInv' /\ UNCHANGED <<assoc, history, threats, alerts>>
         /\ \A t \in Track : track'[t] = track[t] \/ t \in stale'
         /\ stale \subseteq stale'
<1>1. job[w] \in Job /\ JobOK(w) /\ job[w].step = "limbo"
  BY DEF WorkInv, TypeOK, LeaveLimbo
<1>2. PICK t \in Track, row \in TrackRow :
        /\ t = job[w].target /\ Exists(t) /\ row = Merge(w, track[t])
        /\ row.state # None
  <2>1. PICK t \in Track : t = job[w].target /\ Exists(t)
    BY <1>1 DEF JobOK, Updating
  <2>2. track[t] \in TrackRow
    BY DEF WorkInv, TypeOK
  <2>3. job[w].new.state \in {"NEW", "ACTIVE"}
    BY <1>1 DEF JobOK
  <2>4. Merge(w, track[t]).state # None
    BY <1>1, <2>1, <2>2, <2>3, MergeRow, Constants DEF Exists, State
  <2> QED
    BY <1>1, <2>1, <2>2, <2>4, MergeRow
<1>3. /\ track' = [track EXCEPT ![t] = row] /\ stale' = (IF row = track[t] THEN stale ELSE stale \union {t})
      \/ UNCHANGED <<track, stale>>
  BY <1>2 DEF LeaveLimbo
<1>4. /\ job' = [job EXCEPT ![w] = NoJob]
      /\ UNCHANGED <<now, fenceOn, assoc, history, threats, alerts, sweep>>
  BY DEF LeaveLimbo, config
<1>5. /\ \A u \in Track : u # t => track'[u] = track[u]
      /\ track'[t] = row \/ track'[t] = track[t]
      /\ track'[t] = track[t] \/ t \in stale'
      /\ stale \subseteq stale' /\ stale' \subseteq Track
      /\ track' \in [Track -> TrackRow]
  BY <1>2, <1>3, ZenonT(30) DEF WorkInv, TypeOK
<1>6. \A u \in Track : Exists(u)' <=> Exists(u)
  BY <1>2, <1>5 DEF Exists
<1>7. \A u \in Track : Grows(u)
  BY <1>4, <1>5, <1>6 DEF Grows, Length, AssocOf
<1>8. TypeOK'
  <2>1. job' \in [Worker -> Job]
    BY <1>4, NoneTyped DEF WorkInv, TypeOK
  <2> QED
    BY <1>4, <1>5, <2>1 DEF WorkInv, TypeOK
<1>9. TracksFounded'
  BY <1>4, <1>6 DEF WorkInv, TracksFounded, Founded
<1>10. \A v \in Worker : JobOK(v)'
  <2>1. job'[w] = NoJob /\ \A v \in Worker : v # w => job'[v] = job[v]
    BY <1>4 DEF WorkInv, TypeOK
  <2>2. JobOK(w)'
    BY <2>1 DEF JobOK, NoJob, Updating
  <2> QED
    BY <1>7, <2>1, <2>2, JobKept
<1>11. \A u \in Track : PlanOK(u)'
  BY <1>4, <1>7, PlanKept
<1> QED
  BY <1>4, <1>5, <1>8, <1>9, <1>10, <1>11 DEF WorkInv

-----------------------------------------------------------------------------
(* The lifecycle service.                                                  *)

LEMMA BeginAdvanceWork ==
  ASSUME WorkInv, BeginAdvance
  PROVE  WorkInv'
<1> DEFINE to(t) == IF \E s \in State : Due(t, s) THEN CHOOSE s \in State : Due(t, s) ELSE None
<1>1. /\ UNCHANGED <<now, fenceOn, assoc, track, history, threats, alerts, stale, job>>
      /\ sweep' = [t \in Track |-> IF to(t) = None THEN NoPlan[t]
                                   ELSE [to |-> to(t), seq |-> Length(t) + 1]]
  BY DEF BeginAdvance, config
<1>2. ASSUME NEW t \in Track
      PROVE  /\ to(t) \in State \union {None}
             /\ to(t) # None => to(t) \in State /\ Due(t, to(t))
  <2>1. CASE \E s \in State : Due(t, s)
    BY <2>1
  <2> QED
    BY <2>1
<1>3. ASSUME NEW t \in Track, to(t) # None
      PROVE  /\ to(t) \in {"STALE", "LOST", "ARCHIVED"}
             /\ track[t].state = From(to(t)) /\ Exists(t)
  <2>1. PICK s \in State : s = to(t) /\ Due(t, s)
    BY <1>2, <1>3
  <2> QED
    BY <2>1, Constants DEF Due, From, Exists, State
<1> HIDE DEF to
<1>4. \A t \in Track : Length(t) \in Nat
  BY DEF WorkInv, TypeOK, Length
<1>5. \A t \in Track : sweep'[t] = IF to(t) = None THEN NoPlan[t] ELSE [to |-> to(t), seq |-> Length(t) + 1]
  BY <1>1
<1>12. ASSUME NEW t \in Track, to(t) = None
       PROVE  sweep'[t] = [to |-> None, seq |-> 0]
  BY <1>5, <1>12 DEF NoPlan
<1>6. sweep' \in [Track -> Plan]
  <2>1. ASSUME NEW t \in Track
        PROVE  sweep'[t] \in Plan
    <3>1. CASE to(t) = None
      BY <1>12, <3>1 DEF Plan
    <3>2. CASE to(t) # None
      <4>1. PICK s \in State, n \in Nat : s = to(t) /\ n = Length(t) + 1
        BY <1>2, <1>4, <3>2
      <4>2. sweep'[t] = [to |-> s, seq |-> n]
        BY <1>5, <3>2, <4>1
      <4> QED
        BY <4>2 DEF Plan
    <3> QED
      BY <3>1, <3>2
  <2> QED
    BY <1>1, <2>1
<1>7. TypeOK'
  BY <1>1, <1>6 DEF WorkInv, TypeOK
<1>8. TracksFounded'
  BY <1>1 DEF WorkInv, TracksFounded, Founded, Exists
<1>9. \A v \in Worker : JobOK(v)'
  BY <1>1 DEF WorkInv, JobOK, Exists, Length, Sources, SensorsOf, AssocOf
<1>10. ASSUME NEW t \in Track
       PROVE  PlanOK(t)'
  <2>1. CASE to(t) = None
    BY <1>12, <2>1 DEF PlanOK
  <2>2. CASE to(t) # None
    <3>1. sweep'[t].to = to(t) /\ sweep'[t].seq = Length(t) + 1 /\ Length(t)' = Length(t)
      BY <1>1, <1>5, <2>2 DEF Length
    <3> QED
      BY <1>1, <1>3, <1>4, <2>2, <3>1 DEF PlanOK, Exists
  <2> QED
    BY <2>1, <2>2
<1> QED
  BY <1>7, <1>8, <1>9, <1>10 DEF WorkInv

(* A commit of the service that moves tracks.                              *)
Moves == CommitAdvance /\ (\A t \in Moved : sweep[t].seq = Length(t) + 1) /\ Transition

LEMMA MovesEffect ==
  ASSUME WorkInv, Moves
  PROVE  /\ UNCHANGED <<now, fenceOn, assoc, stale, job>> /\ sweep' = NoPlan
         /\ track' \in [Track -> TrackRow] /\ history' \in [Track -> Seq(State)]
         /\ threats' \in [Track -> BOOLEAN \union {None}]
         /\ alerts' \in [Track \X AlertType -> {None, "OPEN", "RESOLVED"}]
         /\ \A t \in Track : t \in Moved =>
              /\ sweep[t].to \in {"STALE", "LOST", "ARCHIVED"}
              /\ t \notin stale => track[t].state = From(sweep[t].to)
              /\ Exists(t)
              /\ track'[t] = [track[t] EXCEPT !.state = sweep[t].to]
              /\ history'[t] = Append(history[t], sweep[t].to) /\ Length(t)' = Length(t) + 1
         /\ \A t \in Track : t \notin Moved =>
              track'[t] = track[t] /\ history'[t] = history[t] /\ Length(t)' = Length(t)
<1>1. UNCHANGED <<now, fenceOn, assoc, stale, job>> /\ sweep' = NoPlan
  BY DEF Moves, CommitAdvance, config
<1>2. /\ track' = [t \in Track |-> IF t \in Moved THEN [track[t] EXCEPT !.state = sweep[t].to]
                                   ELSE track[t]]
      /\ history' = [t \in Track |-> IF t \in Moved THEN Append(history[t], sweep[t].to)
                                     ELSE history[t]]
      /\ threats' = [t \in Track |-> IF t \in MovedTo("STALE") THEN Assess(track[t])
                                     ELSE threats[t]]
      /\ alerts' = [a \in Track \X AlertType |->
           CASE a[1] \in MovedTo("LOST") /\ a[2] = "TRACK_LOST" -> "OPEN"
             [] a[1] \in MovedTo("ARCHIVED") -> Resolved(a)
             [] OTHER -> alerts[a]]
  BY DEF Moves, Transition
<1>3. ASSUME NEW t \in Track, t \in Moved
      PROVE  /\ sweep[t].to \in {"STALE", "LOST", "ARCHIVED"}
             /\ t \notin stale => track[t].state = From(sweep[t].to)
             /\ Exists(t)
  <2>1. sweep[t].seq = Length(t) + 1 /\ sweep[t].to # None
    BY <1>3 DEF Moves, Moved
  <2> QED
    BY <2>1 DEF WorkInv, PlanOK
<1>4. ASSUME NEW t \in Track
      PROVE  /\ track'[t] \in TrackRow
             /\ history'[t] \in Seq(State)
             /\ t \in Moved => /\ track'[t] = [track[t] EXCEPT !.state = sweep[t].to]
                               /\ history'[t] = Append(history[t], sweep[t].to)
                               /\ Length(t)' = Length(t) + 1
             /\ t \notin Moved => track'[t] = track[t] /\ history'[t] = history[t] /\ Length(t)' = Length(t)
  <2>1. track[t] \in TrackRow /\ history[t] \in Seq(State)
    BY DEF WorkInv, TypeOK
  <2>2. CASE t \in Moved
    <3>1. PICK s \in State : s = sweep[t].to
      BY <1>3, <2>2 DEF State
    <3>2. [track[t] EXCEPT !.state = s] \in TrackRow
      BY <2>1 DEF TrackRow
    <3>3. Append(history[t], s) \in Seq(State) /\ Len(Append(history[t], s)) = Len(history[t]) + 1
      BY <2>1
    <3>4. track'[t] = [track[t] EXCEPT !.state = s] /\ history'[t] = Append(history[t], s)
      BY <1>2, <2>2, <3>1
    <3> QED
      BY <2>2, <3>1, <3>2, <3>3, <3>4 DEF Length
  <2>3. CASE t \notin Moved
    BY <1>2, <2>1, <2>3 DEF Length
  <2> QED
    BY <2>2, <2>3
<1>5. track' \in [Track -> TrackRow] /\ history' \in [Track -> Seq(State)]
  BY <1>2, <1>4
<1>6. threats' \in [Track -> BOOLEAN \union {None}]
  <2>1. \A t \in Track : Assess(track[t]) \in BOOLEAN /\ threats[t] \in BOOLEAN \union {None}
    BY DEF Assess, Breaches, WorkInv, TypeOK
  <2> QED
    BY <1>2, <2>1
<1>7. alerts' \in [Track \X AlertType -> {None, "OPEN", "RESOLVED"}]
  <2>1. \A a \in Track \X AlertType : alerts[a] \in {None, "OPEN", "RESOLVED"}
                                      /\ Resolved(a) \in {None, "OPEN", "RESOLVED"}
    BY DEF Resolved, WorkInv, TypeOK
  <2> QED
    BY <1>2, <2>1
<1> QED
  BY <1>1, <1>3, <1>4, <1>5, <1>6, <1>7

LEMMA MovesWork ==
  ASSUME WorkInv, Moves
  PROVE  WorkInv'
<1>1. \A t \in Track : /\ Exists(t) => Exists(t)'
                       /\ Exists(t)' => Exists(t)
  <2> TAKE t \in Track
  <2>1. CASE t \in Moved
    <3>1. PICK s \in State : s = sweep[t].to /\ track'[t] = [track[t] EXCEPT !.state = s]
      BY <2>1, MovesEffect DEF State
    <3>2. track[t] \in TrackRow
      BY DEF WorkInv, TypeOK
    <3>3. track'[t].state = s
      BY <3>1, <3>2 DEF TrackRow
    <3> QED
      BY <2>1, <3>3, MovesEffect, Constants DEF Exists
  <2>2. CASE t \notin Moved
    BY <2>2, MovesEffect DEF Exists
  <2> QED
    BY <2>1, <2>2
<1>2. ASSUME NEW t \in Track
      PROVE  Grows(t)
  <2>1. CASE t \in Moved
    BY <1>1, <2>1, MovesEffect DEF Grows
  <2>2. CASE t \notin Moved
    BY <1>1, <2>2, MovesEffect DEF Grows, AssocOf
  <2> QED
    BY <2>1, <2>2
<1>3. TypeOK'
  BY MovesEffect, NoneTyped DEF WorkInv, TypeOK
<1>4. TracksFounded'
  BY <1>1, MovesEffect DEF WorkInv, TracksFounded, Founded
<1>5. \A v \in Worker : JobOK(v)'
  BY <1>2, MovesEffect, JobKept
<1>6. \A t \in Track : PlanOK(t)'
  BY MovesEffect DEF PlanOK, NoPlan
<1> QED
  BY <1>3, <1>4, <1>5, <1>6 DEF WorkInv

LEMMA CommitAdvanceWork ==
  ASSUME WorkInv, CommitAdvance
  PROVE  WorkInv'
<1>1. CASE Moves
  BY <1>1, MovesWork
<1>2. CASE ~Moves
  <2>1. UNCHANGED <<now, fenceOn, assoc, track, history, threats, alerts, stale, job>> /\ sweep' = NoPlan
    BY <1>2 DEF CommitAdvance, Moves, config
  <2>2. TypeOK'
    BY <2>1, NoneTyped DEF WorkInv, TypeOK
  <2>3. TracksFounded'
    BY <2>1 DEF WorkInv, TracksFounded, Founded, Exists
  <2>4. \A v \in Worker : JobOK(v)'
    BY <2>1 DEF WorkInv, JobOK, Exists, Length, Sources, SensorsOf, AssocOf
  <2>5. \A t \in Track : PlanOK(t)'
    BY <2>1 DEF PlanOK, NoPlan
  <2> QED
    BY <2>2, <2>3, <2>4, <2>5 DEF WorkInv
<1> QED
  BY <1>1, <1>2

-----------------------------------------------------------------------------
(* The work invariant.                                                     *)

LEMMA InitWork == Init => WorkInv
<1> SUFFICES ASSUME Init PROVE WorkInv
  OBVIOUS
<1>1. TypeOK
  BY NoneTyped, Constants DEF Init, TypeOK
<1>2. \A t \in Track : ~Exists(t)
  BY DEF Init, Exists, NoTrack
<1>3. TracksFounded
  BY <1>2 DEF Init, TracksFounded, Founded
<1>4. \A w \in Worker : JobOK(w)
  BY DEF Init, JobOK, NoJob, Updating
<1>5. \A t \in Track : PlanOK(t)
  BY DEF Init, PlanOK, NoPlan
<1> QED
  BY <1>1, <1>3, <1>4, <1>5 DEF WorkInv

(* Steps that leave the tables, the requests and the plan alone.           *)
LEMMA ConfigWork ==
  ASSUME WorkInv, UNCHANGED <<tables, job, sweep>>, now' \in 0 .. MaxTime, fenceOn' \in BOOLEAN
  PROVE  WorkInv'
<1>1. UNCHANGED <<assoc, track, history, threats, alerts, stale, job, sweep>>
  BY DEF tables
<1>2. TypeOK'
  BY <1>1 DEF WorkInv, TypeOK
<1>3. TracksFounded'
  BY <1>1 DEF WorkInv, TracksFounded, Founded, Exists
<1>4. \A w \in Worker : JobOK(w)'
  BY <1>1 DEF WorkInv, JobOK, Exists, Length, Sources, SensorsOf, AssocOf
<1>5. \A t \in Track : PlanOK(t)'
  BY <1>1 DEF WorkInv, PlanOK, Exists, Length
<1> QED
  BY <1>2, <1>3, <1>4, <1>5 DEF WorkInv

LEMMA ProcessWork ==
  ASSUME WorkInv, NEW w \in Worker, Process(w)
  PROVE  WorkInv'
<1>1. CASE Duplicate(w)
  BY <1>1, Idle DEF Duplicate
<1>2. CASE ChooseNew(w)
  BY <1>2, ChooseNewWork
<1>3. CASE \E t \in Track : Choose(w, t)
  BY <1>3, ChooseWork
<1>4. CASE Prepare(w)
  BY <1>4, PrepareWork
<1>5. CASE Associate(w)
  BY <1>5, AssociateWork
<1>6. CASE LoseSequence(w)
  BY <1>6, Idle DEF LoseSequence
<1>7. CASE LoseDetection(w)
  BY <1>7, LoseDetectionWork
<1>8. CASE LeaveLimbo(w)
  BY <1>8, LeaveLimboWork
<1>9. CASE CreateTrack(w)
  BY <1>9, CreateTrackWork
<1>10. CASE Fail(w)
  BY <1>10, Idle DEF Fail
<1> QED
  BY <1>1, <1>2, <1>3, <1>4, <1>5, <1>6, <1>7, <1>8, <1>9, <1>10 DEF Process

LEMMA NextWork ==
  ASSUME WorkInv, [Next]_vars
  PROVE  WorkInv'
<1>1. CASE Tick
  <2>1. now' \in 0 .. MaxTime /\ fenceOn' \in BOOLEAN /\ UNCHANGED <<tables, job, sweep>>
    BY <1>1, Constants DEF Tick, WorkInv, TypeOK
  <2> QED
    BY <2>1, ConfigWork
<1>2. CASE ChangeGeofence
  <2>1. now' \in 0 .. MaxTime /\ fenceOn' \in BOOLEAN /\ UNCHANGED <<tables, job, sweep>>
    BY <1>2 DEF ChangeGeofence, WorkInv, TypeOK
  <2> QED
    BY <2>1, ConfigWork
<1>3. CASE \E d \in Detection, w \in Worker : IngestAndProcess(w, d)
  BY <1>3, IngestWork
<1>4. CASE \E w \in Worker : Process(w)
  BY <1>4, ProcessWork
<1>5. CASE BeginAdvance
  BY <1>5, BeginAdvanceWork
<1>6. CASE CommitAdvance
  BY <1>6, CommitAdvanceWork
<1>7. CASE UNCHANGED vars
  <2>1. now' \in 0 .. MaxTime /\ fenceOn' \in BOOLEAN /\ UNCHANGED <<tables, job, sweep>>
    BY <1>7 DEF vars, tables, WorkInv, TypeOK
  <2> QED
    BY <2>1, ConfigWork
<1> QED
  BY <1>1, <1>2, <1>3, <1>4, <1>5, <1>6, <1>7 DEF Next

(* Every variable keeps its type, whatever the requests, the lifecycle     *)
(* service and the clock do (tracking/models.py, alerts/models.py).        *)
THEOREM TypeCorrect == Spec => []TypeOK
<1>1. WorkInv => TypeOK
  BY DEF WorkInv
<1> QED
  BY InitWork, NextWork, <1>1, PTL DEF Spec

(* The tables change in four ways.                                         *)
LEMMA TableSteps ==
  ASSUME WorkInv, [Next]_vars
  PROVE  \/ UNCHANGED tables
         \/ \E w \in Worker : Associate(w)
         \/ \E w \in Worker : Founds(w)
         \/ \E w \in Worker : LeaveLimbo(w)
         \/ Moves
<1>1. CASE \E w \in Worker : Process(w)
  <2>1. PICK w \in Worker : Process(w)
    BY <1>1
  <2>2. CreateTrack(w) => Founds(w) \/ UNCHANGED tables
    BY DEF CreateTrack, Founds, tables
  <2> QED
    BY <2>1, <2>2 DEF Process, Duplicate, ChooseNew, Choose, Prepare, LoseSequence, LoseDetection, Fail
<1>2. CASE CommitAdvance
  BY <1>2 DEF CommitAdvance, Moves, tables
<1>3. CASE ~(\E w \in Worker : Process(w)) /\ ~CommitAdvance
  BY <1>3 DEF Next, vars, tables, Tick, ChangeGeofence, IngestAndProcess, BeginAdvance
<1> QED
  BY <1>1, <1>2, <1>3

-----------------------------------------------------------------------------
(* Counting the history.                                                   *)

Seen(h) == {i \in 1 .. Len(h) : h[i] \in {"NEW", "ACTIVE"}}

LEMMA SeenAppend ==
  ASSUME NEW h \in Seq(State), NEW s \in State
  PROVE  /\ IsFiniteSet(Seen(h)) /\ Cardinality(Seen(h)) \in Nat
         /\ Cardinality(Seen(Append(h, s)))
              = Cardinality(Seen(h)) + (IF s \in {"NEW", "ACTIVE"} THEN 1 ELSE 0)
<1>1. IsFiniteSet(1 .. Len(h))
  BY FS_Interval
<1>2. Seen(h) \subseteq 1 .. Len(h)
  BY DEF Seen
<1>3. IsFiniteSet(Seen(h)) /\ Cardinality(Seen(h)) \in Nat
  BY <1>1, <1>2, FS_Subset, FS_CardinalityType
<1>4. /\ Append(h, s) \in Seq(State) /\ Len(Append(h, s)) = Len(h) + 1 /\ Len(h) \in Nat
      /\ Append(h, s)[Len(h) + 1] = s /\ \A i \in 1 .. Len(h) : Append(h, s)[i] = h[i]
  OBVIOUS
<1>5. PICK n, g : n = Len(h) /\ g = Append(h, s)
  OBVIOUS
<1>6. 1 .. n + 1 = (1 .. n) \union {n + 1} /\ n + 1 \notin 1 .. n
  BY <1>4, <1>5
<1>7. Seen(g) = IF s \in {"NEW", "ACTIVE"} THEN Seen(h) \union {n + 1} ELSE Seen(h)
  BY <1>4, <1>5, <1>6 DEF Seen
<1>8. n + 1 \notin Seen(h)
  BY <1>5, <1>6 DEF Seen
<1>9. Cardinality(Seen(h) \union {n + 1}) = Cardinality(Seen(h)) + 1
  BY <1>3, <1>8, FS_AddElement
<1> QED
  BY <1>3, <1>5, <1>7, <1>9

(* What a detection that joins a track changes, however it came to it.     *)
LEMMA JoinEffect ==
  ASSUME WorkInv, NEW w \in Worker, NEW d \in Detection, NEW t \in Track, NEW row \in TrackRow,
         NEW s \in {"NEW", "ACTIVE"}, NEW raised \in SUBSET ({t} \X AlertType),
         d = job[w].det, s = job[w].new.state, Record(w, t, row, raised), assoc[d] = None
  PROVE  /\ AssocOf(t)' = AssocOf(t) \union {d} /\ d \notin AssocOf(t)
         /\ SensorsOf(t)' = SensorsOf(t) \union {SensorOf[d]}
         /\ \A e \in Detection : e # d => assoc'[e] = assoc[e]
         /\ \A u \in Track : u # t =>
              /\ AssocOf(u)' = AssocOf(u) /\ track'[u] = track[u] /\ history'[u] = history[u]
              /\ threats'[u] = threats[u]
              /\ \A y \in AlertType : alerts'[<<u, y>>] = alerts[<<u, y>>]
         /\ track'[t] = row /\ threats'[t] = Assess(job[w].new)
         /\ history[t] \in Seq(State) /\ history'[t] = Append(history[t], s)
         /\ \A y \in AlertType : /\ <<t, y>> \in raised => alerts'[<<t, y>>] = "OPEN"
                                 /\ alerts'[<<t, y>>] \in {"OPEN", alerts[<<t, y>>]}
<1> USE DEF Track
<1>1. s \in State
  BY DEF State
<1>2. /\ assoc'[d] = t /\ \A e \in Detection : e # d => assoc'[e] = assoc[e]
      /\ track'[t] = row /\ \A u \in Track : u # t => track'[u] = track[u]
      /\ history'[t] = Append(history[t], s)
      /\ \A u \in Track : u # t => history'[u] = history[u]
  BY <1>1, RecordEffect
<1>3. /\ AssocOf(t)' = AssocOf(t) \union {d} /\ d \notin AssocOf(t)
      /\ \A u \in Track : u # t => AssocOf(u)' = AssocOf(u)
  BY <1>2, Constants, ZenonT(30) DEF AssocOf
<1>4. SensorsOf(t)' = SensorsOf(t) \union {SensorOf[d]}
  BY <1>3 DEF SensorsOf
<1>5. threats'[t] = Assess(job[w].new) /\ \A u \in Track : u # t => threats'[u] = threats[u]
  BY DEF Record, WorkInv, TypeOK
<1>6. \A a \in Track \X AlertType : alerts'[a] = IF a \in raised THEN "OPEN" ELSE alerts[a]
  BY DEF Record, Open
<1>7. ASSUME NEW u \in Track, NEW y \in AlertType
      PROVE  /\ <<u, y>> \in raised => u = t /\ alerts'[<<u, y>>] = "OPEN"
             /\ <<u, y>> \notin raised => alerts'[<<u, y>>] = alerts[<<u, y>>]
  <2>1. <<u, y>> \in Track \X AlertType
    OBVIOUS
  <2> QED
    BY <1>6, <2>1
<1>8. history[t] \in Seq(State)
  BY DEF WorkInv, TypeOK
<1> QED
  BY <1>2, <1>3, <1>4, <1>5, <1>7, <1>8

(* Each detection that joins a track adds one entry of the counted kind.   *)
CountInv ==
  /\ FiniteInv
  /\ HistoryComplete

LEMMA HistoryIsComplete ==
  HistoryComplete <=> \A t \in Track : Cardinality(Seen(history[t])) = Cardinality(AssocOf(t))
BY DEF HistoryComplete, Seen, Length

LEMMA JoinCount ==
  ASSUME WorkInv, CountInv, NEW w \in Worker, NEW d \in Detection, NEW t \in Track,
         NEW row \in TrackRow, NEW s \in {"NEW", "ACTIVE"}, NEW raised \in SUBSET ({t} \X AlertType),
         d = job[w].det, s = job[w].new.state, Record(w, t, row, raised), assoc[d] = None
  PROVE  CountInv'
<1>1. ASSUME NEW u \in Track
      PROVE  /\ IsFiniteSet(AssocOf(u)') /\ IsFiniteSet(SensorsOf(u)')
             /\ Cardinality(Seen(history'[u])) = Cardinality(AssocOf(u)')
  <2>1. /\ IsFiniteSet(AssocOf(u)) /\ IsFiniteSet(SensorsOf(u))
        /\ Cardinality(Seen(history[u])) = Cardinality(AssocOf(u))
    BY HistoryIsComplete DEF CountInv, FiniteInv
  <2>2. CASE u = t
    <3>1. /\ IsFiniteSet(AssocOf(t) \union {d})
          /\ Cardinality(AssocOf(t) \union {d}) = Cardinality(AssocOf(t)) + 1
      BY <2>1, <2>2, JoinEffect, FS_AddElement, SMTT(30)
    <3>2. IsFiniteSet(SensorsOf(t) \union {SensorOf[d]})
      BY <2>1, <2>2, FS_AddElement
    <3>3. s \in State
      BY DEF State
    <3>4. Cardinality(Seen(Append(history[t], s))) = Cardinality(Seen(history[t])) + 1
      BY <3>3, SeenAppend DEF WorkInv, TypeOK
    <3>5. /\ AssocOf(t)' = AssocOf(t) \union {d} /\ SensorsOf(t)' = SensorsOf(t) \union {SensorOf[d]}
          /\ history'[t] = Append(history[t], s)
      BY JoinEffect
    <3>6. Cardinality(Seen(history'[t])) = Cardinality(AssocOf(t)')
      BY <2>1, <2>2, <3>1, <3>4, <3>5
    <3> QED
      BY <2>2, <3>1, <3>2, <3>5, <3>6
  <2>3. CASE u # t
    <3>1. SensorsOf(u)' = SensorsOf(u)
      BY <2>3, JoinEffect DEF SensorsOf
    <3> QED
      BY <2>1, <2>3, <3>1, JoinEffect
  <2> QED
    BY <2>2, <2>3
<1> QED
  BY <1>1, HistoryIsComplete DEF CountInv, FiniteInv, HistoryComplete, Seen, Length

LEMMA NextCount ==
  ASSUME WorkInv, CountInv, [Next]_vars
  PROVE  CountInv'
<1>1. CASE UNCHANGED <<assoc, history>>
  BY <1>1 DEF CountInv, FiniteInv, HistoryComplete, AssocOf, SensorsOf, Length
<1>2. CASE \E w \in Worker : Associate(w)
  <2>1. PICK w \in Worker, d \in Detection, t \in Track, row \in TrackRow, s \in {"NEW", "ACTIVE"},
             raised \in SUBSET (Track \X AlertType) :
          /\ raised \in SUBSET ({t} \X AlertType)
          /\ d = job[w].det /\ s = job[w].new.state /\ Record(w, t, row, raised) /\ assoc[d] = None
    <3>1. PICK w \in Worker : Associate(w)
      BY <1>2
    <3>2. PICK d \in Detection, t \in Track, row \in TrackRow, s \in {"NEW", "ACTIVE"},
              new \in TrackRow, old \in TrackRow :
            LET raised == Raised(t, DetectionAlerts(old.state, new, d)) IN
            /\ d = job[w].det /\ new = job[w].new /\ s = new.state
            /\ Record(w, t, row, raised) /\ raised \in SUBSET ({t} \X AlertType)
            /\ assoc[d] = None
      BY <3>1, Associates
    <3> QED
      BY <3>2
  <2> QED
    BY <2>1, JoinCount
<1>3. CASE \E w \in Worker : Founds(w)
  <2>1. PICK w \in Worker, d \in Detection, row \in TrackRow, raised \in SUBSET (Track \X AlertType) :
          /\ raised \in SUBSET ({d} \X AlertType)
          /\ d = job[w].det /\ row = job[w].new /\ row.state = "NEW"
          /\ Record(w, d, row, raised) /\ assoc[d] = None
    <3>1. PICK w \in Worker : Founds(w)
      BY <1>3
    <3>2. PICK d \in Detection, row \in TrackRow :
            LET raised == Raised(d, DetectionAlerts(None, row, d)) IN
            /\ d = job[w].det /\ row = job[w].new /\ row.state = "NEW"
            /\ Record(w, d, row, raised) /\ raised \in SUBSET ({d} \X AlertType)
            /\ assoc[d] = None
      BY <3>1, FoundsTrack
    <3>3. {d} \X AlertType \subseteq Track \X AlertType
      BY DEF Track
    <3> QED
      BY <3>1, <3>2, <3>3
  <2>2. d \in Track /\ "NEW" \in {"NEW", "ACTIVE"} /\ "NEW" = job[w].new.state
    BY <2>1 DEF Track
  <2> QED
    BY <2>1, <2>2, JoinCount
<1>4. CASE \E w \in Worker : LeaveLimbo(w)
  BY <1>1, <1>4 DEF LeaveLimbo
<1>5. CASE Moves
  <2>1. \A t \in Track : AssocOf(t)' = AssocOf(t) /\ SensorsOf(t)' = SensorsOf(t)
    BY <1>5, MovesEffect DEF AssocOf, SensorsOf
  <2>2. ASSUME NEW t \in Track
        PROVE  Cardinality(Seen(history'[t])) = Cardinality(Seen(history[t]))
    <3>1. CASE t \in Moved
      <4>1. PICK s \in {"STALE", "LOST", "ARCHIVED"} : history'[t] = Append(history[t], s)
        BY <1>5, <3>1, MovesEffect
      <4>2. s \in State /\ s \notin {"NEW", "ACTIVE"}
        BY DEF State
      <4> QED
        BY <4>1, <4>2, SeenAppend DEF WorkInv, TypeOK
    <3>2. CASE t \notin Moved
      BY <1>5, <3>2, MovesEffect
    <3> QED
      BY <3>1, <3>2
  <2> QED
    BY <2>1, <2>2, HistoryIsComplete DEF CountInv, FiniteInv, HistoryComplete, Seen, Length
<1> QED
  BY <1>1, <1>2, <1>3, <1>4, <1>5, TableSteps DEF tables

LEMMA InitCount == Init => CountInv
<1> SUFFICES ASSUME Init PROVE CountInv
  OBVIOUS
<1>1. ASSUME NEW t \in Track
      PROVE  AssocOf(t) = {} /\ SensorsOf(t) = {} /\ Seen(history[t]) = {}
  <2>1. AssocOf(t) = {}
    BY Constants DEF Init, AssocOf, Track
  <2>2. history[t] = <<>>
    BY DEF Init
  <2> QED
    BY <2>1, <2>2 DEF SensorsOf, Seen
<1> QED
  BY <1>1, FS_EmptySet, HistoryIsComplete DEF CountInv, FiniteInv

(* The history of a track has one NEW or ACTIVE entry for each detection   *)
(* associated with it, whichever requests were rolled back, lost their     *)
(* sequence number or returned DUPLICATE (tracking/service.py:388-432).    *)
THEOREM HistoryIsKept == Spec => []HistoryComplete
<1>1. CountInv => HistoryComplete
  BY DEF CountInv
<1> QED
  BY InitWork, NextWork, InitCount, NextCount, <1>1, PTL DEF Spec

-----------------------------------------------------------------------------
(* The row of a track and its history.                                     *)

LEMMA LastOfAppend ==
  ASSUME NEW h \in Seq(State), NEW s \in State
  PROVE  /\ Len(Append(h, s)) = Len(h) + 1 /\ Append(h, s)[Len(Append(h, s))] = s
         /\ (\E i \in 1 .. Len(Append(h, s)) : Append(h, s)[i] = "ACTIVE")
              <=> s = "ACTIVE" \/ (\E i \in 1 .. Len(h) : h[i] = "ACTIVE")
<1>1. /\ Append(h, s) \in Seq(State) /\ Len(Append(h, s)) = Len(h) + 1 /\ Len(h) \in Nat
      /\ Append(h, s)[Len(h) + 1] = s /\ \A i \in 1 .. Len(h) : Append(h, s)[i] = h[i]
  OBVIOUS
<1>2. 1 .. Len(h) + 1 = (1 .. Len(h)) \union {Len(h) + 1}
  BY <1>1
<1> QED
  BY <1>1, <1>2

LEMMA UpdateRow ==
  ASSUME WorkInv, CountInv, RowMatchesHistory, NEW w \in Worker, Associate(w)
  PROVE  RowMatchesHistory'
<1>1. PICK d \in Detection, t \in Track, row \in TrackRow, s \in {"NEW", "ACTIVE"},
            new \in TrackRow, old \in TrackRow :
           LET raised == Raised(t, DetectionAlerts(old.state, new, d)) IN
           /\ d = job[w].det /\ new = job[w].new /\ s = new.state
           /\ old = track[t] => row = new
           /\ Record(w, t, row, raised) /\ raised \in SUBSET ({t} \X AlertType)
           /\ assoc[d] = None /\ Exists(t)
           /\ new.sources = Sources(d, old, t)
           /\ stale' = IF old = track[t] THEN stale ELSE stale \union {t}
  BY Associates
<1>2. PICK raised \in SUBSET ({t} \X AlertType) : Record(w, t, row, raised)
  BY <1>1
<1>3. /\ AssocOf(t)' = AssocOf(t) \union {d} /\ SensorsOf(t)' = SensorsOf(t) \union {SensorOf[d]}
      /\ track'[t] = row /\ history[t] \in Seq(State) /\ history'[t] = Append(history[t], s)
      /\ \A u \in Track : u # t => AssocOf(u)' = AssocOf(u) /\ track'[u] = track[u]
                                   /\ history'[u] = history[u]
  BY <1>1, <1>2, JoinEffect
<1>4. ASSUME NEW u \in Track, u # t, Exists(u)', u \notin stale'
      PROVE  track'[u].state = history'[u][Length(u)'] /\ track'[u].sources = Cardinality(SensorsOf(u)')
  <2>1. Exists(u) /\ u \notin stale /\ SensorsOf(u)' = SensorsOf(u) /\ Length(u)' = Length(u)
    BY <1>1, <1>3, <1>4 DEF Exists, SensorsOf, Length
  <2> QED
    BY <1>3, <1>4, <2>1 DEF RowMatchesHistory
<1>5. ASSUME t \notin stale'
      PROVE  track'[t].state = history'[t][Length(t)'] /\ track'[t].sources = Cardinality(SensorsOf(t)')
  <2>1. old = track[t] /\ t \notin stale /\ row = new
    BY <1>1, <1>5
  <2>2. old.sources = Cardinality(SensorsOf(t)) /\ IsFiniteSet(SensorsOf(t))
    BY <1>1, <2>1 DEF RowMatchesHistory, CountInv, FiniteInv
  <2>3. Cardinality(SensorsOf(t) \union {SensorOf[d]}) = new.sources
    <3>1. Cardinality(SensorsOf(t) \union {SensorOf[d]})
            = IF SensorOf[d] \in SensorsOf(t) THEN Cardinality(SensorsOf(t))
              ELSE Cardinality(SensorsOf(t)) + 1
      BY <2>2, FS_AddElement
    <3>2. new.sources = IF SensorOf[d] \in SensorsOf(t) THEN old.sources ELSE old.sources + 1
      BY <1>1 DEF Sources
    <3> QED
      BY <2>2, <3>1, <3>2
  <2>4. s \in State
    BY DEF State
  <2>5. history'[t][Length(t)'] = s
    BY <1>3, <2>4, LastOfAppend DEF Length
  <2> QED
    BY <1>1, <1>3, <2>1, <2>3, <2>5
<1> QED
  BY <1>4, <1>5 DEF RowMatchesHistory

LEMMA FoundRow ==
  ASSUME WorkInv, RowMatchesHistory, NEW w \in Worker, Founds(w)
  PROVE  RowMatchesHistory'
<1>1. PICK d \in Detection, row \in TrackRow :
           LET raised == Raised(d, DetectionAlerts(None, row, d)) IN
           /\ d = job[w].det /\ row = job[w].new /\ row.state = "NEW" /\ row.sources = 1
           /\ Record(w, d, row, raised) /\ raised \in SUBSET ({d} \X AlertType)
           /\ assoc[d] = None /\ AssocOf(d) = {} /\ stale' = stale
  BY FoundsTrack
<1>2. PICK raised \in SUBSET ({d} \X AlertType) : Record(w, d, row, raised)
  BY <1>1
<1>3. "NEW" \in {"NEW", "ACTIVE"} /\ "NEW" = job[w].new.state /\ d \in Track /\ "NEW" \in State
  BY <1>1 DEF Track, State
<1>4. /\ SensorsOf(d)' = SensorsOf(d) \union {SensorOf[d]}
      /\ track'[d] = row /\ history[d] \in Seq(State) /\ history'[d] = Append(history[d], "NEW")
      /\ \A u \in Track : u # d => AssocOf(u)' = AssocOf(u) /\ track'[u] = track[u]
                                   /\ history'[u] = history[u]
  BY <1>1, <1>2, <1>3, JoinEffect
<1>5. ASSUME NEW u \in Track, u # d, Exists(u)', u \notin stale'
      PROVE  track'[u].state = history'[u][Length(u)'] /\ track'[u].sources = Cardinality(SensorsOf(u)')
  <2>1. Exists(u) /\ u \notin stale /\ SensorsOf(u)' = SensorsOf(u) /\ Length(u)' = Length(u)
    BY <1>1, <1>4, <1>5 DEF Exists, SensorsOf, Length
  <2> QED
    BY <1>4, <1>5, <2>1 DEF RowMatchesHistory
<1>6. track'[d].state = history'[d][Length(d)']
  BY <1>1, <1>3, <1>4, LastOfAppend DEF Length
<1>7. track'[d].sources = Cardinality(SensorsOf(d)')
  <2>1. SensorsOf(d) = {}
    BY <1>1 DEF SensorsOf
  <2>2. Cardinality({SensorOf[d]}) = 1
    BY FS_Singleton
  <2>3. SensorsOf(d)' = {SensorOf[d]}
    BY <1>4, <2>1
  <2> QED
    BY <1>1, <1>4, <2>2, <2>3
<1> QED
  BY <1>5, <1>6, <1>7 DEF RowMatchesHistory

LEMMA MoveRow ==
  ASSUME WorkInv, RowMatchesHistory, Moves
  PROVE  RowMatchesHistory'
<1>1. ASSUME NEW t \in Track, t \notin stale, Exists(t)'
      PROVE  track'[t].state = history'[t][Length(t)'] /\ track'[t].sources = Cardinality(SensorsOf(t)')
  <2>1. SensorsOf(t)' = SensorsOf(t)
    BY MovesEffect DEF SensorsOf, AssocOf
  <2>2. CASE t \in Moved
    <3>1. PICK s \in State : /\ track'[t] = [track[t] EXCEPT !.state = s]
                             /\ history'[t] = Append(history[t], s) /\ Exists(t)
      BY <2>2, MovesEffect DEF State
    <3>2. track[t] \in TrackRow /\ history[t] \in Seq(State)
      BY DEF WorkInv, TypeOK
    <3>3. track'[t].state = s /\ track'[t].sources = track[t].sources
      BY <3>1, <3>2 DEF TrackRow
    <3>4. history'[t][Length(t)'] = s
      BY <3>1, <3>2, LastOfAppend DEF Length
    <3> QED
      BY <1>1, <2>1, <3>1, <3>3, <3>4 DEF RowMatchesHistory
  <2>3. CASE t \notin Moved
    BY <1>1, <2>1, <2>3, MovesEffect DEF RowMatchesHistory, Exists
  <2> QED
    BY <2>2, <2>3
<1>2. stale' = stale
  BY MovesEffect
<1> QED
  BY <1>1, <1>2 DEF RowMatchesHistory

LEMMA NextRow ==
  ASSUME WorkInv, CountInv, RowMatchesHistory, [Next]_vars
  PROVE  RowMatchesHistory'
<1>1. CASE UNCHANGED tables
  BY <1>1 DEF RowMatchesHistory, tables, Exists, Length, SensorsOf, AssocOf
<1>2. CASE \E w \in Worker : LeaveLimbo(w)
  <2>1. /\ UNCHANGED <<assoc, history>> /\ stale \subseteq stale'
        /\ \A t \in Track : track'[t] = track[t] \/ t \in stale'
    BY <1>2, LeaveLimboWork
  <2> QED
    BY <2>1 DEF RowMatchesHistory, Exists, Length, SensorsOf, AssocOf
<1> QED
  BY <1>1, <1>2, UpdateRow, FoundRow, MoveRow, TableSteps

(* The row of a track agrees with its history and the sensors of its       *)
(* associations unless it was written from an outdated row or by an UPDATE *)
(* whose savepoint was undone (tracking/service.py:332-352, 388-432).      *)
THEOREM RowsMatch == Spec => []RowMatchesHistory
<1>1. Init => RowMatchesHistory
  BY DEF Init, RowMatchesHistory, Exists, NoTrack
<1> QED
  BY InitWork, NextWork, InitCount, NextCount, NextRow, <1>1, PTL DEF Spec

-----------------------------------------------------------------------------
(* Alerts.                                                                 *)

AlertInv ==
  /\ ConfirmedFirst
  /\ AlertsFollowTrack

(* What the two say of one track.                                          *)
AlertsOK(t) ==
  /\ track[t].state \in State \ {"NEW"} => WasActive(t)
  /\ WasActive(t) => alerts[<<t, "TRACK_DETECTED">>] # None
  /\ track[t].state = "LOST" => alerts[<<t, "TRACK_LOST">>] = "OPEN"
  /\ track[t].state = "ARCHIVED" => \A y \in AlertType : alerts[<<t, y>>] # "OPEN"
  /\ threats[t] = TRUE /\ track[t].state \in {"NEW", "ACTIVE"}
       => alerts[<<t, "GEOFENCE_BREACH">>] = "OPEN"

LEMMA AlertsEach == AlertInv <=> \A t \in Track \ stale : AlertsOK(t)
BY DEF AlertInv, ConfirmedFirst, AlertsFollowTrack, AlertsOK, WasActive

LEMMA AlertsUntouched ==
  ASSUME NEW t \in Track, track'[t] = track[t], history'[t] = history[t], threats'[t] = threats[t],
         \A y \in AlertType : alerts'[<<t, y>>] = alerts[<<t, y>>], AlertsOK(t)
  PROVE  AlertsOK(t)'
<1>1. WasActive(t)' <=> WasActive(t)
  BY DEF WasActive, Length
<1>2. {"TRACK_DETECTED", "TRACK_LOST", "GEOFENCE_BREACH"} \subseteq AlertType
  BY DEF AlertType
<1> QED
  BY <1>1, <1>2 DEF AlertsOK

LEMMA UpdateAlerts ==
  ASSUME WorkInv, AlertInv, NEW w \in Worker, Associate(w)
  PROVE  AlertInv'
<1>1. PICK d \in Detection, t \in Track, row \in TrackRow, s \in {"NEW", "ACTIVE"},
            new \in TrackRow, old \in TrackRow :
           LET raised == Raised(t, DetectionAlerts(old.state, new, d)) IN
           /\ d = job[w].det /\ new = job[w].new /\ s = new.state
           /\ old.state \in Live
           /\ old = track[t] => row = new
           /\ Record(w, t, row, raised) /\ raised \in SUBSET ({t} \X AlertType)
           /\ assoc[d] = None
           /\ stale' = IF old = track[t] THEN stale ELSE stale \union {t}
  BY Associates
<1>2. PICK raised \in SUBSET ({t} \X AlertType) :
        Record(w, t, row, raised) /\ raised = Raised(t, DetectionAlerts(old.state, new, d))
  BY <1>1
<1>3. /\ track'[t] = row /\ threats'[t] = Assess(new)
      /\ history[t] \in Seq(State) /\ history'[t] = Append(history[t], s)
      /\ \A u \in Track : u # t =>
           /\ track'[u] = track[u] /\ history'[u] = history[u] /\ threats'[u] = threats[u]
           /\ \A y \in AlertType : alerts'[<<u, y>>] = alerts[<<u, y>>]
      /\ \A y \in AlertType : /\ <<t, y>> \in raised => alerts'[<<t, y>>] = "OPEN"
                              /\ alerts'[<<t, y>>] \in {"OPEN", alerts[<<t, y>>]}
  BY <1>1, <1>2, JoinEffect
<1>4. ASSUME NEW u \in Track, u # t, u \notin stale'
      PROVE  AlertsOK(u)'
  <2>1. u \notin stale
    BY <1>1, <1>4
  <2>2. AlertsOK(u)
    BY <2>1, AlertsEach
  <2> QED
    BY <1>3, <1>4, <2>2, AlertsUntouched
<1>5. ASSUME t \notin stale'
      PROVE  AlertsOK(t)'
  <2>1. old = track[t] /\ row = new /\ AlertsOK(t)
    BY <1>1, <1>5, AlertsEach
  <2>2. s \in State
    BY DEF State
  <2>3. WasActive(t)' <=> s = "ACTIVE" \/ WasActive(t)
    BY <1>3, <2>2, LastOfAppend DEF WasActive, Length
  <2>4. \A y \in AlertType : y \in DetectionAlerts(old.state, new, d) => alerts'[<<t, y>>] = "OPEN"
    BY <1>2, <1>3 DEF Raised
  <2>5. ASSUME WasActive(t)'
        PROVE  alerts'[<<t, "TRACK_DETECTED">>] # None
    <3>1. CASE WasActive(t)
      BY <1>3, <2>1, <3>1, Constants DEF AlertsOK, AlertType
    <3>2. CASE ~WasActive(t)
      <4>1. s = "ACTIVE" /\ old.state = "NEW"
        BY <1>1, <2>1, <2>3, <2>5, <3>2 DEF AlertsOK, Live, State
      <4>2. "TRACK_DETECTED" \in DetectionAlerts(old.state, new, d)
        BY <1>1, <4>1 DEF DetectionAlerts, AlertType
      <4> QED
        BY <2>4, <4>2, Constants DEF AlertType
    <3> QED
      BY <3>1, <3>2
  <2>6. ASSUME threats'[t] = TRUE
        PROVE  alerts'[<<t, "GEOFENCE_BREACH">>] = "OPEN"
    <3>1. Breaches(new) /\ new.state \notin {"LOST", "ARCHIVED"}
      BY <1>1, <1>3, <2>6 DEF Assess
    <3>2. "GEOFENCE_BREACH" \in DetectionAlerts(old.state, new, d)
      BY <3>1 DEF DetectionAlerts, AlertType
    <3> QED
      BY <2>4, <3>2 DEF AlertType
  <2>7. track'[t].state = s
    BY <1>1, <1>3, <2>1
  <2> QED
    BY <2>3, <2>5, <2>6, <2>7 DEF AlertsOK
<1> QED
  BY <1>4, <1>5, AlertsEach DEF AlertInv, ConfirmedFirst, AlertsFollowTrack, AlertsOK, WasActive

LEMMA FoundAlerts ==
  ASSUME WorkInv, AlertInv, NEW w \in Worker, Founds(w)
  PROVE  AlertInv'
<1>1. PICK d \in Detection, row \in TrackRow :
           LET raised == Raised(d, DetectionAlerts(None, row, d)) IN
           /\ d = job[w].det /\ row = job[w].new /\ row.state = "NEW"
           /\ Record(w, d, row, raised) /\ raised \in SUBSET ({d} \X AlertType)
           /\ assoc[d] = None /\ stale' = stale
  BY FoundsTrack
<1>2. PICK raised \in SUBSET ({d} \X AlertType) :
        Record(w, d, row, raised) /\ raised = Raised(d, DetectionAlerts(None, row, d))
  BY <1>1
<1>3. "NEW" \in {"NEW", "ACTIVE"} /\ "NEW" = job[w].new.state /\ d \in Track /\ "NEW" \in State
  BY <1>1 DEF Track, State
<1>4. /\ track'[d] = row /\ threats'[d] = Assess(row)
      /\ history[d] \in Seq(State) /\ history'[d] = Append(history[d], "NEW")
      /\ \A u \in Track : u # d =>
           /\ track'[u] = track[u] /\ history'[u] = history[u] /\ threats'[u] = threats[u]
           /\ \A y \in AlertType : alerts'[<<u, y>>] = alerts[<<u, y>>]
      /\ \A y \in AlertType : /\ <<d, y>> \in raised => alerts'[<<d, y>>] = "OPEN"
                              /\ alerts'[<<d, y>>] \in {"OPEN", alerts[<<d, y>>]}
  BY <1>1, <1>2, <1>3, JoinEffect
<1>5. ASSUME NEW u \in Track, u # d, u \notin stale
      PROVE  AlertsOK(u)'
  <2>1. AlertsOK(u)
    BY <1>5, AlertsEach
  <2> QED
    BY <1>4, <1>5, <2>1, AlertsUntouched
<1>6. ASSUME d \notin stale
      PROVE  AlertsOK(d)'
  <2>1. AlertsOK(d)
    BY <1>3, <1>6, AlertsEach
  <2>2. WasActive(d)' <=> WasActive(d)
    BY <1>3, <1>4, LastOfAppend DEF WasActive, Length
  <2>3. WasActive(d)' => alerts'[<<d, "TRACK_DETECTED">>] # None
    BY <1>4, <2>1, <2>2, Constants DEF AlertsOK, AlertType
  <2>4. ASSUME threats'[d] = TRUE
        PROVE  alerts'[<<d, "GEOFENCE_BREACH">>] = "OPEN"
    <3>1. "GEOFENCE_BREACH" \in DetectionAlerts(None, row, d)
      BY <1>1, <1>4, <2>4 DEF Assess, DetectionAlerts, AlertType
    <3> QED
      BY <1>2, <1>4, <3>1 DEF Raised, AlertType
  <2>5. track'[d].state = "NEW"
    BY <1>1, <1>4
  <2> QED
    BY <2>3, <2>4, <2>5 DEF AlertsOK
<1> QED
  BY <1>1, <1>5, <1>6, AlertsEach, ZenonT(30) DEF AlertInv, ConfirmedFirst, AlertsFollowTrack, AlertsOK, WasActive

LEMMA MoveAlerts ==
  ASSUME WorkInv, AlertInv, Moves
  PROVE  AlertInv'
<1>1. /\ threats' = [t \in Track |-> IF t \in MovedTo("STALE") THEN Assess(track[t])
                                     ELSE threats[t]]
      /\ \A a \in Track \X AlertType :
           alerts'[a] = CASE a[1] \in MovedTo("LOST") /\ a[2] = "TRACK_LOST" -> "OPEN"
                          [] a[1] \in MovedTo("ARCHIVED") -> Resolved(a)
                          [] OTHER -> alerts[a]
  BY DEF Moves, Transition
<1>2. ASSUME NEW t \in Track, NEW y \in AlertType
      PROVE  /\ alerts[<<t, y>>] \in {None, "OPEN", "RESOLVED"}
             /\ alerts'[<<t, y>>] = CASE sweep[t].to = "LOST" /\ y = "TRACK_LOST" -> "OPEN"
                                      [] sweep[t].to = "ARCHIVED" -> Resolved(<<t, y>>)
                                      [] OTHER -> alerts[<<t, y>>]
  <2>1. <<t, y>> \in Track \X AlertType /\ <<t, y>>[1] = t /\ <<t, y>>[2] = y
    OBVIOUS
  <2> QED
    BY <1>1, <2>1 DEF MovedTo, WorkInv, TypeOK
<1>3. ASSUME NEW t \in Track, t \notin stale
      PROVE  AlertsOK(t)'
  <2>1. AlertsOK(t)
    BY <1>3, AlertsEach
  <2>2. CASE t \in Moved
    <3>1. PICK s \in {"STALE", "LOST", "ARCHIVED"} :
            /\ s = sweep[t].to /\ track[t].state = From(s)
            /\ track'[t] = [track[t] EXCEPT !.state = s] /\ history'[t] = Append(history[t], s)
      BY <1>3, <2>2, MovesEffect
    <3>2. track[t] \in TrackRow /\ history[t] \in Seq(State) /\ s \in State
      BY DEF WorkInv, TypeOK, State
    <3>3. track'[t].state = s
      BY <3>1, <3>2 DEF TrackRow
    <3>4. WasActive(t)' <=> WasActive(t)
      BY <3>1, <3>2, LastOfAppend DEF WasActive, Length
    <3>5. WasActive(t)
      BY <2>1, <3>1 DEF AlertsOK, From, State
    <3>6. alerts'[<<t, "TRACK_DETECTED">>] # None
      BY <1>2, <2>1, <3>5, Constants DEF AlertsOK, AlertType, Resolved
    <3>7. s = "LOST" => alerts'[<<t, "TRACK_LOST">>] = "OPEN"
      BY <1>2, <3>1 DEF AlertType
    <3>8. s = "ARCHIVED" => \A y \in AlertType : alerts'[<<t, y>>] # "OPEN"
      BY <1>2, <3>1 DEF Resolved
    <3> QED
      BY <3>3, <3>4, <3>5, <3>6, <3>7, <3>8 DEF AlertsOK
  <2>3. CASE t \notin Moved
    <3>1. sweep[t].to = None /\ t \notin MovedTo("STALE")
      BY <2>3, Constants DEF Moved, MovedTo, State
    <3>2. \A y \in AlertType : alerts'[<<t, y>>] = alerts[<<t, y>>]
      BY <1>2, <3>1, Constants DEF State
    <3>3. threats'[t] = threats[t]
      BY <1>1, <3>1
    <3> QED
      BY <2>1, <2>3, <3>2, <3>3, MovesEffect, AlertsUntouched
  <2> QED
    BY <2>2, <2>3
<1>4. stale' = stale
  BY MovesEffect
<1> QED
  BY <1>3, <1>4, AlertsEach DEF AlertInv, ConfirmedFirst, AlertsFollowTrack, AlertsOK, WasActive

LEMMA NextAlerts ==
  ASSUME WorkInv, AlertInv, [Next]_vars
  PROVE  AlertInv'
<1>1. CASE UNCHANGED tables
  BY <1>1 DEF AlertInv, ConfirmedFirst, AlertsFollowTrack, WasActive, Length, tables
<1>2. CASE \E w \in Worker : LeaveLimbo(w)
  <2>1. /\ UNCHANGED <<history, threats, alerts>> /\ stale \subseteq stale'
        /\ \A t \in Track : track'[t] = track[t] \/ t \in stale'
    BY <1>2, LeaveLimboWork
  <2> QED
    BY <2>1 DEF AlertInv, ConfirmedFirst, AlertsFollowTrack, WasActive, Length
<1> QED
  BY <1>1, <1>2, UpdateAlerts, FoundAlerts, MoveAlerts, TableSteps

LEMMA InitAlerts == Init => AlertInv
<1> SUFFICES ASSUME Init PROVE AlertInv
  OBVIOUS
<1>1. ASSUME NEW t \in Track
      PROVE  track[t].state = None /\ ~WasActive(t) /\ threats[t] = None
  <2>1. history[t] = <<>>
    BY DEF Init
  <2> QED
    BY <2>1 DEF Init, NoTrack, WasActive, Length
<1> QED
  BY <1>1, Constants DEF AlertInv, ConfirmedFirst, AlertsFollowTrack, WasActive, State

(* A confirmation was alerted, a lost track has its alert open, an archived *)
(* one has none open, and a breach in the assessment of a live track is an *)
(* open alert, for every track whose row no outdated request overwrote     *)
(* (tracking/service.py:446-470, tracking/lifecycle.py:107-116).           *)
THEOREM AlertsKeepUp == Spec => []AlertsFollowTrack
<1>1. AlertInv => AlertsFollowTrack
  BY DEF AlertInv
<1> QED
  BY InitWork, NextWork, InitAlerts, NextAlerts, <1>1, PTL DEF Spec

-----------------------------------------------------------------------------
(* No revival.                                                             *)

Lost == {"LOST", "ARCHIVED"}
NoStepRevives ==
  /\ \A t \in Track : track[t].state \in Lost /\ track'[t].state \notin Lost => t \in stale'
  /\ \A d \in Detection : assoc[d] # None => assoc'[d] = assoc[d]

LEMMA NextRevives ==
  ASSUME WorkInv, [Next]_vars
  PROVE  NoStepRevives
<1>1. CASE UNCHANGED tables
  BY <1>1 DEF NoStepRevives, tables
<1>2. CASE \E w \in Worker : LeaveLimbo(w)
  BY <1>2, LeaveLimboWork DEF NoStepRevives
<1>3. ASSUME NEW w \in Worker, Associate(w)
      PROVE  NoStepRevives
  <2>1. PICK d \in Detection, t \in Track, row \in TrackRow, s \in {"NEW", "ACTIVE"},
            new \in TrackRow, old \in TrackRow :
           LET raised == Raised(t, DetectionAlerts(old.state, new, d)) IN
           /\ d = job[w].det /\ new = job[w].new /\ s = new.state /\ old.state \in Live
           /\ Record(w, t, row, raised) /\ raised \in SUBSET ({t} \X AlertType)
           /\ assoc[d] = None
           /\ stale' = IF old = track[t] THEN stale ELSE stale \union {t}
    BY <1>3, Associates
  <2>2. /\ \A e \in Detection : e # d => assoc'[e] = assoc[e]
        /\ \A u \in Track : u # t => track'[u] = track[u]
    BY <2>1, JoinEffect
  <2>3. t \in stale' \/ track[t].state \in Live
    BY <2>1
  <2> QED
    BY <2>1, <2>2, <2>3 DEF NoStepRevives, Live, Lost
<1>4. ASSUME NEW w \in Worker, Founds(w)
      PROVE  NoStepRevives
  <2>1. PICK d \in Detection, row \in TrackRow :
           LET raised == Raised(d, DetectionAlerts(None, row, d)) IN
           /\ d = job[w].det /\ row = job[w].new /\ row.state = "NEW"
           /\ Record(w, d, row, raised) /\ raised \in SUBSET ({d} \X AlertType)
           /\ assoc[d] = None /\ ~Exists(d)
    BY <1>4, FoundsTrack
  <2>2. "NEW" \in {"NEW", "ACTIVE"} /\ "NEW" = job[w].new.state /\ d \in Track
    BY <2>1 DEF Track
  <2>3. /\ \A e \in Detection : e # d => assoc'[e] = assoc[e]
        /\ \A u \in Track : u # d => track'[u] = track[u]
    BY <2>1, <2>2, JoinEffect
  <2> QED
    BY <2>1, <2>3, Constants DEF NoStepRevives, Exists, Lost, State
<1>5. CASE Moves
  <2>1. ASSUME NEW t \in Track, t \notin stale, track[t].state \in Lost, track'[t].state \notin Lost
        PROVE  FALSE
    <3>1. t \in Moved
      BY <1>5, <2>1, MovesEffect
    <3>2. PICK s \in {"STALE", "LOST", "ARCHIVED"} :
            track[t].state = From(s) /\ track'[t] = [track[t] EXCEPT !.state = s]
      BY <1>5, <2>1, <3>1, MovesEffect
    <3>3. track[t] \in TrackRow
      BY DEF WorkInv, TypeOK
    <3>4. track'[t].state = s
      BY <3>2, <3>3 DEF TrackRow
    <3> QED
      BY <2>1, <3>2, <3>4 DEF From, Lost
  <2>2. UNCHANGED <<assoc, stale>>
    BY <1>5, MovesEffect
  <2> QED
    BY <2>1, <2>2 DEF NoStepRevives
<1> QED
  BY <1>1, <1>2, <1>3, <1>4, <1>5, TableSteps

(* A lost or archived track comes back only through a request that had     *)
(* read it before, and a detection never changes its track                 *)
(* (tracking/service.py:46-58, 385).                                       *)
THEOREM NothingRevives == Spec => NoRevival
<1>1. WorkInv /\ [Next]_vars => [NoStepRevives]_vars
  BY NextRevives
<1>2. [][NoStepRevives]_vars <=> NoRevival
  BY DEF NoStepRevives, NoRevival, Lost
<1> QED
  BY InitWork, NextWork, <1>1, <1>2, PTL DEF Spec

=============================================================================
