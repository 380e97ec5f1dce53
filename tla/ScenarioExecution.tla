------------------------- MODULE ScenarioExecution -------------------------
(* One scenario, its row, its execution session and the requests that      *)
(* drive it.                                                               *)
(*                                                                         *)
(* The routes of scenarios.py run in the thread pool and share the         *)
(* class-level registry of sessions; nothing locks a session, its clock or *)
(* its engine.  A request is therefore a short program: it reads the row,  *)
(* obtains the session, changes the session and commits the row, and other *)
(* requests act between its steps.  A session, unlike the row and the      *)
(* observations, is lost when the process restarts.                        *)
EXTENDS Integers, Sequences, FiniteSets

CONSTANTS
    Requests,    \* requests in flight (threads of the pool)
    OpsOf,       \* bound: the operations each of them may perform
    NoRequest,   \* no session is registered
    Puts,        \* bound: the statuses an edit of the row writes
    Batches,     \* bound: the numbers of ticks a step is asked for
    Duration,    \* duration_seconds, in ticks of the clock
    MaxTick,     \* bound: ticks the clock executes between two resets
    MaxEdits     \* bound: restarts and edits of the row or the sensor

VARIABLES
    scenario,    \* Scenario.status, or "deleted"
    sensor,      \* status of the synthetic sensor's row
    stored,      \* ticks whose observation is in the detections table
    registry,    \* ScenarioExecutionService._sessions: whose session it holds
    session,     \* the ScenarioExecutionSession each request created, if any
    req,         \* the requests
    seen,        \* ticks in which the seed lets the sensor observe the target
    edits,       \* restarts and edits so far
    raced        \* history: a request acted on a scenario changed under it,
                 \* or the row was edited

vars == <<scenario, sensor, stored, registry, session, req, seen, edits, raced>>

Statuses == {"DRAFT", "READY", "RUNNING", "COMPLETED", "FAILED"}
Ops == {"prepare", "start", "pause", "resume", "stop", "reset", "step"}
Ticks == 1..MaxTick

(* pending is the number of generated detections minus the processed ones.  *)
FreshSession == [paused |-> FALSE, stopped |-> FALSE, halted |-> FALSE,
                 tick |-> 0, pending |-> 0, error |-> FALSE]
Session == [paused : BOOLEAN, stopped : BOOLEAN, error : BOOLEAN,
            halted : BOOLEAN, 
            tick : 0..MaxTick, pending : Int]
Idle == [op |-> "none", pc |-> "idle", was |-> "unread", of |-> NoRequest,
         left |-> 0, out |-> <<>>, met |-> FALSE]

Init ==
    /\ scenario = "READY"
    /\ sensor = "absent"
    /\ stored = {}
    /\ registry = NoRequest
    /\ session = [r \in Requests |-> FreshSession]
    /\ req = [r \in Requests |-> Idle]
    /\ seen \in {Ticks, Ticks \ {1}}
    /\ edits = 0
    /\ raced = FALSE

-----------------------------------------------------------------------------
(* What the steps share *)

(* Request r, if any, changes something and goes on as rec; every other    *)
(* request in flight has now met a change.                                 *)
Met(rs, rec, race) ==
    [x \in Requests |->
        IF x \in rs THEN [rec EXCEPT !.met = FALSE]
        ELSE IF req[x].pc = "idle" THEN Idle ELSE [req[x] EXCEPT !.met = ~race]]

Acts(r, rec) ==
    /\ raced' = (raced \/ req[r].met)
    /\ req' = Met({r}, rec, raced')

(* The value the row gets: an attribute set to the value that was loaded   *)
(* is not part of the UPDATE.                                              *)
Written(r, status) == IF req[r].was = status THEN scenario ELSE status

(* The status guards of the operations. *)
Allowed(op, status) ==
    CASE op = "prepare" -> status \in {"DRAFT", "READY"}
      [] op \in {"start", "step"} -> status \notin {"DRAFT", "COMPLETED"}
      [] op = "pause" -> status = "RUNNING"
      [] OTHER -> TRUE

Current(r) == session[req[r].of]

-----------------------------------------------------------------------------
(* The steps of a request *)

(* A request arrives and loads the row. *)
Arrive(r, op, ticks) ==
    /\ req[r].pc = "idle"
    /\ scenario # "deleted"
    /\ Allowed(op, scenario)
    /\ req' = [req EXCEPT ![r] = [Idle EXCEPT !.op = op, !.pc = "session",
                                     !.was = scenario, !.left = ticks]]
    /\ UNCHANGED <<scenario, sensor, stored, registry, session, seen, edits, raced>>

(* The session is taken from the registry or created; the sensors are      *)
(* registered, with a commit of its own after which the row is loaded      *)
(* again, when it is created and by every prepare.                         *)
TakeSession(r) ==
    /\ req[r].pc = "session"
    /\ scenario # "deleted"
    /\ LET create == registry = NoRequest
           reload == create \/ req[r].op = "prepare"
           of == IF create THEN r ELSE registry
           refused == /\ req[r].op \in {"start", "resume", "step"}
                      /\ ~create
                      /\ session[of].stopped
           rec == [req[r] EXCEPT !.of = of, !.pc = "act",
                                 !.was = IF reload THEN scenario ELSE @]
       IN /\ registry' = of
          /\ session' = IF create THEN [session EXCEPT ![r] = FreshSession] ELSE session
          /\ sensor' = IF reload THEN "ACTIVE" ELSE sensor
          /\ IF create \/ sensor # sensor'
             THEN Acts(r, rec)
             ELSE /\ req' = [req EXCEPT ![r] = IF refused THEN Idle ELSE rec]
                  /\ raced' = raced
    /\ UNCHANGED <<scenario, stored, seen, edits>>

(* The part of an operation that changes the session.  halted is the stop  *)
(* flag of the clock; its pause flag is read by nobody and is left out.    *)
SessionAfter(op, s) ==
    CASE op \in {"prepare", "reset"} -> FreshSession
      [] op = "start" -> [s EXCEPT !.paused = FALSE, !.stopped = FALSE]
      [] op = "pause" -> [s EXCEPT !.paused = TRUE]
      [] op = "resume" -> [s EXCEPT !.paused = FALSE]
      [] op = "stop" -> [s EXCEPT !.stopped = TRUE, !.paused = FALSE, !.halted = TRUE]

(* The part that changes the row. *)
StatusAfter(op) == IF op \in {"start", "resume"} THEN "RUNNING" ELSE "READY"

(* start commits the row before it changes the session. *)
First(op) == IF op = "start" THEN "row" ELSE "session"

ChangeSession(r) ==
    LET op == req[r].op
        last == op = "pause" \/ First(op) = "row"
    IN /\ op # "step"
       /\ req[r].pc = IF First(op) = "session" THEN "act" ELSE "second"
       /\ ~ (op = "resume" /\ Current(r).halted)
       /\ session' = [session EXCEPT ![req[r].of] = SessionAfter(op, @)]
       /\ Acts(r, IF last THEN Idle ELSE [req[r] EXCEPT !.pc = "second"])
       /\ UNCHANGED <<scenario, sensor, stored, registry, seen, edits>>

(* resume clears the pause flag, and then the clock refuses: the route     *)
(* answers with an error and the row is not written.                       *)
RefusedResume(r) ==
    /\ req[r].op = "resume"
    /\ req[r].pc = "act"
    /\ Current(r).halted
    /\ session' = [session EXCEPT ![req[r].of].paused = FALSE]
    /\ Acts(r, Idle)
    /\ UNCHANGED <<scenario, sensor, stored, registry, seen, edits>>

CommitRow(r) ==
    LET op == req[r].op
    IN /\ op \notin {"pause", "step"}
       /\ req[r].pc = IF First(op) = "row" THEN "act" ELSE "second"
       /\ scenario # "deleted"
       /\ scenario' = Written(r, StatusAfter(op))
       /\ Acts(r, IF First(op) = "row" THEN [req[r] EXCEPT !.pc = "second"] ELSE Idle)
       /\ UNCHANGED <<sensor, stored, registry, session, seen, edits>>

(* step: a READY scenario runs from here on. *)
BeginStep(r) ==
    /\ req[r].op = "step"
    /\ req[r].pc = "act"
    /\ scenario # "deleted"
    /\ IF req[r].was = "READY"
       THEN /\ scenario' = "RUNNING"
            /\ Acts(r, [req[r] EXCEPT !.pc = "tick", !.was = "unread"])
       ELSE /\ req' = [req EXCEPT ![r].pc = "tick"]
            /\ UNCHANGED <<scenario, raced>>
    /\ UNCHANGED <<sensor, stored, registry, session, seen, edits>>

(* SimulationEngine.step, one tick of it: the clock advances even when it  *)
(* is paused, and the sensor observes the target or not.                   *)
Tick(r) ==
    LET s == Current(r)
        n == s.tick + 1
        hit == IF n \in seen THEN 1 ELSE 0
    IN /\ req[r].pc = "tick"
       /\ req[r].left > 0
       /\ ~s.halted
       /\ n <= MaxTick
       /\ session' = [session EXCEPT ![req[r].of].tick = n,
                                     ![req[r].of].pending = @ + hit]
       /\ Acts(r, [req[r] EXCEPT !.left = @ - 1,
                                 !.out = IF n \in seen THEN Append(@, n) ELSE @])
       /\ UNCHANGED <<scenario, sensor, stored, registry, seen, edits>>

(* The next observation of the batch is ingested and processed; one that   *)
(* is in the table already is the same row again.                          *)
Ingest(r) ==
    /\ req[r].pc = "tick"
    /\ req[r].left = 0
    /\ req[r].out # <<>>
    /\ sensor # "DISABLED"
    /\ stored' = stored \union {Head(req[r].out)}
    /\ session' = [session EXCEPT ![req[r].of].pending = @ - 1]
    /\ Acts(r, [req[r] EXCEPT !.out = Tail(@), !.was = "unread"])
    /\ UNCHANGED <<scenario, sensor, registry, seen, edits>>

(* The batch is done: the scenario is over when the clock has reached its  *)
(* duration, which is read before the row is committed.                    *)
Evaluate(r) ==
    /\ req[r].pc = "tick"
    /\ req[r].left = 0
    /\ req[r].out = <<>>
    /\ req' = [req EXCEPT ![r] = IF Current(r).tick >= Duration
                                 THEN [@ EXCEPT !.pc = "complete"] ELSE Idle]
    /\ UNCHANGED <<scenario, sensor, stored, registry, session, seen, edits, raced>>

Complete(r) ==
    /\ req[r].pc = "complete"
    /\ scenario # "deleted"
    /\ scenario' = "COMPLETED"
    /\ Acts(r, Idle)
    /\ UNCHANGED <<sensor, stored, registry, session, seen, edits>>

(* Mutant: the handler answers the error without noting it. *)
FailSilently(s) == s

(* The exception handler of step: a stopped clock, a disabled sensor or    *)
(* any other error.  What the batch still held is dropped.                 *)
FailedSession(s) == [s EXCEPT !.error = TRUE]
FailStep(r) ==
    /\ req[r].pc = "tick"
    /\ \/ req[r].left > 0 /\ Current(r).halted
       \/ req[r].left = 0 /\ req[r].out # <<>> /\ sensor = "DISABLED"
    /\ session' = [session EXCEPT ![req[r].of] = FailedSession(@)]
    /\ Acts(r, [req[r] EXCEPT !.pc = "failed", !.left = 0, !.out = <<>>])
    /\ UNCHANGED <<scenario, sensor, stored, registry, seen, edits>>

CommitFailed(r) ==
    /\ req[r].pc = "failed"
    /\ scenario # "deleted"
    /\ scenario' = Written(r, "FAILED")
    /\ Acts(r, Idle)
    /\ UNCHANGED <<sensor, stored, registry, session, seen, edits>>

(* The row of a deleted scenario cannot be loaded or updated: the request  *)
(* ends with an error.  A step fails with its batch.                       *)
RowGone(r) ==
    /\ scenario = "deleted"
    /\ req[r].pc \in {"session", "act", "second", "complete", "failed"}
    /\ req[r].pc = "second" => First(req[r].op) = "session"
    /\ req' = [req EXCEPT ![r] = Idle]
    /\ UNCHANGED <<scenario, sensor, stored, registry, session, seen, edits, raced>>

-----------------------------------------------------------------------------
(* The surroundings *)

Edit ==
    /\ edits < MaxEdits
    /\ edits' = edits + 1

AllMet(race) == req' = Met({}, Idle, race)

(* PUT may write any status and does not look at the session. *)
UpdateScenario(status) ==
    /\ Edit
    /\ scenario \notin {"deleted", status}
    /\ scenario' = status
    /\ raced' = TRUE
    /\ AllMet(TRUE)
    /\ UNCHANGED <<sensor, stored, registry, session, seen>>

(* DELETE leaves the session in the registry. *)
DeleteScenario ==
    /\ Edit
    /\ scenario # "deleted"
    /\ scenario' = "deleted"
    /\ AllMet(raced)
    /\ UNCHANGED <<sensor, stored, registry, session, seen, raced>>

(* The sensor's own routes disable it. *)
DisableSensor ==
    /\ Edit
    /\ sensor = "ACTIVE"
    /\ sensor' = "DISABLED"
    /\ AllMet(raced)
    /\ UNCHANGED <<scenario, stored, registry, session, seen, raced>>

(* The process stops: sessions and requests are gone, rows remain. *)
Restart ==
    /\ Edit
    /\ registry' = NoRequest
    /\ session' = [r \in Requests |-> FreshSession]
    /\ req' = [r \in Requests |-> Idle]
    /\ raced' = FALSE
    /\ UNCHANGED <<scenario, sensor, stored, seen>>

Proceed(r) ==
    \/ TakeSession(r) \/ ChangeSession(r) \/ RefusedResume(r) \/ CommitRow(r)
    \/ BeginStep(r) \/ Tick(r) \/ Ingest(r) \/ Evaluate(r) \/ Complete(r)
    \/ FailStep(r) \/ CommitFailed(r) \/ RowGone(r)

Next ==
    \/ \E r \in Requests : \E op \in OpsOf[r] :
           \E n \in (IF op = "step" THEN Batches ELSE {0}) : Arrive(r, op, n)
    \/ \E r \in Requests : Proceed(r)
    \/ \E s \in Puts : UpdateScenario(s)
    \/ DeleteScenario \/ DisableSensor \/ Restart

Spec == Init /\ [][Next]_vars

-----------------------------------------------------------------------------
(* Properties *)

TypeOK ==
    /\ scenario \in Statuses \union {"deleted"}
    /\ sensor \in {"absent", "ACTIVE", "DISABLED"}
    /\ stored \subseteq seen
    /\ registry \in Requests \union {NoRequest}
    /\ session \in [Requests -> Session]
    /\ \A r \in Requests : /\ req[r].of \in Requests \union {NoRequest}
                           /\ req[r].left \in Nat
                           /\ req[r].out \in Seq(Ticks)

(* The observations a session has produced and no request still carries. *)
Delivered(o) ==
    {t \in Ticks : /\ t \in seen
                   /\ t <= session[o].tick
                   /\ \A r \in Requests : req[r].of = o => \A i \in DOMAIN req[r].out : req[r].out[i] # t}

(* A session that reports no error has lost no observation: each tick it   *)
(* counts is stored or still in the batch of a step, however requests      *)
(* overlap and whatever is reset meanwhile.                                *)
ObservationsKept ==
    \A o \in Requests : ~session[o].error => Delivered(o) \subseteq stored

AllIdle == \A r \in Requests : req[r].pc = "idle"

(* While requests do not overlap and nobody edits the row, what the        *)
(* operator sees when they are done is coherent: the stop flag and the     *)
(* clock agree, a session without error has processed everything it        *)
(* generated, a stopped scenario is READY, and one that has ticked is      *)
(* RUNNING or FAILED, or COMPLETED with its duration reached.              *)
SerialAgreement ==
    (~raced /\ AllIdle /\ registry # NoRequest /\ scenario # "deleted")
    => LET s == session[registry]
       IN /\ s.stopped = s.halted
          /\ ~s.error => s.pending = 0
          /\ s.stopped => scenario = "READY"
          /\ s.tick > 0 /\ ~s.stopped
             => \/ scenario \in {"RUNNING", "FAILED"}
                \/ scenario = "COMPLETED" /\ s.tick >= Duration

=============================================================================
