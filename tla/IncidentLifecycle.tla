-------------------------- MODULE IncidentLifecycle --------------------------
(***************************************************************************)
(* The incident service, backend/app/services/incident.py, as the routes   *)
(* of backend/app/api/v1/routes/incidents.py use it: each request has its  *)
(* own database session, and the synchronous routes run side by side on    *)
(* the threads of the server's pool.                                       *)
(*                                                                         *)
(* One incident is modelled; the rows of different incidents are           *)
(* independent.  The steps of a request are its database statements, under *)
(* READ COMMITTED: the SELECT of get_incident, the SELECT of _append_      *)
(* event, the flush (whose UPDATE locks the row until the transaction      *)
(* ends), the commit and, after it, the publication of the queued realtime *)
(* event.  The audit row is written by the same commit as the timeline     *)
(* event and is not modelled apart from it.  Severity and free text are    *)
(* left out.                                                               *)
(***************************************************************************)
EXTENDS Naturals, Sequences, FiniteSets

CONSTANTS
  Requests,     \* requests that may be made, each with its session
  Pool,         \* how many of them the server works on at a time
  Users,        \* who an incident can be assigned to
  None          \* NULL: no user, no status

Status == {"NEW", "ACKNOWLEDGED", "TRIAGED", "ESCALATED", "RESOLVED", "CLOSED"}

ASSUME IncidentAssumption ==
  /\ Pool \in Nat \ {0}
  /\ None \notin Users \union Status

VARIABLES
  status,       \* the committed row: None as long as there is no incident
  assigned_to,
  stamped,      \* the statuses whose ..._at timestamp is set
  timeline,     \* incident_events in the order in which they were committed
  published,    \* the realtime events, in the order of the bus
  rowLock,      \* the request whose open transaction has updated the row
  pc,
  event,        \* the timeline event each request is about to write
  loaded        \* the columns of the row as each request's session read them

row == <<status, assigned_to, stamped>>
requestVars == <<pc, event, loaded>>
vars == <<row, timeline, published, rowLock, requestVars>>

PC == {"new", "sequence", "flush", "commit", "publish", "done"}

(* VALID_INCIDENT_TRANSITIONS.                                             *)
Transitions ==
  {<<"NEW", "ACKNOWLEDGED">>,
   <<"ACKNOWLEDGED", "TRIAGED">>, <<"ACKNOWLEDGED", "RESOLVED">>,
   <<"TRIAGED", "ESCALATED">>, <<"TRIAGED", "RESOLVED">>,
   <<"ESCALATED", "TRIAGED">>, <<"ESCALATED", "ACKNOWLEDGED">>,
   <<"RESOLVED", "TRIAGED">>, <<"RESOLVED", "CLOSED">>}

(* Mutant: repeating the current status is accepted as idempotent.         *)
PermittedToStay(from, to) == from = to \/ <<from, to>> \in Transitions

(* Mutant: only a repetition is refused.                                   *)
PermittedAnywhere(from, to) == from # to

(* validate_transition.                                                    *)
Permitted(from, to) == from # to /\ <<from, to>> \in Transitions

(* The operations that change the status.  de_escalate_incident takes its  *)
(* target from the request and checks the transition only.                 *)
Moves ==
  [type: {"DE_ESCALATED"}, target: Status] \union
  {[type |-> st, target |-> st] : st \in Status \ {"NEW"}}

(* Mutant: every operation sets a timestamp.                               *)
StampsAll(type) == {type}

(* The status whose timestamp an operation sets: de-escalation sets none.  *)
Stamps(type) == {type} \intersect {"ACKNOWLEDGED", "RESOLVED", "CLOSED"}

Changes == {"DE_ESCALATED"} \union (Status \ {"NEW"})
Assignments == {"ASSIGNED", "REASSIGNED"}

Event == [by: Requests, sequence: Nat,
          type: Changes \union Assignments \union {"CREATED", "NOTE_ADDED"},
          previous: Status \union {None}, new: Status \union {None},
          user: Users \union {None}]

Loaded == [status: Status \union {None}, assigned_to: Users \union {None}]

Active == {r \in Requests : pc[r] \notin {"new", "done"}}

Sequences(tl) == {tl[i].sequence : i \in DOMAIN tl}

(* Mutant: a counter that also numbers what is never committed.            *)
MaxIssued(tl) ==
  LET issued == Sequences(tl) \union {event[r].sequence : r \in Active}
  IN  CHOOSE n \in issued \union {0} : \A m \in issued : m <= n

(* SELECT max(sequence), or 0.                                             *)
MaxSequence(tl) ==
  CHOOSE n \in Sequences(tl) \union {0} : \A m \in Sequences(tl) : m <= n

Init ==
  /\ status = None
  /\ assigned_to = None
  /\ stamped = {}
  /\ timeline = <<>>
  /\ published = <<>>
  /\ rowLock = None
  /\ pc = [r \in Requests |-> "new"]
  /\ event = [r \in Requests |-> None]
  /\ loaded = [r \in Requests |-> None]

Goto(r, label) == pc' = [pc EXCEPT ![r] = label]

-----------------------------------------------------------------------------
(* get_incident reads the row and the operation is checked against it; the *)
(* timeline event it will append, so far without its number.               *)
Begin(r, type, previous, new, user) ==
  /\ pc[r] = "new"
  /\ Cardinality(Active) < Pool
  /\ event' = [event EXCEPT ![r] =
                 [by |-> r, sequence |-> 0, type |-> type,
                  previous |-> previous, new |-> new, user |-> user]]
  /\ loaded' = [loaded EXCEPT ![r] =
                  [status |-> status, assigned_to |-> assigned_to]]
  /\ Goto(r, "sequence")
  /\ UNCHANGED <<row, timeline, published, rowLock>>

(* create_incident: a row with a fresh id, so there is nothing to read.    *)
CreateIncident(r) ==
  /\ status = None
  /\ \A q \in Active : event[q].type # "CREATED"
  /\ Begin(r, "CREATED", None, "NEW", None)

(* acknowledge, triage, escalate, de_escalate, resolve, close.             *)
ChangeStatus(r, move) ==
  /\ status # None
  /\ Permitted(status, move.target)
  /\ Begin(r, move.type, status, move.target, None)

(* The answers 404 and 409: the transaction is rolled back.                *)
Refuse(r, move) ==
  /\ pc[r] = "new"
  /\ Cardinality(Active) < Pool
  /\ status = None \/ ~Permitted(status, move.target)
  /\ Goto(r, "done")
  /\ UNCHANGED <<row, timeline, published, rowLock, event, loaded>>

(* assign_incident looks at no status.                                     *)
AssignIncident(r, user) ==
  /\ status # None
  /\ Begin(r, IF assigned_to \in {None, user} THEN "ASSIGNED" ELSE "REASSIGNED",
           None, None, user)

(* add_note and log_defensive_action look at no status either.             *)
AddNote(r) ==
  /\ status # None
  /\ Begin(r, "NOTE_ADDED", None, None, None)

-----------------------------------------------------------------------------
Numbered(e, n) == [by |-> e.by, sequence |-> n, type |-> e.type,
                   previous |-> e.previous, new |-> e.new, user |-> e.user]

(* _append_event: the next sequence number after the committed ones.       *)
NextSequence(r) ==
  /\ pc[r] = "sequence"
  /\ event' = [event EXCEPT ![r] = Numbered(event[r], MaxSequence(timeline) + 1)]
  /\ Goto(r, "flush")
  /\ UNCHANGED <<row, timeline, published, rowLock, loaded>>

(* Only a change of status and an assignment UPDATE the incident's row.    *)
Updates(e) == e.type \in Changes \union Assignments

(* db.flush(): the UPDATE waits for the row lock; the INSERTs do not.      *)
Flush(r) ==
  /\ pc[r] = "flush"
  /\ \/ Updates(event[r]) /\ rowLock = None /\ rowLock' = r
     \/ ~Updates(event[r]) /\ UNCHANGED rowLock
  /\ Goto(r, "commit")
  /\ UNCHANGED <<row, timeline, published, event, loaded>>

(* SQLAlchemy writes a column only if it differs from the value the        *)
(* session loaded.                                                         *)
Written(new, old, current) == IF new = old THEN current ELSE new

(* Mutant: an assignee, once set, stays.                                   *)
FirstAssignee(e, old) ==
  IF e.type \in Assignments /\ old.assigned_to = None THEN e.user ELSE assigned_to

Assignee(e, old) ==
  IF e.type \in Assignments
  THEN Written(e.user, old.assigned_to, assigned_to) ELSE assigned_to

(* The row as the transaction of a request leaves it.                      *)
UpdateRow(e, old) ==
  /\ status' = IF e.type \in Changes \union {"CREATED"}
               THEN Written(e.new, old.status, status) ELSE status
  /\ assigned_to' = Assignee(e, old)
  /\ stamped' = stamped \union Stamps(e.type)

(* Mutant: the lock outlives the transaction.                              *)
UnlockNever(r) == UNCHANGED rowLock

Unlock(r) == rowLock' = IF rowLock = r THEN None ELSE rowLock

(* db.commit() makes row and timeline event visible together.              *)
Commit(r) ==
  /\ pc[r] = "commit"
  /\ UpdateRow(event[r], loaded[r])
  /\ timeline' = Append(timeline, event[r])
  /\ Unlock(r)
  /\ Goto(r, "publish")
  /\ UNCHANGED <<published, event, loaded>>

(* The request ends and its session is closed.                             *)
End(r) ==
  /\ Goto(r, "done")
  /\ event' = [event EXCEPT ![r] = None]
  /\ loaded' = [loaded EXCEPT ![r] = None]

(* Mutant: after_rollback publishes what was queued.                       *)
RollbackPublishes(r) ==
  /\ pc[r] \in {"sequence", "flush", "commit"}
  /\ Unlock(r)
  /\ Goto(r, "publish")
  /\ UNCHANGED <<row, timeline, published, event, loaded>>

(* A statement or the commit fails: rollback, and after_rollback forgets   *)
(* the queued event.                                                       *)
Rollback(r) ==
  /\ pc[r] \in {"sequence", "flush", "commit"}
  /\ Unlock(r)
  /\ End(r)
  /\ UNCHANGED <<row, timeline, published>>

(* after_commit drains the queue of the session into the bus.              *)
PublishPending(r) ==
  /\ pc[r] = "publish"
  /\ published' = Append(published, event[r])
  /\ End(r)
  /\ UNCHANGED <<row, timeline, rowLock>>

(* The bus raises, which is only logged, or the process dies after the     *)
(* commit: nobody publishes the event later.                               *)
LosePending(r) ==
  /\ pc[r] = "publish"
  /\ End(r)
  /\ UNCHANGED <<row, timeline, published, rowLock>>

-----------------------------------------------------------------------------
Start(r) ==
  \/ CreateIncident(r)
  \/ \E move \in Moves : ChangeStatus(r, move) \/ Refuse(r, move)
  \/ \E user \in Users : AssignIncident(r, user)
  \/ AddNote(r)

Proceed(r) ==
  \/ NextSequence(r)
  \/ Flush(r)
  \/ Commit(r)
  \/ PublishPending(r)
  \/ LosePending(r)

Next == \E r \in Requests : Start(r) \/ Proceed(r) \/ Rollback(r)

(* A request the server has taken up goes on when it can; it is not        *)
(* assumed that a wait for the row lock is ever broken off.                *)
Fairness == \A r \in Requests : WF_vars(Proceed(r))

Spec == Init /\ [][Next]_vars /\ Fairness

-----------------------------------------------------------------------------
(* Properties of any number of concurrent requests. *)

TypeOK ==
  /\ status \in Status \union {None}
  /\ assigned_to \in Users \union {None}
  /\ stamped \subseteq Status
  /\ timeline \in Seq(Event)
  /\ published \in Seq(Event)
  /\ rowLock \in Requests \union {None}
  /\ pc \in [Requests -> PC]
  /\ event \in [Requests -> Event \union {None}]
  /\ loaded \in [Requests -> Loaded \union {None}]

(* The row shows the status of the last committed timeline event that      *)
(* names one, also when requests overwrite each other: a status that       *)
(* passed validate_transition differs from the loaded one, so the UPDATE   *)
(* always contains it.                                                     *)
StatusMatchesTimeline ==
  \A i \in DOMAIN timeline :
    timeline[i].new # None /\ (\A j \in (i + 1) .. Len(timeline) : timeline[j].new = None)
      => timeline[i].new = status

(* The numbers of the timeline are 1 .. n without a gap, whatever commits  *)
(* out of order or is rolled back.                                         *)
NoSequenceGaps ==
  \A i \in DOMAIN timeline :
    timeline[i].sequence \in 1 .. i /\ 1 .. timeline[i].sequence \subseteq Sequences(timeline)

(* What reaches the bus is in the committed timeline, with the same        *)
(* number, and reaches it once: no event of a rolled back request.         *)
PublishedOnceCommitted ==
  /\ \A i \in DOMAIN published : \E j \in DOMAIN timeline : published[i] = timeline[j]
  /\ \A i, j \in DOMAIN published : i # j => published[i].by # published[j].by

(* A request that has been taken up returns: no row lock is left behind by *)
(* a commit or a rollback for the others to wait for.                      *)
RequestReturns ==
  \A r \in Requests : pc[r] = "sequence" ~> pc[r] = "done"

-----------------------------------------------------------------------------
(* Properties of requests that the server handles one after the other      *)
(* (Pool = 1), and a claim the code makes for all of them.                 *)

(* The row shows the user of the last assignment in the timeline.          *)
AssigneeMatchesTimeline ==
  \A i \in DOMAIN timeline :
    timeline[i].user # None /\ (\A j \in (i + 1) .. Len(timeline) : timeline[j].user = None)
      => timeline[i].user = assigned_to

(* CLOSED is terminal.                                                     *)
ClosedIsTerminal == [][status = "CLOSED" => status' = "CLOSED"]_vars

(* The workflow: the same timeline without the identities of the requests. *)
Log == [i \in DOMAIN timeline |->
          [sequence |-> timeline[i].sequence, type |-> timeline[i].type,
           previous |-> timeline[i].previous, new |-> timeline[i].new]]

Workflow == INSTANCE IncidentWorkflow WITH state <- status, log <- Log

(* One request at a time, the service implements the incident workflow.    *)
ImplementsWorkflow == Workflow!Spec
=============================================================================
