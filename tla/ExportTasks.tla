---------------------------- MODULE ExportTasks ----------------------------
(* A background export of incidents: the task record that clients poll,    *)
(* the thread that executes it, and the database session of the request    *)
(* that submitted it.                                                      *)
(*                                                                         *)
(* The thread goes on using that session, and the object of the actor that *)
(* was read through it, while the request ends and closes it; the close    *)
(* may come between any two calls of the thread.  A close that meets a     *)
(* call in progress is refused by the session and is left out, as a        *)
(* behaviour without a close.                                              *)
EXTENDS Naturals, FiniteSets

CONSTANTS MaxRetries    \* max_retries of a task (3 in the code)

VARIABLES
    filters,    \* whether the filters of the request are acceptable
    record,       \* TaskRecord: status and retry_count; "none" when not (any more) known
    worker,     \* where the thread is
    pending,    \* rows added to the session and not yet written
    database,   \* the session: "open", or "failed" by a flush until a rollback
    closed,     \* whether the request has closed it
    actor,      \* the actor's attributes: "loaded", "expired", or "lost"
    fresh,      \* whether the export of this attempt is an object of the session
    exports,    \* attempts whose export is stored
    audits,     \* attempts whose audit event is stored
    torn,       \* history: attempts that lost rows to the close
    slipped     \* history: attempts whose refresh failed on an open session

vars == <<filters, record, worker, pending, database, closed, actor, fresh, exports, audits,
          torn, slipped>>

Attempts == 1..(MaxRetries + 1)
Terminal == {"SUCCEEDED", "FAILED"}
Attempt == record.retries + 1
NoTask == [status |-> "none", retries |-> 0]

Init ==
    /\ filters \in BOOLEAN
    /\ record = NoTask
    /\ worker = "absent"
    /\ pending = {}
    /\ database = "open"
    /\ closed = FALSE
    /\ actor = "loaded"
    /\ fresh = FALSE
    /\ exports = {} /\ audits = {} /\ torn = {} /\ slipped = {}

-----------------------------------------------------------------------------
(* The record *)

(* The request registers the task and starts the thread. *)
Submit ==
    /\ worker = "absent"
    /\ record = NoTask
    /\ ~closed
    /\ record' = [status |-> "QUEUED", retries |-> 0]
    /\ worker' = "begin"
    /\ UNCHANGED <<filters, pending, database, closed, actor, fresh, exports, audits, torn,
                   slipped>>

Begin ==
    /\ worker = "begin"
    /\ record' = [record EXCEPT !.status = "RUNNING"]
    /\ worker' = "query"
    /\ UNCHANGED <<filters, pending, database, closed, actor, fresh, exports, audits, torn,
                   slipped>>

(* An attempt that raised: the task is queued again, and tried again at    *)
(* once without becoming RUNNING, or has failed.                           *)
Raise ==
    IF record.retries < MaxRetries
    THEN /\ record' = [status |-> "QUEUED", retries |-> record.retries + 1]
         /\ worker' = "query"
    ELSE /\ record' = [status |-> "FAILED", retries |-> record.retries + 1]
         /\ worker' = "ended"

Succeed ==
    /\ record' = [record EXCEPT !.status = "SUCCEEDED"]
    /\ worker' = "ended"

-----------------------------------------------------------------------------
(* One attempt *)

(* The actor can be named: its attributes are loaded, or the session can   *)
(* still load them again.                                                  *)
ActorKnown == actor = "loaded" \/ (actor = "expired" /\ database = "open")

(* The attempt names the actor, checks the filters and reads the incidents *)
(* with their timelines; the statements may fail.                          *)
Query ==
    /\ worker = "query"
    /\ actor' = IF ActorKnown THEN "loaded" ELSE actor
    /\ \/ /\ ActorKnown /\ filters /\ database = "open"
          /\ worker' = "serialize"
          /\ UNCHANGED record
       \/ Raise
    /\ fresh' = FALSE
    /\ UNCHANGED <<filters, pending, database, closed, exports, audits, torn, slipped>>

(* The payload is made from objects that are already loaded; then the      *)
(* audit event joins the session.                                          *)
AddAudit ==
    /\ worker = "serialize"
    /\ pending' = {"audit"}
    /\ worker' = "audited"
    /\ UNCHANGED <<filters, record, database, closed, actor, fresh, exports, audits, torn, slipped>>

AddExport ==
    /\ worker = "audited"
    /\ pending' = pending \union {"export"}
    /\ worker' = "commit"
    /\ UNCHANGED <<filters, record, database, closed, actor, fresh, exports, audits, torn, slipped>>

(* A commit or a failed flush expires what the session still holds; the    *)
(* actor is no longer among that after the close.                          *)
Expire == actor' = IF closed THEN actor ELSE "expired"

CommitSucceeds ==
    /\ worker = "commit"
    /\ exports' = IF "export" \in pending THEN exports \union {Attempt} ELSE exports
    /\ audits' = IF "audit" \in pending THEN audits \union {Attempt} ELSE audits
    /\ fresh' = ("export" \in pending)
    /\ pending' = {}
    /\ Expire
    /\ worker' = "refresh"
    /\ UNCHANGED <<filters, record, database, closed, torn, slipped>>

(* Nobody rolls the session back after a failed flush. *)
CommitFails ==
    /\ worker = "commit"
    /\ pending # {}
    /\ pending' = {}
    /\ database' = "failed"
    /\ Expire
    /\ Raise
    /\ UNCHANGED <<filters, closed, fresh, exports, audits, torn, slipped>>

(* The export is read back, which needs it in the session. *)
RefreshSucceeds ==
    /\ worker = "refresh"
    /\ fresh
    /\ Succeed
    /\ UNCHANGED <<filters, pending, database, closed, actor, fresh, exports, audits, torn,
                   slipped>>

(* Mutant: what was committed counts as done, whether or not it is there.  *)
RefreshIgnored ==
    /\ worker = "refresh"
    /\ Succeed
    /\ UNCHANGED <<filters, pending, database, closed, actor, fresh, exports, audits, torn,
                   slipped>>

RefreshFails ==
    /\ worker = "refresh"
    /\ Raise
    /\ slipped' = IF fresh THEN slipped \union {Attempt} ELSE slipped
    /\ UNCHANGED <<filters, pending, database, closed, actor, fresh, exports, audits, torn>>

-----------------------------------------------------------------------------
(* The request and the process *)

(* The end of the request: the session forgets every object, added ones    *)
(* included, and starts afresh.                                            *)
Close ==
    /\ ~closed
    /\ record # NoTask \/ worker # "absent"
    /\ closed' = TRUE
    /\ pending' = {}
    /\ torn' = IF pending # {} THEN torn \union {Attempt} ELSE torn
    /\ fresh' = FALSE
    /\ database' = "open"
    /\ actor' = IF actor = "loaded" THEN "loaded" ELSE "lost"
    /\ UNCHANGED <<filters, record, worker, exports, audits, slipped>>

(* Tasks live in memory and their threads are daemons. *)
Restart ==
    /\ worker \notin {"absent", "dead"}
    /\ record' = NoTask
    /\ worker' = "dead"
    /\ closed' = TRUE
    /\ pending' = {}
    /\ fresh' = FALSE
    /\ UNCHANGED <<filters, database, actor, exports, audits, torn, slipped>>

Work ==
    \/ Begin \/ Query \/ AddAudit \/ AddExport
    \/ CommitSucceeds \/ CommitFails \/ RefreshSucceeds \/ RefreshFails

Next == Submit \/ Work \/ Close \/ Restart

(* A started thread is scheduled.  Nothing makes the request close its     *)
(* session before the thread has ended.                                    *)
Fairness == WF_vars(Work)

Spec == Init /\ [][Next]_vars /\ Fairness

-----------------------------------------------------------------------------
(* Properties *)

TypeOK ==
    /\ record \in [status : {"none", "QUEUED", "RUNNING"} \union Terminal,
                 retries : 0..(MaxRetries + 1)]
    /\ pending \subseteq {"audit", "export"}
    /\ actor \in {"loaded", "expired", "lost"}
    /\ exports \subseteq Attempts /\ audits \subseteq Attempts

(* A task that reports success has stored the export of its last attempt,  *)
(* whatever the request's close did meanwhile.                             *)
SuccessIsStored == record.status = "SUCCEEDED" => Attempt \in exports

(* An export and its audit event are stored together, unless the close of  *)
(* the request came between the two additions of that attempt.             *)
AuditedTogether == \A k \in Attempts \ torn : k \in exports <=> k \in audits

(* A second copy of an export has one cause: the first was committed and   *)
(* could not be read back.  Once the request has closed its session after  *)
(* a commit, or a flush has failed, no attempt stores anything any more.   *)
CopiesExplained ==
    /\ \A k \in exports : (\E later \in exports : later > k) => k \in slipped
    /\ (actor = "lost" \/ (database = "failed" /\ actor = "expired")) =>
           worker \in {"query", "refresh", "ended", "dead"}

ExportsSound == TypeOK /\ SuccessIsStored /\ AuditedTogether /\ CopiesExplained

(* Every submitted task ends, or is forgotten with its process. *)
TaskEnds == (worker = "begin") ~> (record.status \in Terminal \union {"none"})

=============================================================================
