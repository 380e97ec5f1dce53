---------------------------- MODULE JobScheduler ----------------------------
(***************************************************************************)
(* The maintenance scheduler, backend/app/services/scheduler.py: every     *)
(* worker process runs a loop that dispatches each job once per interval,  *)
(* and the row of the job in scheduler_locks is a lock with an expiry.     *)
(*                                                                         *)
(* One job is modelled; its row is independent of the others'.  A step is  *)
(* one committed database statement, so the guarded UPDATE of acquire_lock *)
(* is atomic, and its ORM fallback is a read and a blind write.  renew_    *)
(* lease has no caller, so a lease is never extended.                      *)
(***************************************************************************)
EXTENDS Naturals, FiniteSets

CONSTANTS
  Workers,      \* scheduler processes; each has its own worker_id
  Nobody,       \* locked_by IS NULL
  TTL,          \* scheduler_lock_timeout_seconds, in clock ticks
  Interval,     \* the job's interval, in clock ticks
  MaxRetries,   \* max_retries of run_job
  MaxTime,      \* bound: the clock stops here
  MaxFaults     \* bound: database statements that fail

ASSUME SchedulerAssumption ==
  /\ Nobody \notin Workers
  /\ TTL \in Nat \ {0}
  /\ Interval \in Nat \ {0}
  /\ MaxRetries \in Nat \ {0}
  /\ MaxTime \in Nat
  /\ MaxFaults \in Nat

VARIABLES
  clock,
  lockedBy,     \* the row of the job: locked_by, expires_at, last_status
  expiresAt,
  lastStatus,
  pc,           \* where each worker's run_job is
  now,          \* the time acquire_lock read at its start
  attempt,      \* attempts that failed so far
  nextRun,      \* when the loop's last_run_times make the job due again
  holder,       \* history: the worker that wrote the lock last
  leaseEnd,     \* history: the expiry each worker wrote when it acquired
  overwrote,    \* history: the fallback has written the row
  faults        \* history: database statements that failed

row == <<lockedBy, expiresAt, lastStatus>>
locals == <<now, attempt>>
history == <<holder, leaseEnd, overwrote, faults>>
vars == <<clock, row, pc, locals, nextRun, history>>

PC == {"idle", "acquire", "recheck", "overwrite", "running", "release_success",
       "release_failure", "dead"}

Init ==
  /\ clock = 0
  /\ lockedBy = Nobody
  /\ expiresAt = 0
  /\ lastStatus = "IDLE"
  /\ pc = [w \in Workers |-> "idle"]
  /\ now = [w \in Workers |-> 0]
  /\ attempt = [w \in Workers |-> 0]
  /\ nextRun = [w \in Workers |-> 0]
  /\ holder = Nobody
  /\ leaseEnd = [w \in Workers |-> 0]
  /\ overwrote = FALSE
  /\ faults = 0

Goto(w, label) == pc' = [pc EXCEPT ![w] = label]

(* run_job returns or raises: its local variables are gone.                *)
Leave(w, label) ==
  /\ Goto(w, label)
  /\ now' = [now EXCEPT ![w] = 0]
  /\ attempt' = [attempt EXCEPT ![w] = 0]

(* A database statement or its commit raises and has had no effect.        *)
Fault ==
  /\ faults < MaxFaults
  /\ faults' = faults + 1

(* Mutant: a lease is over at its expiry, not after it.                    *)
FreeAtExpiry(w) == lockedBy = Nobody \/ expiresAt <= now[w]

(* Mutant: the expiry is not looked at.                                    *)
FreeIfReleased(w) == lockedBy = Nobody

(* locked_by IS NULL OR expires_at < now, for the time a worker has read.  *)
Free(w) == lockedBy = Nobody \/ expiresAt < now[w]

(* Mutant: the lease ends before it begins.                                *)
LeaseBackwards(w) == now[w] - TTL

(* The expires_at that acquire_lock computes.                              *)
Lease(w) == now[w] + TTL

(* Mutant: the UPDATE of release_lock lacks its condition on locked_by.    *)
HoldsAny(w) == TRUE

Holds(w) == lockedBy = w

-----------------------------------------------------------------------------
(* _scheduler_loop: the job is due; acquire_lock reads the time.           *)
Dispatch(w) ==
  /\ pc[w] = "idle"
  /\ clock >= nextRun[w]
  /\ nextRun' = [nextRun EXCEPT ![w] = clock + Interval]
  /\ now' = [now EXCEPT ![w] = clock]
  /\ Goto(w, "acquire")
  /\ UNCHANGED <<clock, row, attempt, history>>

(* The worker is written into the row and starts to execute the job.       *)
TakeLock(w) ==
  /\ lockedBy' = w
  /\ expiresAt' = Lease(w)
  /\ lastStatus' = "RUNNING"
  /\ holder' = w
  /\ leaseEnd' = [leaseEnd EXCEPT ![w] = Lease(w)]
  /\ Goto(w, "running")
  /\ UNCHANGED <<clock, locals, nextRun, faults>>

(* The guarded UPDATE changed the row.                                     *)
AcquireAtomically(w) ==
  /\ pc[w] = "acquire"
  /\ Free(w)
  /\ TakeLock(w)
  /\ UNCHANGED overwrote

(* The guarded UPDATE changed no row.                                      *)
FindLocked(w) ==
  /\ pc[w] = "acquire"
  /\ ~Free(w)
  /\ Goto(w, "recheck")
  /\ UNCHANGED <<clock, row, locals, nextRun, history>>

(* The fallback reads the row again, in a new transaction: it goes on if   *)
(* the lock was released in between, else run_job returns SKIPPED.         *)
RecheckFree(w) ==
  /\ pc[w] = "recheck"
  /\ Free(w)
  /\ Goto(w, "overwrite")
  /\ UNCHANGED <<clock, row, locals, nextRun, history>>

(* Mutant: a worker that finds the row locked tries again.                 *)
SkipAndRetry(w) ==
  /\ pc[w] = "recheck" /\ ~Free(w)
  /\ Goto(w, "acquire")
  /\ UNCHANGED <<clock, row, locals, nextRun, history>>

Skip(w) ==
  /\ pc[w] = "recheck"
  /\ ~Free(w)
  /\ Leave(w, "idle")
  /\ UNCHANGED <<clock, row, nextRun, history>>

(* The fallback's flush: an UPDATE by primary key, whoever holds the lock. *)
Overwrite(w) ==
  /\ pc[w] = "overwrite"
  /\ TakeLock(w)
  /\ overwrote' = TRUE

(* A statement of acquire_lock raises, or the fallback's commit does, which *)
(* counts as SKIPPED: this dispatch is over.                               *)
AcquireFails(w) ==
  /\ pc[w] \in {"acquire", "recheck", "overwrite"}
  /\ Fault
  /\ Leave(w, "idle")
  /\ UNCHANGED <<clock, row, nextRun, holder, leaseEnd, overwrote>>

-----------------------------------------------------------------------------
JobSucceeds(w) ==
  /\ pc[w] = "running"
  /\ Goto(w, "release_success")
  /\ UNCHANGED <<clock, row, locals, nextRun, history>>

(* The except clause of the retry loop, after a transient error: execute   *)
(* the job again, or give up after max_retries attempts.                   *)
Retry(w) ==
  /\ attempt' = [attempt EXCEPT ![w] = @ + 1]
  /\ \/ /\ attempt[w] + 1 < MaxRetries
        /\ Goto(w, "running")
     \/ /\ attempt[w] + 1 >= MaxRetries
        /\ Goto(w, "release_failure")
  /\ UNCHANGED <<clock, row, now, nextRun, holder, leaseEnd, overwrote>>

JobFails(w) ==
  /\ pc[w] = "running"
  /\ Retry(w)
  /\ UNCHANGED faults

(* ValueError, KeyError and TypeError are not retried.                     *)
JobFailsForGood(w) ==
  /\ pc[w] = "running"
  /\ Goto(w, "release_failure")
  /\ UNCHANGED <<clock, row, locals, nextRun, history>>

(* Mutant: the outcome is written whoever holds the lock.                  *)
ReleaseStatusAlways(w, status) ==
  /\ lockedBy' = IF Holds(w) THEN Nobody ELSE lockedBy
  /\ expiresAt' = IF Holds(w) THEN 0 ELSE expiresAt
  /\ lastStatus' = status
  /\ Leave(w, "idle")
  /\ UNCHANGED <<clock, nextRun, history>>

(* release_lock: UPDATE ... WHERE locked_by = worker_id; no row is changed *)
(* when another worker has taken the lock meanwhile.                       *)
Release(w, status) ==
  /\ \/ /\ Holds(w)
        /\ lockedBy' = Nobody
        /\ expiresAt' = 0
        /\ lastStatus' = status
     \/ /\ ~Holds(w)
        /\ UNCHANGED row
  /\ Leave(w, "idle")
  /\ UNCHANGED <<clock, nextRun, history>>

ReleaseSuccess(w) == pc[w] = "release_success" /\ Release(w, "SUCCESS")

(* The release is inside the try block: when its commit raises, the job    *)
(* that has just succeeded counts as failed and is retried.                *)
ReleaseSuccessRaises(w) ==
  /\ pc[w] = "release_success"
  /\ Fault
  /\ Retry(w)

ReleaseFailure(w) == pc[w] = "release_failure" /\ Release(w, "FAILURE")

(* Here the exception leaves run_job and the loop logs it: the row stays   *)
(* locked until it expires.                                                *)
ReleaseFailureRaises(w) ==
  /\ pc[w] = "release_failure"
  /\ Fault
  /\ Leave(w, "idle")
  /\ UNCHANGED <<clock, row, nextRun, holder, leaseEnd, overwrote>>

-----------------------------------------------------------------------------
(* The process dies.  A restarted one has a new worker_id, so it is        *)
(* another element of Workers.                                             *)
Crash(w) ==
  /\ pc[w] # "dead"
  /\ Leave(w, "dead")
  /\ UNCHANGED <<clock, row, nextRun, history>>

Tick ==
  /\ clock < MaxTime
  /\ clock' = clock + 1
  /\ UNCHANGED <<row, pc, locals, nextRun, history>>

Acquire(w) ==
  \/ AcquireAtomically(w)
  \/ FindLocked(w)
  \/ RecheckFree(w)
  \/ Skip(w)
  \/ Overwrite(w)
  \/ AcquireFails(w)

Execute(w) ==
  \/ JobSucceeds(w)
  \/ JobFails(w)
  \/ JobFailsForGood(w)
  \/ ReleaseSuccess(w)
  \/ ReleaseSuccessRaises(w)
  \/ ReleaseFailure(w)
  \/ ReleaseFailureRaises(w)

RunJob(w) == Dispatch(w) \/ Acquire(w) \/ Execute(w)

Next == Tick \/ \E w \in Workers : RunJob(w) \/ Crash(w)

(* Time passes and a live loop goes on: _scheduler_loop has no step that   *)
(* waits for another worker, and no job is assumed to hang.                *)
Fairness == WF_vars(Tick) /\ \A w \in Workers : WF_vars(RunJob(w))

Spec == Init /\ [][Next]_vars /\ Fairness

-----------------------------------------------------------------------------
Executing(w) == pc[w] \in {"running", "release_success", "release_failure"}

(* The lease a worker acquired has not run out.                            *)
InLease(w) == Executing(w) /\ clock <= leaseEnd[w]

TypeOK ==
  /\ clock \in Nat
  /\ lockedBy \in Workers \union {Nobody}
  /\ expiresAt \in Nat
  /\ lastStatus \in {"IDLE", "RUNNING", "SUCCESS", "FAILURE"}
  /\ pc \in [Workers -> PC]
  /\ now \in [Workers -> Nat]
  /\ attempt \in [Workers -> Nat]
  /\ nextRun \in [Workers -> Nat]
  /\ holder \in Workers \union {Nobody}
  /\ leaseEnd \in [Workers -> Nat]
  /\ overwrote \in BOOLEAN
  /\ faults \in Nat

(* Two workers never execute the job within their leases, as long as every *)
(* acquisition went through the guarded UPDATE: crashes, expiries, stale   *)
(* releases and retries of a release that raised do not break the lock.    *)
AtomicExclusion ==
  ~overwrote => \A v, w \in Workers : InLease(v) /\ InLease(w) => v = w

(* The same without the exception for the fallback.                        *)
LeaseExclusion == \A v, w \in Workers : InLease(v) /\ InLease(w) => v = w

(* A row that is locked always names an expiry that some worker wrote, so  *)
(* no crash and no failed release can lock the job for ever.               *)
LockedHasExpiry ==
  lockedBy # Nobody => /\ lockedBy = holder
                       /\ expiresAt = leaseEnd[holder]
                       /\ lastStatus = "RUNNING"

(* The row is freed, or an outcome is written to it. *)
RowReleased ==
  \/ lockedBy # Nobody /\ lockedBy' = Nobody
  \/ lastStatus' # lastStatus /\ lastStatus' # "RUNNING"

(* The last acquirer is at its release and returns from run_job. *)
HolderLeaves ==
  /\ pc[holder] \in {"release_success", "release_failure"}
  /\ pc'[holder] = "idle"

(* A worker whose lease was taken over can finish, but it neither frees    *)
(* the row nor writes its outcome there: only the last acquirer does.      *)
OnlyHolderReleases == [][RowReleased => HolderLeaves]_vars

(* Stale lock recovery: a dead worker's lock is taken over at the latest   *)
(* by the first cycle after its expiry of any worker that stays alive,     *)
(* once the database has stopped failing (the bound MaxTime must leave     *)
(* room for that cycle).                                                   *)
StaleLockRecovered ==
  \A v, w \in Workers :
    /\ pc[w] = "dead" /\ lockedBy = w
    /\ faults = MaxFaults
    /\ pc[v] = "idle"
    /\ nextRun[v] <= MaxTime /\ expiresAt + Interval <= MaxTime
    ~> lockedBy # w \/ pc[v] = "dead"

(* A dispatch of run_job ends, whatever fails and whatever the others do.  *)
RunJobReturns ==
  \A w \in Workers : pc[w] = "acquire" ~> pc[w] \in {"idle", "dead"}

=============================================================================
