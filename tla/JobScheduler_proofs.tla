------------------------ MODULE JobScheduler_proofs -------------------------
(***************************************************************************)
(* Theorems of JobScheduler for every number of workers, lease, interval   *)
(* and number of retries.                                                  *)
(***************************************************************************)
EXTENDS JobScheduler, TLAPS

-----------------------------------------------------------------------------
(* Type correctness. *)

LEMMA InitType == Init => TypeOK
<1> SUFFICES ASSUME Init PROVE TypeOK
  OBVIOUS
<1>1. overwrote \in BOOLEAN
  BY Zenon DEF Init
<1>2. clock \in Nat /\ expiresAt \in Nat /\ faults \in Nat
  BY DEF Init
<1> QED
  BY <1>1, <1>2 DEF Init, TypeOK, PC

LEMMA NextType == TypeOK /\ [Next]_vars => TypeOK'
<1> USE SchedulerAssumption DEF TypeOK, PC, Goto, Leave, Fault
<1>1. ASSUME TypeOK, NEW w \in Workers, Dispatch(w) PROVE TypeOK'
  BY <1>1 DEF Dispatch, row, history
<1>2. ASSUME TypeOK, NEW w \in Workers, TakeLock(w), overwrote' \in BOOLEAN
      PROVE  TypeOK'
  BY <1>2 DEF TakeLock, Lease, locals
<1>3. ASSUME TypeOK, NEW w \in Workers, Acquire(w) PROVE TypeOK'
  <2>1. CASE AcquireAtomically(w)
    BY <1>2, <1>3, <2>1 DEF AcquireAtomically
  <2>2. CASE Overwrite(w)
    BY <1>2, <1>3, <2>2 DEF Overwrite
  <2>3. CASE FindLocked(w) \/ RecheckFree(w) \/ Skip(w) \/ AcquireFails(w)
    BY <1>3, <2>3 DEF FindLocked, RecheckFree, Skip, AcquireFails, row, locals, history
  <2> QED BY <1>3, <2>1, <2>2, <2>3 DEF Acquire
<1>4. ASSUME TypeOK, NEW w \in Workers, Retry(w), faults' \in Nat PROVE TypeOK'
  BY <1>4 DEF Retry, row
<1>5. ASSUME TypeOK, NEW w \in Workers, NEW s \in {"SUCCESS", "FAILURE"}, Release(w, s)
      PROVE  TypeOK'
  BY <1>5 DEF Release, row, history
<1>6. ASSUME TypeOK, NEW w \in Workers, Execute(w) PROVE TypeOK'
  <2>1. CASE JobSucceeds(w) \/ JobFailsForGood(w) \/ ReleaseFailureRaises(w)
    BY <1>6, <2>1 DEF JobSucceeds, JobFailsForGood, ReleaseFailureRaises, row, locals, history
  <2>2. CASE JobFails(w) \/ ReleaseSuccessRaises(w)
    BY <1>4, <1>6, <2>2 DEF JobFails, ReleaseSuccessRaises
  <2>3. CASE ReleaseSuccess(w) \/ ReleaseFailure(w)
    BY <1>5, <1>6, <2>3 DEF ReleaseSuccess, ReleaseFailure
  <2> QED BY <1>6, <2>1, <2>2, <2>3 DEF Execute
<1>7. ASSUME TypeOK, NEW w \in Workers, Crash(w) PROVE TypeOK'
  BY <1>7 DEF Crash, row, history
<1>8. ASSUME TypeOK, Tick PROVE TypeOK'
  BY <1>8 DEF Tick, row, locals, history
<1>9. ASSUME TypeOK, UNCHANGED vars PROVE TypeOK'
  BY <1>9 DEF vars, row, locals, history
<1> QED
  BY <1>1, <1>3, <1>6, <1>7, <1>8, <1>9 DEF Next, RunJob

(* Every reachable state of the scheduler is well typed.                   *)
THEOREM TypeCorrect == Spec => []TypeOK
  BY InitType, NextType, PTL DEF Spec

-----------------------------------------------------------------------------
(* The lock. *)

(* The time a run read is not in the future.                               *)
NowPassed == \A w \in Workers : now[w] <= clock

(* Without the fallback a worker inside its lease is the one in the row.   *)
LeaseHeld ==
  ~overwrote => \A w \in Workers :
    InLease(w) => lockedBy = w /\ expiresAt = leaseEnd[w]

LockInv == TypeOK /\ NowPassed /\ LeaseHeld /\ LockedHasExpiry

LEMMA InitLock == Init => LockInv
<1> SUFFICES ASSUME Init PROVE LockInv
  OBVIOUS
<1>1. NowPassed
  BY DEF Init, NowPassed
<1>2. LeaseHeld
  BY DEF Init, LeaseHeld, InLease, Executing
<1>3. LockedHasExpiry
  BY DEF Init, LockedHasExpiry
<1> QED
  BY InitType, <1>1, <1>2, <1>3 DEF LockInv

(* Only Tick moves the clock and only Dispatch reads it.                   *)
LEMMA NextNow == TypeOK /\ NowPassed /\ [Next]_vars => NowPassed'
<1> USE DEF TypeOK, NowPassed
<1>1. ASSUME TypeOK, NowPassed, NEW w \in Workers, Dispatch(w) PROVE NowPassed'
  BY <1>1 DEF Dispatch
<1>2. ASSUME TypeOK, NowPassed, NEW w \in Workers, Acquire(w) PROVE NowPassed'
  BY <1>2 DEF Acquire, AcquireAtomically, FindLocked, RecheckFree, Skip, Overwrite,
          AcquireFails, TakeLock, Leave, locals
<1>3. ASSUME TypeOK, NowPassed, NEW w \in Workers, Execute(w) PROVE NowPassed'
  BY <1>3 DEF Execute, JobSucceeds, JobFails, JobFailsForGood, ReleaseSuccess,
          ReleaseSuccessRaises, ReleaseFailure, ReleaseFailureRaises, Retry,
          Release, Leave, locals
<1>4. ASSUME TypeOK, NowPassed, NEW w \in Workers, Crash(w) PROVE NowPassed'
  BY <1>4 DEF Crash, Leave
<1>5. ASSUME TypeOK, NowPassed, Tick PROVE NowPassed'
  BY <1>5 DEF Tick, locals
<1>6. ASSUME NowPassed, UNCHANGED vars PROVE NowPassed'
  BY <1>6 DEF vars, locals
<1> QED
  BY <1>1, <1>2, <1>3, <1>4, <1>5, <1>6 DEF Next, RunJob

(* A step that leaves the row alone and brings no worker to the execution  *)
(* of the job keeps what the row says of the holder and of the leases.     *)
LEMMA QuietStep ==
  ASSUME LockInv, UNCHANGED <<row, holder, leaseEnd, overwrote>>, clock' \in Nat,
         clock' >= clock, \A w \in Workers : Executing(w)' => Executing(w)
  PROVE  LeaseHeld' /\ LockedHasExpiry'
<1>1. LockedHasExpiry'
  BY DEF LockInv, LockedHasExpiry, row
<1>2. ASSUME NEW w \in Workers, InLease(w)' PROVE InLease(w)
  BY <1>2 DEF InLease, LockInv, TypeOK
<1> QED
  BY <1>1, <1>2 DEF LeaseHeld, LockInv, row

(* The worker that takes a free lock finds no other one inside its lease.  *)
LEMMA TakeStep ==
  ASSUME LockInv, NEW w \in Workers, TakeLock(w), overwrote' \/ Free(w),
         overwrote => overwrote'
  PROVE  LeaseHeld' /\ LockedHasExpiry'
<1>1. leaseEnd'[w] = Lease(w)
  BY DEF TakeLock, LockInv, TypeOK
<1>2. LockedHasExpiry'
  BY <1>1 DEF TakeLock, LockedHasExpiry
<1>3. ASSUME ~overwrote', NEW v \in Workers, InLease(v)'
      PROVE  lockedBy' = v /\ expiresAt' = leaseEnd'[v]
  <2>1. CASE v = w
    BY <2>1, <1>1 DEF TakeLock
  <2>2. CASE v # w
    <3>1. InLease(v)
      BY <1>3, <2>2 DEF TakeLock, Goto, InLease, Executing, LockInv, TypeOK
    <3>2. lockedBy = v /\ expiresAt = leaseEnd[v] /\ clock <= leaseEnd[v]
      BY <1>3, <3>1 DEF LockInv, LeaseHeld, InLease
    <3>3. now[w] <= clock /\ now[w] \in Nat /\ clock \in Nat /\ leaseEnd[v] \in Nat
      BY DEF LockInv, NowPassed, TypeOK
    <3>4. ~Free(w)
      BY <3>2, <3>3, SchedulerAssumption DEF Free
    <3> QED
      BY <1>3, <3>4
  <2> QED
    BY <2>1, <2>2
<1> QED
  BY <1>2, <1>3 DEF LeaseHeld

(* A release frees the row only for the worker that holds it.              *)
LEMMA ReleaseStep ==
  ASSUME LockInv, NEW w \in Workers, NEW s, Release(w, s)
  PROVE  LeaseHeld' /\ LockedHasExpiry'
<1>1. \A v \in Workers : InLease(v)' => InLease(v) /\ v # w
  BY DEF Release, Leave, Goto, InLease, Executing, LockInv, TypeOK, history
<1>2. CASE lockedBy = w
  <2>1. lockedBy' = Nobody
    BY <1>2 DEF Release, Holds
  <2>2. LeaseHeld'
    BY <1>1, <1>2 DEF LeaseHeld, LockInv, Release, Holds, history
  <2> QED
    BY <2>1, <2>2 DEF LockedHasExpiry
<1>3. CASE lockedBy # w
  <2>1. UNCHANGED <<row, holder, leaseEnd, overwrote>>
    BY <1>3 DEF Release, Holds, history
  <2>2. LeaseHeld'
    BY <1>1, <2>1 DEF LeaseHeld, LockInv, row
  <2> QED
    BY <2>1, <2>2 DEF LockedHasExpiry, LockInv, row
<1> QED
  BY <1>2, <1>3

LEMMA NextLock == LockInv /\ [Next]_vars => LockInv'
<1> SUFFICES ASSUME LockInv, [Next]_vars PROVE LockInv'
  OBVIOUS
<1> DEFINE Goal == LeaseHeld' /\ LockedHasExpiry'
<1>0. TypeOK' /\ NowPassed'
  BY NextType, NextNow DEF LockInv
<1>1. ASSUME NEW w \in Workers, Dispatch(w) PROVE Goal
  BY <1>0, <1>1, QuietStep
  DEF Dispatch, Goto, Executing, history, row, LockInv, TypeOK
<1>2. ASSUME NEW w \in Workers, Acquire(w) PROVE Goal
  <2>1. CASE AcquireAtomically(w)
    BY <2>1, TakeStep DEF AcquireAtomically
  <2>2. CASE Overwrite(w)
    BY <2>2, TakeStep DEF Overwrite
  <2>3. CASE FindLocked(w) \/ RecheckFree(w) \/ Skip(w) \/ AcquireFails(w)
    BY <1>0, <2>3, QuietStep
    DEF FindLocked, RecheckFree, Skip, AcquireFails, Leave, Goto, Executing,
        history, row, LockInv, TypeOK
  <2> QED
    BY <1>2, <2>1, <2>2, <2>3 DEF Acquire
<1>3. ASSUME NEW w \in Workers, Execute(w) PROVE Goal
  <2>1. CASE JobSucceeds(w) \/ JobFailsForGood(w) \/ ReleaseFailureRaises(w)
    BY <1>0, <2>1, QuietStep
    DEF JobSucceeds, JobFailsForGood, ReleaseFailureRaises, Leave, Goto, Executing,
        history, row, LockInv, TypeOK
  <2>2. CASE JobFails(w) \/ ReleaseSuccessRaises(w)
    BY <1>0, <2>2, QuietStep
    DEF JobFails, ReleaseSuccessRaises, Retry, Goto, Executing, row, LockInv, TypeOK
  <2>3. CASE ReleaseSuccess(w) \/ ReleaseFailure(w)
    BY <2>3, ReleaseStep DEF ReleaseSuccess, ReleaseFailure
  <2> QED
    BY <1>3, <2>1, <2>2, <2>3 DEF Execute
<1>4. ASSUME NEW w \in Workers, Crash(w) PROVE Goal
  BY <1>0, <1>4, QuietStep
  DEF Crash, Leave, Goto, Executing, history, row, LockInv, TypeOK
<1>5. ASSUME Tick PROVE Goal
  BY <1>0, <1>5, QuietStep DEF Tick, Executing, history, row, LockInv, TypeOK
<1>6. ASSUME UNCHANGED vars PROVE Goal
  BY <1>0, <1>6, QuietStep DEF vars, Executing, history, row, LockInv, TypeOK
<1> QED
  BY <1>0, <1>1, <1>2, <1>3, <1>4, <1>5, <1>6 DEF Next, RunJob, LockInv

LEMMA LockInvariant == Spec => []LockInv
  BY InitLock, NextLock, PTL DEF Spec

(* As long as no acquisition went through the ORM fallback, no two workers *)
(* execute the job inside their leases.                                    *)
THEOREM LockExcludes == Spec => []AtomicExclusion
<1>1. LockInv => AtomicExclusion
  BY DEF LockInv, LeaseHeld, AtomicExclusion
<1> QED
  BY <1>1, LockInvariant, PTL

(* A locked row always names its last acquirer and the expiry it wrote.    *)
THEOREM LockAlwaysExpires == Spec => []LockedHasExpiry
<1>1. LockInv => LockedHasExpiry
  BY DEF LockInv
<1> QED
  BY <1>1, LockInvariant, PTL

(* The row is freed by a step of the last acquirer only.                   *)
THEOREM HolderReleases == Spec => OnlyHolderReleases
<1> DEFINE Freed == RowReleased => HolderLeaves
<1>1. ASSUME LockInv, Next PROVE Freed
  <2>1. ASSUME NEW w \in Workers, NEW s, Release(w, s),
               pc[w] \in {"release_success", "release_failure"}
        PROVE  Freed
    <3>1. CASE Holds(w)
      BY <1>1, <2>1, <3>1, SchedulerAssumption
         DEF Release, Holds, Leave, Goto, LockInv, LockedHasExpiry, TypeOK, HolderLeaves
    <3>2. CASE ~Holds(w)
      BY <2>1, <3>2 DEF Release, row, RowReleased
    <3> QED
      BY <3>1, <3>2
  <2>2. ASSUME NEW w \in Workers, TakeLock(w) PROVE Freed
    BY <2>2, SchedulerAssumption DEF TakeLock, RowReleased
  <2>3. ASSUME UNCHANGED row PROVE Freed
    BY <2>3 DEF row, RowReleased
  <2>4. ASSUME NEW w \in Workers, Execute(w) PROVE Freed
    <3>1. CASE ReleaseSuccess(w) \/ ReleaseFailure(w)
      BY <3>1, <2>1 DEF ReleaseSuccess, ReleaseFailure
    <3>2. CASE ~(ReleaseSuccess(w) \/ ReleaseFailure(w))
      BY <2>3, <2>4, <3>2 DEF Execute, JobSucceeds, JobFails, JobFailsForGood,
         ReleaseSuccessRaises, ReleaseFailureRaises, Retry
    <3> QED
      BY <3>1, <3>2
  <2>5. ASSUME NEW w \in Workers, Acquire(w) PROVE Freed
    <3>1. CASE TakeLock(w)
      BY <3>1, <2>2
    <3>2. CASE ~TakeLock(w)
      BY <2>3, <2>5, <3>2 DEF Acquire, AcquireAtomically, Overwrite, FindLocked,
         RecheckFree, Skip, AcquireFails
    <3> QED
      BY <3>1, <3>2
  <2>6. ASSUME NEW w \in Workers, Dispatch(w) \/ Crash(w) PROVE Freed
    BY <2>3, <2>6 DEF Dispatch, Crash
  <2>7. ASSUME Tick PROVE Freed
    BY <2>3, <2>7 DEF Tick
  <2> QED
    BY <1>1, <2>4, <2>5, <2>6, <2>7 DEF Next, RunJob
<1>2. LockInv /\ [Next]_vars => [Freed]_vars
  BY <1>1
<1> QED
  BY <1>2, LockInvariant, PTL DEF Spec, OnlyHolderReleases
=============================================================================
