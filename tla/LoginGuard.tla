----------------------------- MODULE LoginGuard -----------------------------
(* Logins to one account from one address: the rate limiter in front, the  *)
(* counter of failed attempts and the lockout behind it, and the session   *)
(* that a login creates and a logout revokes.  The limiter is asked for    *)
(* the address and for the account; here both count the same requests, and *)
(* one key stands for the two.                                             *)
(*                                                                         *)
(* Requests run in threads.  The limiter's memory store has no lock: a     *)
(* request replaces the list of hits by a shorter one and then counts and  *)
(* appends, and another may replace the list in between, so that the hit   *)
(* is appended to a list nobody looks at.  The Redis store is one          *)
(* transaction, which adds the hit even when it refuses.  The user's row   *)
(* is read before the password is verified and written after.              *)
EXTENDS Naturals, Sequences, FiniteSets

CONSTANTS
    Requests,
    MaxHits,      \* count of the login policy ("5/minute")
    Window,       \* its window
    MaxFailed,    \* login_max_failed_attempts
    Lockout,      \* login_lockout_duration_minutes
    MaxTime,      \* bound: the clock
    MaxLogins     \* bound: login requests

VARIABLES
    store,        \* "memory" or "redis"
    hits,         \* hits in the list (or sorted set) of the key: [nr, at]
    list,         \* which list that is: counts its replacements
    now,          \* the clock
    failures,     \* failed_login_attempts
    lock,         \* locked_until, 0 when null
    login,        \* the requests
    logins,       \* login requests so far
    sessions,     \* sessions: "valid" or "revoked", in the order of creation
    admittedAt,   \* history: the hits with which the limiter let a request pass
    disturbed,    \* history: two requests were inside at once, or a write was lost
    wrong,        \* history: wrong passwords since the last success
    intruded      \* history: a login succeeded while the account was locked

vars == <<store, hits, list, now, failures, lock, login, logins, sessions, admittedAt, disturbed,
          wrong, intruded>>

Outside == [pc |-> "outside", nr |-> 0, list |-> 0, seen |-> 0, expired |-> FALSE, good |-> FALSE]

Init ==
    /\ store \in {"memory", "redis"}
    /\ hits = {} /\ list = 0
    /\ now = 1
    /\ failures = 0 /\ lock = 0
    /\ login = [r \in Requests |-> Outside]
    /\ logins = 0
    /\ sessions = <<>>
    /\ admittedAt = {}
    /\ disturbed = FALSE
    /\ wrong = 0
    /\ intruded = FALSE

In(r) == login[r].pc # "outside"
Hit(r) == [nr |-> login[r].nr, at |-> now]
Recent(set) == {h \in set : h.at + Window > now}
Go(r, pc) == login' = [login EXCEPT ![r].pc = pc]
Out(r) == login' = [login EXCEPT ![r] = Outside]

-----------------------------------------------------------------------------
(* The rate limiter *)

Arrive(r, good) ==
    /\ ~In(r)
    /\ logins < MaxLogins
    /\ logins' = logins + 1
    /\ login' = [login EXCEPT ![r] = [Outside EXCEPT !.pc = "evict", !.nr = logins + 1,
                                                        !.good = good]]
    /\ disturbed' = (disturbed \/ \E x \in Requests \ {r} : In(x))
    /\ UNCHANGED <<store, hits, list, now, failures, lock, sessions, admittedAt, wrong, intruded>>

(* Hits outside the window are dropped: a new list takes the key. *)
Evict(r) ==
    /\ login[r].pc = "evict"
    /\ store = "memory"
    /\ hits' = Recent(hits)
    /\ list' = list + 1
    /\ login' = [login EXCEPT ![r].pc = "append", ![r].list = list + 1,
                              ![r].seen = Cardinality(Recent(hits))]
    /\ UNCHANGED <<store, now, failures, lock, logins, sessions, admittedAt, disturbed, wrong, intruded>>

(* The request counts what is in its list, which may have grown as long as *)
(* it is the key's, and appends its hit to that list.                      *)
CountInList(r) ==
    LET count == IF login[r].list = list THEN Cardinality(hits) ELSE login[r].seen IN
    /\ login[r].pc = "append"
    /\ IF count >= MaxHits
       THEN Out(r) /\ UNCHANGED <<hits, admittedAt>>
       ELSE /\ hits' = IF login[r].list = list THEN hits \cup {Hit(r)} ELSE hits
            /\ admittedAt' = admittedAt \cup {Hit(r)}
            /\ Go(r, "find")
    /\ UNCHANGED <<store, list, now, failures, lock, logins, sessions, disturbed, wrong, intruded>>

(* One transaction of the store. *)
CountInRedis(r) ==
    /\ login[r].pc = "evict"
    /\ store = "redis"
    /\ hits' = Recent(hits) \cup {Hit(r)}
    /\ IF Cardinality(Recent(hits)) >= MaxHits
       THEN Out(r) /\ UNCHANGED admittedAt
       ELSE Go(r, "find") /\ admittedAt' = admittedAt \cup {Hit(r)}
    /\ UNCHANGED <<store, list, now, failures, lock, logins, sessions, disturbed, wrong, intruded>>

(* A store that cannot be reached refuses a login. *)
StoreFails(r) ==
    /\ login[r].pc = "evict"
    /\ store = "redis"
    /\ Out(r)
    /\ UNCHANGED <<store, hits, list, now, failures, lock, logins, sessions, admittedAt, disturbed,
                   wrong, intruded>>

-----------------------------------------------------------------------------
(* The account *)

(* The row is read.  A lock in force refuses; one that has expired is      *)
(* forgotten, but the counter that led to it stays.                        *)
Find(r) ==
    /\ login[r].pc = "find"
    /\ IF lock > now
       THEN Out(r)
       ELSE login' = [login EXCEPT ![r].pc = "verify", ![r].seen = failures,
                                   ![r].expired = (lock # 0)]
    /\ UNCHANGED <<store, hits, list, now, failures, lock, logins, sessions, admittedAt, disturbed,
                   wrong, intruded>>

(* The counter is written as read plus one; the lock is written only when  *)
(* it is set or was to be forgotten.  The time is that of the read, which  *)
(* is also that of the write here.                                         *)
WrongPassword(r) ==
    /\ login[r].pc = "verify"
    /\ ~login[r].good
    /\ failures' = login[r].seen + 1
    /\ lock' = IF login[r].seen + 1 >= MaxFailed THEN now + Lockout
               ELSE IF login[r].expired THEN 0 ELSE lock
    /\ wrong' = wrong + 1
    /\ Out(r)
    /\ UNCHANGED <<store, hits, list, now, logins, sessions, admittedAt, disturbed, intruded>>

RightPassword(r) ==
    /\ login[r].pc = "verify"
    /\ login[r].good
    /\ failures' = IF login[r].seen = 0 THEN failures ELSE 0
    /\ lock' = IF login[r].expired THEN 0 ELSE lock
    /\ wrong' = 0
    /\ intruded' = (intruded \/ lock > now)
    /\ Go(r, "session")
    /\ UNCHANGED <<store, hits, list, now, logins, sessions, admittedAt, disturbed>>

(* A commit that fails is swallowed: the attempt is not counted, and a     *)
(* login with the right password goes on.                                  *)
Unwritten(r) ==
    /\ login[r].pc = "verify"
    /\ IF login[r].good THEN Go(r, "session") ELSE Out(r)
    /\ wrong' = IF login[r].good THEN 0 ELSE wrong
    /\ disturbed' = TRUE
    /\ UNCHANGED <<store, hits, list, now, failures, lock, logins, sessions, admittedAt, intruded>>

OpenSession(r) ==
    /\ login[r].pc = "session"
    /\ sessions' = Append(sessions, "valid")
    /\ Out(r)
    /\ UNCHANGED <<store, hits, list, now, failures, lock, logins, admittedAt, disturbed, wrong,
                   intruded>>

(* A logout needs a session that is still valid and revokes it. *)
Logout(n) ==
    /\ sessions[n] = "valid"
    /\ sessions' = [sessions EXCEPT ![n] = "revoked"]
    /\ UNCHANGED <<store, hits, list, now, failures, lock, login, logins, admittedAt, disturbed, wrong,
                   intruded>>

Tick ==
    /\ now < MaxTime
    /\ \A r \in Requests : ~In(r)
    /\ now' = now + 1
    /\ UNCHANGED <<store, hits, list, failures, lock, login, logins, sessions, admittedAt, disturbed,
                   wrong, intruded>>

Next ==
    \/ \E r \in Requests :
          \/ \E good \in BOOLEAN : Arrive(r, good)
          \/ Evict(r) \/ CountInList(r) \/ CountInRedis(r) \/ StoreFails(r)
          \/ Find(r) \/ WrongPassword(r) \/ RightPassword(r) \/ Unwritten(r) \/ OpenSession(r)
    \/ \E n \in DOMAIN sessions : Logout(n)
    \/ Tick

Spec == Init /\ [][Next]_vars

-----------------------------------------------------------------------------
(* Properties *)

TypeOK ==
    /\ hits \subseteq [nr : 1..MaxLogins, at : 1..MaxTime]
    /\ admittedAt \subseteq [nr : 1..MaxLogins, at : 1..MaxTime]
    /\ failures \in 0..MaxLogins /\ lock \in 0..(MaxTime + Lockout)
    /\ \A r \in Requests : login[r].pc \in {"outside", "evict", "append", "find", "verify",
                                            "session"}

AdmittedIn(t) ==
    Cardinality({h \in admittedAt : h.at <= t /\ h.at + Window > t})

(* No window sees more admissions than the policy allows: always with the  *)
(* store that counts in one transaction (its hits are told apart by their  *)
(* times), and with the other as long as no two requests were inside at    *)
(* once.                                                                   *)
WithinPolicy == (store = "redis" \/ ~disturbed) => \A t \in 1..MaxTime : AdmittedIn(t) <= MaxHits

(* Requests one at a time: the account counts exactly the wrong passwords  *)
(* since the last success, is locked by the last one allowed, and no right *)
(* password opens it before the lock has expired.                          *)
LockoutHolds ==
    ~disturbed =>
        /\ failures = wrong
        /\ (failures >= MaxFailed /\ \A r \in Requests : ~In(r)) => lock # 0
        /\ ~intruded

LoginSound == TypeOK /\ WithinPolicy /\ LockoutHolds

=============================================================================
