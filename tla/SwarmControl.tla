---------------------------- MODULE SwarmControl ----------------------------
(* The routes of one swarm: its row and member rows, and the cache of      *)
(* swarm engines.                                                          *)
(*                                                                         *)
(* Handlers run in the thread pool.  An editing request loads the rows,    *)
(* commits, and drops the cached engine afterwards; a reading request      *)
(* loads the rows and builds the engine from what it loaded.  No telemetry *)
(* reaches the cached engine.                                              *)
EXTENDS SwarmEngine

CONSTANTS
    Clients,       \* requests in flight
    Explicit,      \* bound: the slot numbers a client may ask for
    Rosters,       \* bound: the member lists a swarm is created with
    MaxChanges,      \* bound: editing requests
    MaxLives       \* bound: starts of the process

VARIABLES
    row,       \* the swarm: [made, exists, leader]
    rows,      \* member rows: [nr, id, role, slot]
    engines,   \* configuration of the cached engine, or NoEngine
    client,    \* the requests
    changes,     \* editing requests so far; numbers the member rows
    overlapped,\* history: clients that loaded before another's commit
    outdated,  \* history: the cached engine was built or kept from outdated rows
    gaps,      \* history: a member left, a slot was asked for, or edits overlapped
    life       \* starts of the process

vars == <<row, rows, engines, client, changes, overlapped, outdated, gaps, life>>
swarm == <<row, rows>>
cache == <<engines, outdated>>

NoEngine == [members |-> {}, leader |-> "none"]
Idle == [op |-> "none", pc |-> "idle", rows |-> {}, leader |-> NoVehicle,
         arg |-> NoVehicle, slot |-> -1]

Init ==
    /\ row = [made |-> FALSE, exists |-> FALSE, leader |-> NoVehicle]
    /\ rows = {}
    /\ engines = NoEngine
    /\ client = [c \in Clients |-> Idle]
    /\ changes = 0
    /\ overlapped = {}
    /\ outdated = FALSE
    /\ gaps = FALSE
    /\ life = 1

(* What the cached engine would be if it were built from the rows now.     *)
Built(members, leader) ==
    [members |-> {[id |-> m.id, role |-> m.role, slot |-> m.slot] : m \in members}, leader |-> leader]

Busy(c) == client[c].pc # "idle"

Enter(c, op, arg, slot) ==
    /\ client[c] = Idle
    /\ row.exists
    /\ client' = [client EXCEPT ![c] = [op |-> op, pc |-> "commit", rows |-> rows,
                                        leader |-> row.leader, arg |-> arg, slot |-> slot]]

Leave(c) ==
    /\ client' = [client EXCEPT ![c] = Idle]
    /\ overlapped' = overlapped \ {c}

(* A commit: what the other requests in flight have loaded is outdated.    *)
Commit(c, pc) ==
    /\ client' = [client EXCEPT ![c] = IF pc = "idle" THEN Idle ELSE [@ EXCEPT !.pc = pc]]
    /\ overlapped' = (overlapped \cup {d \in Clients : Busy(d)}) \ {c}

-----------------------------------------------------------------------------
(* POST: the swarm in one commit, its members in a second one.  The first  *)
(* vehicle leads unless another one is named, a member or not.             *)

CreateSwarm(c, leader) ==
    /\ client[c] = Idle
    /\ ~row.made
    /\ row' = [made |-> TRUE, exists |-> TRUE, leader |-> leader]
    /\ client' = [client EXCEPT ![c] = [Idle EXCEPT !.op = "create", !.pc = "members"]]
    /\ UNCHANGED <<rows, cache, changes, overlapped, gaps, life>>

(* The second commit invalidates nothing: an engine built in between stays. *)
CreateMembers(c, list) ==
    /\ client[c].pc = "members"
    /\ row.exists
    /\ rows' = rows \cup
         {[nr |-> -i, id |-> list[i], slot |-> i - 1,
           role |-> IF list[i] = row.leader THEN "LEADER" ELSE "FOLLOWER"] : i \in DOMAIN list}
    /\ outdated' = (engines # NoEngine)
    /\ gaps' = (gaps \/ rows # {})
    /\ Commit(c, "idle")
    /\ UNCHANGED <<row, engines, changes, life>>

-----------------------------------------------------------------------------
(* Editing requests: load and check, commit, then drop the engine.         *)

Load(c, op, arg, slot) ==
    /\ changes < MaxChanges
    /\ op = "add" => \A m \in rows : m.id # arg
    /\ op = "remove" => \E m \in rows : m.id = arg
    /\ Enter(c, op, arg, slot)
    /\ changes' = changes + 1
    /\ UNCHANGED <<swarm, cache, overlapped, gaps, life>>

SlotFor(view, slot) == IF slot >= 0 THEN slot ELSE Cardinality(view)

AddMember(c, role) ==
    LET q == client[c]
    IN /\ q.op = "add" /\ q.pc = "commit"
       /\ row.exists
       /\ rows' = rows \cup {[nr |-> changes * Cardinality(Clients) + Cardinality(rows), id |-> q.arg,
                              role |-> role, slot |-> SlotFor(q.rows, q.slot)]}
       /\ gaps' = (gaps \/ q.slot >= 0 \/ c \in overlapped)
       /\ Commit(c, "invalidate")
       /\ UNCHANGED <<row, cache, changes, life>>

(* The other members keep their slots, and the swarm its leader.           *)
DropMember(c) ==
    LET q == client[c]
    IN /\ q.op = "remove" /\ q.pc = "commit"
       /\ \E m \in q.rows \cap rows :
             /\ m.id = q.arg
             /\ rows' = rows \ {m}
       /\ gaps' = TRUE
       /\ Commit(c, "invalidate")
       /\ UNCHANGED <<row, cache, changes, life>>

(* PUT and the formation route: a new leader changes no member's role, and *)
(* a leader equal to the loaded one is not written.                        *)
UpdateSwarm(c) ==
    LET q == client[c]
    IN /\ q.op = "update" /\ q.pc = "commit"
       /\ row.exists
       /\ row' = [row EXCEPT !.leader = IF q.arg \in {NoVehicle, q.leader} THEN @ ELSE q.arg]
       /\ Commit(c, "invalidate")
       /\ UNCHANGED <<rows, cache, changes, gaps, life>>

DeleteSwarm(c) ==
    /\ client[c].op = "delete" /\ client[c].pc = "commit"
    /\ row.exists
    /\ row' = [row EXCEPT !.exists = FALSE]
    /\ rows' = {}
    /\ Commit(c, "invalidate")
    /\ UNCHANGED <<cache, changes, gaps, life>>

(* Mutant: the removal of a member keeps the engine. *)
DropsUnlessRemoved(op) == op \in {"add", "update", "delete"}

DropsEngine(op) == op \in {"add", "remove", "update", "delete"}

Invalidate(c) ==
    /\ client[c].pc = "invalidate"
    /\ engines' = IF DropsEngine(client[c].op) THEN NoEngine ELSE engines
    /\ outdated' = (outdated /\ ~DropsEngine(client[c].op))
    /\ Leave(c)
    /\ UNCHANGED <<swarm, changes, gaps, life>>

(* A commit or the refresh after it finds its rows gone, or the database   *)
(* away, and raises: the request ends and drops no engine.                 *)
Fail(c) ==
    /\ client[c].pc \in {"members", "commit", "invalidate"}
    /\ client[c].pc = "invalidate" => client[c].op # "delete"
    /\ outdated' = (outdated \/ (client[c].pc = "invalidate" /\ engines # NoEngine))
    /\ Leave(c)
    /\ UNCHANGED <<swarm, engines, changes, gaps, life>>

-----------------------------------------------------------------------------
(* GET state and health: the cached engine, or one built from the rows     *)
(* that were loaded.                                                       *)

LoadState(c) ==
    /\ Enter(c, "read", NoVehicle, -1)
    /\ UNCHANGED <<swarm, cache, changes, overlapped, gaps, life>>

ReadState(c) ==
    /\ client[c].op = "read"
    /\ engines' = IF engines # NoEngine THEN engines ELSE Built(client[c].rows, client[c].leader)
    /\ outdated' = IF engines # NoEngine THEN outdated ELSE c \in overlapped
    /\ Leave(c)
    /\ UNCHANGED <<swarm, changes, gaps, life>>

(* No telemetry reaches the engine: every member counts as stale.          *)
ReportedHealth(engine) ==
    Health(engine.leader,
           [v \in {m.id : m \in engine.members} |->
               LET m == CHOOSE m \in engine.members : m.id = v
               IN [role |-> m.role, slot |-> m.slot, at |-> 0, stale |-> TRUE, deviates |-> TRUE]])

(* A restart loses the engines and the requests.                           *)
Restart ==
    /\ life < MaxLives
    /\ life' = life + 1
    /\ engines' = NoEngine
    /\ outdated' = FALSE
    /\ client' = [c \in Clients |-> Idle]
    /\ overlapped' = {}
    /\ UNCHANGED <<swarm, changes, gaps>>

Next ==
    \/ \E c \in Clients :
        \/ \E leader \in Vehicles : CreateSwarm(c, leader)
        \/ \E list \in Rosters : CreateMembers(c, list)
        \/ \E v \in Vehicles, slot \in Explicit \cup {-1} : Load(c, "add", v, slot)
        \/ \E v \in Vehicles, op \in {"remove", "update"} : Load(c, op, v, -1)
        \/ Load(c, "delete", NoVehicle, -1)
        \/ \E role \in Roles : AddMember(c, role)
        \/ DropMember(c) \/ UpdateSwarm(c) \/ DeleteSwarm(c)
        \/ Invalidate(c) \/ Fail(c) \/ LoadState(c) \/ ReadState(c)
    \/ Restart

Spec == Init /\ [][Next]_vars

-----------------------------------------------------------------------------
TypeOK ==
    /\ row \in [made : BOOLEAN, exists : BOOLEAN, leader : Vehicles \cup {NoVehicle}]
    /\ \A m \in rows : m.id \in Vehicles /\ m.role \in Roles /\ m.slot \in Nat
    /\ overlapped \subseteq Clients
    /\ outdated \in BOOLEAN /\ gaps \in BOOLEAN

(* The cached engine is what would be built from the rows now, unless an   *)
(* edit still has to drop it, its builder had loaded the rows before a     *)
(* commit, or the request that should have dropped it failed.              *)
CacheFresh ==
    (/\ engines # NoEngine
     /\ row.exists
     /\ ~outdated
     /\ \A c \in Clients : client[c].pc # "invalidate") =>
        engines = Built(rows, row.leader)

(* Members hold slots of their own, 0 to n-1, until a member leaves, asks  *)
(* for a slot or is added while another edit commits.                      *)
SlotsOwn == ~gaps => {m.slot : m \in rows} = 0..(Cardinality(rows) - 1)

(* The routes report every swarm as disconnected.                          *)
NeverConnected == engines # NoEngine => ReportedHealth(engines) = "DISCONNECTED"

(* The safety judgement on every small swarm: it is healthy only without   *)
(* any event, or when the one thing wrong is that a vehicle with the       *)
(* leader's role that is not the leader has gone silent.                   *)
SmallStates(n) ==
    [1..n -> [role : Roles, slot : {0, 1}, at : {0, 9}, stale : BOOLEAN, deviates : {FALSE}]]
HealthReflectsEvents ==
    \A n \in 1..2 : \A states \in SmallStates(n), leader \in 0..n :
        Health(leader, states) = "HEALTHY" => \A e \in SafetyEvents(leader, states) : FALSE

(* Slots of one formation are apart, except in a grid, where the vehicle   *)
(* of the middle column of the first row is sent to the leader's place.    *)
FormationApart ==
    \A kind \in Formations, n \in 1..9 :
        \A j, k \in 0..(n - 1) :
            (j < k /\ Offset(kind, n, j) = Offset(kind, n, k)) =>
                kind = "GRID" /\ j = 0 /\ k = Columns(n) \div 2

=============================================================================
