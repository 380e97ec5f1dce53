-------------------------- MODULE Retention_proofs --------------------------
(***************************************************************************)
(* Theorems of Retention for any incidents, holds, policies and archive    *)
(* formats and any number of concurrent requests.                          *)
(***************************************************************************)
EXTENDS Retention, FiniteSetTheorems, TLAPS

(* What the position of a request says of its local variables.             *)
RequestOK(w) ==
  /\ pc[w] = "idle" => ctx[w] = NoContext
  /\ pc[w] \in {"policy", "insert", "read", "holds"} => ctx[w].rows = {} /\ ctx[w].victims = {}
  /\ pc[w] \in {"policy", "insert", "holds"} => ctx[w].op \in {"archive", "purge"}
  /\ pc[w] = "write" => \E i \in ctx[w].todo \ ctx[w].held : ctx[w].keys = {<<i, ctx[w].format>>}
  /\ pc[w] = "write" \/ ctx[w].rows # {} => ctx[w].op = "archive"
  /\ ctx[w].op = "archive" => w \in Archivers
  /\ ctx[w].pending \in {0, 1}
  /\ ctx[w].fresh => ctx[w].pending = 0

(* The types, but for the bounds of the audit counters, which are facts    *)
(* about all requests together.                                            *)
StateOK ==
  /\ incident \in [Incident -> IncidentRow]
  /\ policy \in Policies
  /\ holds \in [Hold -> HoldRow]
  /\ \A h \in Hold : holds[h].active => holds[h].of \in Incident
  /\ archives \subseteq ArchiveRow
  /\ objects \in [Key -> 0 .. MaxPayload]
  /\ payloads \in 0 .. MaxPayload
  /\ checks \in 0 .. MaxChecks
  /\ trail \in Nat
  /\ batches \in Nat
  /\ unknown \in Nat
  /\ late \in [Hold -> SUBSET Worker]
  /\ pc \in [Worker -> {"idle", "policy", "insert", "read", "holds", "loop", "write"}]
  /\ ctx \in [Worker -> Context]

(* The objects of the store are finitely many.                             *)
Stored == {k \in Key : objects[k] # 0}

StateInv ==
  /\ StateOK
  /\ IsFiniteSet(Stored)
  /\ \A w \in Worker : RequestOK(w)

(* Requests that owe the trail an event, and those that have recorded a    *)
(* check and owe none: the batch of the latter has lost nothing yet.       *)
Owing == {w \in Worker : ctx[w].pending = 1}
Even == {w \in Worker : ~ctx[w].fresh /\ ctx[w].pending = 0}

AuditInv ==
  /\ trail + unknown + Cardinality(Owing) <= checks
  /\ checks + Cardinality(Even) <= trail + unknown + batches
  /\ batches <= checks

(* What was required of a victim when it was examined stays true of it as  *)
(* long as it exists.                                                      *)
VictimOK(w, i) ==
  /\ i \notin ctx[w].held
  /\ Age[i] >= ctx[w].policy.purgeAge
  /\ ctx[w].policy.requireArchive => IsArchived(i) \/ ~incident[i].present

PurgeInv ==
  /\ \A i \in Incident : incident[i].closed => incident[i].present
  /\ \A w \in Worker : \A i \in ctx[w].victims : VictimOK(w, i)

(* With one archiver, the rows it has not committed match their objects    *)
(* too, and nobody archives an incident it is about to store.              *)
RowsOK(w) ==
  /\ \A r \in ctx[w].rows : Verified(r) /\ r.key[1] \notin ctx[w].todo
  /\ pc[w] = "write" => \A k \in ctx[w].keys : ArchivesOf(k[1]) = {}

MatchInv ==
  Cardinality(Archivers) <= 1 =>
    /\ \A a \in archives : Verified(a)
    /\ \A w \in Worker : RowsOK(w)

(* A request that read the holds after a hold was placed has it among its  *)
(* held incidents and works on none of them.                               *)
Spares(w, i) ==
  /\ i \notin ctx[w].victims
  /\ \A r \in ctx[w].rows : r.key[1] # i
  /\ pc[w] \in {"loop", "write"} /\ ctx[w].op \in {"archive", "purge"} => i \in ctx[w].held

HoldInv ==
  \A h \in Hold : holds[h].active => \A w \in Worker \ late[h] : Spares(w, holds[h].of)

-----------------------------------------------------------------------------
(* Types, and where requests stand.                                        *)

PlaceOK(p) == p \in {"idle", "policy", "insert", "read", "holds", "loop", "write"}

LEMMA Values ==
  /\ AnyFormat \in Format
  /\ NoPolicy \in Policies /\ DefaultPolicy \in Policies
  /\ NoContext \in Context
<1>1. AnyFormat \in Format
  BY RetentionAssumption DEF AnyFormat
<1>2. NoPolicy \in Policies /\ DefaultPolicy \in Policies
  BY RetentionAssumption DEF NoPolicy, DefaultPolicy, Policies
<1>3. MaxChecks \in Nat
  BY RetentionAssumption
<1> QED
  BY <1>1, <1>2, <1>3 DEF NoContext, Context

(* A step of one request leaves the others where they are.                 *)
LEMMA Stepped ==
  ASSUME StateInv, NEW w \in Worker, NEW c \in Context, NEW p, PlaceOK(p),
         ctx' = [ctx EXCEPT ![w] = c], pc' = [pc EXCEPT ![w] = p], RequestOK(w)'
  PROVE  /\ pc' \in [Worker -> {"idle", "policy", "insert", "read", "holds", "loop", "write"}]
         /\ ctx' \in [Worker -> Context]
         /\ \A v \in Worker : RequestOK(v)'
<1>1. \A v \in Worker : v # w => pc'[v] = pc[v] /\ ctx'[v] = ctx[v]
  BY DEF StateInv, StateOK
<1>2. \A v \in Worker : v # w => RequestOK(v)'
  BY <1>1 DEF StateInv, RequestOK
<1>3. pc' \in [Worker -> {"idle", "policy", "insert", "read", "holds", "loop", "write"}]
  BY DEF StateInv, StateOK, PlaceOK
<1>4. ctx' \in [Worker -> Context]
  BY DEF StateInv, StateOK
<1> QED
  BY <1>2, <1>3, <1>4

(* The end of a request.                                                   *)
LEMMA Closed ==
  ASSUME StateInv, NEW w \in Worker, Close(w)
  PROVE  /\ pc' \in [Worker -> {"idle", "policy", "insert", "read", "holds", "loop", "write"}]
         /\ ctx' \in [Worker -> Context]
         /\ late' \in [Hold -> SUBSET Worker]
         /\ \A v \in Worker : RequestOK(v)'
         /\ pc'[w] = "idle" /\ ctx'[w] = NoContext
         /\ \A v \in Worker : v # w => pc'[v] = pc[v] /\ ctx'[v] = ctx[v]
         /\ \A h \in Hold : late'[h] = late[h] \ {w}
<1>1. pc'[w] = "idle" /\ ctx'[w] = NoContext
  BY DEF StateInv, StateOK, Close
<1>2. RequestOK(w)'
  BY <1>1 DEF RequestOK, NoContext
<1>3. late' \in [Hold -> SUBSET Worker] /\ \A h \in Hold : late'[h] = late[h] \ {w}
  BY DEF StateInv, StateOK, Close
<1>4. \A v \in Worker : v # w => pc'[v] = pc[v] /\ ctx'[v] = ctx[v]
  BY DEF StateInv, StateOK, Close
<1> QED
  BY <1>1, <1>2, <1>3, <1>4, Values, Stepped DEF Close, PlaceOK

LEMMA InitState == Init => StateInv
<1> SUFFICES ASSUME Init PROVE StateInv
  OBVIOUS
<1>1. StateOK
  BY Values, RetentionAssumption DEF Init, StateOK, IncidentRow, HoldRow
<1>2. Stored = {}
  BY DEF Init, Stored
<1>3. \A w \in Worker : RequestOK(w)
  BY DEF Init, RequestOK, NoContext
<1> QED
  BY <1>1, <1>2, <1>3, FS_EmptySet DEF StateInv

-----------------------------------------------------------------------------
(* StateInv is preserved: operators and the incident service, ...          *)

LEMMA RoutesState ==
  ASSUME StateInv,
         \/ \E h \in Hold, i \in Incident : PlaceHold(h, i)
         \/ \E h \in Hold : ReleaseHold(h)
         \/ \E u \in Updates : UpdatePolicy(u)
         \/ \E i \in Incident : ChangeStatus(i)
  PROVE  StateInv'
<1>1. UNCHANGED <<objects, pc, ctx, store, audit>>
  BY DEF PlaceHold, ReleaseHold, UpdatePolicy, ChangeStatus, store
<1>2. \A w \in Worker : RequestOK(w)'
  BY <1>1 DEF StateInv, RequestOK
<1>3. IsFiniteSet(Stored)'
  BY <1>1 DEF StateInv, Stored
<1>4. StateOK'
  <2>1. ASSUME NEW h \in Hold, NEW i \in Incident, PlaceHold(h, i)
        PROVE  StateOK'
    BY <1>1, <2>1 DEF StateInv, StateOK, PlaceHold, HoldRow, store, audit
  <2>2. ASSUME NEW h \in Hold, ReleaseHold(h)
        PROVE  StateOK'
    BY <1>1, <2>2 DEF StateInv, StateOK, ReleaseHold, HoldRow, store, audit
  <2>3. ASSUME NEW u \in Updates, UpdatePolicy(u)
        PROVE  StateOK'
    <3>1. policy' \in Policies
      BY <2>3, RetentionAssumption DEF UpdatePolicy, Policies
    <3> QED
      BY <1>1, <2>3, <3>1 DEF StateInv, StateOK, UpdatePolicy, store, audit
  <2>4. ASSUME NEW i \in Incident, ChangeStatus(i)
        PROVE  StateOK'
    <3>1. [incident[i] EXCEPT !.closed = ~incident[i].closed] \in IncidentRow
      BY DEF StateInv, StateOK, IncidentRow
    <3>2. incident' = [incident EXCEPT ![i] = [incident[i] EXCEPT !.closed = ~incident[i].closed]]
      BY <2>4 DEF ChangeStatus
    <3>3. incident' \in [Incident -> IncidentRow]
      BY <3>1, <3>2 DEF StateInv, StateOK
    <3> QED
      BY <1>1, <2>4, <3>3 DEF StateInv, StateOK, ChangeStatus, store, audit
  <2> QED
    BY <2>1, <2>2, <2>3, <2>4
<1> QED
  BY <1>2, <1>3, <1>4 DEF StateInv

(* ... the start of a request, its reads and the loops, which move only    *)
(* the request itself ...                                                  *)
Tables == <<incident, policy, holds, archives, objects, payloads, checks, trail,
            batches, unknown, late>>

LEMMA LocalState ==
  ASSUME StateInv, NEW w \in Worker, NEW c \in Context, NEW p, PlaceOK(p),
         ctx' = [ctx EXCEPT ![w] = c], pc' = [pc EXCEPT ![w] = p], RequestOK(w)',
         UNCHANGED Tables
  PROVE  StateInv'
<1>1. \A v \in Worker : RequestOK(v)'
  BY Stepped
<1>2. IsFiniteSet(Stored)'
  BY DEF StateInv, Stored, Tables
<1>3. StateOK'
  BY Stepped DEF StateInv, StateOK, Tables
<1> QED
  BY <1>1, <1>2, <1>3 DEF StateInv

LEMMA BeginState ==
  ASSUME StateInv, NEW w \in Worker, NEW op \in {"archive", "purge", "verify", "orphans"},
         NEW ids \in SUBSET Incident, NEW f \in Format, Begin(w, op, ids, f)
  PROVE  StateInv'
<1> DEFINE c == [NoContext EXCEPT !.op = op, !.ids = ids, !.format = f]
           p == IF op \in {"archive", "purge"} THEN "policy" ELSE "read"
<1>1. c \in Context
  BY Values DEF Context
<1>2. ctx' = [ctx EXCEPT ![w] = c] /\ pc' = [pc EXCEPT ![w] = p] /\ PlaceOK(p)
  BY DEF Begin, Goto, PlaceOK
<1>3. ctx'[w] = c /\ pc'[w] = p
  BY <1>2 DEF StateInv, StateOK
<1>4. c.op = op /\ c.rows = {} /\ c.victims = {} /\ c.pending = 0 /\ c.fresh
  BY DEF NoContext
<1>5. op = "archive" => w \in Archivers
  BY DEF Begin, Archivers
<1>6. UNCHANGED Tables
  BY DEF Begin, Tables, store, audit
<1> HIDE DEF c
<1>7. RequestOK(w)'
  BY <1>3, <1>4, <1>5 DEF RequestOK
<1> QED
  BY <1>1, <1>2, <1>6, <1>7, LocalState

LEMMA ReadState ==
  ASSUME StateInv, NEW w \in Worker,
         GetPolicy(w) \/ ReadIncidents(w) \/ ReadHolds(w) \/ ReadNumbers(w)
           \/ \E batch \in SUBSET Key : ReadBatch(w, batch)
  PROVE  StateInv'
<1> USE DEF Goto
<1>1. CASE GetPolicy(w)
  <2> DEFINE c == [ctx[w] EXCEPT !.policy = IF ctx[w].op = "purge" THEN policy ELSE NoPolicy]
             p == IF policy.exists THEN "read" ELSE "insert"
  <2>1. c \in Context
    BY Values DEF StateInv, StateOK, Context
  <2>2. ctx' = [ctx EXCEPT ![w] = c] /\ pc' = [pc EXCEPT ![w] = p] /\ PlaceOK(p)
    BY <1>1 DEF GetPolicy, PlaceOK
  <2>3. RequestOK(w)'
    <3>1. RequestOK(w) /\ ctx'[w] = c /\ pc'[w] = p /\ ctx[w] \in Context
      BY <2>2 DEF StateInv, StateOK
    <3> QED
      BY <1>1, <3>1 DEF RequestOK, GetPolicy, Context
  <2>4. UNCHANGED Tables
    BY <1>1 DEF GetPolicy, Tables, store, audit
  <2> QED
    BY <2>1, <2>2, <2>3, <2>4, LocalState
<1>2. CASE ReadIncidents(w)
  <2> DEFINE c == [ctx[w] EXCEPT !.todo = {i \in ctx[w].ids : incident[i].present /\ incident[i].closed},
                                 !.ids = {}]
  <2>1. c \in Context
    BY DEF StateInv, StateOK, Context
  <2>2. ctx' = [ctx EXCEPT ![w] = c] /\ pc' = [pc EXCEPT ![w] = "holds"] /\ PlaceOK("holds")
    BY <1>2 DEF ReadIncidents, PlaceOK
  <2>3. RequestOK(w)'
    <3>1. RequestOK(w) /\ ctx'[w] = c /\ pc'[w] = "holds" /\ ctx[w] \in Context
      BY <2>2 DEF StateInv, StateOK
    <3>2. /\ c.op = ctx[w].op /\ c.rows = ctx[w].rows /\ c.victims = ctx[w].victims
          /\ c.pending = ctx[w].pending /\ c.fresh = ctx[w].fresh
      BY <3>1 DEF Context
    <3> HIDE DEF c
    <3> QED
      BY <1>2, <3>1, <3>2 DEF RequestOK, ReadIncidents
  <2>4. UNCHANGED Tables
    BY <1>2 DEF ReadIncidents, Tables, store, audit
  <2> QED
    BY <2>1, <2>2, <2>3, <2>4, LocalState
<1>3. CASE ReadHolds(w)
  <2> DEFINE c == [ctx[w] EXCEPT !.held = Held]
  <2>1. c \in Context
    <3>1. Held \subseteq Incident
      BY DEF StateInv, StateOK, HoldRow, Held
    <3> QED
      BY <3>1 DEF StateInv, StateOK, Context
  <2>2. ctx' = [ctx EXCEPT ![w] = c] /\ pc' = [pc EXCEPT ![w] = "loop"] /\ PlaceOK("loop")
    BY <1>3 DEF ReadHolds, PlaceOK
  <2>3. RequestOK(w)'
    <3>1. RequestOK(w) /\ ctx'[w] = c /\ pc'[w] = "loop" /\ ctx[w] \in Context
      BY <2>2 DEF StateInv, StateOK
    <3> QED
      BY <1>3, <3>1 DEF RequestOK, ReadHolds, Context
  <2>4. UNCHANGED Tables
    BY <1>3 DEF ReadHolds, Tables, store, audit
  <2> QED
    BY <2>1, <2>2, <2>3, <2>4, LocalState
<1>4. CASE ReadNumbers(w)
  <2> DEFINE c == [ctx[w] EXCEPT !.op = "orphans", !.keys = {a.key : a \in archives}]
  <2>1. c \in Context
    <3>1. {a.key : a \in archives} \subseteq Key
      BY DEF StateInv, StateOK, ArchiveRow
    <3> QED
      BY <3>1 DEF StateInv, StateOK, Context
  <2>2. ctx' = [ctx EXCEPT ![w] = c] /\ pc' = [pc EXCEPT ![w] = "loop"] /\ PlaceOK("loop")
    BY <1>4 DEF ReadNumbers, PlaceOK
  <2>3. RequestOK(w)'
    <3>1. RequestOK(w) /\ ctx'[w] = c /\ pc'[w] = "loop" /\ ctx[w] \in Context
      BY <2>2 DEF StateInv, StateOK
    <3>2. /\ c.op = "orphans" /\ c.rows = ctx[w].rows /\ c.victims = ctx[w].victims
          /\ c.pending = ctx[w].pending /\ c.fresh = ctx[w].fresh
      BY <3>1 DEF Context
    <3> HIDE DEF c
    <3> QED
      BY <1>4, <3>1, <3>2 DEF RequestOK, ReadNumbers
  <2>4. UNCHANGED Tables
    BY <1>4 DEF ReadNumbers, Tables, store, audit
  <2> QED
    BY <2>1, <2>2, <2>3, <2>4, LocalState
<1>5. ASSUME NEW batch \in SUBSET Key, ReadBatch(w, batch)
      PROVE  StateInv'
  <2> DEFINE c == [ctx[w] EXCEPT !.keys = batch]
  <2>1. c \in Context
    BY DEF StateInv, StateOK, Context
  <2>2. ctx' = [ctx EXCEPT ![w] = c] /\ pc' = [pc EXCEPT ![w] = "loop"] /\ PlaceOK("loop")
    BY <1>5 DEF ReadBatch, PlaceOK
  <2>3. RequestOK(w)'
    <3>1. RequestOK(w) /\ ctx'[w] = c /\ pc'[w] = "loop" /\ ctx[w] \in Context
      BY <2>2 DEF StateInv, StateOK
    <3> QED
      BY <1>5, <3>1 DEF RequestOK, ReadBatch, Context
  <2>4. UNCHANGED Tables
    BY <1>5 DEF ReadBatch, Tables, store, audit
  <2> QED
    BY <2>1, <2>2, <2>3, <2>4, LocalState
<1> QED
  BY <1>1, <1>2, <1>3, <1>4, <1>5

LEMMA LoopState ==
  ASSUME StateInv, NEW w \in Worker, NEW i \in Incident, PickIncident(w, i) \/ Examine(w, i)
  PROVE  StateInv'
<1>1. UNCHANGED Tables
  BY DEF PickIncident, Examine, Tables, store, audit
<1>2. CASE PickIncident(w, i)
  <2> DEFINE pass == [ctx[w] EXCEPT !.todo = ctx[w].todo \ {i}]
             pick == [ctx[w] EXCEPT !.keys = {<<i, ctx[w].format>>}]
  <2>1. pass \in Context /\ pick \in Context
    BY ZenonT(30) DEF StateInv, StateOK, Context, Key
  <2>2. CASE i \in ctx[w].held \/ ArchivesOf(i) # {}
    <3>1. ctx' = [ctx EXCEPT ![w] = pass] /\ pc' = [pc EXCEPT ![w] = "loop"] /\ PlaceOK("loop")
      <4>1. ctx' = [ctx EXCEPT ![w] = pass] /\ pc' = pc /\ pc[w] = "loop"
        BY <1>2, <2>2 DEF PickIncident
      <4> QED
        BY <4>1 DEF PlaceOK, StateInv, StateOK
    <3>2. RequestOK(w)'
      BY <1>2, <3>1 DEF StateInv, StateOK, RequestOK, PickIncident, Context
    <3> QED
      BY <1>1, <2>1, <3>1, <3>2, LocalState
  <2>3. CASE ~(i \in ctx[w].held \/ ArchivesOf(i) # {})
    <3>1. ctx' = [ctx EXCEPT ![w] = pick] /\ pc' = [pc EXCEPT ![w] = "write"] /\ PlaceOK("write")
      BY <1>2, <2>3 DEF PickIncident, PlaceOK, Goto
    <3>2. ctx'[w] = pick /\ pc'[w] = "write"
      BY <3>1 DEF StateInv, StateOK
    <3>3. RequestOK(w)'
      BY <1>2, <2>3, <3>2 DEF StateInv, StateOK, RequestOK, PickIncident, Context
    <3> QED
      BY <1>1, <2>1, <3>1, <3>3, LocalState
  <2> QED
    BY <2>2, <2>3
<1>3. CASE Examine(w, i)
  <2> DEFINE keep == [ctx[w] EXCEPT !.todo = ctx[w].todo \ {i}, !.victims = ctx[w].victims \union {i}]
             pass == [ctx[w] EXCEPT !.todo = ctx[w].todo \ {i}]
  <2>1. keep \in Context /\ pass \in Context
    BY DEF StateInv, StateOK, Context
  <2>2. pc' = [pc EXCEPT ![w] = "loop"] /\ PlaceOK("loop")
    BY <1>3 DEF Examine, PlaceOK, StateInv, StateOK
  <2>3. PICK c \in {keep, pass} : ctx' = [ctx EXCEPT ![w] = c]
    BY <1>3 DEF Examine
  <2>4. RequestOK(w)'
    BY <1>3, <2>2, <2>3 DEF StateInv, StateOK, RequestOK, Examine, Context
  <2> QED
    BY <1>1, <2>1, <2>2, <2>3, <2>4, LocalState
<1> QED
  BY <1>2, <1>3

(* ... and the writes: of an object, of the rows of a request, of a check. *)
LEMMA Picked ==
  ASSUME StateInv, NEW w \in Worker, pc[w] = "write", NEW k, k = CHOOSE key \in ctx[w].keys : TRUE
  PROVE  /\ k \in Key /\ ctx[w].keys = {k}
         /\ k[1] \in Incident /\ k[1] \in ctx[w].todo \ ctx[w].held
         /\ ctx[w].op = "archive" /\ w \in Archivers
<1>1. PICK i \in ctx[w].todo \ ctx[w].held : ctx[w].keys = {<<i, ctx[w].format>>}
  BY DEF StateInv, RequestOK
<1>2. i \in Incident /\ ctx[w].format \in Format
  BY <1>1 DEF StateInv, StateOK, Context
<1>3. k = <<i, ctx[w].format>>
  BY <1>1
<1>4. ctx[w].op = "archive" /\ w \in Archivers
  BY DEF StateInv, RequestOK
<1> QED
  BY <1>1, <1>2, <1>3, <1>4 DEF Key

LEMMA StoreState ==
  ASSUME StateInv, NEW w \in Worker, StoreObject(w)
  PROVE  StateInv'
<1> DEFINE k == CHOOSE key \in ctx[w].keys : TRUE
           row == [key |-> k, sum |-> payloads + 1]
           c == [ctx[w] EXCEPT !.rows = ctx[w].rows \union {row},
                               !.todo = ctx[w].todo \ {k[1]}, !.keys = {}]
<1>1. k \in Key /\ k[1] \in Incident /\ ctx[w].op = "archive" /\ w \in Archivers
  BY Picked DEF StoreObject
<1>2. /\ payloads' = payloads + 1 /\ payloads' \in 1 .. MaxPayload
      /\ objects' = [objects EXCEPT ![k] = payloads']
      /\ ctx' = [ctx EXCEPT ![w] = c]
      /\ pc' = [pc EXCEPT ![w] = "loop"]
      /\ UNCHANGED <<incident, policy, holds, archives, audit, late>>
  <2>1. payloads' = payloads + 1 /\ payloads < MaxPayload
    BY DEF StoreObject
  <2>2. payloads' \in 1 .. MaxPayload
    BY <2>1, RetentionAssumption DEF StateInv, StateOK
  <2>3. ctx' = [ctx EXCEPT ![w].rows = @ \union {[key |-> k, sum |-> payloads']},
                           ![w].todo = @ \ {k[1]}, ![w].keys = {}]
    BY DEF StoreObject
  <2>4. ctx' = [ctx EXCEPT ![w] = c]
    BY <2>1, <2>3 DEF StateInv, StateOK
  <2> QED
    BY <2>1, <2>2, <2>4 DEF StoreObject, Goto
<1> HIDE DEF k
<1>3. row \in ArchiveRow
  BY <1>1, <1>2 DEF ArchiveRow
<1> HIDE DEF row
<1>4. c \in Context /\ c.op = ctx[w].op /\ c.victims = ctx[w].victims
      /\ c.pending = ctx[w].pending /\ c.fresh = ctx[w].fresh
  BY <1>3, ZenonT(30) DEF StateInv, StateOK, Context
<1>5. ctx'[w] = c /\ pc'[w] = "loop" /\ RequestOK(w)
  BY <1>2 DEF StateInv, StateOK
<1>6. Stored' \subseteq Stored \union {k} /\ IsFiniteSet(Stored \union {k})
  BY <1>1, <1>2, FS_AddElement DEF StateInv, StateOK, Stored
<1>7. IsFiniteSet(Stored')
  BY <1>6, FS_Subset
<1> HIDE DEF c
<1>8. RequestOK(w)'
  BY <1>1, <1>4, <1>5 DEF RequestOK
<1>9. /\ \A v \in Worker : RequestOK(v)'
      /\ ctx' \in [Worker -> Context]
      /\ pc' \in [Worker -> {"idle", "policy", "insert", "read", "holds", "loop", "write"}]
  BY <1>2, <1>4, <1>8, Stepped DEF PlaceOK
<1>10. StateOK'
  BY <1>1, <1>2, <1>9 DEF StateInv, StateOK, audit
<1> QED
  BY <1>7, <1>9, <1>10 DEF StateInv

LEMMA CloseState ==
  ASSUME StateInv, NEW w \in Worker,
         CreatePolicy(w) \/ EndVerification(w) \/ Fail(w)
  PROVE  StateInv'
<1>1. CASE Close(w) /\ UNCHANGED <<incident, policy, holds, store, audit>>
  <2>1. StateOK' /\ \A v \in Worker : RequestOK(v)'
    BY <1>1, Closed DEF StateInv, StateOK, store, audit
  <2> QED
    BY <1>1, <2>1 DEF StateInv, Stored, store
<1>2. CASE CreatePolicy(w) /\ ~policy.exists
  <2>1. /\ policy' = DefaultPolicy /\ pc' = [pc EXCEPT ![w] = "policy"]
        /\ ctx' = ctx /\ UNCHANGED <<incident, holds, store, audit, late>>
    BY <1>2 DEF CreatePolicy, Goto
  <2>2. ctx' = [ctx EXCEPT ![w] = ctx[w]] /\ ctx[w] \in Context
    BY <2>1 DEF StateInv, StateOK
  <2>3. RequestOK(w)'
    <3>1. pc[w] = "insert" /\ RequestOK(w) /\ pc'[w] = "policy" /\ ctx'[w] = ctx[w]
      BY <1>2, <2>1 DEF StateInv, StateOK, CreatePolicy
    <3> QED
      BY <3>1 DEF RequestOK
  <2>4. StateOK' /\ \A v \in Worker : RequestOK(v)'
    BY <2>1, <2>2, <2>3, Stepped, Values DEF PlaceOK, StateInv, StateOK, store, audit
  <2> QED
    BY <2>1, <2>4 DEF StateInv, Stored, store
<1> QED
  BY <1>1, <1>2 DEF CreatePolicy, EndVerification, Fail

LEMMA CommitState ==
  ASSUME StateInv, NEW w \in Worker, CommitArchive(w) \/ CommitPurge(w)
  PROVE  StateInv'
<1>1. Close(w) /\ UNCHANGED <<policy, objects, payloads, audit>>
  BY DEF CommitArchive, CommitPurge
<1>2. IsFiniteSet(Stored)'
  BY <1>1 DEF StateInv, Stored
<1>3. /\ incident' \in [Incident -> IncidentRow]
      /\ holds' \in [Hold -> HoldRow]
      /\ \A h \in Hold : holds'[h].active => holds'[h].of \in Incident
      /\ archives' \subseteq ArchiveRow
  <2>1. CASE CommitArchive(w)
    <3>1. ctx[w].rows \subseteq ArchiveRow
      BY DEF StateInv, StateOK, Context
    <3>2. \A i \in Incident : [incident[i] EXCEPT !.archived = TRUE] \in IncidentRow
      BY DEF StateInv, StateOK, IncidentRow
    <3> QED
      BY <2>1, <3>1, <3>2 DEF StateInv, StateOK, CommitArchive
  <2>2. CASE CommitPurge(w)
    <3>1. CASE UNCHANGED <<incident, archives, holds>>
      BY <3>1 DEF StateInv, StateOK
    <3>2. CASE ~UNCHANGED <<incident, archives, holds>>
      <4> DEFINE gone == ctx[w].victims
                 noHold == [active |-> FALSE, of |-> None]
                 noRow == [present |-> FALSE, closed |-> FALSE, archived |-> FALSE]
      <4>1. /\ incident' = [i \in Incident |-> IF i \in gone THEN noRow ELSE incident[i]]
            /\ archives' = {a \in archives : a.key[1] \notin gone}
            /\ holds' = [h \in Hold |-> IF holds[h].of \in gone THEN noHold ELSE holds[h]]
        BY <2>2, <3>2 DEF CommitPurge
      <4>2. noHold \in HoldRow /\ ~noHold.active /\ noRow \in IncidentRow
        BY DEF HoldRow, IncidentRow
      <4> HIDE DEF gone, noHold, noRow
      <4> QED
        BY <4>1, <4>2 DEF StateInv, StateOK
    <3> QED
      BY <3>1, <3>2
  <2> QED
    BY <2>1, <2>2
<1>4. StateOK'
  BY <1>1, <1>3, Closed DEF StateInv, StateOK, audit
<1> QED
  BY <1>1, <1>2, <1>4, Closed DEF StateInv

LEMMA OrphansFound ==
  ASSUME StateInv, NEW known
  PROVE  Cardinality(Orphans(known)) \in Nat
<1>1. Orphans(known) \subseteq Stored
  BY DEF Orphans, Stored
<1> QED
  BY <1>1, FS_Subset, FS_CardinalityType DEF StateInv

LEMMA VerifyState ==
  ASSUME StateInv, NEW w \in Worker,
         ListObjects(w) \/ \E k \in Key : VerifyArchive(w, k)
  PROVE  StateInv'
<1>1. CASE ListObjects(w)
  <2> DEFINE found == Cardinality(Orphans(ctx[w].keys))
  <2>1. found \in Nat /\ ctx[w].pending \in {0, 1} /\ MaxChecks \in Nat
    BY OrphansFound, RetentionAssumption DEF StateInv, RequestOK
  <2>2. /\ checks + found <= MaxChecks /\ checks' = checks + found
        /\ trail' = trail + ctx[w].pending + found
        /\ Close(w)
        /\ UNCHANGED <<incident, policy, holds, store, batches, unknown>>
    BY <1>1 DEF ListObjects
  <2> HIDE DEF found
  <2>3. checks' \in 0 .. MaxChecks /\ trail' \in Nat
    BY <2>1, <2>2 DEF StateInv, StateOK
  <2>4. StateOK' /\ \A v \in Worker : RequestOK(v)'
    BY <2>2, <2>3, Closed DEF StateInv, StateOK, store
  <2> QED
    BY <2>2, <2>4 DEF StateInv, Stored, store
<1>2. ASSUME NEW k \in Key, VerifyArchive(w, k)
      PROVE  StateInv'
  <2>1. PICK known \in {0, 1} :
          /\ unknown' = unknown + 1 - known
          /\ ctx' = [ctx EXCEPT ![w].keys = @ \ {k}, ![w].fresh = FALSE, ![w].pending = known]
    BY <1>2 DEF VerifyArchive
  <2>2. /\ checks < MaxChecks /\ checks' = checks + 1
        /\ trail' = trail + ctx[w].pending
        /\ batches' = IF ctx[w].fresh THEN batches + 1 ELSE batches
        /\ pc[w] = "loop" /\ ctx[w].op = "verify"
        /\ UNCHANGED <<incident, policy, holds, store, late, pc>>
    BY <1>2 DEF VerifyArchive, RecordCheck
  <2> DEFINE c == [ctx[w] EXCEPT !.keys = ctx[w].keys \ {k}, !.fresh = FALSE, !.pending = known]
  <2>3. ctx' = [ctx EXCEPT ![w] = c]
    BY <2>1 DEF StateInv, StateOK
  <2>4. MaxChecks \in Nat /\ known \in 0 .. MaxChecks
    BY <2>2, RetentionAssumption DEF StateInv, StateOK
  <2>5. c \in Context /\ c.op = "verify" /\ c.rows = ctx[w].rows /\ c.victims = ctx[w].victims
        /\ c.pending = known /\ ~c.fresh
    BY <2>2, <2>4 DEF StateInv, StateOK, Context
  <2> HIDE DEF c
  <2>6. ctx'[w] = c /\ pc'[w] = "loop" /\ RequestOK(w) /\ pc' = [pc EXCEPT ![w] = "loop"]
    BY <2>2, <2>3 DEF StateInv, StateOK
  <2>7. RequestOK(w)'
    BY <2>2, <2>5, <2>6 DEF RequestOK
  <2>8. /\ \A v \in Worker : RequestOK(v)'
        /\ ctx' \in [Worker -> Context]
    BY <2>3, <2>5, <2>6, <2>7, Stepped DEF PlaceOK
  <2>9. checks' \in 0 .. MaxChecks /\ trail' \in Nat /\ batches' \in Nat /\ unknown' \in Nat
    <3>1. ctx[w].pending \in {0, 1} /\ checks \in 0 .. MaxChecks
          /\ trail \in Nat /\ batches \in Nat /\ unknown \in Nat
      BY DEF StateInv, StateOK, RequestOK
    <3> QED
      BY <2>1, <2>2, <2>4, <3>1
  <2>10. StateOK'
    BY <2>2, <2>8, <2>9 DEF StateInv, StateOK, store
  <2> QED
    BY <2>2, <2>8, <2>10 DEF StateInv, Stored, store
<1> QED
  BY <1>1, <1>2

LEMMA NextState == StateInv /\ [Next]_vars => StateInv'
<1> SUFFICES ASSUME StateInv, [Next]_vars PROVE StateInv'
  OBVIOUS
<1>1. CASE GovernanceRoutes
  <2>1. ASSUME NEW w \in Worker, NEW ids \in Selections, NEW f \in Format, Begin(w, "archive", ids, f)
        PROVE  StateInv'
    BY <2>1, BeginState, RetentionAssumption
  <2>2. ASSUME NEW w \in Worker, Begin(w, "purge", Incident, AnyFormat)
        PROVE  StateInv'
    BY <2>2, BeginState, Values
  <2> QED
    BY <1>1, <2>1, <2>2, RoutesState DEF GovernanceRoutes
<1>2. CASE IntegrityRoutes
  BY <1>2, BeginState, Values DEF IntegrityRoutes
<1>3. ASSUME NEW w \in Worker, Step(w)
      PROVE  StateInv'
  BY <1>3, ReadState, LoopState, StoreState, CloseState, CommitState, VerifyState DEF Step
<1>4. CASE UNCHANGED vars
  <2>1. StateOK' /\ UNCHANGED <<objects, pc, ctx>>
    BY <1>4 DEF vars, store, audit, StateInv, StateOK
  <2> QED
    BY <2>1 DEF StateInv, RequestOK, Stored
<1> QED
  BY <1>1, <1>2, <1>3, <1>4, RoutesState DEF Next

-----------------------------------------------------------------------------
(* The audit trail.  A step records a check, or owes nothing new.          *)

LEMMA AuditSets ==
  /\ IsFiniteSet(Owing) /\ Cardinality(Owing) \in Nat
  /\ IsFiniteSet(Even) /\ Cardinality(Even) \in Nat
<1>1. IsFiniteSet(Owing) /\ IsFiniteSet(Even)
  BY RetentionAssumption, FS_Subset DEF Owing, Even
<1> QED
  BY <1>1, FS_CardinalityType

(* A set that gains or loses one request, or keeps what it has.            *)
LEMMA OneMore ==
  ASSUME NEW S, NEW T, IsFiniteSet(S), NEW w,
         \A v : v # w => (v \in S <=> v \in T)
  PROVE  /\ Cardinality(S) \in Nat
         /\ Cardinality(T) = Cardinality(S) + (IF w \in T THEN 1 ELSE 0) - (IF w \in S THEN 1 ELSE 0)
<1>1. Cardinality(S) \in Nat
  BY FS_CardinalityType
<1>2. CASE w \in T /\ w \in S
  <2>1. T = S
    BY <1>2
  <2> QED
    BY <1>1, <1>2, <2>1
<1>3. CASE w \in T /\ w \notin S
  <2>1. T = S \union {w}
    BY <1>3
  <2> QED
    BY <1>1, <1>3, <2>1, FS_AddElement
<1>4. CASE w \notin T /\ w \in S
  <2>1. T = S \ {w}
    BY <1>4
  <2>2. Cardinality(T) = Cardinality(S) - 1
    BY <1>4, <2>1, FS_RemoveElement
  <2> QED
    BY <1>1, <1>4, <2>2
<1>5. CASE w \notin T /\ w \notin S
  <2>1. T = S
    BY <1>5
  <2> QED
    BY <1>1, <1>5, <2>1
<1> QED
  BY <1>2, <1>3, <1>4, <1>5

(* What a step that moves one request does to the two sets.                *)
LEMMA Accounted ==
  ASSUME StateInv, StateInv', NEW w \in Worker,
         \A v \in Worker : v # w => ctx'[v] = ctx[v]
  PROVE  /\ Cardinality(Owing') = Cardinality(Owing) + ctx'[w].pending - ctx[w].pending
         /\ Cardinality(Even') = Cardinality(Even)
              + (IF ~ctx'[w].fresh /\ ctx'[w].pending = 0 THEN 1 ELSE 0)
              - (IF ~ctx[w].fresh /\ ctx[w].pending = 0 THEN 1 ELSE 0)
<1>1. ctx[w].pending \in {0, 1} /\ ctx'[w].pending \in {0, 1}
  BY DEF StateInv, RequestOK
<1>2. \A v : v # w => (v \in Owing <=> v \in Owing') /\ (v \in Even <=> v \in Even')
  BY DEF Owing, Even
<1>3. /\ w \in Owing <=> ctx[w].pending = 1
      /\ w \in Owing' <=> ctx'[w].pending = 1
      /\ w \in Even <=> ~ctx[w].fresh /\ ctx[w].pending = 0
      /\ w \in Even' <=> ~ctx'[w].fresh /\ ctx'[w].pending = 0
  BY DEF Owing, Even
<1>4. Cardinality(Owing') = Cardinality(Owing) + (IF w \in Owing' THEN 1 ELSE 0) - (IF w \in Owing THEN 1 ELSE 0)
  BY <1>2, AuditSets, OneMore
<1>5. Cardinality(Even') = Cardinality(Even) + (IF w \in Even' THEN 1 ELSE 0) - (IF w \in Even THEN 1 ELSE 0)
  BY <1>2, AuditSets, OneMore
<1>6. Cardinality(Owing) \in Nat
  BY AuditSets
<1>7. Cardinality(Owing') = Cardinality(Owing) + ctx'[w].pending - ctx[w].pending
  BY <1>1, <1>3, <1>4, <1>6
<1> QED
  BY <1>3, <1>5, <1>7

(* Whoever stops owing without a check has its event lost with it; it can  *)
(* only have been the last of its batch.                                   *)
Quiet ==
  /\ UNCHANGED audit
  /\ Owing' \subseteq Owing
  /\ Even' \subseteq Even

LEMMA QuietAudit ==
  ASSUME AuditInv, StateInv, Quiet
  PROVE  AuditInv'
<1>1. /\ Cardinality(Owing') <= Cardinality(Owing) /\ Cardinality(Owing') \in Nat
      /\ Cardinality(Even') <= Cardinality(Even) /\ Cardinality(Even') \in Nat
      /\ Cardinality(Owing) \in Nat /\ Cardinality(Even) \in Nat
  BY AuditSets, FS_Subset, FS_CardinalityType DEF Quiet
<1>2. checks \in Nat /\ trail \in Nat /\ unknown \in Nat /\ batches \in Nat
  BY RetentionAssumption DEF StateInv, StateOK
<1>3. checks' = checks /\ trail' = trail /\ unknown' = unknown /\ batches' = batches
  BY DEF Quiet, audit
<1> QED
  BY <1>1, <1>2, <1>3 DEF AuditInv

LEMMA CloseQuiet ==
  ASSUME StateInv, NEW w \in Worker, Close(w)
  PROVE  Owing' \subseteq Owing /\ Even' \subseteq Even
BY Closed DEF Owing, Even, NoContext

LEMMA VerifyAudit ==
  ASSUME AuditInv, StateInv, StateInv', NEW w \in Worker, NEW k \in Key, VerifyArchive(w, k)
  PROVE  AuditInv'
<1>1. PICK known \in {0, 1} :
        /\ unknown' = unknown + 1 - known
        /\ ctx' = [ctx EXCEPT ![w].keys = @ \ {k}, ![w].fresh = FALSE, ![w].pending = known]
  BY DEF VerifyArchive
<1>2. /\ checks' = checks + 1
      /\ trail' = trail + ctx[w].pending
      /\ batches' = IF ctx[w].fresh THEN batches + 1 ELSE batches
  BY DEF VerifyArchive, RecordCheck
<1>3. /\ \A v \in Worker : v # w => ctx'[v] = ctx[v]
      /\ ~ctx'[w].fresh /\ ctx'[w].pending = known
  BY <1>1 DEF StateInv, StateOK, Context
<1>4. /\ Cardinality(Owing') = Cardinality(Owing) + known - ctx[w].pending
      /\ Cardinality(Even') = Cardinality(Even) + (IF known = 0 THEN 1 ELSE 0)
                              - (IF ~ctx[w].fresh /\ ctx[w].pending = 0 THEN 1 ELSE 0)
  BY <1>3, Accounted
<1>5. /\ ctx[w].pending \in {0, 1} /\ ctx[w].fresh \in BOOLEAN
      /\ ctx[w].fresh => ctx[w].pending = 0
  BY DEF StateInv, StateOK, RequestOK, Context
<1>6. checks \in Nat /\ trail \in Nat /\ unknown \in Nat /\ batches \in Nat
      /\ Cardinality(Owing) \in Nat /\ Cardinality(Even) \in Nat
  BY AuditSets, RetentionAssumption DEF StateInv, StateOK
<1>7. trail' + unknown' + Cardinality(Owing') <= checks'
  BY <1>1, <1>2, <1>4, <1>5, <1>6 DEF AuditInv
<1>8. checks' + Cardinality(Even') <= trail' + unknown' + batches'
  BY <1>1, <1>2, <1>4, <1>5, <1>6 DEF AuditInv
<1>9. batches' <= checks'
  BY <1>2, <1>6 DEF AuditInv
<1> QED
  BY <1>7, <1>8, <1>9 DEF AuditInv

LEMMA ListAudit ==
  ASSUME AuditInv, StateInv, StateInv', NEW w \in Worker, ListObjects(w)
  PROVE  AuditInv'
<1> DEFINE found == Cardinality(Orphans(ctx[w].keys))
<1>1. /\ checks' = checks + found
      /\ trail' = trail + ctx[w].pending + found
      /\ unknown' = unknown /\ batches' = batches /\ Close(w)
  BY DEF ListObjects
<1>2. found \in Nat
  BY OrphansFound
<1>3. /\ \A v \in Worker : v # w => ctx'[v] = ctx[v]
      /\ ctx'[w].pending = 0 /\ ctx'[w].fresh
  BY <1>1, Closed DEF NoContext
<1>4. /\ Cardinality(Owing') = Cardinality(Owing) - ctx[w].pending
      /\ Cardinality(Even') <= Cardinality(Even)
      /\ ctx[w].pending \in {0, 1}
  <2>1. ctx[w].pending \in {0, 1} /\ Cardinality(Owing) \in Nat /\ Cardinality(Even) \in Nat
    BY AuditSets DEF StateInv, RequestOK
  <2> QED
    BY <1>3, <2>1, Accounted
<1>5. checks \in Nat /\ trail \in Nat /\ unknown \in Nat /\ batches \in Nat
      /\ Cardinality(Owing) \in Nat /\ Cardinality(Even) \in Nat /\ Cardinality(Even') \in Nat
  <2>1. Cardinality(Even') \in Nat
    <3>1. Even' \subseteq Even
      BY <1>1, CloseQuiet
    <3> QED
      BY <3>1, AuditSets, FS_Subset, FS_CardinalityType
  <2> QED
    BY <2>1, AuditSets, RetentionAssumption DEF StateInv, StateOK
<1> HIDE DEF found
<1> QED
  BY <1>1, <1>2, <1>4, <1>5 DEF AuditInv

LEMMA QuietSteps ==
  ASSUME StateInv, [Next]_vars, ~(\E w \in Worker : ListObjects(w)),
         ~(\E w \in Worker, k \in Key : VerifyArchive(w, k))
  PROVE  Quiet
<1>1. ASSUME UNCHANGED audit, UNCHANGED ctx
      PROVE  Quiet
  BY <1>1 DEF Quiet, Owing, Even
<1>2. ASSUME NEW w \in Worker, UNCHANGED audit, Close(w)
      PROVE  Quiet
  BY <1>2, CloseQuiet DEF Quiet
<1>3. ASSUME NEW w \in Worker, UNCHANGED audit, \A v \in Worker : v # w => ctx'[v] = ctx[v],
             ctx'[w].fresh = ctx[w].fresh, ctx'[w].pending = ctx[w].pending
      PROVE  Quiet
  BY <1>3 DEF Quiet, Owing, Even
<1>4. ASSUME NEW w \in Worker, NEW op, NEW ids, NEW f, Begin(w, op, ids, f)
      PROVE  Quiet
  <2>1. ctx[w] = NoContext
    BY <1>4 DEF StateInv, RequestOK, Begin
  <2>2. ctx' = [ctx EXCEPT ![w] = [NoContext EXCEPT !.op = op, !.ids = ids, !.format = f]]
    BY <1>4 DEF Begin
  <2>3. /\ \A v \in Worker : v # w => ctx'[v] = ctx[v]
        /\ ctx'[w].fresh = ctx[w].fresh /\ ctx'[w].pending = ctx[w].pending
    BY <2>1, <2>2 DEF StateInv, StateOK, NoContext
  <2> QED
    BY <1>3, <1>4, <2>3 DEF Begin, audit
<1>5. ASSUME NEW w \in Worker,
             \/ GetPolicy(w) \/ ReadIncidents(w) \/ ReadHolds(w) \/ ReadNumbers(w) \/ StoreObject(w)
             \/ \E batch \in SUBSET Key : ReadBatch(w, batch)
             \/ \E i \in Incident : PickIncident(w, i) \/ Examine(w, i)
      PROVE  Quiet
  <2>1. UNCHANGED audit
    BY <1>5 DEF GetPolicy, ReadIncidents, ReadHolds, ReadNumbers, StoreObject, ReadBatch,
                PickIncident, Examine, audit
  <2>2. \A v \in Worker : v # w => ctx'[v] = ctx[v]
    BY <1>5 DEF GetPolicy, ReadIncidents, ReadHolds, ReadNumbers, StoreObject, ReadBatch,
                PickIncident, Examine, StateInv, StateOK
  <2>3. ctx'[w].fresh = ctx[w].fresh /\ ctx'[w].pending = ctx[w].pending
    <3>1. CASE GetPolicy(w) \/ ReadIncidents(w) \/ ReadHolds(w)
      BY <3>1 DEF GetPolicy, ReadIncidents, ReadHolds, StateInv, StateOK, Context
    <3>2. CASE ReadNumbers(w) \/ \E batch \in SUBSET Key : ReadBatch(w, batch)
      BY <3>2 DEF ReadNumbers, ReadBatch, StateInv, StateOK, Context
    <3>3. CASE \E i \in Incident : PickIncident(w, i) \/ Examine(w, i)
      BY <3>3 DEF PickIncident, Examine, StateInv, StateOK, Context
    <3>4. CASE StoreObject(w)
      BY <3>4, ZenonT(30) DEF StoreObject, StateInv, StateOK, Context
    <3> QED
      BY <1>5, <3>1, <3>2, <3>3, <3>4
  <2> QED
    BY <1>3, <2>1, <2>2, <2>3
<1>6. CASE GovernanceRoutes
  BY <1>1, <1>4, <1>6 DEF GovernanceRoutes, PlaceHold, ReleaseHold, UpdatePolicy
<1>7. CASE IntegrityRoutes
  BY <1>4, <1>7 DEF IntegrityRoutes
<1>8. CASE \E i \in Incident : ChangeStatus(i)
  BY <1>1, <1>8 DEF ChangeStatus
<1>9. ASSUME NEW w \in Worker, Step(w)
      PROVE  Quiet
  <2>1. CASE CreatePolicy(w)
    BY <1>1, <1>2, <2>1 DEF CreatePolicy
  <2>2. CASE CommitArchive(w) \/ CommitPurge(w) \/ EndVerification(w) \/ Fail(w)
    BY <1>2, <2>2 DEF CommitArchive, CommitPurge, EndVerification, Fail
  <2> QED
    BY <1>5, <1>9, <2>1, <2>2 DEF Step
<1>10. CASE UNCHANGED vars
  BY <1>1, <1>10 DEF vars, store, audit
<1> QED
  BY <1>6, <1>7, <1>8, <1>9, <1>10 DEF Next

LEMMA NextAudit == AuditInv /\ StateInv /\ StateInv' /\ [Next]_vars => AuditInv'
<1> SUFFICES ASSUME AuditInv, StateInv, StateInv', [Next]_vars PROVE AuditInv'
  OBVIOUS
<1> QED
  BY VerifyAudit, ListAudit, QuietSteps, QuietAudit

LEMMA InitAudit == Init => AuditInv
<1> SUFFICES ASSUME Init PROVE AuditInv
  OBVIOUS
<1>1. Owing = {} /\ Even = {}
  BY DEF Init, Owing, Even, NoContext
<1>2. Cardinality(Owing) = 0 /\ Cardinality(Even) = 0
  BY <1>1, FS_EmptySet
<1> QED
  BY <1>2 DEF Init, AuditInv

LEMMA AuditTypes == StateInv /\ AuditInv => TypeOK /\ AuditLossBounded
<1> SUFFICES ASSUME StateInv, AuditInv PROVE TypeOK /\ AuditLossBounded
  OBVIOUS
<1>1. checks \in 0 .. MaxChecks /\ trail \in Nat /\ unknown \in Nat /\ batches \in Nat
      /\ Cardinality(Owing) \in Nat /\ Cardinality(Even) \in Nat /\ MaxChecks \in Nat
  BY AuditSets, RetentionAssumption DEF StateInv, StateOK
<1>2. trail \in 0 .. MaxChecks /\ unknown \in 0 .. MaxChecks /\ batches \in 0 .. MaxChecks
      /\ checks <= trail + unknown + batches
  BY <1>1 DEF AuditInv
<1> QED
  BY <1>2 DEF StateInv, StateOK, TypeOK, AuditLossBounded

(* For any requests and any order of checks, commits and failures, each    *)
(* verification request loses at most the audit event of its last check.   *)
THEOREM AuditLossStaysBounded == Spec => []AuditLossBounded
BY InitState, NextState, InitAudit, NextAudit, AuditTypes, PTL DEF Spec

-----------------------------------------------------------------------------
(* What a step may do to the rows all requests share.                      *)

LEMMA ArchiveEffect ==
  ASSUME NEW w \in Worker, CommitArchive(w)
  PROVE  \/ UNCHANGED <<incident, archives>>
         \/ /\ \A r \in ctx[w].rows : incident[r.key[1]].present
            /\ archives' = archives \union ctx[w].rows
            /\ incident' = [i \in Incident |->
                 IF \E r \in ctx[w].rows : r.key[1] = i
                 THEN [incident[i] EXCEPT !.archived = TRUE] ELSE incident[i]]
BY DEF CommitArchive

LEMMA PurgeEffect ==
  ASSUME StateInv, NEW w \in Worker, CommitPurge(w)
  PROVE  \/ UNCHANGED <<incident, archives, holds>>
         \/ /\ ctx[w].victims \subseteq Bare
            /\ archives' = {a \in archives : a.key[1] \notin ctx[w].victims}
            /\ \A i \in ctx[w].victims :
                 ~incident'[i].present /\ ~incident'[i].closed /\ ~incident'[i].archived
            /\ \A i \in Incident \ ctx[w].victims : incident'[i] = incident[i]
            /\ \A h \in Hold : IF holds[h].of \in ctx[w].victims
                               THEN ~holds'[h].active /\ holds'[h].of = None
                               ELSE holds'[h] = holds[h]
<1>1. ctx[w].victims \subseteq Incident
  BY DEF StateInv, StateOK, Context
<1> QED
  BY <1>1 DEF CommitPurge, Deletable

(* Every other step leaves incidents and archive rows alone.               *)
LEMMA RowsStep ==
  ASSUME [Next]_vars,
         ~(\E w \in Worker : CommitArchive(w) \/ CommitPurge(w)),
         ~(\E i \in Incident : ChangeStatus(i))
  PROVE  UNCHANGED <<incident, archives>>
<1>1. ASSUME NEW w \in Worker, NEW op, NEW ids, NEW f, Begin(w, op, ids, f)
      PROVE  UNCHANGED <<incident, archives>>
  BY <1>1 DEF Begin, store
<1>2. CASE GovernanceRoutes
  BY <1>1, <1>2 DEF GovernanceRoutes, PlaceHold, ReleaseHold, UpdatePolicy, store
<1>3. CASE IntegrityRoutes
  BY <1>1, <1>3 DEF IntegrityRoutes
<1>4. ASSUME NEW w \in Worker, Step(w)
      PROVE  UNCHANGED <<incident, archives>>
  BY <1>4 DEF Step, GetPolicy, CreatePolicy, ReadIncidents, ReadHolds, PickIncident, Examine,
       StoreObject, ReadBatch, VerifyArchive, ReadNumbers, ListObjects, EndVerification, Fail, store
<1>5. CASE UNCHANGED vars
  BY <1>5 DEF vars, store
<1> QED
  BY <1>2, <1>3, <1>4, <1>5 DEF Next

(* Holds change by their routes, or go with their incident.                *)
LEMMA HoldsStep ==
  ASSUME [Next]_vars,
         ~(\E w \in Worker : CommitPurge(w)),
         ~(\E h \in Hold, i \in Incident : PlaceHold(h, i)),
         ~(\E h \in Hold : ReleaseHold(h))
  PROVE  UNCHANGED holds
<1>1. ASSUME NEW w \in Worker, NEW op, NEW ids, NEW f, Begin(w, op, ids, f)
      PROVE  UNCHANGED holds
  BY <1>1 DEF Begin
<1>2. CASE GovernanceRoutes
  BY <1>1, <1>2 DEF GovernanceRoutes, UpdatePolicy
<1>3. CASE IntegrityRoutes
  BY <1>1, <1>3 DEF IntegrityRoutes
<1>4. ASSUME NEW w \in Worker, Step(w)
      PROVE  UNCHANGED holds
  BY <1>4 DEF Step, GetPolicy, CreatePolicy, ReadIncidents, ReadHolds, PickIncident, Examine, CommitArchive,
       StoreObject, ReadBatch, VerifyArchive, ReadNumbers, ListObjects, EndVerification, Fail
<1>5. CASE UNCHANGED vars
  BY <1>5 DEF vars
<1>6. CASE \E i \in Incident : ChangeStatus(i)
  BY <1>6 DEF ChangeStatus
<1> QED
  BY <1>2, <1>3, <1>4, <1>5, <1>6 DEF Next

LEMMA InitReferences == Init => ReferencesLive
<1> SUFFICES ASSUME Init PROVE ReferencesLive
  OBVIOUS
<1>1. /\ archives = {} /\ \A h \in Hold : holds[h].of = None
      /\ \A i \in Incident : incident[i].present /\ ~incident[i].archived
  BY DEF Init
<1> QED
  BY <1>1 DEF ReferencesLive, ArchivedStateBacked, RowsHaveIncident, TimelineSurvives

LEMMA NextReferences == ReferencesLive /\ StateInv /\ [Next]_vars => ReferencesLive'
<1> SUFFICES ASSUME ReferencesLive, StateInv, [Next]_vars PROVE ReferencesLive'
  OBVIOUS
<1> USE DEF ReferencesLive
<1>1. \A w \in Worker : ctx[w].rows \subseteq ArchiveRow
  BY DEF StateInv, StateOK, Context
<1>2. \A a \in ArchiveRow : a.key[1] \in Incident
  BY DEF ArchiveRow, Key
<1>3. \A a \in archives : a.key[1] \in Incident
  BY <1>2 DEF StateInv, StateOK
<1>4. \A h \in Hold : holds[h].of # None => holds[h].of \in Incident
  BY DEF StateInv, StateOK, HoldRow
<1>5. \A i \in Incident : incident[i] \in IncidentRow
  BY DEF StateInv, StateOK
<1>6. CASE UNCHANGED <<incident, archives, holds>>
  BY <1>6 DEF ArchivedStateBacked, RowsHaveIncident, TimelineSurvives, ArchivesOf
<1>7. ASSUME NEW w \in Worker, CommitArchive(w)
      PROVE  ReferencesLive'
  <2>1. UNCHANGED holds
    BY <1>7 DEF CommitArchive
  <2>2. CASE UNCHANGED <<incident, archives>>
    BY <1>6, <2>1, <2>2
  <2>3. CASE ~UNCHANGED <<incident, archives>>
    <3>1. /\ \A r \in ctx[w].rows : incident[r.key[1]].present
          /\ archives' = archives \union ctx[w].rows
          /\ incident' = [i \in Incident |->
               IF \E r \in ctx[w].rows : r.key[1] = i
               THEN [incident[i] EXCEPT !.archived = TRUE] ELSE incident[i]]
      BY <1>7, <2>3, ArchiveEffect
    <3>2. \A i \in Incident :
            /\ incident'[i].present = incident[i].present
            /\ incident'[i].archived => incident[i].archived \/ \E r \in ctx[w].rows : r.key[1] = i
      BY <1>5, <3>1 DEF IncidentRow
    <3>3. ArchivedStateBacked'
      BY <3>1, <3>2 DEF ArchivedStateBacked, ArchivesOf
    <3>4. RowsHaveIncident'
      BY <1>1, <1>2, <1>3, <1>4, <2>1, <3>1, <3>2 DEF RowsHaveIncident
    <3>5. TimelineSurvives'
      BY <3>2 DEF TimelineSurvives
    <3> QED
      BY <3>3, <3>4, <3>5
  <2> QED
    BY <2>2, <2>3
<1>8. ASSUME NEW w \in Worker, CommitPurge(w)
      PROVE  ReferencesLive'
  <2>1. CASE UNCHANGED <<incident, archives, holds>>
    BY <1>6, <2>1
  <2>2. CASE ~UNCHANGED <<incident, archives, holds>>
    <3> DEFINE gone == ctx[w].victims
    <3>1. /\ gone \subseteq Bare
          /\ archives' = {a \in archives : a.key[1] \notin gone}
          /\ \A i \in gone : ~incident'[i].present /\ ~incident'[i].archived
          /\ \A i \in Incident \ gone : incident'[i] = incident[i]
          /\ \A h \in Hold : IF holds[h].of \in gone THEN holds'[h].of = None
                             ELSE holds'[h] = holds[h]
      BY <1>8, <2>2, PurgeEffect
    <3> HIDE DEF gone
    <3>2. ArchivedStateBacked'
      BY <3>1 DEF ArchivedStateBacked, ArchivesOf
    <3>3. RowsHaveIncident'
      BY <1>3, <1>4, <3>1 DEF RowsHaveIncident
    <3>4. TimelineSurvives'
      BY <3>1 DEF TimelineSurvives
    <3> QED
      BY <3>2, <3>3, <3>4
  <2> QED
    BY <2>1, <2>2
<1>9. ASSUME NEW i \in Incident, ChangeStatus(i)
      PROVE  ReferencesLive'
  <2>1. UNCHANGED <<archives, holds>>
    BY <1>9 DEF ChangeStatus, store
  <2>2. \A j \in Incident : /\ incident'[j].present = incident[j].present
                            /\ incident'[j].archived = incident[j].archived
    BY <1>5, <1>9 DEF ChangeStatus, IncidentRow, StateInv, StateOK
  <2> QED
    BY <1>3, <1>4, <2>1, <2>2 DEF ArchivedStateBacked, RowsHaveIncident, TimelineSurvives, ArchivesOf
<1>10. ASSUME NEW h \in Hold, NEW i \in Incident, PlaceHold(h, i)
       PROVE  ReferencesLive'
  <2>1. UNCHANGED <<incident, archives>> /\ incident[i].present
    BY <1>10 DEF PlaceHold, store
  <2>2. \A g \in Hold : holds'[g].of = holds[g].of \/ holds'[g].of = i
    BY <1>10 DEF PlaceHold, StateInv, StateOK
  <2> QED
    BY <2>1, <2>2 DEF ArchivedStateBacked, RowsHaveIncident, TimelineSurvives, ArchivesOf
<1>11. ASSUME NEW h \in Hold, ReleaseHold(h)
       PROVE  ReferencesLive'
  <2>1. UNCHANGED <<incident, archives>>
    BY <1>11 DEF ReleaseHold, store
  <2>2. \A g \in Hold : holds'[g].of = holds[g].of
    BY <1>11 DEF ReleaseHold, StateInv, StateOK, HoldRow
  <2> QED
    BY <2>1, <2>2 DEF ArchivedStateBacked, RowsHaveIncident, TimelineSurvives, ArchivesOf
<1> QED
  BY <1>6, <1>7, <1>8, <1>9, <1>10, <1>11, RowsStep, HoldsStep

(* For any overlap of archivals, purges, holds and failures: an incident   *)
(* marked ARCHIVED has its row, no row and no hold outlives its incident,  *)
(* and no purge removes an incident with a timeline.                       *)
THEOREM ReferencesStayLive == Spec => []ReferencesLive
BY InitReferences, NextReferences, InitState, NextState, PTL DEF Spec

-----------------------------------------------------------------------------
(* What a step may do to one request: nothing, start it, or move it.       *)

LEMMA RequestStep ==
  ASSUME StateInv, [Next]_vars, NEW v \in Worker
  PROVE  \/ pc'[v] = pc[v] /\ ctx'[v] = ctx[v]
         \/ /\ pc'[v] \in {"policy", "read"} /\ ctx'[v].rows = {} /\ ctx'[v].victims = {}
         \/ pc'[v] = "idle" /\ ctx'[v] = NoContext
         \/ Step(v)
<1> DEFINE Goal == \/ pc'[v] = pc[v] /\ ctx'[v] = ctx[v]
                   \/ /\ pc'[v] \in {"policy", "read"} /\ ctx'[v].rows = {} /\ ctx'[v].victims = {}
                   \/ pc'[v] = "idle" /\ ctx'[v] = NoContext
                   \/ Step(v)
<1>1. ASSUME NEW w \in Worker, NEW op, NEW ids, NEW f, Begin(w, op, ids, f)
      PROVE  Goal
  <2>1. /\ ctx' = [ctx EXCEPT ![w] = [NoContext EXCEPT !.op = op, !.ids = ids, !.format = f]]
        /\ pc' = [pc EXCEPT ![w] = IF op \in {"archive", "purge"} THEN "policy" ELSE "read"]
    BY <1>1 DEF Begin, Goto
  <2>2. CASE v = w
    BY <2>1, <2>2 DEF StateInv, StateOK, NoContext
  <2>3. CASE v # w
    BY <2>1, <2>3 DEF StateInv, StateOK
  <2> QED
    BY <2>2, <2>3
<1>2. CASE GovernanceRoutes
  BY <1>1, <1>2 DEF GovernanceRoutes, PlaceHold, ReleaseHold, UpdatePolicy
<1>3. CASE IntegrityRoutes
  BY <1>1, <1>3 DEF IntegrityRoutes
<1>4. ASSUME NEW w \in Worker, Step(w), w # v
      PROVE  pc'[v] = pc[v] /\ ctx'[v] = ctx[v]
  <2>1. \A x : Close(w) => pc'[v] = pc[v] /\ ctx'[v] = ctx[v]
    BY <1>4, Closed
  <2>2. CASE GetPolicy(w) \/ CreatePolicy(w) \/ ReadIncidents(w) \/ ReadHolds(w) \/ ReadNumbers(w)
    BY <1>4, <2>1, <2>2 DEF GetPolicy, CreatePolicy, ReadIncidents, ReadHolds, ReadNumbers, Goto,
                            StateInv, StateOK
  <2>3. CASE \E i \in Incident : PickIncident(w, i) \/ Examine(w, i)
    BY <1>4, <2>3 DEF PickIncident, Examine, Goto, StateInv, StateOK
  <2>4. CASE StoreObject(w) \/ \E batch \in SUBSET Key : ReadBatch(w, batch)
    BY <1>4, <2>4 DEF StoreObject, ReadBatch, Goto, StateInv, StateOK
  <2>5. CASE \E k \in Key : VerifyArchive(w, k)
    BY <1>4, <2>5 DEF VerifyArchive, StateInv, StateOK
  <2>6. CASE CommitArchive(w) \/ CommitPurge(w) \/ ListObjects(w) \/ EndVerification(w) \/ Fail(w)
    BY <2>1, <2>6 DEF CommitArchive, CommitPurge, ListObjects, EndVerification, Fail
  <2> QED
    BY <1>4, <2>2, <2>3, <2>4, <2>5, <2>6 DEF Step
<1>5. CASE \E i \in Incident : ChangeStatus(i)
  BY <1>5 DEF ChangeStatus
<1>6. CASE UNCHANGED vars
  BY <1>6 DEF vars
<1> QED
  BY <1>2, <1>3, <1>4, <1>5, <1>6 DEF Next

(* A victim was one before, of a request that has its answers already, or  *)
(* has just been examined.                                                 *)
LEMMA VictimStep ==
  ASSUME StateInv, [Next]_vars, NEW v \in Worker, NEW i \in ctx'[v].victims
  PROVE  /\ ctx'[v].held = ctx[v].held /\ ctx'[v].policy = ctx[v].policy
         /\ i \in ctx[v].victims \/ PurgeRules(v, i)
<1> DEFINE Goal == /\ ctx'[v].held = ctx[v].held /\ ctx'[v].policy = ctx[v].policy
                   /\ i \in ctx[v].victims \/ PurgeRules(v, i)
<1>1. CASE pc'[v] = pc[v] /\ ctx'[v] = ctx[v]
  BY <1>1
<1>2. CASE pc'[v] = "idle" /\ ctx'[v] = NoContext
  BY <1>2 DEF NoContext
<1>3. CASE Step(v)
  <2>1. RequestOK(v) /\ ctx[v] \in Context /\ v \in DOMAIN ctx /\ v \in DOMAIN pc
    BY DEF StateInv, StateOK
  <2>2. CASE GetPolicy(v) \/ ReadHolds(v) \/ ReadIncidents(v)
    <3>1. ctx[v].victims = {}
      BY <2>1, <2>2 DEF RequestOK, GetPolicy, ReadHolds, ReadIncidents
    <3>2. ctx'[v].victims = ctx[v].victims
      BY <2>1, <2>2 DEF GetPolicy, ReadHolds, ReadIncidents, StateInv, StateOK, Context
    <3> QED
      BY <3>1, <3>2
  <2>3. CASE CreatePolicy(v) \/ CommitArchive(v) \/ CommitPurge(v) \/ ListObjects(v)
               \/ EndVerification(v) \/ Fail(v)
    <3>1. ctx'[v] = ctx[v] \/ ctx'[v] = NoContext
      BY <2>3, Closed DEF CreatePolicy, CommitArchive, CommitPurge, ListObjects, EndVerification, Fail
    <3> QED
      BY <3>1 DEF NoContext
  <2>4. CASE ReadNumbers(v) \/ \E batch \in SUBSET Key : ReadBatch(v, batch)
    BY <2>1, <2>4 DEF ReadNumbers, ReadBatch, StateInv, StateOK, Context
  <2>5. CASE \E k \in Key : VerifyArchive(v, k)
    BY <2>1, <2>5 DEF VerifyArchive, StateInv, StateOK, Context
  <2>6. CASE StoreObject(v)
    BY <2>1, <2>6 DEF StoreObject, StateInv, StateOK, Context
  <2>7. ASSUME NEW j \in Incident, PickIncident(v, j)
        PROVE  Goal
    BY <2>1, <2>7 DEF PickIncident, StateInv, StateOK, Context
  <2>8. ASSUME NEW j \in Incident, Examine(v, j)
        PROVE  Goal
    <3>1. /\ ctx'[v].held = ctx[v].held /\ ctx'[v].policy = ctx[v].policy
          /\ \/ ctx'[v].victims = ctx[v].victims
             \/ ctx'[v].victims = ctx[v].victims \union {j} /\ PurgeRules(v, j)
      BY <2>1, <2>8 DEF Examine, StateInv, StateOK, Context
    <3> QED
      BY <3>1
  <2> QED
    BY <1>3, <2>2, <2>3, <2>4, <2>5, <2>6, <2>7, <2>8 DEF Step
<1>4. CASE ctx'[v].victims = {}
  BY <1>4
<1> QED
  BY <1>1, <1>2, <1>3, <1>4, RequestStep

(* An archive row is lost only together with its incident.                 *)
LEMMA ArchivedStays ==
  ASSUME StateInv, [Next]_vars, NEW i \in Incident, IsArchived(i) \/ ~incident[i].present
  PROVE  IsArchived(i)' \/ ~incident'[i].present
<1> USE DEF IsArchived, ArchivesOf
<1>1. \A j \in Incident : incident[j] \in IncidentRow
  BY DEF StateInv, StateOK
<1>2. CASE UNCHANGED <<incident, archives>>
  BY <1>2
<1>3. ASSUME NEW w \in Worker, CommitArchive(w), ~UNCHANGED <<incident, archives>>
      PROVE  IsArchived(i)' \/ ~incident'[i].present
  <2>1. /\ archives' = archives \union ctx[w].rows
        /\ incident'[i] = IF \E r \in ctx[w].rows : r.key[1] = i
                          THEN [incident[i] EXCEPT !.archived = TRUE] ELSE incident[i]
    BY <1>3, ArchiveEffect
  <2>2. incident'[i].present = incident[i].present /\ (incident[i].archived => incident'[i].archived)
    BY <1>1, <2>1 DEF IncidentRow
  <2> QED
    BY <2>1, <2>2
<1>4. ASSUME NEW w \in Worker, CommitPurge(w), ~UNCHANGED <<incident, archives>>
      PROVE  IsArchived(i)' \/ ~incident'[i].present
  <2>1. /\ archives' = {a \in archives : a.key[1] \notin ctx[w].victims}
        /\ i \in ctx[w].victims => ~incident'[i].present
        /\ i \notin ctx[w].victims => incident'[i] = incident[i]
    BY <1>4, PurgeEffect
  <2> QED
    BY <2>1
<1>5. ASSUME NEW j \in Incident, ChangeStatus(j)
      PROVE  IsArchived(i)' \/ ~incident'[i].present
  <2>1. archives' = archives /\ incident'[i].present = incident[i].present
        /\ incident'[i].archived = incident[i].archived
    BY <1>1, <1>5 DEF ChangeStatus, store, IncidentRow, StateInv, StateOK
  <2> QED
    BY <2>1
<1> QED
  BY <1>2, <1>3, <1>4, <1>5, RowsStep

LEMMA InitPurge == Init => PurgeInv
<1> SUFFICES ASSUME Init PROVE PurgeInv
  OBVIOUS
<1>1. (\A i \in Incident : incident[i].present) /\ \A w \in Worker : ctx[w].victims = {}
  BY DEF Init, NoContext
<1> QED
  BY <1>1 DEF PurgeInv

LEMMA NextPurge == PurgeInv /\ StateInv /\ StateInv' /\ [Next]_vars => PurgeInv'
<1> SUFFICES ASSUME PurgeInv, StateInv, StateInv', [Next]_vars PROVE PurgeInv'
  OBVIOUS
<1>1. ASSUME NEW i \in Incident, incident'[i].closed
      PROVE  incident'[i].present
  <2>1. \A j \in Incident : incident[j] \in IncidentRow
    BY DEF StateInv, StateOK
  <2>2. CASE UNCHANGED <<incident, archives>>
    BY <1>1, <2>2 DEF PurgeInv
  <2>3. ASSUME NEW w \in Worker, CommitArchive(w), ~UNCHANGED <<incident, archives>>
        PROVE  incident'[i].present
    <3>1. incident'[i] = IF \E r \in ctx[w].rows : r.key[1] = i
                         THEN [incident[i] EXCEPT !.archived = TRUE] ELSE incident[i]
      <4>1. incident' = [j \in Incident |->
               IF \E r \in ctx[w].rows : r.key[1] = j
               THEN [incident[j] EXCEPT !.archived = TRUE] ELSE incident[j]]
        BY <2>3, ArchiveEffect
      <4> QED
        BY <4>1
    <3> QED
      BY <1>1, <2>1, <3>1 DEF PurgeInv, IncidentRow
  <2>4. ASSUME NEW w \in Worker, CommitPurge(w), ~UNCHANGED <<incident, archives>>
        PROVE  incident'[i].present
    BY <1>1, <2>4, PurgeEffect DEF PurgeInv
  <2>5. ASSUME NEW j \in Incident, ChangeStatus(j)
        PROVE  incident'[i].present
    BY <1>1, <2>1, <2>5 DEF ChangeStatus, IncidentRow, StateInv, StateOK, PurgeInv
  <2> QED
    BY <2>2, <2>3, <2>4, <2>5, RowsStep
<1>2. ASSUME NEW v \in Worker, NEW i \in ctx'[v].victims
      PROVE  VictimOK(v, i)'
  <2>1. i \in Incident
    BY DEF StateInv, StateOK, Context
  <2>2. /\ ctx'[v].held = ctx[v].held /\ ctx'[v].policy = ctx[v].policy
        /\ i \in ctx[v].victims \/ PurgeRules(v, i)
    BY VictimStep
  <2>3. VictimOK(v, i)
    BY <2>2 DEF PurgeInv, VictimOK, PurgeRules
  <2>4. IsArchived(i) \/ ~incident[i].present => IsArchived(i)' \/ ~incident'[i].present
    BY <2>1, ArchivedStays
  <2> QED
    BY <2>2, <2>3, <2>4 DEF VictimOK
<1> QED
  BY <1>1, <1>2 DEF PurgeInv

(* Whatever is archived, held, reopened or purged meanwhile, a purge has   *)
(* selected nothing the preview would not offer under the policy and holds *)
(* it read.                                                                *)
THEOREM PreviewAlwaysCovers == Spec => []PreviewCoversPurge
<1>1. StateInv /\ PurgeInv => PreviewCoversPurge
  <2> SUFFICES ASSUME StateInv, PurgeInv, NEW w \in Worker, NEW i \in ctx[w].victims, incident[i].closed
               PROVE  CanPurge(i, ctx[w].policy, ctx[w].held)
    BY DEF PreviewCoversPurge
  <2>1. i \in Incident /\ VictimOK(w, i)
    BY DEF StateInv, StateOK, Context, PurgeInv
  <2> QED
    BY <2>1 DEF CanPurge, VictimOK, PurgeInv
<1> QED
  BY <1>1, InitPurge, NextPurge, InitState, NextState, PTL DEF Spec

-----------------------------------------------------------------------------
(* Rows and objects, with one archiver.                                    *)

LEMMA OneArchiver ==
  ASSUME Cardinality(Archivers) <= 1, NEW v \in Archivers, NEW w \in Archivers
  PROVE  v = w
<1> SUFFICES ASSUME v # w PROVE FALSE
  OBVIOUS
<1>1. IsFiniteSet(Archivers) /\ Cardinality(Archivers) \in Nat
  BY RetentionAssumption, FS_Subset, FS_CardinalityType DEF Archivers
<1>2. IsFiniteSet({v}) /\ Cardinality({v}) = 1
  BY FS_Singleton
<1>3. Cardinality({v} \union {w}) = 2
  BY <1>2, FS_AddElement
<1>4. Cardinality({v} \union {w}) <= Cardinality(Archivers)
  BY <1>1, FS_Subset
<1> QED
  BY <1>1, <1>3, <1>4

(* Unless it stores an object, a request keeps its rows and takes nothing  *)
(* new on, or starts again; it is about to store only what it has picked.  *)
LEMMA RowsKept ==
  ASSUME StateInv, [Next]_vars, NEW v \in Worker, ~StoreObject(v)
  PROVE  /\ \/ ctx'[v].rows = {}
            \/ ctx'[v].rows = ctx[v].rows /\ ctx'[v].todo \subseteq ctx[v].todo
         /\ pc'[v] = "write" =>
              \/ pc[v] = "write" /\ ctx'[v].keys = ctx[v].keys
              \/ \E i \in Incident : /\ PickIncident(v, i) /\ ArchivesOf(i) = {}
                                     /\ ctx'[v].keys = {<<i, ctx[v].format>>}
<1> DEFINE Goal == /\ \/ ctx'[v].rows = {}
                      \/ ctx'[v].rows = ctx[v].rows /\ ctx'[v].todo \subseteq ctx[v].todo
                   /\ pc'[v] = "write" =>
                        \/ pc[v] = "write" /\ ctx'[v].keys = ctx[v].keys
                        \/ \E i \in Incident : /\ PickIncident(v, i) /\ ArchivesOf(i) = {}
                                               /\ ctx'[v].keys = {<<i, ctx[v].format>>}
<1>1. CASE pc'[v] = pc[v] /\ ctx'[v] = ctx[v]
  BY <1>1
<1>2. CASE pc'[v] \in {"policy", "read"} /\ ctx'[v].rows = {}
  BY <1>2
<1>3. CASE pc'[v] = "idle" /\ ctx'[v] = NoContext
  BY <1>3 DEF NoContext
<1>4. CASE Step(v)
  <2>1. RequestOK(v) /\ ctx[v] \in Context
    BY DEF StateInv, StateOK
  <2>2. CASE GetPolicy(v) \/ ReadHolds(v) \/ ReadIncidents(v)
    <3>1. ctx[v].rows = {}
      BY <2>1, <2>2 DEF RequestOK, GetPolicy, ReadHolds, ReadIncidents
    <3>2. ctx'[v].rows = ctx[v].rows /\ pc'[v] # "write"
      BY <2>1, <2>2 DEF GetPolicy, ReadHolds, ReadIncidents, Goto, StateInv, StateOK, Context
    <3> QED
      BY <3>1, <3>2
  <2>3. CASE CommitArchive(v) \/ CommitPurge(v) \/ ListObjects(v) \/ EndVerification(v) \/ Fail(v)
    <3>1. ctx'[v] = NoContext /\ pc'[v] = "idle"
      BY <2>3, Closed DEF CommitArchive, CommitPurge, ListObjects, EndVerification, Fail
    <3> QED
      BY <3>1 DEF NoContext
  <2>4. CASE CreatePolicy(v)
    <3>1. (ctx'[v] = NoContext /\ pc'[v] = "idle") \/ (ctx' = ctx /\ pc'[v] = "policy")
      BY <2>4, Closed DEF CreatePolicy, Goto, StateInv, StateOK
    <3> QED
      BY <3>1 DEF NoContext
  <2>5. CASE ReadNumbers(v) \/ \E batch \in SUBSET Key : ReadBatch(v, batch)
    <3>1. ctx'[v].rows = ctx[v].rows /\ ctx'[v].todo = ctx[v].todo /\ pc'[v] # "write"
      BY <2>1, <2>5 DEF ReadNumbers, ReadBatch, Goto, StateInv, StateOK, Context
    <3> QED
      BY <3>1
  <2>6. CASE \E k \in Key : VerifyArchive(v, k)
    <3>1. ctx'[v].rows = ctx[v].rows /\ ctx'[v].todo = ctx[v].todo /\ pc'[v] # "write"
      BY <2>1, <2>6 DEF VerifyArchive, StateInv, StateOK, Context
    <3> QED
      BY <3>1
  <2>7. ASSUME NEW j \in Incident, PickIncident(v, j)
        PROVE  Goal
    <3>1. CASE j \in ctx[v].held \/ ArchivesOf(j) # {}
      <4>1. ctx' = [ctx EXCEPT ![v].todo = @ \ {j}] /\ pc' = pc /\ pc[v] = "loop"
        BY <2>7, <3>1 DEF PickIncident
      <4>2. ctx'[v].rows = ctx[v].rows /\ ctx'[v].todo \subseteq ctx[v].todo /\ pc'[v] # "write"
        BY <2>1, <4>1 DEF StateInv, StateOK, Context
      <4> QED
        BY <4>2
    <3>2. CASE ~(j \in ctx[v].held \/ ArchivesOf(j) # {})
      <4>1. ctx' = [ctx EXCEPT ![v].keys = {<<j, ctx[v].format>>}]
        BY <2>7, <3>2 DEF PickIncident
      <4>2. ctx'[v].rows = ctx[v].rows /\ ctx'[v].todo = ctx[v].todo /\ ctx'[v].keys = {<<j, ctx[v].format>>}
        BY <2>1, <4>1 DEF StateInv, StateOK, Context
      <4> QED
        BY <2>7, <3>2, <4>2
    <3> QED
      BY <3>1, <3>2
  <2>8. ASSUME NEW j \in Incident, Examine(v, j)
        PROVE  Goal
    <3>1. ctx'[v].rows = ctx[v].rows /\ ctx'[v].todo \subseteq ctx[v].todo /\ pc'[v] = "loop"
      BY <2>1, <2>8 DEF Examine, StateInv, StateOK, Context
    <3> QED
      BY <3>1
  <2> QED
    BY <1>4, <2>2, <2>3, <2>4, <2>5, <2>6, <2>7, <2>8 DEF Step
<1> QED
  BY <1>1, <1>2, <1>3, <1>4, RequestStep

(* What StoreObject does, for the key it was picked for.                   *)
LEMMA StoreEffect ==
  ASSUME StateInv, NEW w \in Worker, StoreObject(w)
  PROVE  \E k \in Key :
           /\ ctx[w].keys = {k} /\ k[1] \in ctx[w].todo \ ctx[w].held /\ w \in Archivers
           /\ objects' = [objects EXCEPT ![k] = payloads + 1]
           /\ ctx'[w].rows = ctx[w].rows \union {[key |-> k, sum |-> payloads + 1]}
           /\ ctx'[w].todo = ctx[w].todo \ {k[1]}
           /\ ctx'[w].held = ctx[w].held /\ ctx'[w].victims = ctx[w].victims
           /\ ctx'[w].op = ctx[w].op
           /\ pc[w] = "write" /\ pc'[w] = "loop"
           /\ UNCHANGED <<incident, archives, holds, late>>
<1> DEFINE k == CHOOSE key \in ctx[w].keys : TRUE
           row == [key |-> k, sum |-> payloads + 1]
<1>1. k \in Key /\ ctx[w].keys = {k} /\ k[1] \in ctx[w].todo \ ctx[w].held /\ w \in Archivers
  BY Picked DEF StoreObject
<1>2. /\ objects' = [objects EXCEPT ![k] = payloads + 1]
      /\ ctx' = [ctx EXCEPT ![w].rows = @ \union {row}, ![w].todo = @ \ {k[1]}, ![w].keys = {}]
      /\ pc[w] = "write" /\ pc' = [pc EXCEPT ![w] = "loop"]
      /\ UNCHANGED <<incident, archives, holds, late>>
  BY DEF StoreObject, Goto
<1> HIDE DEF k, row
<1>3. /\ ctx'[w].rows = ctx[w].rows \union {row}
      /\ ctx'[w].todo = ctx[w].todo \ {k[1]}
      /\ ctx'[w].held = ctx[w].held /\ ctx'[w].victims = ctx[w].victims
      /\ ctx'[w].op = ctx[w].op /\ pc'[w] = "loop"
  BY <1>2 DEF StateInv, StateOK, Context
<1> QED
  BY <1>1, <1>2, <1>3 DEF row

LEMMA ObjectsStep ==
  ASSUME [Next]_vars, ~(\E w \in Worker : StoreObject(w))
  PROVE  UNCHANGED objects
<1>1. ASSUME NEW w \in Worker, NEW op, NEW ids, NEW f, Begin(w, op, ids, f)
      PROVE  UNCHANGED objects
  BY <1>1 DEF Begin, store
<1>2. CASE GovernanceRoutes
  BY <1>1, <1>2 DEF GovernanceRoutes, PlaceHold, ReleaseHold, UpdatePolicy, store
<1>3. CASE IntegrityRoutes
  BY <1>1, <1>3 DEF IntegrityRoutes
<1>4. ASSUME NEW w \in Worker, Step(w)
      PROVE  UNCHANGED objects
  BY <1>4 DEF Step, GetPolicy, CreatePolicy, ReadIncidents, ReadHolds, PickIncident, Examine, CommitArchive,
       CommitPurge, ReadBatch, VerifyArchive, ReadNumbers, ListObjects, EndVerification, Fail, store
<1>5. CASE UNCHANGED vars
  BY <1>5 DEF vars, store
<1>6. CASE \E i \in Incident : ChangeStatus(i)
  BY <1>6 DEF ChangeStatus, store
<1> QED
  BY <1>2, <1>3, <1>4, <1>5, <1>6 DEF Next

LEMMA StoreMatch ==
  ASSUME MatchInv, StateInv, StateInv', Cardinality(Archivers) <= 1,
         NEW w \in Worker, StoreObject(w)
  PROVE  /\ \A a \in archives' : Verified(a)'
         /\ RowsOK(w)'
<1>1. PICK k \in Key :
        /\ ctx[w].keys = {k} /\ k[1] \in ctx[w].todo
        /\ objects' = [objects EXCEPT ![k] = payloads + 1]
        /\ ctx'[w].rows = ctx[w].rows \union {[key |-> k, sum |-> payloads + 1]}
        /\ ctx'[w].todo = ctx[w].todo \ {k[1]}
        /\ pc[w] = "write" /\ pc'[w] = "loop"
        /\ archives' = archives
  BY StoreEffect
<1>2. RowsOK(w) /\ \A a \in archives : Verified(a)
  BY DEF MatchInv
<1>3. ArchivesOf(k[1]) = {}
  BY <1>1, <1>2 DEF RowsOK
<1>4. \A a \in archives : a.key \in Key /\ a.key # k
  BY <1>3 DEF ArchivesOf, StateInv, StateOK, ArchiveRow
<1>5. \A a \in archives' : Verified(a)'
  BY <1>1, <1>2, <1>4 DEF Verified, StateInv, StateOK
<1>6. \A r \in ctx[w].rows : r.key \in Key /\ r.key # k
  BY <1>1, <1>2 DEF RowsOK, StateInv, StateOK, Context, ArchiveRow
<1>7. \A r \in ctx'[w].rows : Verified(r)' /\ r.key[1] \notin ctx'[w].todo
  <2> SUFFICES ASSUME NEW r \in ctx'[w].rows
               PROVE  Verified(r)' /\ r.key[1] \notin ctx'[w].todo
    OBVIOUS
  <2>1. CASE r \in ctx[w].rows
    BY <1>1, <1>2, <1>6, <2>1 DEF Verified, RowsOK, StateInv, StateOK
  <2>2. CASE r = [key |-> k, sum |-> payloads + 1]
    BY <1>1, <2>2 DEF Verified, StateInv, StateOK
  <2> QED
    BY <1>1, <2>1, <2>2
<1> QED
  BY <1>1, <1>5, <1>7 DEF RowsOK

LEMMA NextMatch == MatchInv /\ StateInv /\ StateInv' /\ [Next]_vars => MatchInv'
<1> SUFFICES ASSUME MatchInv, StateInv, StateInv', [Next]_vars, Cardinality(Archivers) <= 1
             PROVE  /\ \A a \in archives' : Verified(a)'
                    /\ \A v \in Worker : RowsOK(v)'
  BY DEF MatchInv
<1>1. /\ \A a \in archives : Verified(a)
      /\ \A w \in Worker : RowsOK(w)
  BY DEF MatchInv
(* Rows are those of the archiver. *)
<1>2. ASSUME NEW v \in Worker, v \notin Archivers
      PROVE  RowsOK(v)'
  <2>1. RequestOK(v)'
    BY DEF StateInv
  <2> QED
    BY <1>2, <2>1 DEF RequestOK, RowsOK, Archivers
<1>3. \A w \in Worker : CommitArchive(w) => w \in Archivers
  BY DEF CommitArchive, StateInv, RequestOK
<1>4. \A w \in Worker : StoreObject(w) => w \in Archivers
  BY StoreEffect
<1>5. ASSUME NEW w \in Worker, StoreObject(w)
      PROVE  /\ \A a \in archives' : Verified(a)'
             /\ \A v \in Worker : RowsOK(v)'
  <2>1. \A v \in Archivers : v = w
    BY <1>4, <1>5, OneArchiver
  <2> QED
    BY <1>2, <1>5, <2>1, StoreMatch
<1>6. ASSUME NEW w \in Worker, CommitArchive(w)
      PROVE  /\ \A a \in archives' : Verified(a)'
             /\ \A v \in Worker : RowsOK(v)'
  <2>1. UNCHANGED objects /\ archives' \subseteq archives \union ctx[w].rows /\ Close(w)
    BY <1>6 DEF CommitArchive
  <2>2. \A a \in archives' : Verified(a)'
    BY <1>1, <2>1 DEF Verified, RowsOK
  <2>3. RowsOK(w)'
    BY <2>1, Closed DEF RowsOK, NoContext
  <2>4. \A v \in Archivers : v = w
    BY <1>3, <1>6, OneArchiver
  <2> QED
    BY <1>2, <2>2, <2>3, <2>4
<1>7. CASE ~(\E w \in Worker : StoreObject(w) \/ CommitArchive(w))
  <2>1. UNCHANGED objects
    BY <1>7, ObjectsStep
  <2>2. archives' \subseteq archives
    <3>1. ASSUME NEW w \in Worker, CommitPurge(w)
          PROVE  archives' \subseteq archives
      BY <3>1 DEF CommitPurge
    <3>2. ASSUME NEW i \in Incident, ChangeStatus(i)
          PROVE  archives' \subseteq archives
      BY <3>2 DEF ChangeStatus, store
    <3> QED
      BY <1>7, <3>1, <3>2, RowsStep
  <2>3. \A a \in archives' : Verified(a)'
    BY <1>1, <2>1, <2>2 DEF Verified
  <2>4. ASSUME NEW v \in Worker
        PROVE  RowsOK(v)'
    <3>1. \A r \in ctx'[v].rows : Verified(r)' /\ r.key[1] \notin ctx'[v].todo
      BY <1>1, <1>7, <2>1, RowsKept DEF RowsOK, Verified
    <3>2. ASSUME pc'[v] = "write", NEW k \in ctx'[v].keys
          PROVE  ArchivesOf(k[1])' = {}
      <4>1. ArchivesOf(k[1]) = {}
        BY <1>1, <1>7, <3>2, RowsKept DEF RowsOK
      <4> QED
        BY <2>2, <4>1 DEF ArchivesOf
    <3> QED
      BY <3>1, <3>2 DEF RowsOK
  <2> QED
    BY <2>3, <2>4
<1> QED
  BY <1>5, <1>6, <1>7

LEMMA InitMatch == Init => MatchInv
BY DEF Init, MatchInv, RowsOK, NoContext

(* Types hold for any requests; and when archive requests do not overlap,  *)
(* the object behind every archive row is the one its checksum was taken   *)
(* of, wherever requests fail between the store and the commit.            *)
THEOREM ArchivesAlwaysSound == Spec => []ArchivesSound
<1>1. MatchInv => RowMatchesObject
  BY DEF MatchInv, RowMatchesObject
<1> QED
  BY <1>1, InitState, NextState, InitAudit, NextAudit, AuditTypes, InitMatch, NextMatch, PTL
  DEF Spec, ArchivesSound

-----------------------------------------------------------------------------
(* Holds.                                                                  *)

LEMMA SparesStep ==
  ASSUME StateInv, [Next]_vars, NEW v \in Worker, NEW i \in Incident,
         Spares(v, i), i \in Held
  PROVE  Spares(v, i)'
<1>1. CASE pc'[v] = pc[v] /\ ctx'[v] = ctx[v]
  BY <1>1 DEF Spares
<1>2. CASE pc'[v] \in {"policy", "read"} /\ ctx'[v].rows = {} /\ ctx'[v].victims = {}
  BY <1>2 DEF Spares
<1>3. CASE pc'[v] = "idle" /\ ctx'[v] = NoContext
  BY <1>3 DEF Spares, NoContext
<1>4. CASE Step(v)
  <2>1. RequestOK(v) /\ ctx[v] \in Context
    BY DEF StateInv, StateOK
  <2>2. CASE GetPolicy(v) \/ ReadIncidents(v)
    <3>1. /\ ctx'[v].rows = ctx[v].rows /\ ctx'[v].victims = ctx[v].victims
          /\ pc'[v] \in {"insert", "read", "holds"}
      BY <2>1, <2>2 DEF GetPolicy, ReadIncidents, Goto, StateInv, StateOK, Context
    <3> QED
      BY <3>1 DEF Spares
  <2>3. CASE ReadHolds(v)
    <3>1. /\ ctx'[v].rows = ctx[v].rows /\ ctx'[v].victims = ctx[v].victims
          /\ ctx'[v].held = Held
      BY <2>1, <2>3 DEF ReadHolds, Goto, StateInv, StateOK, Context
    <3> QED
      BY <3>1 DEF Spares
  <2>4. CASE CommitArchive(v) \/ CommitPurge(v) \/ ListObjects(v) \/ EndVerification(v) \/ Fail(v)
    <3>1. ctx'[v] = NoContext /\ pc'[v] = "idle"
      BY <2>4, Closed DEF CommitArchive, CommitPurge, ListObjects, EndVerification, Fail
    <3> QED
      BY <1>3, <3>1
  <2>5. CASE CreatePolicy(v)
    <3>1. (ctx'[v] = NoContext /\ pc'[v] = "idle") \/ (ctx' = ctx /\ pc'[v] = "policy")
      BY <2>5, Closed DEF CreatePolicy, Goto, StateInv, StateOK
    <3> QED
      BY <1>3, <3>1 DEF Spares
  <2>6. CASE ReadNumbers(v) \/ \E batch \in SUBSET Key : ReadBatch(v, batch)
    <3>1. /\ ctx'[v].rows = ctx[v].rows /\ ctx'[v].victims = ctx[v].victims
          /\ ctx'[v].op \in {"orphans", "verify"}
      BY <2>1, <2>6 DEF ReadNumbers, ReadBatch, StateInv, StateOK, Context
    <3> QED
      BY <3>1 DEF Spares
  <2>7. CASE \E k \in Key : VerifyArchive(v, k)
    <3>1. /\ ctx'[v].rows = ctx[v].rows /\ ctx'[v].victims = ctx[v].victims
          /\ ctx'[v].op = "verify"
      BY <2>1, <2>7 DEF VerifyArchive, StateInv, StateOK, Context
    <3> QED
      BY <3>1 DEF Spares
  <2>8. ASSUME NEW j \in Incident, PickIncident(v, j)
        PROVE  Spares(v, i)'
    <3>1. /\ ctx'[v].rows = ctx[v].rows /\ ctx'[v].victims = ctx[v].victims
          /\ ctx'[v].held = ctx[v].held /\ ctx[v].op = "archive" /\ pc[v] = "loop"
      BY <2>1, <2>8 DEF PickIncident, StateInv, StateOK, Context
    <3> QED
      BY <3>1 DEF Spares
  <2>9. ASSUME NEW j \in Incident, Examine(v, j)
        PROVE  Spares(v, i)'
    <3>1. /\ ctx'[v].rows = ctx[v].rows /\ ctx'[v].held = ctx[v].held
          /\ \/ ctx'[v].victims = ctx[v].victims
             \/ ctx'[v].victims = ctx[v].victims \union {j} /\ j \notin ctx[v].held
          /\ ctx[v].op = "purge" /\ pc[v] = "loop"
      BY <2>1, <2>9 DEF Examine, PurgeRules, StateInv, StateOK, Context
    <3> QED
      BY <3>1 DEF Spares
  <2>10. CASE StoreObject(v)
    <3>1. PICK k \in Key :
            /\ k[1] \notin ctx[v].held
            /\ ctx'[v].rows = ctx[v].rows \union {[key |-> k, sum |-> payloads + 1]}
            /\ ctx'[v].held = ctx[v].held /\ ctx'[v].victims = ctx[v].victims
            /\ pc[v] = "write"
      BY <2>10, StoreEffect
    <3>2. ctx[v].op = "archive"
      BY <2>1, <3>1 DEF RequestOK
    <3>3. i \in ctx[v].held /\ \A r \in ctx[v].rows : r.key[1] # i
      BY <3>1, <3>2 DEF Spares
    <3>4. \A r \in ctx'[v].rows : r.key[1] # i
      <4> SUFFICES ASSUME NEW r \in ctx'[v].rows PROVE r.key[1] # i
        OBVIOUS
      <4>1. CASE r = [key |-> k, sum |-> payloads + 1]
        BY <3>1, <3>3, <4>1
      <4> QED
        BY <3>1, <3>3, <4>1
    <3> QED
      BY <3>1, <3>3, <3>4 DEF Spares
  <2> QED
    BY <1>4, <2>2, <2>3, <2>4, <2>5, <2>6, <2>7, <2>8, <2>9, <2>10 DEF Step
<1> QED
  BY <1>1, <1>2, <1>3, <1>4, RequestStep

(* A request leaves the latecomers of a hold only by ending.               *)
LEMMA LateStep ==
  ASSUME StateInv, [Next]_vars, NEW h \in Hold, NEW v \in Worker,
         ~(\E i \in Incident : PlaceHold(h, i)), v \in late[h], v \notin late'[h]
  PROVE  pc'[v] = "idle" /\ ctx'[v] = NoContext
<1>1. ASSUME NEW w \in Worker, Close(w)
      PROVE  pc'[v] = "idle" /\ ctx'[v] = NoContext
  BY <1>1, Closed
<1>2. ASSUME NEW w \in Worker, NEW op, NEW ids, NEW f, Begin(w, op, ids, f)
      PROVE  FALSE
  BY <1>2 DEF Begin
<1>3. CASE GovernanceRoutes
  <2>1. ASSUME NEW g \in Hold, NEW i \in Incident, PlaceHold(g, i), g # h
        PROVE  late'[h] = late[h]
    BY <2>1 DEF PlaceHold, StateInv, StateOK
  <2> QED
    BY <1>2, <1>3, <2>1 DEF GovernanceRoutes, ReleaseHold, UpdatePolicy
<1>4. CASE IntegrityRoutes
  BY <1>2, <1>4 DEF IntegrityRoutes
<1>5. ASSUME NEW w \in Worker, Step(w)
      PROVE  pc'[v] = "idle" /\ ctx'[v] = NoContext
  <2>1. CASE Close(w)
    BY <1>1, <2>1
  <2>2. CASE ~Close(w)
    BY <1>5, <2>2 DEF Step, GetPolicy, CreatePolicy, ReadIncidents, ReadHolds, PickIncident, Examine,
      CommitArchive, CommitPurge, StoreObject, ReadBatch, VerifyArchive, ReadNumbers, ListObjects,
      EndVerification, Fail
  <2> QED
    BY <2>1, <2>2
<1>6. CASE UNCHANGED vars
  BY <1>6 DEF vars
<1>7. CASE \E i \in Incident : ChangeStatus(i)
  BY <1>7 DEF ChangeStatus
<1> QED
  BY <1>3, <1>4, <1>5, <1>6, <1>7 DEF Next

(* An active hold was active on the same incident before, or is new.       *)
LEMMA HoldKept ==
  ASSUME StateInv, [Next]_vars, NEW h \in Hold,
         ~(\E i \in Incident : PlaceHold(h, i)), holds'[h].active
  PROVE  holds[h].active /\ holds'[h].of = holds[h].of
<1>1. ASSUME NEW g \in Hold, NEW i \in Incident, PlaceHold(g, i), g # h
      PROVE  holds'[h] = holds[h]
  BY <1>1 DEF PlaceHold, StateInv, StateOK
<1>2. ASSUME NEW g \in Hold, ReleaseHold(g)
      PROVE  holds[h].active /\ holds'[h].of = holds[h].of
  BY <1>2 DEF ReleaseHold, StateInv, StateOK, HoldRow
<1>3. ASSUME NEW w \in Worker, CommitPurge(w)
      PROVE  holds'[h] = holds[h]
  BY <1>3, PurgeEffect
<1> QED
  BY <1>1, <1>2, <1>3, HoldsStep

LEMMA NextHold == HoldInv /\ StateInv /\ StateInv' /\ [Next]_vars => HoldInv'
<1> SUFFICES ASSUME HoldInv, StateInv, StateInv', [Next]_vars,
                    NEW h \in Hold, holds'[h].active, NEW v \in Worker, v \notin late'[h]
             PROVE  Spares(v, holds[h].of)'
  BY DEF HoldInv
<1>1. ASSUME NEW i \in Incident, PlaceHold(h, i)
      PROVE  Spares(v, holds[h].of)'
  <2>1. pc[v] \notin {"loop", "write"} /\ pc' = pc /\ ctx' = ctx
    BY <1>1 DEF PlaceHold, StateInv, StateOK
  <2>2. ctx[v].rows = {} /\ ctx[v].victims = {}
    BY <2>1 DEF StateInv, StateOK, RequestOK, NoContext
  <2> QED
    BY <2>1, <2>2 DEF Spares
<1>2. CASE ~(\E i \in Incident : PlaceHold(h, i))
  <2>1. holds[h].active /\ holds'[h].of = holds[h].of
    BY <1>2, HoldKept
  <2>2. CASE v \in late[h]
    BY <1>2, <2>2, LateStep DEF Spares, NoContext
  <2>3. CASE v \notin late[h]
    <3>1. holds[h].of \in Incident /\ holds[h].of \in Held /\ Spares(v, holds[h].of)
      BY <2>1, <2>3 DEF HoldInv, StateInv, StateOK, Held
    <3>3. ASSUME NEW i \in Incident, i = holds[h].of
          PROVE  Spares(v, i)'
      BY <3>1, <3>3, SparesStep
    <3>4. /\ holds[h].of \notin ctx'[v].victims
          /\ \A r \in ctx'[v].rows : r.key[1] # holds[h].of
          /\ pc'[v] \in {"loop", "write"} /\ ctx'[v].op \in {"archive", "purge"}
               => holds[h].of \in ctx'[v].held
      BY <3>1, <3>3 DEF Spares
    <3> QED
      BY <2>1, <3>4 DEF Spares
  <2> QED
    BY <2>2, <2>3
<1> QED
  BY <1>1, <1>2

LEMMA InitHold == Init => HoldInv
BY DEF Init, HoldInv

(* A step that removes or archives an incident is the commit of a request  *)
(* that had it among its victims or its rows.                              *)
LEMMA Removal ==
  ASSUME StateInv, [Next]_vars, NEW i \in Incident, Removed(i) \/ Archived(i)
  PROVE  \E w \in Worker :
           /\ pc[w] = "loop" /\ pc'[w] = "idle" /\ UNCHANGED objects
           /\ \/ Removed(i) /\ i \in ctx[w].victims
              \/ ~Removed(i) /\ \E r \in ctx[w].rows : r.key[1] = i
<1> USE DEF Removed, Archived
<1>1. \A j \in Incident : incident[j] \in IncidentRow
  BY DEF StateInv, StateOK
<1>2. ASSUME NEW w \in Worker, CommitArchive(w), ~UNCHANGED <<incident, archives>>
      PROVE  /\ pc[w] = "loop" /\ pc'[w] = "idle" /\ UNCHANGED objects
             /\ ~Removed(i) /\ \E r \in ctx[w].rows : r.key[1] = i
  <2>1. incident' = [j \in Incident |->
                       IF \E r \in ctx[w].rows : r.key[1] = j
                       THEN [incident[j] EXCEPT !.archived = TRUE] ELSE incident[j]]
    BY <1>2, ArchiveEffect
  <2>2. incident'[i].present = incident[i].present
    BY <1>1, <2>1 DEF IncidentRow
  <2>3. pc[w] = "loop" /\ pc'[w] = "idle" /\ UNCHANGED objects
    BY <1>2, Closed DEF CommitArchive
  <2>4. \E r \in ctx[w].rows : r.key[1] = i
    BY <2>1, <2>2
  <2> QED
    BY <2>2, <2>3, <2>4
<1>3. ASSUME NEW w \in Worker, CommitPurge(w), ~UNCHANGED <<incident, archives>>
      PROVE  /\ pc[w] = "loop" /\ pc'[w] = "idle" /\ UNCHANGED objects
             /\ Removed(i) /\ i \in ctx[w].victims
  <2>1. /\ \A j \in ctx[w].victims : ~incident'[j].present /\ ~incident'[j].archived
        /\ \A j \in Incident \ ctx[w].victims : incident'[j] = incident[j]
    BY <1>3, PurgeEffect
  <2>2. pc[w] = "loop" /\ pc'[w] = "idle" /\ UNCHANGED objects
    BY <1>3, Closed DEF CommitPurge
  <2> QED
    BY <2>1, <2>2
<1>4. ASSUME NEW j \in Incident, ChangeStatus(j)
      PROVE  FALSE
  BY <1>1, <1>4 DEF ChangeStatus, IncidentRow, StateInv, StateOK
<1>5. CASE UNCHANGED <<incident, archives>>
  BY <1>5
<1> QED
  BY <1>2, <1>3, <1>4, <1>5, RowsStep

(* Only requests that were past reading the holds when a hold was placed   *)
(* archive or remove its incident while it is active, for any number of    *)
(* requests and holds.                                                     *)
THEOREM HoldsStopWork == Spec => HoldStopsLaterWork
<1>1. StateInv /\ HoldInv /\ [Next]_vars
      => \A h \in Hold :
           holds[h].active /\ (Removed(holds[h].of) \/ Archived(holds[h].of))
             => \E w \in late[h] : pc[w] = "loop" /\ pc'[w] = "idle"
  <2> SUFFICES ASSUME StateInv, HoldInv, [Next]_vars, NEW h \in Hold, holds[h].active,
                      NEW i, i = holds[h].of, Removed(i) \/ Archived(i)
               PROVE  \E w \in late[h] : pc[w] = "loop" /\ pc'[w] = "idle"
    BY DEF Removed, Archived
  <2>1. i \in Incident
    BY DEF StateInv, StateOK
  <2>2. PICK w \in Worker :
          /\ pc[w] = "loop" /\ pc'[w] = "idle"
          /\ i \in ctx[w].victims \/ \E r \in ctx[w].rows : r.key[1] = i
    BY <2>1, Removal
  <2>3. w \in late[h]
    BY <2>2 DEF HoldInv, Spares
  <2> QED
    BY <2>2, <2>3
<1> QED
  BY <1>1, InitState, NextState, InitHold, NextHold, PTL DEF Spec, HoldStopsLaterWork

(* For any requests and policies, an incident is removed only by the       *)
(* request that selected it, which leaves an intact copy in the store when *)
(* the policy it read requires one - with at most one archiver.            *)
THEOREM PurgesKeepCopies == Spec => PurgeKeepsCopy
<1>1. StateInv /\ PurgeInv /\ MatchInv /\ ReferencesLive /\ [Next]_vars
      => (Cardinality(Archivers) <= 1 =>
          \A i \in Incident : Removed(i) =>
            \E w \in Worker :
              /\ i \in ctx[w].victims
              /\ pc'[w] = "idle"
              /\ ctx[w].policy.requireArchive =>
                   \E a \in ArchivesOf(i) : Verified(a) /\ objects'[a.key] = a.sum)
  <2> SUFFICES ASSUME StateInv, PurgeInv, MatchInv, ReferencesLive, [Next]_vars,
                      Cardinality(Archivers) <= 1, NEW i \in Incident, Removed(i)
               PROVE  \E w \in Worker :
                        /\ i \in ctx[w].victims
                        /\ pc'[w] = "idle"
                        /\ ctx[w].policy.requireArchive =>
                             \E a \in ArchivesOf(i) : Verified(a) /\ objects'[a.key] = a.sum
    OBVIOUS
  <2>1. PICK w \in Worker : pc'[w] = "idle" /\ UNCHANGED objects /\ i \in ctx[w].victims
    BY Removal
  <2>2. ASSUME ctx[w].policy.requireArchive
        PROVE  \E a \in ArchivesOf(i) : Verified(a) /\ objects'[a.key] = a.sum
    <3>1. IsArchived(i)
      BY <2>1, <2>2 DEF PurgeInv, VictimOK, Removed
    <3>2. PICK a \in ArchivesOf(i) : TRUE
      BY <3>1 DEF IsArchived, ReferencesLive, ArchivedStateBacked
    <3>3. Verified(a)
      BY DEF MatchInv, ArchivesOf
    <3> QED
      BY <2>1, <3>3 DEF Verified
  <2> QED
    BY <2>1, <2>2
<1> QED
  BY <1>1, InitState, NextState, InitPurge, NextPurge, InitMatch, NextMatch, InitReferences,
     NextReferences, PTL DEF Spec, PurgeKeepsCopy

=============================================================================
