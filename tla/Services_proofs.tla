-------------------------- MODULE Services_proofs ---------------------------
(***************************************************************************)
(* Theorems about two groups of parts of the composition Services: roles   *)
(* and logins, and the intelligence, which is a store, its scores and its  *)
(* history.  Scenarios and vehicles are the subject of Fleet_proofs.       *)
(* The parts share no state; each is proved for every value of its own     *)
(* constants.                                                              *)
(***************************************************************************)
EXTENDS Services, FiniteSetTheorems, FunctionTheorems, SequenceTheorems,
        WellFoundedInduction, TLAPS

-----------------------------------------------------------------------------
(* Roles and permissions *)

(* The mutations there are, and rest.                                      *)
Mutations ==
  [op : {"none", "assign", "revoke", "extend", "reduce", "bootstrap"},
   actor : Users \union {"nobody"}, target : Users \union {"nobody"},
   key : Rights!Roles \union Rights!Keys \union {"none"}]

(* What a request in flight carries.                                       *)
MutationOK(m) ==
  /\ m.op \in {"none", "assign", "revoke", "extend", "reduce", "bootstrap"}
  /\ m.op \in {"assign", "revoke", "bootstrap"} => m.target \in Users /\ m.key \in Rights!Roles
  /\ m.op = "bootstrap" => m.key = "SUPER_ADMIN"
  /\ m.op \in {"extend", "reduce"} => m.key \in Rights!Keys

(* The types, with those of the requests in flight.                        *)
RightsTypes ==
  /\ Rights!TypeOK
  /\ mutation \in [Requests -> Mutations]
  /\ \A r \in Requests : MutationOK(mutation[r])
  /\ exists \in BOOLEAN /\ serial \in BOOLEAN /\ met \in BOOLEAN /\ overreach \in BOOLEAN

(* No request is about to take the role from an active super admin.        *)
KeepsSuperAdmins(m) ==
  m.op = "revoke" => m.key # "SUPER_ADMIN" \/ m.target \notin Rights!Active

StayInv ==
  /\ Rights!SuperAdminsStay
  /\ admitted \subseteq Rights!Active
  /\ \A r \in Requests : KeepsSuperAdmins(mutation[r])

(* As long as no mutation met another, each request in flight still has    *)
(* the authority it was checked for; on SQLite none ever meets another.    *)
Authorized(m) ==
  /\ m.op = "assign" => Rights!Granted(custom)[m.key] \subseteq Rights!Held(m.actor)
  /\ m.op = "extend" => m.key \in Rights!Held(m.actor)

ReachInv ==
  /\ ~met => ~overreach /\ \A r \in Requests : Authorized(mutation[r])
  /\ serial => ~met /\ \A r, q \in Requests : ~Rights!Idle(r) /\ ~Rights!Idle(q) => r = q

RightsInv == RightsTypes /\ StayInv /\ ReachInv /\ Rights!DeletedRoleGone

-----------------------------------------------------------------------------
LEMMA GrantedType == ASSUME NEW perms, perms \subseteq Rights!Keys
                     PROVE  \A r \in Rights!Roles : Rights!Granted(perms)[r] \subseteq Rights!Keys
  BY DEF Rights!Granted, Rights!Keys, Rights!Roles

LEMMA InitRights == Rights!Init => RightsInv
<1> SUFFICES ASSUME Rights!Init PROVE RightsInv
  OBVIOUS
<1>1. member \in [Users -> SUBSET Rights!Roles]
  BY DEF Rights!Init, Rights!Roles
<1>2. custom \subseteq Rights!Keys /\ exists = TRUE
  BY DEF Rights!Init, Rights!Keys
<1>3. /\ \A r \in Requests : mutation[r] = Rights!Ready
      /\ mutation = [r \in Requests |-> Rights!Ready]
  BY DEF Rights!Init
<1>4. RightsTypes
  <2>1. Rights!Ready \in Mutations
    BY DEF Rights!Ready, Mutations
  <2>2. mutation \in [Requests -> Mutations]
    BY <1>3, <2>1
  <2>3. \A r \in Requests : MutationOK(mutation[r])
    BY <1>3 DEF MutationOK, Rights!Ready
  <2>4. Rights!TypeOK
    BY <1>1, <1>2, <1>3 DEF Rights!TypeOK, Rights!Ready
  <2>5. serial \in BOOLEAN
    BY DEF Rights!Init
  <2>6. met \in BOOLEAN
    BY DEF Rights!Init
  <2>7. overreach \in BOOLEAN
    BY DEF Rights!Init
  <2>8. exists \in BOOLEAN
    BY DEF Rights!Init
  <2> QED
    BY <2>2, <2>3, <2>4, <2>5, <2>6, <2>7, <2>8 DEF RightsTypes
<1>5. StayInv
  BY <1>3 DEF Rights!Init, StayInv, Rights!SuperAdminsStay, KeepsSuperAdmins, Rights!Ready
<1>6. ReachInv
  BY <1>3 DEF Rights!Init, ReachInv, Authorized, Rights!Ready, Rights!Idle
<1>7. Rights!DeletedRoleGone
  BY <1>2 DEF Rights!DeletedRoleGone
<1> QED
  BY <1>4, <1>5, <1>6, <1>7 DEF RightsInv

-----------------------------------------------------------------------------
(* A check puts a mutation in flight and changes nothing else.             *)
LEMMA RightsCheckStep ==
  ASSUME RightsInv, NEW r \in Requests, NEW op, NEW actor, NEW target, NEW key,
         Rights!Check(r, op, actor, target, key),
         LET m == [op |-> op, actor |-> actor, target |-> target, key |-> key]
         IN  /\ m \in Mutations
             /\ MutationOK(m) /\ KeepsSuperAdmins(m) /\ Authorized(m)
  PROVE  RightsInv'
<1> DEFINE m == [op |-> op, actor |-> actor, target |-> target, key |-> key]
<1>1. /\ mutation' = [mutation EXCEPT ![r] = m]
      /\ Rights!Idle(r) /\ (serial => Rights!Others(r) = {})
      /\ UNCHANGED <<serial, disabled, member, custom, exists, admitted, met, overreach>>
  BY DEF Rights!Check
<1>2. MutationOK(m) /\ KeepsSuperAdmins(m) /\ Authorized(m)
  OBVIOUS
<1>3. mutation'[r] = m /\ \A q \in Requests : q # r => mutation'[q] = mutation[q]
  BY <1>1 DEF RightsInv, RightsTypes
<1>4. mutation' \in [Requests -> Mutations]
  BY <1>1 DEF RightsInv, RightsTypes
<1> HIDE DEF m
<1>5. RightsTypes'
  <2>1. \A q \in Requests : MutationOK(mutation'[q])
    BY <1>2, <1>3 DEF RightsInv, RightsTypes
  <2>2. Rights!TypeOK'
    BY <1>1, <2>1 DEF RightsInv, RightsTypes, Rights!TypeOK, MutationOK
  <2> QED
    BY <1>1, <1>4, <2>1, <2>2 DEF RightsInv, RightsTypes, MutationOK
<1>6. StayInv'
  <2>1. \A q \in Requests : KeepsSuperAdmins(mutation[q])'
    BY <1>1, <1>2, <1>3 DEF RightsInv, StayInv, KeepsSuperAdmins, Rights!Active
  <2> QED
    BY <1>1, <2>1 DEF RightsInv, StayInv, Rights!SuperAdminsStay, Rights!Active
<1>7. ReachInv'
  <2>1. ASSUME ~met PROVE \A q \in Requests : Authorized(mutation[q])'
    BY <1>1, <1>2, <1>3, <2>1 DEF RightsInv, ReachInv, Authorized, Rights!Held, Rights!HeldIn
  <2>2. ASSUME serial PROVE \A p, q \in Requests : ~Rights!Idle(p)' /\ ~Rights!Idle(q)' => p = q
    <3>1. \A q \in Requests : q # r => mutation[q].op = "none"
      BY <1>1, <2>2 DEF Rights!Others, Rights!Idle
    <3>2. \A q \in Requests : q # r => Rights!Idle(q)'
      BY <1>3, <3>1 DEF Rights!Idle
    <3> QED
      BY <3>2
  <2> QED
    BY <1>1, <2>1, <2>2 DEF RightsInv, ReachInv
<1>8. Rights!DeletedRoleGone'
  BY <1>1 DEF RightsInv, Rights!DeletedRoleGone
<1> QED
  BY <1>5, <1>6, <1>7, <1>8 DEF RightsInv

LEMMA RightsChecks ==
  ASSUME RightsInv, NEW r \in Requests, NEW actor \in Users, NEW target \in Users,
         NEW role \in Rights!Roles, NEW key \in Rights!Keys,
         \/ Rights!CheckAssign(r, actor, target, role) \/ Rights!CheckRevoke(r, actor, target, role)
         \/ Rights!CheckExtend(r, actor, key) \/ Rights!CheckReduce(r, actor, key)
         \/ Rights!CheckBootstrap(r, actor)
  PROVE  RightsInv'
<1> DEFINE m(op, a, t, k) == [op |-> op, actor |-> a, target |-> t, key |-> k]
<1>1. CASE Rights!CheckAssign(r, actor, target, role)
  <2>1. Rights!Check(r, "assign", actor, target, role) /\ Rights!Granted(custom)[role] \subseteq Rights!Held(actor)
    BY <1>1 DEF Rights!CheckAssign, Rights!MayAssign
  <2>2. m("assign", actor, target, role) \in Mutations
    BY DEF Mutations
  <2>3. /\ MutationOK(m("assign", actor, target, role))
        /\ KeepsSuperAdmins(m("assign", actor, target, role))
        /\ Authorized(m("assign", actor, target, role))
    BY <2>1 DEF MutationOK, KeepsSuperAdmins, Authorized
  <2> QED
    BY <2>1, <2>2, <2>3, RightsCheckStep
<1>2. CASE Rights!CheckRevoke(r, actor, target, role)
  <2>1. /\ Rights!Check(r, "revoke", actor, target, role)
        /\ role = "SUPER_ADMIN" /\ target \in Rights!Active => Rights!SuperAdminsBesides(target, role) # {}
    BY <1>2 DEF Rights!CheckRevoke
  <2>2. Rights!SuperAdminsBesides(target, "SUPER_ADMIN") = {}
    BY DEF Rights!SuperAdminsBesides
  <2>3. m("revoke", actor, target, role) \in Mutations
    BY DEF Mutations
  <2>4. /\ MutationOK(m("revoke", actor, target, role))
        /\ KeepsSuperAdmins(m("revoke", actor, target, role))
        /\ Authorized(m("revoke", actor, target, role))
    BY <2>1, <2>2 DEF MutationOK, KeepsSuperAdmins, Authorized
  <2> QED
    BY <2>1, <2>3, <2>4, RightsCheckStep
<1>3. ASSUME NEW op \in {"extend", "reduce"}, Rights!Check(r, op, actor, "nobody", key),
             key \in Rights!Held(actor)
      PROVE  RightsInv'
  <2>1. m(op, actor, "nobody", key) \in Mutations
    BY DEF Mutations
  <2>2. /\ MutationOK(m(op, actor, "nobody", key))
        /\ KeepsSuperAdmins(m(op, actor, "nobody", key))
        /\ Authorized(m(op, actor, "nobody", key))
    BY <1>3 DEF MutationOK, KeepsSuperAdmins, Authorized
  <2> QED
    BY <1>3, <2>1, <2>2, RightsCheckStep
<1>4. CASE Rights!CheckExtend(r, actor, key) \/ Rights!CheckReduce(r, actor, key)
  BY <1>3, <1>4 DEF Rights!CheckExtend, Rights!CheckReduce, Rights!MayUpdate
<1>5. CASE Rights!CheckBootstrap(r, actor)
  <2>1. Rights!Check(r, "bootstrap", "nobody", actor, "SUPER_ADMIN")
    BY <1>5 DEF Rights!CheckBootstrap
  <2>2. "SUPER_ADMIN" \in Rights!Roles /\ m("bootstrap", "nobody", actor, "SUPER_ADMIN") \in Mutations
    BY DEF Mutations, Rights!Roles
  <2>3. /\ MutationOK(m("bootstrap", "nobody", actor, "SUPER_ADMIN"))
        /\ KeepsSuperAdmins(m("bootstrap", "nobody", actor, "SUPER_ADMIN"))
        /\ Authorized(m("bootstrap", "nobody", actor, "SUPER_ADMIN"))
    BY <2>2 DEF MutationOK, KeepsSuperAdmins, Authorized
  <2> QED
    BY <2>1, <2>2, <2>3, RightsCheckStep
<1> QED
  BY <1>1, <1>2, <1>4, <1>5

-----------------------------------------------------------------------------
(* The rows after a commit. *)

LEMMA RowsAfter ==
  ASSUME RightsTypes, NEW m \in Mutations, MutationOK(m), Rights!Possible(m), Rights!DeletedRoleGone
  PROVE  /\ Rights!MemberAfter(m) \in [Users -> SUBSET Rights!Roles]
         /\ Rights!CustomAfter(m) \subseteq Rights!Keys
         /\ ~exists => /\ Rights!CustomAfter(m) = {}
                       /\ \A u \in Users : "CUSTOM" \notin Rights!MemberAfter(m)[u]
<1>1. member \in [Users -> SUBSET Rights!Roles] /\ custom \subseteq Rights!Keys
  BY DEF RightsTypes, Rights!TypeOK
<1>2. CASE m.op \in {"assign", "bootstrap"}
  <2>1. Rights!MemberAfter(m) = [member EXCEPT ![m.target] = @ \union {m.key}] /\ Rights!CustomAfter(m) = custom
    BY <1>2 DEF Rights!MemberAfter, Rights!CustomAfter
  <2>2. m.target \in Users /\ m.key \in Rights!Roles
    BY <1>2 DEF MutationOK
  <2>3. ~exists => m.key # "CUSTOM"
    BY <1>2 DEF Rights!Possible, Rights!Loadable, MutationOK
  <2> QED
    BY <1>1, <2>1, <2>2, <2>3 DEF Rights!DeletedRoleGone
<1>3. CASE m.op = "revoke"
  <2>1. Rights!MemberAfter(m) = [member EXCEPT ![m.target] = @ \ {m.key}] /\ Rights!CustomAfter(m) = custom
    BY <1>3 DEF Rights!MemberAfter, Rights!CustomAfter
  <2> QED
    BY <1>1, <2>1 DEF Rights!DeletedRoleGone
<1>4. CASE m.op \in {"none", "extend", "reduce"}
  <2>1. Rights!MemberAfter(m) = member
    BY <1>4 DEF Rights!MemberAfter
  <2>2. Rights!CustomAfter(m) \subseteq custom \union {m.key}
    BY <1>4 DEF Rights!CustomAfter
  <2>3. Rights!CustomAfter(m) \subseteq Rights!Keys
    BY <1>1, <1>4 DEF Rights!CustomAfter, MutationOK
  <2>4. ~exists => Rights!CustomAfter(m) = {}
    BY <1>4 DEF Rights!CustomAfter, Rights!Possible, Rights!DeletedRoleGone
  <2> QED
    BY <1>1, <2>1, <2>3, <2>4 DEF Rights!DeletedRoleGone
<1> QED
  BY <1>2, <1>3, <1>4 DEF Mutations

(* A commit that is still authorized gives nobody what its actor does not  *)
(* hold.                                                                   *)
LEMMA WithinReach ==
  ASSUME RightsTypes, NEW m \in Mutations, MutationOK(m), Authorized(m)
  PROVE  ~Rights!Overreaches(m)
<1> SUFFICES ASSUME m.op # "bootstrap", NEW u \in Users,
                    NEW k \in Rights!HeldIn(u, Rights!MemberAfter(m), Rights!CustomAfter(m)), k \notin Rights!Held(u)
             PROVE  k \in Rights!Held(m.actor)
  BY DEF Rights!Overreaches
<1>1. member \in [Users -> SUBSET Rights!Roles]
  BY DEF RightsTypes, Rights!TypeOK
<1>2. PICK role \in Rights!MemberAfter(m)[u] : k \in Rights!Granted(Rights!CustomAfter(m))[role]
  BY DEF Rights!HeldIn
<1>3. \A x \in member[u] : k \notin Rights!Granted(custom)[x]
  BY DEF Rights!Held, Rights!HeldIn
<1>4. CASE m.op = "assign"
  <2>1. /\ Rights!MemberAfter(m) = [member EXCEPT ![m.target] = @ \union {m.key}]
        /\ Rights!CustomAfter(m) = custom
    BY <1>4 DEF Rights!MemberAfter, Rights!CustomAfter
  <2>2. role = m.key
    BY <1>1, <1>2, <1>3, <2>1
  <2> QED
    BY <1>2, <1>4, <2>1, <2>2 DEF Authorized
<1>5. CASE m.op = "extend"
  <2>1. Rights!MemberAfter(m) = member /\ Rights!CustomAfter(m) = custom \union {m.key}
    BY <1>5 DEF Rights!MemberAfter, Rights!CustomAfter
  <2>2. role \in Rights!Roles /\ role \in member[u]
    BY <1>1, <1>2, <2>1
  <2>3. k = m.key
    BY <1>2, <1>3, <2>1, <2>2 DEF Rights!Granted
  <2> QED
    BY <1>5, <2>3 DEF Authorized
<1>6. CASE m.op \in {"none", "revoke", "reduce"}
  <2>1. Rights!CustomAfter(m) \subseteq custom
    BY <1>6 DEF Rights!CustomAfter
  <2>2. Rights!MemberAfter(m)[u] \subseteq member[u]
    BY <1>1, <1>6 DEF Rights!MemberAfter
  <2>3. role \in Rights!Roles /\ role \in member[u]
    BY <1>1, <1>2, <2>2
  <2>4. k \in Rights!Granted(custom)[role]
    BY <1>2, <2>1, <2>3 DEF Rights!Granted
  <2> QED
    BY <1>3, <2>3, <2>4
<1> QED
  BY <1>4, <1>5, <1>6 DEF Mutations

-----------------------------------------------------------------------------
(* A request that returns to rest. *)
LEMMA Rests ==
  ASSUME RightsInv, NEW r \in Requests, mutation' = [mutation EXCEPT ![r] = Rights!Ready]
  PROVE  /\ mutation' \in [Requests -> Mutations]
         /\ mutation'[r] = Rights!Ready
         /\ \A q \in Requests : q # r => mutation'[q] = mutation[q]
         /\ \A q \in Requests : MutationOK(mutation'[q])
<1>1. Rights!Ready \in Mutations /\ MutationOK(Rights!Ready)
  BY DEF Rights!Ready, Mutations, MutationOK
<1> QED
  BY <1>1 DEF RightsInv, RightsTypes

LEMMA RightsCommitStep ==
  ASSUME RightsInv, NEW r \in Requests, Rights!Commit(r)
  PROVE  RightsInv'
<1> DEFINE m == mutation[r]
<1>1. /\ ~Rights!Idle(r) /\ Rights!Possible(m)
      /\ member' = Rights!MemberAfter(m) /\ custom' = Rights!CustomAfter(m)
      /\ overreach' = (overreach \/ Rights!Overreaches(m))
      /\ met' = (met \/ Rights!Others(r) # {})
      /\ admitted' = admitted \union {u \in Rights!Active : "SUPER_ADMIN" \in Rights!MemberAfter(m)[u]}
      /\ mutation' = [mutation EXCEPT ![r] = Rights!Ready]
      /\ UNCHANGED <<serial, disabled, exists>>
  BY DEF Rights!Commit
<1>2. m \in Mutations /\ MutationOK(m)
  BY DEF RightsInv, RightsTypes
<1>3. /\ mutation' \in [Requests -> Mutations]
      /\ mutation'[r] = Rights!Ready
      /\ \A q \in Requests : q # r => mutation'[q] = mutation[q]
      /\ \A q \in Requests : MutationOK(mutation'[q])
  BY <1>1, Rests
<1>4. /\ member' \in [Users -> SUBSET Rights!Roles] /\ custom' \subseteq Rights!Keys
      /\ ~exists => custom' = {} /\ \A u \in Users : "CUSTOM" \notin member'[u]
  BY <1>1, <1>2, RowsAfter DEF RightsInv
<1>5. overreach \in BOOLEAN /\ met \in BOOLEAN
  BY DEF RightsInv, RightsTypes
<1>6. RightsTypes'
  <2>1. Rights!TypeOK'
    BY <1>3, <1>4 DEF Rights!TypeOK, MutationOK
  <2>2. serial' \in BOOLEAN /\ exists' \in BOOLEAN
    BY <1>1 DEF RightsInv, RightsTypes
  <2>3. overreach' \in BOOLEAN /\ met' \in BOOLEAN
    BY <1>1, <1>5
  <2> QED
    BY <1>3, <2>1, <2>2, <2>3 DEF RightsTypes
<1>7. Rights!DeletedRoleGone'
  BY <1>1, <1>4 DEF Rights!DeletedRoleGone
<1>8. StayInv'
  <2>1. ASSUME NEW u \in admitted PROVE "SUPER_ADMIN" \in member'[u]
    <3>1. "SUPER_ADMIN" \in member[u] /\ u \in Users /\ u \in Rights!Active
      BY DEF RightsInv, StayInv, Rights!SuperAdminsStay, Rights!Active
    <3>2. member \in [Users -> SUBSET Rights!Roles]
      BY DEF RightsInv, RightsTypes, Rights!TypeOK
    <3>3. CASE m.op = "revoke"
      <4>1. m.key # "SUPER_ADMIN" \/ m.target # u
        BY <3>1, <3>3 DEF RightsInv, StayInv, KeepsSuperAdmins
      <4> QED
        BY <1>1, <1>2, <3>1, <3>2, <3>3, <4>1 DEF Rights!MemberAfter, MutationOK
    <3>4. CASE m.op # "revoke"
      BY <1>1, <1>2, <3>1, <3>2, <3>4 DEF Rights!MemberAfter, MutationOK
    <3> QED
      BY <3>3, <3>4
  <2>2. Rights!SuperAdminsStay'
    BY <1>1, <2>1 DEF Rights!SuperAdminsStay
  <2>3. (admitted \subseteq Rights!Active)'
    BY <1>1 DEF RightsInv, StayInv, Rights!Active
  <2>4. \A q \in Requests : KeepsSuperAdmins(mutation[q])'
    BY <1>1, <1>3 DEF RightsInv, StayInv, KeepsSuperAdmins, Rights!Ready, Rights!Active
  <2> QED
    BY <2>2, <2>3, <2>4 DEF StayInv
<1>9. ReachInv'
  <2>1. ASSUME ~met' PROVE ~overreach' /\ \A q \in Requests : Authorized(mutation[q])'
    <3>1. ~met /\ Rights!Others(r) = {}
      BY <1>1, <2>1
    <3>2. ~Rights!Overreaches(m)
      BY <1>2, <3>1, WithinReach DEF RightsInv, ReachInv
    <3>3. ~overreach'
      BY <1>1, <3>1, <3>2 DEF RightsInv, ReachInv
    <3>4. \A q \in Requests : mutation'[q].op = "none"
      BY <1>3, <3>1 DEF Rights!Others, Rights!Idle, Rights!Ready
    <3> QED
      BY <3>3, <3>4 DEF Authorized
  <2>2. ASSUME serial' PROVE ~met' /\ \A p, q \in Requests : ~Rights!Idle(p)' /\ ~Rights!Idle(q)' => p = q
    <3>1. ~met /\ \A p, q \in Requests : ~Rights!Idle(p) /\ ~Rights!Idle(q) => p = q
      BY <1>1, <2>2 DEF RightsInv, ReachInv
    <3>2. Rights!Others(r) = {}
      BY <1>1, <3>1 DEF Rights!Others
    <3>3. \A q \in Requests : Rights!Idle(q)'
      BY <1>3, <3>2 DEF Rights!Others, Rights!Idle, Rights!Ready
    <3> QED
      BY <1>1, <3>1, <3>2, <3>3
  <2> QED
    BY <2>1, <2>2 DEF ReachInv
<1> QED
  BY <1>6, <1>7, <1>8, <1>9 DEF RightsInv

LEMMA RightsRollbackStep ==
  ASSUME RightsInv, NEW r \in Requests, Rights!Rollback(r)
  PROVE  RightsInv'
<1>1. /\ mutation' = [mutation EXCEPT ![r] = Rights!Ready]
      /\ UNCHANGED <<serial, disabled, member, custom, exists, admitted, met, overreach>>
  BY DEF Rights!Rollback
<1>2. /\ mutation' \in [Requests -> Mutations]
      /\ mutation'[r] = Rights!Ready
      /\ \A q \in Requests : q # r => mutation'[q] = mutation[q]
      /\ \A q \in Requests : MutationOK(mutation'[q])
  BY <1>1, Rests
<1>3. RightsTypes'
  BY <1>1, <1>2 DEF RightsInv, RightsTypes, Rights!TypeOK, MutationOK
<1>4. StayInv'
  <2>1. \A q \in Requests : KeepsSuperAdmins(mutation[q])'
    BY <1>1, <1>2 DEF RightsInv, StayInv, KeepsSuperAdmins, Rights!Ready, Rights!Active
  <2> QED
    BY <1>1, <2>1 DEF RightsInv, StayInv, Rights!SuperAdminsStay, Rights!Active
<1>5. ReachInv'
  <2>1. ASSUME ~met PROVE \A q \in Requests : Authorized(mutation[q])'
    BY <1>1, <1>2, <2>1 DEF RightsInv, ReachInv, Authorized, Rights!Ready, Rights!Held, Rights!HeldIn
  <2>2. \A q \in Requests : ~Rights!Idle(q)' => ~Rights!Idle(q)
    BY <1>2 DEF Rights!Idle, Rights!Ready
  <2> QED
    BY <1>1, <2>1, <2>2 DEF RightsInv, ReachInv
<1>6. Rights!DeletedRoleGone'
  BY <1>1 DEF RightsInv, Rights!DeletedRoleGone
<1> QED
  BY <1>3, <1>4, <1>5, <1>6 DEF RightsInv

(* A role that is created has neither members nor permissions.             *)
LEMMA RightsCreateStep ==
  ASSUME RightsInv, NEW r \in Requests, NEW actor \in Users, Rights!CreateRole(r, actor)
  PROVE  RightsInv'
<1>1. /\ exists' = TRUE /\ custom' = custom
      /\ UNCHANGED <<serial, disabled, member, mutation, admitted, met, overreach>>
  BY DEF Rights!CreateRole, RightsInv, Rights!DeletedRoleGone
<1>2. RightsTypes'
  BY <1>1 DEF RightsInv, RightsTypes, Rights!TypeOK
<1>3. StayInv'
  BY <1>1 DEF RightsInv, StayInv, Rights!SuperAdminsStay, KeepsSuperAdmins, Rights!Active
<1>4. ReachInv'
  BY <1>1 DEF RightsInv, ReachInv, Authorized, Rights!Held, Rights!HeldIn, Rights!Idle
<1>5. Rights!DeletedRoleGone'
  BY <1>1 DEF Rights!DeletedRoleGone
<1> QED
  BY <1>2, <1>3, <1>4, <1>5 DEF RightsInv

LEMMA RightsDeleteStep ==
  ASSUME RightsInv, NEW r \in Requests, NEW actor \in Users, Rights!DeleteRole(r, actor)
  PROVE  RightsInv'
<1>1. /\ exists' = FALSE /\ custom' = {}
      /\ member' = [u \in Users |-> member[u] \ {"CUSTOM"}]
      /\ met' = (met \/ Rights!Others(r) # {})
      /\ Rights!Idle(r) /\ (serial => Rights!Others(r) = {})
      /\ UNCHANGED <<serial, disabled, mutation, admitted, overreach>>
  BY DEF Rights!DeleteRole, Rights!Writable
<1>2. member \in [Users -> SUBSET Rights!Roles] /\ met \in BOOLEAN
  BY DEF RightsInv, RightsTypes, Rights!TypeOK
<1>3. RightsTypes'
  <2>1. member' \in [Users -> SUBSET Rights!Roles]
    BY <1>1, <1>2
  <2>2. Rights!TypeOK'
    BY <1>1, <2>1 DEF RightsInv, RightsTypes, Rights!TypeOK
  <2>3. met' \in BOOLEAN
    BY <1>1, <1>2
  <2> QED
    BY <1>1, <2>2, <2>3 DEF RightsInv, RightsTypes
<1>4. StayInv'
  <2>1. \A u \in admitted : u \in Users /\ "SUPER_ADMIN" \in member[u]
    BY DEF RightsInv, StayInv, Rights!SuperAdminsStay, Rights!Active
  <2>2. Rights!SuperAdminsStay'
    BY <1>1, <2>1 DEF Rights!SuperAdminsStay
  <2> QED
    BY <1>1, <2>2 DEF RightsInv, StayInv, KeepsSuperAdmins, Rights!Active
<1>5. ReachInv'
  <2>1. ASSUME ~met' PROVE ~overreach' /\ \A q \in Requests : Authorized(mutation[q])'
    <3>1. ~met /\ \A q \in Requests : mutation[q].op = "none"
      BY <1>1, <2>1 DEF Rights!Others, Rights!Idle
    <3> QED
      BY <1>1, <3>1 DEF RightsInv, ReachInv, Authorized
  <2>2. ASSUME serial' PROVE ~met' /\ \A p, q \in Requests : ~Rights!Idle(p)' /\ ~Rights!Idle(q)' => p = q
    BY <1>1, <2>2 DEF RightsInv, ReachInv, Rights!Idle
  <2> QED
    BY <2>1, <2>2 DEF ReachInv
<1>6. Rights!DeletedRoleGone'
  BY <1>1 DEF Rights!DeletedRoleGone
<1> QED
  BY <1>3, <1>4, <1>5, <1>6 DEF RightsInv

LEMMA NextRights == RightsInv /\ [Rights!Next]_(Rights!vars) => RightsInv'
<1> SUFFICES ASSUME RightsInv, [Rights!Next]_(Rights!vars) PROVE RightsInv'
  OBVIOUS
<1>1. CASE UNCHANGED Rights!vars
  <2>1. UNCHANGED <<serial, disabled, member, custom, exists, mutation, admitted, met, overreach>>
    BY <1>1 DEF Rights!vars
  <2>2. RightsTypes'
    BY <2>1 DEF RightsInv, RightsTypes, Rights!TypeOK
  <2>3. StayInv'
    BY <2>1 DEF RightsInv, StayInv, Rights!SuperAdminsStay, KeepsSuperAdmins, Rights!Active
  <2>4. ReachInv'
    BY <2>1 DEF RightsInv, ReachInv, Authorized, Rights!Held, Rights!HeldIn, Rights!Idle
  <2>5. Rights!DeletedRoleGone'
    BY <2>1 DEF RightsInv, Rights!DeletedRoleGone
  <2> QED
    BY <2>2, <2>3, <2>4, <2>5 DEF RightsInv
<1>2. "CUSTOM" \in Rights!Roles /\ "roles.assign" \in Rights!Keys
  BY DEF Rights!Roles, Rights!Keys
<1>3. ASSUME NEW r \in Requests, NEW actor \in Users, NEW target \in Users, NEW role \in Rights!Roles,
             Rights!CheckAssign(r, actor, target, role) \/ Rights!CheckRevoke(r, actor, target, role)
      PROVE  RightsInv'
  BY <1>2, <1>3, RightsChecks
<1>4. ASSUME NEW r \in Requests, NEW actor \in Users, NEW key \in Rights!Keys,
             Rights!CheckExtend(r, actor, key) \/ Rights!CheckReduce(r, actor, key)
      PROVE  RightsInv'
  BY <1>2, <1>4, RightsChecks
<1>5. ASSUME NEW r \in Requests, NEW actor \in Users, Rights!CheckBootstrap(r, actor)
      PROVE  RightsInv'
  BY <1>2, <1>5, RightsChecks
<1> QED
  BY <1>1, <1>3, <1>4, <1>5, RightsCommitStep, RightsRollbackStep, RightsCreateStep, RightsDeleteStep DEF Rights!Next

LEMMA RightsInvSound == RightsInv => Rights!AuthoritySound
  BY DEF RightsInv, RightsTypes, StayInv, ReachInv, Rights!AuthoritySound, Rights!NoOverreach

-----------------------------------------------------------------------------
(* Logins *)

(* What the settings can say: a policy allows something and has a window,  *)
(* and a lockout takes a failure and a while.                              *)
LoginOK ==
  /\ IsFiniteSet(Requests)
  /\ MaxHits \in Nat /\ Window \in Nat \ {0} /\ MaxFailed \in Nat \ {0} /\ Lockout \in Nat
  /\ MaxTime \in Nat \ {0} /\ MaxLogins \in Nat

HitRecord == [nr : 1..MaxLogins, at : 1..MaxTime]
LoginRequest ==
  [pc : {"outside", "evict", "append", "find", "verify", "session"}, nr : Nat, list : Nat,
   seen : Nat, expired : BOOLEAN, good : BOOLEAN]
NumberedOK(q) == q.nr \in 1..MaxLogins /\ (q.pc = "append" => store = "memory")
Inside == {r \in Requests : login[r].pc # "outside"}

LoginTypes ==
  /\ store \in {"memory", "redis"}
  /\ hits \subseteq HitRecord /\ IsFiniteSet(hits)
  /\ admittedAt \subseteq HitRecord /\ IsFiniteSet(admittedAt)
  /\ list \in Nat /\ now \in 1..MaxTime
  /\ failures \in Nat /\ wrong \in Nat /\ lock \in 0..(MaxTime + Lockout)
  /\ logins \in 0..MaxLogins
  /\ login \in [Requests -> LoginRequest]
  /\ \A r \in Inside : NumberedOK(login[r])
  /\ disturbed \in BOOLEAN /\ intruded \in BOOLEAN

(* Who has read the counter is still to write it: the attempts to come are *)
(* among the requests inside.                                              *)
AttemptsInv ==
  /\ failures + Cardinality(Inside) <= logins
  /\ \A r \in Requests : login[r].pc = "verify" => login[r].seen + Cardinality(Inside) <= logins

(* Undisturbed, one request at a time is inside, and the list it counts in *)
(* is the key's.                                                           *)
TurnInv ==
  ~disturbed =>
    /\ \A r, x \in Inside : r = x
    /\ \A r \in Requests :
         /\ login[r].pc = "append" =>
              /\ login[r].list = list
              /\ \A h \in hits : h.at + Window > now
         /\ login[r].pc = "verify" =>
              login[r].seen = failures /\ lock <= now /\ (login[r].expired <=> lock # 0)

(* Nothing that was admitted and is in the window has left the store.      *)
Fresh == {h \in admittedAt : h.at + Window > now}
WindowInv ==
  /\ \A h \in admittedAt \union hits : h.at <= now
  /\ (store = "redis" \/ ~disturbed) =>
       /\ Fresh \subseteq hits
       /\ Cardinality(Fresh) <= MaxHits
       /\ \A t \in 1..now : Guard!AdmittedIn(t) <= MaxHits

LockInv ==
  ~disturbed => failures = wrong /\ (failures >= MaxFailed => lock # 0) /\ ~intruded

LoginInv == LoginTypes /\ AttemptsInv /\ TurnInv /\ WindowInv /\ LockInv

LEMMA GuardCardinality == \A S : Guard!Cardinality(S) = Cardinality(S)
  BY DEF Guard!Cardinality, Cardinality

(* A request takes a new place: who is inside then.                        *)
LEMMA LoginMoves ==
  ASSUME LoginOK, LoginTypes, NEW r \in Requests, NEW new \in LoginRequest,
         login' = [login EXCEPT ![r] = new]
  PROVE  /\ login' \in [Requests -> LoginRequest] /\ login'[r] = new
         /\ \A x \in Requests \ {r} : login'[x] = login[x]
         /\ Inside' = IF new.pc = "outside" THEN Inside \ {r} ELSE Inside \union {r}
         /\ IsFiniteSet(Inside) /\ IsFiniteSet(Inside')
         /\ Cardinality(Inside) \in Nat /\ Cardinality(Inside') \in Nat
         /\ Cardinality(Inside \ {r}) = IF r \in Inside THEN Cardinality(Inside) - 1 ELSE Cardinality(Inside)
         /\ Cardinality(Inside \union {r}) = IF r \in Inside THEN Cardinality(Inside) ELSE Cardinality(Inside) + 1
<1>1. /\ login' \in [Requests -> LoginRequest] /\ login'[r] = new
      /\ \A x \in Requests \ {r} : login'[x] = login[x]
  BY DEF LoginTypes
<1>2. Inside' = IF new.pc = "outside" THEN Inside \ {r} ELSE Inside \union {r}
  BY <1>1 DEF Inside
<1>3. IsFiniteSet(Inside) /\ IsFiniteSet(Inside')
  <2>1. Inside \subseteq Requests /\ Inside' \subseteq Requests
    BY DEF Inside
  <2> QED
    BY <2>1, FS_Subset DEF LoginOK
<1> QED
  BY <1>1, <1>2, <1>3, FS_CardinalityType, FS_AddElement, FS_RemoveElement

(* A request leaves, or goes on.                                           *)
LEMMA RequestOut ==
  ASSUME LoginOK, LoginTypes, NEW r \in Inside, Guard!Out(r)
  PROVE  /\ login' \in [Requests -> LoginRequest] /\ login'[r].pc = "outside"
         /\ \A x \in Requests \ {r} : login'[x] = login[x]
         /\ Inside' = Inside \ {r}
         /\ Cardinality(Inside) \in Nat /\ Cardinality(Inside') = Cardinality(Inside) - 1
<1>1. login' = [login EXCEPT ![r] = Guard!Outside]
  BY DEF Guard!Out
<1>2. Guard!Outside \in LoginRequest /\ Guard!Outside.pc = "outside"
  BY DEF Guard!Outside, LoginRequest
<1>3. r \in Requests
  BY DEF Inside
<1> QED
  BY <1>1, <1>2, <1>3, LoginMoves

LEMMA RequestGoes ==
  ASSUME LoginOK, LoginTypes, NEW r \in Inside,
         NEW pc \in {"append", "find", "verify", "session"}, Guard!Go(r, pc)
  PROVE  /\ login' \in [Requests -> LoginRequest]
         /\ login'[r].pc = pc /\ login'[r].nr = login[r].nr /\ login'[r].seen = login[r].seen
         /\ \A x \in Requests \ {r} : login'[x] = login[x]
         /\ Inside' = Inside
<1>1. PICK q \in LoginRequest : q = login[r]
  BY DEF LoginTypes, Inside
<1>2. PICK n : n = [q EXCEPT !.pc = pc]
  OBVIOUS
<1>3. n \in LoginRequest /\ n.pc = pc /\ n.nr = q.nr /\ n.seen = q.seen
  BY <1>2 DEF LoginRequest
<1>4. login' = [login EXCEPT ![r] = n]
  BY <1>1, <1>2 DEF Guard!Go
<1>5. r \in Requests
  BY DEF Inside
<1>6. /\ login' \in [Requests -> LoginRequest] /\ login'[r] = n
      /\ \A x \in Requests \ {r} : login'[x] = login[x]
      /\ Inside' = IF n.pc = "outside" THEN Inside \ {r} ELSE Inside \union {r}
  BY <1>3, <1>4, <1>5, LoginMoves
<1>7. Inside' = Inside
  BY <1>3, <1>6
<1> QED
  BY <1>1, <1>3, <1>6, <1>7

(* What is left of the invariants when a step does not touch the limiter,  *)
(* or the account.                                                         *)
LEMMA WindowSame ==
  ASSUME WindowInv, hits' = hits, admittedAt' = admittedAt, now' = now, store' = store,
         disturbed => disturbed'
  PROVE  WindowInv'
  BY DEF WindowInv, Fresh, Guard!AdmittedIn

LEMMA LockSame ==
  ASSUME LockInv, failures' = failures, lock' = lock, wrong' = wrong, intruded' = intruded,
         disturbed => disturbed'
  PROVE  LockInv'
  BY DEF LockInv

(* The requests that stay inside, or leave without having written.         *)
LEMMA AttemptsKept ==
  ASSUME LoginTypes, AttemptsInv, NEW r \in Requests,
         \A x \in Requests \ {r} : login'[x] = login[x],
         login'[r].pc = "verify" => login'[r].seen = failures,
         Cardinality(Inside) \in Nat, Cardinality(Inside') \in Nat,
         Cardinality(Inside') <= Cardinality(Inside),
         failures' = failures, logins' = logins
  PROVE  AttemptsInv'
<1>1. \A a, i, j, b \in Nat : a + i <= b /\ j <= i => a + j <= b
  OBVIOUS
<1>2. failures \in Nat /\ logins \in Nat /\ \A x \in Requests : login[x].seen \in Nat
  BY DEF LoginTypes, LoginRequest
<1>3. failures + Cardinality(Inside') <= logins
  BY <1>1, <1>2 DEF AttemptsInv
<1>4. ASSUME NEW x \in Requests, login'[x].pc = "verify"
      PROVE  login'[x].seen + Cardinality(Inside') <= logins
  <2>1. CASE x = r
    BY <1>3, <1>4, <2>1
  <2>2. CASE x # r
    <3>1. login[x].seen + Cardinality(Inside) <= logins /\ login'[x].seen = login[x].seen
      BY <1>4, <2>2 DEF AttemptsInv
    <3> QED
      BY <1>1, <1>2, <3>1
  <2> QED
    BY <2>1, <2>2
<1> QED
  BY <1>3, <1>4 DEF AttemptsInv

(* Undisturbed, whoever is inside is the one who moves.                    *)
LEMMA AloneInside ==
  ASSUME TurnInv, NEW r \in Inside, ~disturbed
  PROVE  \A x \in Requests \ {r} : login[x].pc = "outside"
  BY DEF TurnInv, Inside

(* The types of what a step of a request leaves behind.                    *)
LEMMA NumbersKept ==
  ASSUME LoginTypes, NEW r \in Requests, \A x \in Requests \ {r} : login'[x] = login[x],
         login'[r].pc # "outside" => login'[r].nr \in 1..MaxLogins,
         login'[r].pc = "append" => store = "memory", store' = store
  PROVE  \A x \in Inside' : NumberedOK(login[x])'
  BY DEF LoginTypes, Inside, NumberedOK

LEMMA InitLogin ==
  ASSUME LoginOK, Guard!Init
  PROVE  LoginInv
<1>1. /\ store \in {"memory", "redis"} /\ hits = {} /\ admittedAt = {} /\ list = 0 /\ now = 1
      /\ failures = 0 /\ lock = 0 /\ logins = 0 /\ disturbed = FALSE /\ wrong = 0
      /\ intruded = FALSE /\ login = [r \in Requests |-> Guard!Outside]
  BY DEF Guard!Init
<1>2. Guard!Outside \in LoginRequest /\ Guard!Outside.pc = "outside"
  BY DEF Guard!Outside, LoginRequest
<1>3. Inside = {} /\ Cardinality(Inside) = 0
  BY <1>1, <1>2, FS_EmptySet DEF Inside
<1>4. LoginTypes
  <2>1. login \in [Requests -> LoginRequest]
    BY <1>1, <1>2
  <2>2. now \in 1..MaxTime /\ lock \in 0..(MaxTime + Lockout) /\ logins \in 0..MaxLogins
    BY <1>1 DEF LoginOK
  <2> QED
    BY <1>1, <1>3, <2>1, <2>2, FS_EmptySet DEF LoginTypes
<1>5. AttemptsInv
  BY <1>1, <1>2, <1>3 DEF AttemptsInv
<1>6. TurnInv
  BY <1>1, <1>2, <1>3 DEF TurnInv
<1>7. WindowInv
  <2>1. \A t : Guard!AdmittedIn(t) = 0
    <3>1. \A t : {h \in admittedAt : h.at <= t /\ h.at + Window > t} = {}
      BY <1>1
    <3> QED
      BY <3>1, FS_EmptySet, GuardCardinality DEF Guard!AdmittedIn
  <2>2. Fresh = {} /\ Cardinality(Fresh) = 0
    BY <1>1, FS_EmptySet DEF Fresh
  <2> QED
    BY <1>1, <2>1, <2>2 DEF WindowInv, LoginOK
<1>8. LockInv
  BY <1>1 DEF LockInv, LoginOK
<1> QED
  BY <1>4, <1>5, <1>6, <1>7, <1>8 DEF LoginInv

LEMMA LoginArriveKeeps ==
  ASSUME LoginOK, LoginInv, NEW r \in Requests, NEW good \in BOOLEAN, Guard!Arrive(r, good)
  PROVE  LoginInv'
<1>1. LoginTypes /\ AttemptsInv /\ TurnInv /\ WindowInv /\ LockInv
  BY DEF LoginInv
<1>2. /\ login[r].pc = "outside" /\ logins < MaxLogins /\ logins' = logins + 1
      /\ disturbed' = (disturbed \/ \E x \in Requests \ {r} : login[x].pc # "outside")
      /\ store' = store /\ hits' = hits /\ list' = list /\ now' = now /\ failures' = failures
      /\ lock' = lock /\ admittedAt' = admittedAt /\ wrong' = wrong /\ intruded' = intruded
  BY DEF Guard!Arrive, Guard!In
<1>3. PICK q \in LoginRequest : q = Guard!Outside
  BY DEF Guard!Outside, LoginRequest
<1>4. PICK new \in LoginRequest : /\ login' = [login EXCEPT ![r] = new]
                                 /\ new.pc = "evict" /\ new.nr = logins + 1
  <2>1. PICK n : n = [q EXCEPT !.pc = "evict", !.nr = logins + 1, !.good = good]
    OBVIOUS
  <2>2. logins + 1 \in Nat
    BY <1>1 DEF LoginTypes
  <2>3. n \in LoginRequest /\ n.pc = "evict" /\ n.nr = logins + 1
    BY <2>1, <2>2 DEF LoginRequest
  <2>4. login' = [login EXCEPT ![r] = n]
    BY <1>3, <2>1 DEF Guard!Arrive
  <2> QED
    BY <2>3, <2>4
<1>5. /\ login' \in [Requests -> LoginRequest] /\ login'[r] = new
      /\ \A x \in Requests \ {r} : login'[x] = login[x]
      /\ Inside' = Inside \union {r} /\ Cardinality(Inside) \in Nat
      /\ Cardinality(Inside') = Cardinality(Inside) + 1
  <2>1. r \notin Inside
    BY <1>2 DEF Inside
  <2> QED
    BY <1>1, <1>4, <2>1, LoginMoves
<1>6. LoginTypes'
  <2>1. login'[r].nr \in 1..MaxLogins /\ logins' \in 0..MaxLogins
    BY <1>1, <1>2, <1>4, <1>5 DEF LoginTypes, LoginOK
  <2>2. \A x \in Inside' : NumberedOK(login[x])'
    BY <1>1, <1>2, <1>4, <1>5, <2>1, NumbersKept
  <2>3. disturbed' \in BOOLEAN
    BY <1>2
  <2> QED
    BY <1>1, <1>2, <1>5, <2>1, <2>2, <2>3 DEF LoginTypes
<1>7. AttemptsInv'
  <2>1. \A a, i, b \in Nat : a + i <= b => a + (i + 1) <= b + 1
    OBVIOUS
  <2>2. failures \in Nat /\ logins \in Nat /\ \A x \in Requests : login[x].seen \in Nat
    BY <1>1 DEF LoginTypes, LoginRequest
  <2>3. failures + (Cardinality(Inside) + 1) <= logins + 1
    BY <1>1, <1>5, <2>1, <2>2 DEF AttemptsInv
  <2>4. ASSUME NEW x \in Requests, login'[x].pc = "verify"
        PROVE  login'[x].seen + (Cardinality(Inside) + 1) <= logins + 1
    <3>1. x # r /\ login'[x] = login[x]
      BY <1>4, <1>5, <2>4
    <3> QED
      BY <1>1, <1>5, <2>1, <2>2, <2>4, <3>1 DEF AttemptsInv
  <2> QED
    BY <1>2, <1>5, <2>3, <2>4 DEF AttemptsInv
<1>8. TurnInv'
  <2> SUFFICES ASSUME ~disturbed'
               PROVE  TurnInv'
    BY DEF TurnInv
  <2>1. ~disturbed /\ \A x \in Requests \ {r} : login[x].pc = "outside"
    BY <1>2
  <2> QED
    BY <1>4, <1>5, <2>1 DEF TurnInv, Inside
<1>9. WindowInv' /\ LockInv'
  BY <1>1, <1>2, WindowSame, LockSame
<1> QED
  BY <1>6, <1>7, <1>8, <1>9 DEF LoginInv

LEMMA LogoutKeeps ==
  ASSUME LoginInv, NEW n, Guard!Logout(n)
  PROVE  LoginInv'
<1>1. /\ store' = store /\ hits' = hits /\ list' = list /\ now' = now /\ failures' = failures
      /\ lock' = lock /\ login' = login /\ logins' = logins /\ admittedAt' = admittedAt
      /\ disturbed' = disturbed /\ wrong' = wrong /\ intruded' = intruded
  BY DEF Guard!Logout
<1> QED
  BY <1>1 DEF LoginInv, LoginTypes, AttemptsInv, TurnInv, WindowInv, LockInv, Inside, Fresh, NumberedOK,
              Guard!AdmittedIn

(* The clock ticks while nobody is inside.                                 *)
LEMMA LoginTickKeeps ==
  ASSUME LoginOK, LoginInv, Guard!Tick
  PROVE  LoginInv'
<1>1. LoginTypes /\ AttemptsInv /\ TurnInv /\ WindowInv /\ LockInv
  BY DEF LoginInv
<1>2. /\ now < MaxTime /\ now' = now + 1 /\ \A r \in Requests : login[r].pc = "outside"
      /\ store' = store /\ hits' = hits /\ list' = list /\ failures' = failures
      /\ lock' = lock /\ login' = login /\ logins' = logins /\ admittedAt' = admittedAt
      /\ disturbed' = disturbed /\ wrong' = wrong /\ intruded' = intruded
  BY DEF Guard!Tick, Guard!In
<1>3. LoginTypes'
  BY <1>1, <1>2 DEF LoginTypes, Inside, LoginOK
<1>4. AttemptsInv'
  BY <1>1, <1>2 DEF AttemptsInv, Inside
<1>5. TurnInv'
  BY <1>1, <1>2 DEF TurnInv, Inside
<1>6. WindowInv'
  <2>1. Fresh' \subseteq Fresh
    BY <1>1, <1>2 DEF Fresh, LoginTypes, HitRecord, LoginOK
  <2>2. \A h \in admittedAt' \union hits' : h.at <= now'
    BY <1>1, <1>2 DEF WindowInv, LoginTypes, HitRecord
  <2>3. ASSUME store' = "redis" \/ ~disturbed'
        PROVE  /\ Fresh' \subseteq hits' /\ Cardinality(Fresh') <= MaxHits
               /\ \A t \in 1..now' : Guard!AdmittedIn(t)' <= MaxHits
    <3>1. Fresh \subseteq hits /\ Cardinality(Fresh) <= MaxHits
          /\ \A t \in 1..now : Guard!AdmittedIn(t) <= MaxHits
      BY <1>1, <1>2, <2>3 DEF WindowInv
    <3>2. IsFiniteSet(Fresh)
      BY <1>1, FS_Subset DEF Fresh, LoginTypes
    <3>3. Cardinality(Fresh') <= MaxHits
      BY <2>1, <3>1, <3>2, FS_Subset, FS_CardinalityType DEF LoginOK
    <3>4. Guard!AdmittedIn(now + 1) <= MaxHits
      <4>1. {h \in admittedAt : h.at <= now + 1 /\ h.at + Window > now + 1} = Fresh'
        BY <1>1, <1>2 DEF Fresh, WindowInv, LoginTypes, HitRecord
      <4> QED
        BY <3>3, <4>1, GuardCardinality DEF Guard!AdmittedIn
    <3>5. \A t : Guard!AdmittedIn(t)' = Guard!AdmittedIn(t)
      BY <1>2 DEF Guard!AdmittedIn
    <3>6. \A t \in 1..now' : t \in 1..now \/ t = now + 1
      BY <1>1, <1>2 DEF LoginTypes
    <3> QED
      BY <1>2, <2>1, <3>1, <3>3, <3>4, <3>5, <3>6
  <2> QED
    BY <2>2, <2>3 DEF WindowInv
<1>7. LockInv'
  BY <1>1, <1>2, LockSame
<1> QED
  BY <1>3, <1>4, <1>5, <1>6, <1>7 DEF LoginInv

(* A request refused, or failed before it wrote anything, only leaves.     *)
LEMMA LeavesUnheard ==
  ASSUME LoginOK, LoginInv, NEW r \in Inside, Guard!Out(r),
         store' = store, hits' = hits, list' = list, now' = now, failures' = failures,
         lock' = lock, logins' = logins, admittedAt' = admittedAt, wrong' = wrong,
         intruded' = intruded, disturbed' \in BOOLEAN, disturbed => disturbed'
  PROVE  LoginInv'
<1>1. LoginTypes /\ AttemptsInv /\ TurnInv /\ WindowInv /\ LockInv /\ r \in Requests
  BY DEF LoginInv, Inside
<1>2. /\ login' \in [Requests -> LoginRequest] /\ login'[r].pc = "outside"
      /\ \A x \in Requests \ {r} : login'[x] = login[x]
      /\ Inside' = Inside \ {r}
      /\ Cardinality(Inside) \in Nat /\ Cardinality(Inside') = Cardinality(Inside) - 1
      /\ Cardinality(Inside') \in Nat
  <2>1. IsFiniteSet(Inside')
    <3>1. Inside' \subseteq Requests
      BY DEF Inside
    <3> QED
      BY <3>1, FS_Subset DEF LoginOK
  <2> QED
    BY <1>1, <2>1, RequestOut, FS_CardinalityType
<1>3. LoginTypes'
  <2>1. \A x \in Inside' : NumberedOK(login[x])'
    BY <1>1, <1>2, NumbersKept
  <2> QED
    BY <1>1, <1>2, <2>1 DEF LoginTypes
<1>4. AttemptsInv'
  <2>1. Cardinality(Inside') <= Cardinality(Inside)
    BY <1>2
  <2> QED
    BY <1>1, <1>2, <2>1, AttemptsKept
<1>5. TurnInv'
  BY <1>1, <1>2 DEF TurnInv
<1>6. WindowInv' /\ LockInv'
  BY <1>1, WindowSame, LockSame
<1> QED
  BY <1>3, <1>4, <1>5, <1>6 DEF LoginInv

(* What the limiter does to the hits leaves the account as it is.          *)
LEMMA LimiterKeeps ==
  ASSUME LoginOK, LoginInv, NEW r \in Inside, NEW new \in LoginRequest,
         login' = [login EXCEPT ![r] = new], new.pc \in {"append", "find", "outside"},
         new.pc # "outside" => new.nr = login[r].nr,
         store' = store, now' = now, failures' = failures, lock' = lock, logins' = logins,
         disturbed' = disturbed, wrong' = wrong, intruded' = intruded,
         hits' \subseteq HitRecord, IsFiniteSet(hits'),
         admittedAt' \subseteq HitRecord, IsFiniteSet(admittedAt'), list' \in Nat,
         WindowInv',
         new.pc = "append" => store = "memory",
         ~disturbed /\ new.pc = "append" => new.list = list' /\ \A h \in hits' : h.at + Window > now
  PROVE  LoginInv'
<1>1. LoginTypes /\ AttemptsInv /\ TurnInv /\ LockInv /\ r \in Requests
  BY DEF LoginInv, Inside
<1>2. /\ login' \in [Requests -> LoginRequest] /\ login'[r] = new
      /\ \A x \in Requests \ {r} : login'[x] = login[x]
      /\ Inside' = IF new.pc = "outside" THEN Inside \ {r} ELSE Inside \union {r}
      /\ Cardinality(Inside) \in Nat /\ Cardinality(Inside') \in Nat
      /\ Cardinality(Inside \ {r}) = Cardinality(Inside) - 1
  BY <1>1, LoginMoves
<1>3. Inside' = IF new.pc = "outside" THEN Inside \ {r} ELSE Inside
  BY <1>2
<1>4. LoginTypes'
  <2>1. \A x \in Inside' : NumberedOK(login[x])'
    <3>1. login[r].nr \in 1..MaxLogins
      BY <1>1 DEF LoginTypes, NumberedOK
    <3> QED
      BY <1>1, <1>2, <3>1, NumbersKept
  <2> QED
    BY <1>1, <1>2, <2>1 DEF LoginTypes
<1>5. AttemptsInv'
  <2>1. Cardinality(Inside') <= Cardinality(Inside)
    <3>1. CASE new.pc = "outside"
      BY <1>2, <1>3, <3>1
    <3>2. CASE new.pc # "outside"
      <4>1. Inside' = Inside
        BY <1>3, <3>2
      <4>2. Cardinality(Inside') = Cardinality(Inside)
        BY <4>1
      <4> QED
        BY <1>2, <4>2
    <3> QED
      BY <3>1, <3>2
  <2>2. new.pc # "verify"
    OBVIOUS
  <2> QED
    BY <1>1, <1>2, <2>1, <2>2, AttemptsKept
<1>6. TurnInv'
  <2> SUFFICES ASSUME ~disturbed'
               PROVE  TurnInv'
    BY DEF TurnInv
  <2>1. \A x \in Requests \ {r} : login[x].pc = "outside"
    BY <1>1, AloneInside
  <2>2. \A x \in Requests \ {r} : login'[x].pc = "outside"
    BY <1>2, <2>1
  <2>3. \A x, y \in Inside' : x = y
    BY <2>2 DEF Inside
  <2> QED
    BY <1>2, <2>2, <2>3 DEF TurnInv
<1>7. LockInv'
  BY <1>1, LockSame
<1> QED
  BY <1>4, <1>5, <1>6, <1>7 DEF LoginInv

LEMMA EvictKeeps ==
  ASSUME LoginOK, LoginInv, NEW r \in Requests, Guard!Evict(r)
  PROVE  LoginInv'
<1>1. LoginTypes /\ WindowInv
  BY DEF LoginInv
<1>2. /\ login[r].pc = "evict" /\ store = "memory"
      /\ hits' = {h \in hits : h.at + Window > now} /\ list' = list + 1
      /\ store' = store /\ now' = now /\ failures' = failures /\ lock' = lock /\ logins' = logins
      /\ admittedAt' = admittedAt /\ disturbed' = disturbed /\ wrong' = wrong
      /\ intruded' = intruded
  BY DEF Guard!Evict, Guard!Recent
<1>3. IsFiniteSet(hits') /\ hits' \subseteq hits /\ Cardinality(hits') \in Nat
  BY <1>1, <1>2, FS_Subset, FS_CardinalityType DEF LoginTypes
<1>4. PICK q \in LoginRequest : q = login[r]
  BY <1>1 DEF LoginTypes
<1>5. PICK new : new = [q EXCEPT !.pc = "append", !.list = list + 1, !.seen = Cardinality(hits')]
  OBVIOUS
<1>6. new \in LoginRequest /\ new.pc = "append" /\ new.nr = q.nr /\ new.list = list + 1
  <2>1. list + 1 \in Nat
    BY <1>1 DEF LoginTypes
  <2> QED
    BY <1>3, <1>5, <2>1 DEF LoginRequest
<1>7. login' = [login EXCEPT ![r] = new]
  <2>1. Guard!Cardinality(Guard!Recent(hits)) = Cardinality(hits')
    BY <1>2, GuardCardinality DEF Guard!Recent
  <2> QED
    BY <1>4, <1>5, <2>1 DEF Guard!Evict
<1>8. WindowInv'
  <2>1. Fresh' = Fresh /\ \A h \in Fresh : h \in hits => h \in hits'
    BY <1>2 DEF Fresh
  <2>2. \A t : Guard!AdmittedIn(t)' = Guard!AdmittedIn(t)
    BY <1>2 DEF Guard!AdmittedIn
  <2>3. \A h \in admittedAt' \union hits' : h.at <= now'
    BY <1>1, <1>2, <1>3 DEF WindowInv
  <2>4. ASSUME store' = "redis" \/ ~disturbed'
        PROVE  /\ Fresh' \subseteq hits' /\ Cardinality(Fresh') <= MaxHits
               /\ \A t \in 1..now' : Guard!AdmittedIn(t)' <= MaxHits
    <3>1. /\ Fresh \subseteq hits /\ Cardinality(Fresh) <= MaxHits
          /\ \A t \in 1..now : Guard!AdmittedIn(t) <= MaxHits
      BY <1>1, <1>2, <2>4 DEF WindowInv
    <3> QED
      BY <1>2, <2>1, <2>2, <3>1
  <2> QED
    BY <2>3, <2>4 DEF WindowInv
<1>9. r \in Inside
  BY <1>2 DEF Inside
<1>10. list' \in Nat /\ hits' \subseteq HitRecord
  BY <1>1, <1>2 DEF LoginTypes
<1>11. admittedAt' \subseteq HitRecord /\ IsFiniteSet(admittedAt')
  BY <1>1, <1>2 DEF LoginTypes
<1>12. \A h \in hits' : h.at + Window > now
  BY <1>2
<1> QED
  BY <1>2, <1>3, <1>4, <1>6, <1>7, <1>8, <1>9, <1>10, <1>11, <1>12, LimiterKeeps

(* One admission more, if the hits in the window were fewer than allowed.  *)
LEMMA Admission ==
  ASSUME LoginOK, LoginTypes, WindowInv, NEW hit \in HitRecord, hit.at = now,
         admittedAt' = admittedAt \union {hit}, now' = now, store' = store,
         disturbed' = disturbed, hits' \subseteq hits \union {hit},
         (store = "redis" \/ ~disturbed) =>
            /\ Cardinality({h \in hits : h.at + Window > now}) < MaxHits
            /\ {h \in hits : h.at + Window > now} \union {hit} \subseteq hits'
  PROVE  WindowInv'
<1>1. now \in Nat /\ now \in 1..MaxTime
  BY DEF LoginTypes
<1>2. \A h \in admittedAt' \union hits' : h.at <= now'
  BY <1>1 DEF WindowInv
<1> SUFFICES ASSUME store = "redis" \/ ~disturbed
             PROVE  /\ Fresh' \subseteq hits' /\ Cardinality(Fresh') <= MaxHits
                    /\ \A t \in 1..now : Guard!AdmittedIn(t)' <= MaxHits
  BY <1>2 DEF WindowInv
<1> DEFINE recent == {h \in hits : h.at + Window > now}
<1>3. Fresh' = Fresh \union {hit}
  BY <1>1 DEF Fresh, LoginOK
<1>4. Fresh \subseteq recent
  BY DEF WindowInv, Fresh
<1>5. IsFiniteSet(recent) /\ IsFiniteSet(Fresh)
  BY FS_Subset DEF LoginTypes, Fresh
<1>6. Cardinality(Fresh) <= Cardinality(recent)
  <2> HIDE DEF recent
  <2> QED
    BY <1>4, <1>5, FS_Subset
<1>7. Cardinality(Fresh') <= MaxHits
  <2>1. Cardinality(Fresh') <= Cardinality(Fresh) + 1
    <3>1. PICK n \in Nat : n = Cardinality(Fresh)
      BY <1>5, FS_CardinalityType
    <3>2. Cardinality(Fresh \union {hit}) = IF hit \in Fresh THEN n ELSE n + 1
      BY <1>5, <3>1, FS_AddElement
    <3> QED
      BY <1>3, <3>1, <3>2
  <2>2. Cardinality(recent) < MaxHits
    OBVIOUS
  <2>3. Cardinality(Fresh) \in Nat /\ Cardinality(recent) \in Nat /\ Cardinality(Fresh') \in Nat
    BY <1>3, <1>5, FS_CardinalityType, FS_AddElement
  <2> HIDE DEF recent
  <2> QED
    BY <1>6, <2>1, <2>2, <2>3 DEF LoginOK
<1>8. ASSUME NEW t \in 1..now
      PROVE  Guard!AdmittedIn(t)' <= MaxHits
  <2>1. Guard!AdmittedIn(t)' = Cardinality({h \in admittedAt' : h.at <= t /\ h.at + Window > t})
    BY GuardCardinality DEF Guard!AdmittedIn
  <2>2. CASE t = now
    <3>1. {h \in admittedAt' : h.at <= t /\ h.at + Window > t} = Fresh'
      BY <1>2, <2>2 DEF Fresh
    <3> QED
      BY <1>7, <2>1, <3>1
  <2>3. CASE t # now
    <3>1. ~(hit.at <= t)
      BY <1>1, <2>3
    <3>2. {h \in admittedAt' : h.at <= t /\ h.at + Window > t}
            = {h \in admittedAt : h.at <= t /\ h.at + Window > t}
      BY <3>1
    <3>3. Guard!AdmittedIn(t) <= MaxHits
      BY DEF WindowInv
    <3> QED
      BY <2>1, <3>2, <3>3, GuardCardinality DEF Guard!AdmittedIn
  <2> QED
    BY <2>2, <2>3
<1>9. Fresh' \subseteq hits'
  BY <1>3, <1>4
<1> QED
  BY <1>7, <1>8, <1>9

LEMMA CountInListKeeps ==
  ASSUME LoginOK, LoginInv, NEW r \in Requests, Guard!CountInList(r)
  PROVE  LoginInv'
<1> DEFINE count == IF login[r].list = list THEN Guard!Cardinality(hits) ELSE login[r].seen
           hit == [nr |-> login[r].nr, at |-> now]
<1>1. LoginTypes /\ TurnInv /\ WindowInv
  BY DEF LoginInv
<1>2. /\ login[r].pc = "append"
      /\ store' = store /\ list' = list /\ now' = now /\ failures' = failures /\ lock' = lock
      /\ logins' = logins /\ disturbed' = disturbed /\ wrong' = wrong /\ intruded' = intruded
  BY DEF Guard!CountInList
<1>3. r \in Inside
  BY <1>2 DEF Inside
<1>4. CASE count >= MaxHits
  <2>1. Guard!Out(r) /\ hits' = hits /\ admittedAt' = admittedAt
    BY <1>4 DEF Guard!CountInList
  <2>2. disturbed' \in BOOLEAN
    BY <1>1, <1>2 DEF LoginTypes
  <2> QED
    BY <1>2, <1>3, <2>1, <2>2, LeavesUnheard
<1>5. CASE ~(count >= MaxHits)
  <2>1. /\ hits' = IF login[r].list = list THEN hits \union {hit} ELSE hits
        /\ admittedAt' = admittedAt \union {hit} /\ Guard!Go(r, "find")
    BY <1>5 DEF Guard!CountInList, Guard!Hit
  <2>2. hit \in HitRecord /\ hit.at = now
    BY <1>1, <1>3 DEF LoginTypes, HitRecord, NumberedOK
  <2>3. ASSUME store = "redis" \/ ~disturbed
        PROVE  /\ Cardinality({h \in hits : h.at + Window > now}) < MaxHits
               /\ {h \in hits : h.at + Window > now} \union {hit} \subseteq hits'
    <3>1. ~disturbed
      BY <1>1, <1>2, <1>3, <2>3 DEF LoginTypes, NumberedOK
    <3>2. login[r].list = list /\ \A h \in hits : h.at + Window > now
      BY <1>1, <1>2, <3>1 DEF TurnInv
    <3>3. {h \in hits : h.at + Window > now} = hits
      BY <3>2
    <3>4. Cardinality(hits) \in Nat
      BY <1>1, FS_CardinalityType DEF LoginTypes
    <3>5. Cardinality(hits) < MaxHits
      BY <1>5, <3>2, <3>4, GuardCardinality DEF LoginOK
    <3> HIDE DEF hit
    <3> QED
      BY <2>1, <3>2, <3>3, <3>5
  <2> HIDE DEF hit
  <2>4. WindowInv'
    <3>1. hits' \subseteq hits \union {hit}
      BY <2>1
    <3> QED
      BY <1>1, <1>2, <2>1, <2>2, <2>3, <3>1, Admission
  <2>5. /\ hits' \subseteq HitRecord /\ IsFiniteSet(hits')
        /\ admittedAt' \subseteq HitRecord /\ IsFiniteSet(admittedAt')
    BY <1>1, <2>1, <2>2, FS_AddElement DEF LoginTypes
  <2>6. PICK q \in LoginRequest : q = login[r]
    BY <1>1 DEF LoginTypes
  <2>7. PICK new : new = [q EXCEPT !.pc = "find"]
    OBVIOUS
  <2>8. new \in LoginRequest /\ new.pc = "find" /\ new.nr = q.nr
    BY <2>7 DEF LoginRequest
  <2>9. login' = [login EXCEPT ![r] = new]
    BY <2>1, <2>6, <2>7 DEF Guard!Go
  <2>10. list' \in Nat
    BY <1>1, <1>2 DEF LoginTypes
  <2> QED
    BY <1>2, <1>3, <2>4, <2>5, <2>6, <2>8, <2>9, <2>10, LimiterKeeps
<1> QED
  BY <1>4, <1>5

LEMMA CountInRedisKeeps ==
  ASSUME LoginOK, LoginInv, NEW r \in Requests, Guard!CountInRedis(r)
  PROVE  LoginInv'
<1> DEFINE hit == [nr |-> login[r].nr, at |-> now]
           recent == {h \in hits : h.at + Window > now}
<1>1. LoginTypes /\ TurnInv /\ WindowInv
  BY DEF LoginInv
<1>2. /\ login[r].pc = "evict" /\ hits' = recent \union {hit}
      /\ store' = store /\ list' = list /\ now' = now /\ failures' = failures /\ lock' = lock
      /\ logins' = logins /\ disturbed' = disturbed /\ wrong' = wrong /\ intruded' = intruded
  BY DEF Guard!CountInRedis, Guard!Recent, Guard!Hit
<1>3. r \in Inside
  BY <1>2 DEF Inside
<1>4. hit \in HitRecord /\ hit.at = now
  BY <1>1, <1>3 DEF LoginTypes, HitRecord, NumberedOK
<1>5. hits' \subseteq HitRecord /\ IsFiniteSet(hits') /\ IsFiniteSet(recent)
  <2>1. recent \subseteq hits
    OBVIOUS
  <2> HIDE DEF recent, hit
  <2> QED
    BY <1>1, <1>2, <1>4, <2>1, FS_AddElement, FS_Subset DEF LoginTypes
<1>6. list' \in Nat
  BY <1>1, <1>2 DEF LoginTypes
<1>7. CASE Guard!Cardinality(Guard!Recent(hits)) >= MaxHits
  <2>1. login' = [login EXCEPT ![r] = Guard!Outside] /\ admittedAt' = admittedAt
    BY <1>7 DEF Guard!CountInRedis, Guard!Out
  <2>2. Guard!Outside \in LoginRequest /\ Guard!Outside.pc = "outside"
    BY DEF Guard!Outside, LoginRequest
  <2>3. admittedAt' \subseteq HitRecord /\ IsFiniteSet(admittedAt')
    BY <1>1, <2>1 DEF LoginTypes
  <2>4. WindowInv'
    <3>1. Fresh' = Fresh /\ \A t : Guard!AdmittedIn(t)' = Guard!AdmittedIn(t)
      BY <1>2, <2>1 DEF Fresh, Guard!AdmittedIn
    <3>2. \A h \in admittedAt' \union hits' : h.at <= now'
      <4>1. now <= now
        BY <1>1 DEF LoginTypes
      <4> HIDE DEF hit
      <4> QED
        BY <1>1, <1>2, <1>4, <2>1, <4>1 DEF WindowInv
    <3>3. ASSUME store' = "redis" \/ ~disturbed'
          PROVE  /\ Fresh' \subseteq hits' /\ Cardinality(Fresh') <= MaxHits
                 /\ \A t \in 1..now' : Guard!AdmittedIn(t)' <= MaxHits
      <4>1. /\ Fresh \subseteq hits /\ Cardinality(Fresh) <= MaxHits
            /\ \A t \in 1..now : Guard!AdmittedIn(t) <= MaxHits
        BY <1>1, <1>2, <3>3 DEF WindowInv
      <4>2. Fresh \subseteq recent
        BY <4>1 DEF Fresh
      <4> HIDE DEF recent
      <4> QED
        BY <1>2, <3>1, <4>1, <4>2
    <3> QED
      BY <3>2, <3>3 DEF WindowInv
  <2> HIDE DEF recent, hit
  <2> QED
    BY <1>2, <1>3, <1>5, <1>6, <2>1, <2>2, <2>3, <2>4, LimiterKeeps
<1>8. CASE ~(Guard!Cardinality(Guard!Recent(hits)) >= MaxHits)
  <2>1. admittedAt' = admittedAt \union {hit} /\ Guard!Go(r, "find")
    BY <1>8 DEF Guard!CountInRedis, Guard!Hit
  <2>2. Cardinality(recent) < MaxHits
    <3>1. Guard!Recent(hits) = recent
      BY DEF Guard!Recent
    <3>2. Cardinality(recent) \in Nat
      BY <1>5, FS_CardinalityType
    <3> HIDE DEF recent
    <3> QED
      BY <1>8, <3>1, <3>2, GuardCardinality DEF LoginOK
  <2>3. WindowInv'
    <3>1. hits' \subseteq hits \union {hit} /\ recent \union {hit} \subseteq hits'
      BY <1>2
    <3> HIDE DEF hit
    <3> QED
      BY <1>1, <1>2, <1>4, <2>1, <2>2, <3>1, Admission
  <2> HIDE DEF recent, hit
  <2>4. admittedAt' \subseteq HitRecord /\ IsFiniteSet(admittedAt')
    BY <1>1, <1>4, <2>1, FS_AddElement DEF LoginTypes
  <2>5. PICK q \in LoginRequest : q = login[r]
    BY <1>1 DEF LoginTypes
  <2>6. PICK new : new = [q EXCEPT !.pc = "find"]
    OBVIOUS
  <2>7. new \in LoginRequest /\ new.pc = "find" /\ new.nr = q.nr
    BY <2>6 DEF LoginRequest
  <2>8. login' = [login EXCEPT ![r] = new]
    BY <2>1, <2>5, <2>6 DEF Guard!Go
  <2> QED
    BY <1>2, <1>3, <1>5, <1>6, <2>3, <2>4, <2>5, <2>7, <2>8, LimiterKeeps
<1> QED
  BY <1>7, <1>8

LEMMA FindKeeps ==
  ASSUME LoginOK, LoginInv, NEW r \in Requests, Guard!Find(r)
  PROVE  LoginInv'
<1>1. LoginTypes /\ AttemptsInv /\ TurnInv /\ WindowInv /\ LockInv
  BY DEF LoginInv
<1>2. /\ login[r].pc = "find" /\ r \in Inside
      /\ store' = store /\ hits' = hits /\ list' = list /\ now' = now /\ failures' = failures
      /\ lock' = lock /\ logins' = logins /\ admittedAt' = admittedAt
      /\ disturbed' = disturbed /\ wrong' = wrong /\ intruded' = intruded
  BY DEF Guard!Find, Inside
<1>3. CASE lock > now
  <2>1. Guard!Out(r)
    BY <1>3 DEF Guard!Find
  <2>2. disturbed' \in BOOLEAN
    BY <1>1, <1>2 DEF LoginTypes
  <2> QED
    BY <1>2, <2>1, <2>2, LeavesUnheard
<1>4. CASE ~(lock > now)
  <2>1. PICK q \in LoginRequest : q = login[r]
    BY <1>1 DEF LoginTypes
  <2>2. PICK expired \in BOOLEAN : expired = (lock # 0)
    OBVIOUS
  <2>3. PICK new : new = [q EXCEPT !.pc = "verify", !.seen = failures, !.expired = expired]
    OBVIOUS
  <2>4. /\ new \in LoginRequest /\ new.pc = "verify" /\ new.nr = q.nr /\ new.seen = failures
        /\ new.expired = expired
    <3>1. failures \in Nat
      BY <1>1 DEF LoginTypes
    <3> QED
      BY <2>2, <2>3, <3>1 DEF LoginRequest
  <2>5. login' = [login EXCEPT ![r] = new]
    BY <1>4, <2>1, <2>2, <2>3 DEF Guard!Find
  <2>6. /\ login' \in [Requests -> LoginRequest] /\ login'[r] = new
        /\ \A x \in Requests \ {r} : login'[x] = login[x]
        /\ Inside' = Inside \union {r}
        /\ Cardinality(Inside) \in Nat
    BY <1>1, <2>4, <2>5, LoginMoves
  <2>7. Inside' = Inside /\ Cardinality(Inside') = Cardinality(Inside)
    BY <1>2, <2>6
  <2>8. LoginTypes'
    <3>1. login'[r].nr \in 1..MaxLogins
      BY <1>1, <1>2, <2>1, <2>4, <2>6 DEF LoginTypes, NumberedOK
    <3>2. \A x \in Inside' : NumberedOK(login[x])'
      BY <1>1, <1>2, <2>4, <2>6, <3>1, NumbersKept
    <3> QED
      BY <1>1, <1>2, <2>6, <3>2 DEF LoginTypes
  <2>9. AttemptsInv'
    <3>1. Cardinality(Inside') \in Nat /\ Cardinality(Inside') <= Cardinality(Inside)
      BY <2>6, <2>7
    <3> QED
      BY <1>1, <1>2, <2>4, <2>6, <3>1, AttemptsKept
  <2>10. TurnInv'
    <3> SUFFICES ASSUME ~disturbed'
                 PROVE  TurnInv'
      BY DEF TurnInv
    <3>1. \A x \in Requests \ {r} : login'[x].pc = "outside"
      BY <1>1, <1>2, <2>6, AloneInside
    <3>2. \A x, y \in Inside' : x = y
      BY <3>1 DEF Inside
    <3>3. lock <= now
      BY <1>1, <1>4 DEF LoginTypes
    <3> QED
      BY <1>2, <2>2, <2>4, <2>6, <3>1, <3>2, <3>3 DEF TurnInv
  <2>11. WindowInv' /\ LockInv'
    BY <1>1, <1>2, WindowSame, LockSame
  <2> QED
    BY <2>8, <2>9, <2>10, <2>11 DEF LoginInv
<1> QED
  BY <1>3, <1>4

LEMMA WrongPasswordKeeps ==
  ASSUME LoginOK, LoginInv, NEW r \in Requests, Guard!WrongPassword(r)
  PROVE  LoginInv'
<1>1. LoginTypes /\ AttemptsInv /\ TurnInv /\ WindowInv /\ LockInv
  BY DEF LoginInv
<1>2. /\ login[r].pc = "verify" /\ r \in Inside /\ Guard!Out(r)
      /\ failures' = login[r].seen + 1 /\ wrong' = wrong + 1
      /\ lock' = IF login[r].seen + 1 >= MaxFailed THEN now + Lockout
                 ELSE IF login[r].expired THEN 0 ELSE lock
      /\ store' = store /\ hits' = hits /\ list' = list /\ now' = now
      /\ logins' = logins /\ admittedAt' = admittedAt
      /\ disturbed' = disturbed /\ intruded' = intruded
  BY DEF Guard!WrongPassword, Inside
<1>3. /\ login' \in [Requests -> LoginRequest] /\ login'[r].pc = "outside"
      /\ \A x \in Requests \ {r} : login'[x] = login[x]
      /\ Inside' = Inside \ {r}
      /\ Cardinality(Inside) \in Nat /\ Cardinality(Inside') = Cardinality(Inside) - 1
  BY <1>1, <1>2, RequestOut
<1>4. login[r].seen \in Nat /\ login[r].expired \in BOOLEAN
  BY <1>1 DEF LoginTypes, LoginRequest
<1>5. LoginTypes'
  <2>1. \A x \in Inside' : NumberedOK(login[x])'
    BY <1>1, <1>2, <1>3, NumbersKept
  <2>2. lock' \in 0..(MaxTime + Lockout)
    <3>1. now + Lockout \in 0..(MaxTime + Lockout) /\ 0 \in 0..(MaxTime + Lockout)
      BY <1>1 DEF LoginTypes, LoginOK
    <3> QED
      BY <1>1, <1>2, <3>1 DEF LoginTypes
  <2>3. failures' \in Nat /\ wrong' \in Nat
    BY <1>1, <1>2, <1>4 DEF LoginTypes
  <2> QED
    BY <1>1, <1>2, <1>3, <2>1, <2>2, <2>3 DEF LoginTypes
<1>6. AttemptsInv'
  <2>1. /\ \A a, i, b \in Nat : a + i <= b => (a + 1) + (i - 1) <= b
        /\ \A a, i, b \in Nat : a + i <= b => a + (i - 1) <= b
    OBVIOUS
  <2>2. logins \in Nat /\ \A x \in Requests : login[x].seen \in Nat
    BY <1>1 DEF LoginTypes, LoginRequest
  <2>3. failures' + (Cardinality(Inside) - 1) <= logins
    BY <1>1, <1>2, <1>3, <2>1, <2>2 DEF AttemptsInv
  <2>4. ASSUME NEW x \in Requests, login'[x].pc = "verify"
        PROVE  login'[x].seen + (Cardinality(Inside) - 1) <= logins
    <3>1. x # r /\ login'[x] = login[x]
      BY <1>3, <2>4
    <3> QED
      BY <1>1, <1>3, <2>1, <2>2, <2>4, <3>1 DEF AttemptsInv
  <2> QED
    BY <1>2, <1>3, <2>3, <2>4 DEF AttemptsInv
<1>7. TurnInv' /\ LockInv'
  <2>1. CASE disturbed
    BY <1>2, <2>1 DEF TurnInv, LockInv
  <2>2. CASE ~disturbed
    <3>1. \A x \in Requests : login'[x].pc = "outside"
      BY <1>1, <1>2, <1>3, <2>2, AloneInside
    <3>2. TurnInv'
      BY <3>1 DEF TurnInv, Inside
    <3>3. login[r].seen = failures /\ failures = wrong /\ ~intruded
      BY <1>1, <1>2, <2>2 DEF TurnInv, LockInv
    <3>4. failures' = wrong' /\ (failures' >= MaxFailed => lock' # 0)
      <4>1. now + Lockout # 0
        BY <1>1 DEF LoginTypes, LoginOK
      <4> QED
        BY <1>2, <3>3, <4>1
    <3> QED
      BY <1>2, <3>2, <3>3, <3>4 DEF LockInv
  <2> QED
    BY <2>1, <2>2
<1>8. WindowInv'
  BY <1>1, <1>2, WindowSame
<1> QED
  BY <1>5, <1>6, <1>7, <1>8 DEF LoginInv

(* A right password, written or not, leads to a session.                   *)
LEMMA RightPasswordKeeps ==
  ASSUME LoginOK, LoginInv, NEW r \in Requests,
         login[r].pc = "verify", Guard!Go(r, "session"),
         \/ Guard!RightPassword(r)
         \/ Guard!Unwritten(r) /\ login[r].good
  PROVE  LoginInv'
<1>1. LoginTypes /\ AttemptsInv /\ TurnInv /\ WindowInv /\ LockInv
  BY DEF LoginInv
<1>2. /\ store' = store /\ hits' = hits /\ list' = list /\ now' = now
      /\ logins' = logins /\ admittedAt' = admittedAt /\ wrong' = 0
  BY DEF Guard!RightPassword, Guard!Unwritten
<1>3. /\ failures' \in {0, failures} /\ lock' \in {0, lock}
      /\ disturbed' \in BOOLEAN /\ intruded' \in BOOLEAN /\ (disturbed => disturbed')
  <2>1. disturbed \in BOOLEAN /\ intruded \in BOOLEAN
    BY <1>1 DEF LoginTypes
  <2> QED
    BY <2>1 DEF Guard!RightPassword, Guard!Unwritten
<1>4. r \in Inside
  BY DEF Inside
<1>5. /\ login' \in [Requests -> LoginRequest]
      /\ login'[r].pc = "session" /\ login'[r].nr = login[r].nr
      /\ \A x \in Requests \ {r} : login'[x] = login[x]
      /\ Inside' = Inside
  BY <1>1, <1>4, RequestGoes
<1>6. LoginTypes'
  <2>1. login'[r].nr \in 1..MaxLogins
    BY <1>1, <1>4, <1>5 DEF LoginTypes, NumberedOK
  <2>2. \A x \in Inside' : NumberedOK(login[x])'
    BY <1>1, <1>2, <1>5, <2>1, NumbersKept
  <2>3. failures' \in Nat /\ lock' \in 0..(MaxTime + Lockout)
    BY <1>1, <1>3 DEF LoginTypes, LoginOK
  <2> QED
    BY <1>1, <1>2, <1>3, <1>5, <2>2, <2>3 DEF LoginTypes
<1>7. AttemptsInv'
  <2>1. PICK n \in Nat : n = Cardinality(Inside)
    <3>1. Inside \subseteq Requests
      BY DEF Inside
    <3> QED
      BY <3>1, FS_Subset, FS_CardinalityType DEF LoginOK
  <2>2. Cardinality(Inside') = n
    BY <1>5, <2>1
  <2>3. failures + n <= logins /\ failures \in Nat /\ logins \in Nat
    BY <1>1, <2>1 DEF AttemptsInv, LoginTypes
  <2>4. failures' + n <= logins
    <3>1. failures' = 0 \/ failures' = failures
      BY <1>3
    <3>2. \A a, b \in Nat : a + n <= b => 0 + n <= b
      OBVIOUS
    <3> QED
      BY <2>3, <3>1, <3>2
  <2>5. \A x \in Requests : login'[x].pc = "verify" => login'[x].seen + n <= logins
    BY <1>1, <1>5, <2>1 DEF AttemptsInv
  <2> QED
    BY <1>2, <2>2, <2>4, <2>5 DEF AttemptsInv
<1>8. TurnInv' /\ LockInv'
  <2>1. CASE disturbed'
    BY <2>1 DEF TurnInv, LockInv
  <2>2. CASE ~disturbed'
    <3>1. /\ ~disturbed /\ Guard!RightPassword(r)
      BY <1>3, <2>2 DEF Guard!Unwritten
    <3>2. \A x \in Requests \ {r} : login'[x].pc = "outside"
      BY <1>1, <1>4, <1>5, <3>1, AloneInside
    <3>3. TurnInv'
      <4>1. \A x, y \in Inside' : x = y
        BY <3>2 DEF Inside
      <4> QED
        BY <1>5, <3>2, <4>1 DEF TurnInv
    <3>4. login[r].seen = failures /\ lock <= now /\ ~intruded
      BY <1>1, <3>1 DEF TurnInv, LockInv
    <3>5. failures' = 0
      BY <3>1, <3>4 DEF Guard!RightPassword
    <3>6. ~intruded'
      BY <1>1, <3>1, <3>4 DEF Guard!RightPassword, LoginTypes
    <3> QED
      BY <1>2, <3>3, <3>5, <3>6 DEF LockInv, LoginOK
  <2> QED
    BY <2>1, <2>2
<1>9. WindowInv'
  BY <1>1, <1>2, <1>3, WindowSame
<1> QED
  BY <1>6, <1>7, <1>8, <1>9 DEF LoginInv

LEMMA QuietLeaves ==
  ASSUME LoginOK, LoginInv, NEW r \in Requests,
         \/ Guard!StoreFails(r) \/ Guard!OpenSession(r)
         \/ Guard!Unwritten(r) /\ ~login[r].good
  PROVE  LoginInv'
<1>1. r \in Inside /\ Guard!Out(r)
  BY DEF Guard!StoreFails, Guard!OpenSession, Guard!Unwritten, Inside
<1>2. disturbed' \in BOOLEAN /\ (disturbed => disturbed')
  <2>1. disturbed \in BOOLEAN
    BY DEF LoginInv, LoginTypes
  <2>2. disturbed' = disturbed \/ disturbed' = TRUE
    BY DEF Guard!StoreFails, Guard!OpenSession, Guard!Unwritten
  <2> QED
    BY <2>1, <2>2
<1>3. /\ store' = store /\ hits' = hits /\ list' = list /\ now' = now /\ failures' = failures
      /\ lock' = lock /\ logins' = logins /\ admittedAt' = admittedAt /\ wrong' = wrong
      /\ intruded' = intruded
  BY DEF Guard!StoreFails, Guard!OpenSession, Guard!Unwritten
<1> QED
  BY <1>1, <1>2, <1>3, LeavesUnheard

LEMMA NextLogin ==
  ASSUME LoginOK, LoginInv, [Guard!Next]_(Guard!vars)
  PROVE  LoginInv'
<1>1. CASE UNCHANGED Guard!vars
  BY <1>1 DEF Guard!vars, LoginInv, LoginTypes, AttemptsInv, TurnInv, WindowInv, LockInv, Inside,
              Fresh, NumberedOK, Guard!AdmittedIn
<1>2. ASSUME NEW r \in Requests, NEW good \in BOOLEAN, Guard!Arrive(r, good)
      PROVE  LoginInv'
  BY <1>2, LoginArriveKeeps
<1>3. ASSUME NEW r \in Requests, Guard!RightPassword(r)
      PROVE  LoginInv'
  <2>1. login[r].pc = "verify" /\ Guard!Go(r, "session")
    BY <1>3 DEF Guard!RightPassword
  <2> QED
    BY <1>3, <2>1, RightPasswordKeeps
<1>4. ASSUME NEW r \in Requests, Guard!Unwritten(r)
      PROVE  LoginInv'
  <2>1. CASE login[r].good
    <3>1. login[r].pc = "verify" /\ Guard!Go(r, "session")
      BY <1>4, <2>1 DEF Guard!Unwritten
    <3> QED
      BY <1>4, <2>1, <3>1, RightPasswordKeeps
  <2>2. CASE ~login[r].good
    BY <1>4, <2>2, QuietLeaves
  <2> QED
    BY <2>1, <2>2
<1>5. ASSUME NEW r \in Requests,
             \/ Guard!Evict(r) \/ Guard!CountInList(r) \/ Guard!CountInRedis(r)
             \/ Guard!StoreFails(r) \/ Guard!Find(r) \/ Guard!WrongPassword(r)
             \/ Guard!OpenSession(r)
      PROVE  LoginInv'
  BY <1>5, EvictKeeps, CountInListKeeps, CountInRedisKeeps, QuietLeaves, FindKeeps,
     WrongPasswordKeeps
<1>6. CASE Guard!Tick
  BY <1>6, LoginTickKeeps
<1>7. ASSUME NEW n, Guard!Logout(n)
      PROVE  LoginInv'
  BY <1>7, LogoutKeeps
<1> QED
  BY <1>1, <1>2, <1>3, <1>4, <1>5, <1>6, <1>7 DEF Guard!Next

LEMMA LoginInvSound ==
  ASSUME LoginOK, LoginInv
  PROVE  Guard!LoginSound
<1>1. LoginTypes /\ AttemptsInv /\ WindowInv /\ LockInv
  BY DEF LoginInv
<1>2. Guard!TypeOK
  <2>1. failures \in 0..MaxLogins
    <3>1. Inside \subseteq Requests
      BY DEF Inside
    <3>2. Cardinality(Inside) \in Nat
      BY <3>1, FS_Subset, FS_CardinalityType DEF LoginOK
    <3>3. \A f, i, n \in Nat : f + i <= n => f <= n
      OBVIOUS
    <3>4. failures \in Nat /\ logins \in Nat /\ logins <= MaxLogins
      BY <1>1 DEF LoginTypes, LoginOK
    <3>5. failures <= logins
      BY <1>1, <3>2, <3>3, <3>4 DEF AttemptsInv
    <3> QED
      BY <3>4, <3>5 DEF LoginOK
  <2>2. \A r \in Requests : login[r].pc \in {"outside", "evict", "append", "find", "verify", "session"}
    BY <1>1 DEF LoginTypes, LoginRequest
  <2> QED
    BY <1>1, <2>1, <2>2 DEF Guard!TypeOK, LoginTypes, HitRecord
<1>3. Guard!WithinPolicy
  <2> SUFFICES ASSUME store = "redis" \/ ~disturbed, NEW t \in 1..MaxTime
               PROVE  Guard!AdmittedIn(t) <= MaxHits
    BY DEF Guard!WithinPolicy
  <2>1. CASE t <= now
    BY <1>1, <2>1 DEF WindowInv, LoginTypes
  <2>2. CASE ~(t <= now)
    <3> DEFINE inWindow == {h \in admittedAt : h.at <= t /\ h.at + Window > t}
    <3>1. inWindow \subseteq Fresh
      BY <1>1, <2>2 DEF Fresh, LoginTypes, HitRecord, LoginOK
    <3>2. IsFiniteSet(Fresh) /\ Cardinality(Fresh) <= MaxHits
      BY <1>1, FS_Subset DEF Fresh, LoginTypes, WindowInv
    <3> HIDE DEF inWindow
    <3>3. Cardinality(inWindow) <= MaxHits
      BY <3>1, <3>2, FS_Subset, FS_CardinalityType DEF LoginOK
    <3> QED
      BY <3>3, GuardCardinality DEF Guard!AdmittedIn, inWindow
  <2> QED
    BY <2>1, <2>2
<1>4. Guard!LockoutHolds
  BY <1>1 DEF Guard!LockoutHolds, LockInv
<1> QED
  BY <1>2, <1>3, <1>4 DEF Guard!LoginSound

-----------------------------------------------------------------------------
(* The history of the intelligence, for any groups, capacity, interval and *)
(* number of concurrent flushes.                                           *)

HistoryItems ==
  [kind : {"snapshot"}, at : Int, n : Nat, life : Nat]
    \union [kind : {"group"}, group : Groups, signature : Signatures, n : Nat, life : Nat]
    \union [kind : {"behavior"}, n : Nat, life : Nat]

-----------------------------------------------------------------------------
(* Sequences and the sets of their elements.                               *)

LEMMA HistoryCardinality == \A S : History!Cardinality(S) = Cardinality(S)
BY DEF History!Cardinality, Cardinality

LEMMA AppendSet ==
  ASSUME NEW S, NEW s \in Seq(S), NEW e \in S
  PROVE  History!ToSet(Append(s, e)) = History!ToSet(s) \union {e} /\ Append(s, e) \in Seq(S)
         /\ Len(Append(s, e)) = Len(s) + 1
<1>1. /\ Append(s, e) \in Seq(S) /\ DOMAIN s = 1 .. Len(s) /\ Len(s) \in Nat
      /\ DOMAIN Append(s, e) = 1 .. Len(s) + 1
      /\ Len(Append(s, e)) = Len(s) + 1
      /\ Append(s, e)[Len(s) + 1] = e /\ \A i \in 1 .. Len(s) : Append(s, e)[i] = s[i]
  OBVIOUS
<1> QED
  BY <1>1 DEF History!ToSet

LEMMA TailSet ==
  ASSUME NEW S, NEW s \in Seq(S), s # <<>>
  PROVE  /\ History!ToSet(s) = History!ToSet(Tail(s)) \union {Head(s)} /\ Tail(s) \in Seq(S) /\ Head(s) \in S
         /\ Len(s) = Len(Tail(s)) + 1
<1>1. /\ Tail(s) \in Seq(S) /\ Head(s) \in S /\ Head(s) = s[1] /\ DOMAIN s = 1 .. Len(s)
      /\ Len(s) \in Nat /\ Len(s) > 0 /\ Len(Tail(s)) = Len(s) - 1
      /\ DOMAIN Tail(s) = 1 .. Len(s) - 1 /\ \A i \in 1 .. Len(s) - 1 : Tail(s)[i] = s[i + 1]
  OBVIOUS
<1>2. ASSUME NEW x \in History!ToSet(s)
      PROVE  x \in History!ToSet(Tail(s)) \union {Head(s)}
  <2>1. PICK i \in 1 .. Len(s) : x = s[i]
    BY <1>1 DEF History!ToSet
  <2>2. CASE i = 1
    BY <1>1, <2>1, <2>2
  <2>3. CASE i # 1
    <3>1. i - 1 \in 1 .. Len(s) - 1 /\ Tail(s)[i - 1] = s[i]
      BY <1>1, <2>3
    <3> QED
      BY <1>1, <2>1, <3>1 DEF History!ToSet
  <2> QED
    BY <2>2, <2>3
<1>3. History!ToSet(Tail(s)) \subseteq History!ToSet(s)
  <2>1. \A i \in 1 .. Len(s) - 1 : i + 1 \in 1 .. Len(s) /\ Tail(s)[i] = s[i + 1]
    BY <1>1
  <2> QED
    BY <1>1, <2>1 DEF History!ToSet
<1>4. Head(s) \in History!ToSet(s)
  BY <1>1 DEF History!ToSet
<1> QED
  BY <1>1, <1>2, <1>3, <1>4

LEMMA ConcatSet ==
  ASSUME NEW S, NEW s \in Seq(S), NEW t \in Seq(S)
  PROVE  History!ToSet(s \o t) = History!ToSet(s) \union History!ToSet(t) /\ s \o t \in Seq(S)
<1>1. /\ s \o t \in Seq(S) /\ DOMAIN s = 1 .. Len(s) /\ DOMAIN t = 1 .. Len(t)
      /\ Len(s) \in Nat /\ Len(t) \in Nat
      /\ DOMAIN (s \o t) = 1 .. Len(s) + Len(t)
      /\ \A i \in 1 .. Len(s) : (s \o t)[i] = s[i]
      /\ \A i \in 1 .. Len(t) : (s \o t)[Len(s) + i] = t[i]
  OBVIOUS
<1>2. ASSUME NEW x \in History!ToSet(s \o t)
      PROVE  x \in History!ToSet(s) \union History!ToSet(t)
  <2>1. PICK i \in 1 .. Len(s) + Len(t) : x = (s \o t)[i]
    BY <1>1 DEF History!ToSet
  <2>2. CASE i \in 1 .. Len(s)
    BY <1>1, <2>1, <2>2 DEF History!ToSet
  <2>3. CASE i \notin 1 .. Len(s)
    <3>1. PICK j \in 1 .. Len(t) : i = Len(s) + j
      <4>1. i - Len(s) \in 1 .. Len(t) /\ i = Len(s) + (i - Len(s))
        BY <1>1, <2>3
      <4> QED
        BY <4>1
    <3> QED
      BY <1>1, <2>1, <3>1 DEF History!ToSet
  <2> QED
    BY <2>2, <2>3
<1>3. History!ToSet(s) \subseteq History!ToSet(s \o t)
  <2>1. \A i \in 1 .. Len(s) : i \in 1 .. Len(s) + Len(t)
    BY <1>1
  <2> QED
    BY <1>1, <2>1 DEF History!ToSet
<1>4. History!ToSet(t) \subseteq History!ToSet(s \o t)
  <2>1. \A i \in 1 .. Len(t) : Len(s) + i \in 1 .. Len(s) + Len(t)
    BY <1>1
  <2> QED
    BY <1>1, <2>1 DEF History!ToSet
<1> QED
  BY <1>1, <1>2, <1>3, <1>4

-----------------------------------------------------------------------------
(* The inductive invariant.                                                *)

HeldBy(f) == History!ToSet(hands[f].items)
Archived == History!ToSet(archive)
Queued == History!ToSet(queue)

HistoryTypes ==
  /\ queue \in Seq(HistoryItems) /\ archive \in Seq(HistoryItems)
  /\ hands \in [Clients -> [items : Seq(HistoryItems), phase : {"rest", "take", "write"}]]
  /\ lastSnapshot \in Int /\ observed \in Int
  /\ signatures \in [Groups -> Signatures \union {"none"}]
  /\ counters \in [dropped : Nat, persisted : Nat]
  /\ offered \in Nat /\ refused \in Nat /\ accepted \in Nat /\ resets \in Nat

(* Numbers tell the items apart: those that left the queue came before     *)
(* those in it, no two flushes hold the same item, and none holds one      *)
(* twice.                                                                  *)
Increasing(s) == \A i, j \in 1 .. Len(s) : i < j => s[i].n < s[j].n
AllBefore(A, B) == \A x \in A, y \in B : x.n < y.n

NumbersInv ==
  /\ Increasing(queue)
  /\ \A x \in History!Known : x.n < offered
  /\ AllBefore(History!InHand \union Archived, Queued)
  /\ \A f, g \in Clients : f # g => HeldBy(f) \intersect HeldBy(g) = {}
  /\ \A f \in Clients : IsFiniteSet(HeldBy(f)) /\ Cardinality(HeldBy(f)) = Len(hands[f].items)
  /\ IsFiniteSet(History!InHand)

(* While flushes take turns, what is stored came before what is in hand.   *)
TurnsInv ==
  ~abreast => /\ Increasing(archive)
              /\ \A f \in Clients : Increasing(hands[f].items)
              /\ \A f, g \in Clients : f # g => HeldBy(f) = {} \/ HeldBy(g) = {}
              /\ AllBefore(Archived, History!InHand)

(* The throttle stands at the latest snapshot of the current life.         *)
ApartInv ==
  /\ \A k \in History!Known : k.life <= resets
  /\ \A k \in History!Known : k.kind = "snapshot" /\ k.life = resets => k.at <= lastSnapshot
  /\ History!SnapshotsApart

HistoryInv == HistoryTypes /\ NumbersInv /\ TurnsInv /\ ApartInv /\ History!RecordsCounted /\ History!GroupsKnown

-----------------------------------------------------------------------------
(* What the steps do to the places an item can be in.                      *)

LEMMA HeldItems ==
  ASSUME HistoryTypes
  PROVE  /\ \A f \in Clients : hands[f].items \in Seq(HistoryItems) /\ HeldBy(f) \subseteq History!InHand
         /\ \A x \in History!InHand : \E f \in Clients : x \in HeldBy(f)
         /\ History!Known \subseteq HistoryItems
         /\ History!Known = Queued \union History!InHand \union Archived
<1>1. \A f \in Clients : hands[f].items \in Seq(HistoryItems) /\ HeldBy(f) \subseteq History!InHand
  BY DEF HistoryTypes, HeldBy, History!InHand
<1>2. \A s \in Seq(HistoryItems) : History!ToSet(s) \subseteq HistoryItems
  BY DEF History!ToSet
<1>3. Queued \subseteq HistoryItems /\ Archived \subseteq HistoryItems
  BY <1>2 DEF HistoryTypes, Queued, Archived
<1>4. History!InHand \subseteq HistoryItems
  BY <1>1, <1>2 DEF History!InHand
<1>5. \A x \in History!InHand : \E f \in Clients : x \in HeldBy(f)
  BY DEF History!InHand, HeldBy
<1>6. History!Known = Queued \union History!InHand \union Archived
  BY DEF History!Known, Queued, Archived
<1> QED
  BY <1>1, <1>3, <1>4, <1>5, <1>6

LEMMA AcceptEffect ==
  ASSUME HistoryTypes, NEW item \in HistoryItems, History!Accept(item), UNCHANGED <<hands, archive>>
  PROVE  /\ queue' \in Seq(HistoryItems) /\ Len(queue') = Len(queue) + 1
         /\ Queued' = Queued \union {item} /\ History!InHand' = History!InHand /\ Archived' = Archived
         /\ History!Known' = History!Known \union {item}
         /\ \A f \in Clients : HeldBy(f)' = HeldBy(f)
<1>1. queue \in Seq(HistoryItems) /\ queue' = Append(queue, item)
  BY DEF HistoryTypes, History!Accept
<1>2. History!ToSet(queue') = History!ToSet(queue) \union {item} /\ queue' \in Seq(HistoryItems) /\ Len(queue') = Len(queue) + 1
  BY <1>1, AppendSet
<1>3. History!InHand' = History!InHand /\ Archived' = Archived /\ \A f \in Clients : HeldBy(f)' = HeldBy(f)
  BY DEF History!InHand, Archived, HeldBy
<1>4. History!Known' = History!Known \union {item}
  BY <1>2, <1>3 DEF History!Known
<1> QED
  BY <1>2, <1>3, <1>4 DEF Queued

LEMMA TakeEffect ==
  ASSUME HistoryTypes, NEW f \in Clients, History!Take(f)
  PROVE  \E e \in HistoryItems :
           /\ e = Head(queue)
           /\ queue' = Tail(queue) /\ queue' \in Seq(HistoryItems) /\ Len(queue) = Len(queue') + 1
           /\ hands' = [hands EXCEPT ![f] = [items |-> Append(hands[f].items, e), phase |-> "take"]]
           /\ hands'[f].items = Append(hands[f].items, e)
           /\ hands'[f].items \in Seq(HistoryItems) /\ Len(hands'[f].items) = Len(hands[f].items) + 1
           /\ \A g \in Clients : g # f => hands'[g] = hands[g] /\ HeldBy(g)' = HeldBy(g)
           /\ HeldBy(f)' = HeldBy(f) \union {e}
           /\ Queued = Queued' \union {e} /\ History!InHand' = History!InHand \union {e} /\ Archived' = Archived
           /\ History!Known' = History!Known
           /\ UNCHANGED <<lastSnapshot, signatures, counters, archive, observed, offered, refused,
                          accepted, resets, failed>>
<1>1. queue \in Seq(HistoryItems) /\ queue # <<>> /\ queue' = Tail(queue)
  BY DEF HistoryTypes, History!Take
<1>2. PICK e \in HistoryItems : e = Head(queue)
  BY <1>1, TailSet
<1>3. /\ History!ToSet(queue) = History!ToSet(queue') \union {e} /\ queue' \in Seq(HistoryItems)
      /\ Len(queue) = Len(queue') + 1
  BY <1>1, <1>2, TailSet
<1>4. PICK s \in Seq(HistoryItems) : s = hands[f].items
  BY HeldItems
<1>5. hands' = [hands EXCEPT ![f] = [items |-> Append(s, e), phase |-> "take"]]
  BY <1>2, <1>4 DEF History!Take
<1>6. /\ hands'[f].items = Append(s, e) /\ \A g \in Clients : g # f => hands'[g] = hands[g]
  BY <1>5 DEF HistoryTypes
<1>7. /\ Append(s, e) \in Seq(HistoryItems) /\ Len(Append(s, e)) = Len(s) + 1
      /\ History!ToSet(Append(s, e)) = History!ToSet(s) \union {e}
  BY AppendSet
<1>8. /\ \A g \in Clients : g # f => HeldBy(g)' = HeldBy(g)
      /\ HeldBy(f)' = HeldBy(f) \union {e}
  BY <1>4, <1>6, <1>7 DEF HeldBy
<1>9. History!InHand' = History!InHand \union {e}
  BY <1>8 DEF History!InHand, HeldBy
<1>10. UNCHANGED <<lastSnapshot, signatures, counters, archive, observed, offered, refused,
                   accepted, resets, failed>>
  BY DEF History!Take
<1>11. Archived' = Archived /\ Queued = Queued' \union {e} /\ History!Known' = History!Known
  BY <1>3, <1>9, <1>10 DEF Archived, Queued, History!Known
<1> WITNESS e \in HistoryItems
<1> QED
  BY <1>1, <1>2, <1>3, <1>4, <1>5, <1>6, <1>7, <1>8, <1>9, <1>10, <1>11

(* A flush that ends lets go of what it holds.                             *)
LEMMA RestEffect ==
  ASSUME HistoryTypes, NEW f \in Clients, hands' = [hands EXCEPT ![f] = History!Rested]
  PROVE  /\ hands' \in [Clients -> [items : Seq(HistoryItems), phase : {"rest", "take", "write"}]]
         /\ HeldBy(f)' = {} /\ hands'[f].items = <<>>
         /\ \A g \in Clients : g # f => hands'[g] = hands[g] /\ HeldBy(g)' = HeldBy(g)
         /\ History!InHand' = UNION {HeldBy(g) : g \in Clients \ {f}}
<1>1. hands'[f] = History!Rested /\ \A g \in Clients : g # f => hands'[g] = hands[g]
  BY DEF HistoryTypes
<1>2. History!Rested \in [items : Seq(HistoryItems), phase : {"rest", "take", "write"}] /\ History!Rested.items = <<>>
  BY DEF History!Rested
<1>3. hands' \in [Clients -> [items : Seq(HistoryItems), phase : {"rest", "take", "write"}]]
  BY <1>2 DEF HistoryTypes
<1>4. HeldBy(f)' = {} /\ \A g \in Clients : g # f => HeldBy(g)' = HeldBy(g)
  BY <1>1, <1>2 DEF HeldBy, History!ToSet
<1>5. History!InHand' = UNION {HeldBy(g) : g \in Clients \ {f}}
  BY <1>4 DEF History!InHand, HeldBy
<1> QED
  BY <1>1, <1>2, <1>3, <1>4, <1>5

LEMMA FindEmptyEffect ==
  ASSUME HistoryTypes, NEW f \in Clients, History!FindEmpty(f)
  PROVE  /\ hands' \in [Clients -> [items : Seq(HistoryItems), phase : {"rest", "take", "write"}]]
         /\ \A g \in Clients : hands'[g].items = hands[g].items /\ HeldBy(g)' = HeldBy(g)
         /\ History!InHand' = History!InHand /\ Queued' = Queued /\ Archived' = Archived /\ History!Known' = History!Known
<1>1. hands' = [hands EXCEPT ![f].phase = "write"] /\ UNCHANGED <<queue, archive>>
  BY DEF History!FindEmpty
<1>2. hands' \in [Clients -> [items : Seq(HistoryItems), phase : {"rest", "take", "write"}]]
  BY <1>1 DEF HistoryTypes
<1>3. \A g \in Clients : hands'[g].items = hands[g].items
  BY <1>1 DEF HistoryTypes
<1>4. \A g \in Clients : HeldBy(g)' = HeldBy(g)
  BY <1>3 DEF HeldBy
<1>5. History!InHand' = History!InHand
  BY <1>4 DEF History!InHand, HeldBy
<1> QED
  BY <1>1, <1>2, <1>3, <1>4, <1>5 DEF Queued, Archived, History!Known

LEMMA CommitAllEffect ==
  ASSUME HistoryTypes, NEW f \in Clients, History!CommitAll(f)
  PROVE  /\ archive' = archive \o hands[f].items /\ archive' \in Seq(HistoryItems)
         /\ Archived' = Archived \union HeldBy(f) /\ Queued' = Queued /\ History!Known' = History!Known
<1>1. hands[f].items \in Seq(HistoryItems) /\ archive \in Seq(HistoryItems) /\ HeldBy(f) \subseteq History!InHand
  BY HeldItems DEF HistoryTypes
<1>2. archive' = archive \o hands[f].items /\ hands' = [hands EXCEPT ![f] = History!Rested] /\ queue' = queue
  BY DEF History!CommitAll
<1>3. History!ToSet(archive') = History!ToSet(archive) \union HeldBy(f) /\ archive' \in Seq(HistoryItems)
  BY <1>1, <1>2, ConcatSet DEF HeldBy
<1>4. History!InHand' = UNION {HeldBy(g) : g \in Clients \ {f}}
  BY <1>2, RestEffect
<1>5. History!InHand' \union HeldBy(f) = History!InHand
  BY <1>4 DEF History!InHand, HeldBy
<1> QED
  BY <1>2, <1>3, <1>5 DEF Archived, Queued, History!Known

LEMMA CommitFailsEffect ==
  ASSUME HistoryTypes, NEW f \in Clients, History!CommitFails(f)
  PROVE  /\ Archived' = Archived /\ Queued' = Queued
         /\ History!Known' \subseteq History!Known /\ History!Known \subseteq History!Known' \union HeldBy(f)
         /\ \A x \in HeldBy(f) : x.kind = "group" => x.group \in failed'
         /\ failed \subseteq failed'
<1>1. hands' = [hands EXCEPT ![f] = History!Rested] /\ UNCHANGED <<queue, archive>>
  BY DEF History!CommitFails
<1>2. History!InHand' = UNION {HeldBy(g) : g \in Clients \ {f}}
  BY <1>1, RestEffect
<1>3. History!InHand' \subseteq History!InHand /\ History!InHand \subseteq History!InHand' \union HeldBy(f)
  BY <1>2 DEF History!InHand, HeldBy
<1>4. failed' = failed \union {i.group : i \in {j \in HeldBy(f) : j.kind = "group"}}
  BY DEF History!CommitFails, HeldBy
<1> QED
  BY <1>1, <1>3, <1>4 DEF Archived, Queued, History!Known

LEMMA ClearEffect ==
  ASSUME HistoryTypes, History!Clear
  PROVE  /\ Queued' = {} /\ Archived' = Archived /\ History!InHand' = History!InHand /\ History!Known' \subseteq History!Known
         /\ \A f \in Clients : HeldBy(f)' = HeldBy(f)
<1>1. queue' = <<>> /\ UNCHANGED <<hands, archive>>
  BY DEF History!Clear, History!Forget
<1>2. Queued' = {}
  BY <1>1 DEF Queued, History!ToSet
<1> QED
  BY <1>1, <1>2 DEF Queued, Archived, History!InHand, History!Known, HeldBy

LEMMA RestartEffect ==
  ASSUME HistoryTypes, History!Restart
  PROVE  /\ Queued' = {} /\ Archived' = Archived /\ History!InHand' = {} /\ History!Known' \subseteq History!Known
         /\ \A f \in Clients : HeldBy(f)' = {} /\ hands'[f].items = <<>>
         /\ hands' \in [Clients -> [items : Seq(HistoryItems), phase : {"rest", "take", "write"}]]
<1>1. queue' = <<>> /\ UNCHANGED archive /\ hands' = [f \in Clients |-> History!Rested]
  BY DEF History!Restart, History!Forget
<1>2. History!Rested \in [items : Seq(HistoryItems), phase : {"rest", "take", "write"}] /\ History!Rested.items = <<>>
  BY DEF History!Rested
<1>3. \A f \in Clients : HeldBy(f)' = {} /\ hands'[f].items = <<>>
  BY <1>1, <1>2 DEF HeldBy, History!ToSet
<1>4. Queued' = {} /\ History!InHand' = {}
  BY <1>1, <1>3 DEF Queued, History!InHand, HeldBy, History!ToSet
<1>5. hands' \in [Clients -> [items : Seq(HistoryItems), phase : {"rest", "take", "write"}]]
  BY <1>1, <1>2
<1>6. Archived' = Archived /\ History!Known' \subseteq History!Known
  BY <1>1, <1>4 DEF Archived, History!Known, Queued
<1> QED
  BY <1>3, <1>4, <1>5, <1>6

(* A record is offered: it is accepted with its number and its life, or    *)
(* refused.                                                                *)
Accepts(item) ==
  /\ History!Accept(item) /\ item \in HistoryItems /\ item.n = offered /\ item.life = resets
  /\ item.kind = "snapshot" =>
       History!Due(item.at) /\ lastSnapshot' = item.at /\ UNCHANGED <<signatures, failed>>
  /\ item.kind = "group" =>
       /\ signatures' = [signatures EXCEPT ![item.group] = item.signature]
       /\ failed' = failed \ {item.group} /\ UNCHANGED lastSnapshot
  /\ item.kind = "behavior" => UNCHANGED <<lastSnapshot, signatures, failed>>

LEMMA OfferSteps ==
  ASSUME HistoryTypes,
         \/ \E at \in {observed - 1, observed} : History!RecordSnapshot(at)
         \/ \E g \in Groups, sig \in Signatures : History!RecordGroup(g, sig)
         \/ History!RecordBehavior
  PROVE  /\ History!Offer
         /\ \/ \E item \in HistoryItems : Accepts(item)
            \/ History!Refuse /\ UNCHANGED <<lastSnapshot, signatures, failed>>
<1>1. offered \in Nat /\ resets \in Nat /\ observed \in Int
  BY DEF HistoryTypes
<1>2. CASE \E at \in {observed - 1, observed} : History!RecordSnapshot(at)
  <2>1. PICK at \in Int : History!RecordSnapshot(at)
    BY <1>1, <1>2
  <2>2. PICK item : item = [kind |-> "snapshot", at |-> at, n |-> offered, life |-> resets]
    OBVIOUS
  <2>3. item \in HistoryItems /\ item.kind = "snapshot" /\ item.at = at /\ item.n = offered /\ item.life = resets
    BY <1>1, <2>2 DEF HistoryItems
  <2>4. (History!Accept(item) /\ lastSnapshot' = at) \/ (History!Refuse /\ UNCHANGED lastSnapshot)
    BY <2>1, <2>2 DEF History!RecordSnapshot
  <2>5. History!Offer /\ History!Due(at) /\ UNCHANGED <<signatures, failed>>
    BY <2>1 DEF History!RecordSnapshot
  <2> QED
    BY <2>3, <2>4, <2>5 DEF Accepts
<1>3. CASE \E g \in Groups, sig \in Signatures : History!RecordGroup(g, sig)
  <2>1. PICK g \in Groups, sig \in Signatures : History!RecordGroup(g, sig)
    BY <1>3
  <2>2. PICK item : item = [kind |-> "group", group |-> g, signature |-> sig, n |-> offered, life |-> resets]
    OBVIOUS
  <2>3. /\ item \in HistoryItems /\ item.kind = "group" /\ item.group = g /\ item.signature = sig
        /\ item.n = offered /\ item.life = resets
    BY <1>1, <2>2 DEF HistoryItems
  <2>4. \/ /\ History!Accept(item) /\ signatures' = [signatures EXCEPT ![g] = sig]
           /\ failed' = failed \ {g}
        \/ History!Refuse /\ UNCHANGED <<signatures, failed>>
    BY <2>1, <2>2 DEF History!RecordGroup
  <2>5. History!Offer /\ UNCHANGED lastSnapshot
    BY <2>1 DEF History!RecordGroup
  <2> QED
    BY <2>3, <2>4, <2>5 DEF Accepts
<1>4. CASE History!RecordBehavior
  <2>1. PICK item : item = [kind |-> "behavior", n |-> offered, life |-> resets]
    OBVIOUS
  <2>2. item \in HistoryItems /\ item.kind = "behavior" /\ item.n = offered /\ item.life = resets
    BY <1>1, <2>1 DEF HistoryItems
  <2>3. History!Offer /\ UNCHANGED <<lastSnapshot, signatures, failed>> /\ (History!Accept(item) \/ History!Refuse)
    BY <1>4, <2>1 DEF History!RecordBehavior
  <2> QED
    BY <2>2, <2>3 DEF Accepts
<1> QED
  BY <1>2, <1>3, <1>4

(* The kinds of steps.                                                     *)
LEMMA HistoryStep ==
  ASSUME HistoryTypes, [History!Next]_(History!vars)
  PROVE  \/ History!Offer /\ \E item \in HistoryItems : Accepts(item)
         \/ History!Offer /\ History!Refuse /\ UNCHANGED <<lastSnapshot, signatures, failed>>
         \/ History!Tick
         \/ \E f \in Clients : History!Take(f)
         \/ \E f \in Clients : History!FindEmpty(f)
         \/ \E f \in Clients : History!CommitAll(f)
         \/ \E f \in Clients : History!CommitFails(f)
         \/ History!Clear \/ History!Restart
         \/ UNCHANGED History!vars
BY OfferSteps DEF History!Next

-----------------------------------------------------------------------------
(* Types.                                                                  *)

LEMMA NextHistoryTypes ==
  ASSUME HistoryTypes, IsFiniteSet(History!InHand), [History!Next]_(History!vars), Interval \in Nat
  PROVE  HistoryTypes'
<1>1. CASE History!Offer /\ \E item \in HistoryItems : Accepts(item)
  <2>1. PICK item \in HistoryItems : History!Offer /\ Accepts(item)
    BY <1>1
  <2>2. queue' \in Seq(HistoryItems)
    BY <2>1, AcceptEffect DEF Accepts, History!Offer
  <2>3. accepted' \in Nat /\ UNCHANGED <<counters, refused>>
    BY <2>1 DEF Accepts, History!Accept, HistoryTypes
  <2>4. offered' \in Nat /\ UNCHANGED <<hands, archive, observed, resets>>
    BY <2>1 DEF History!Offer, HistoryTypes
  <2>5. lastSnapshot' \in Int /\ signatures' \in [Groups -> Signatures \union {"none"}]
    BY <2>1 DEF Accepts, HistoryItems, HistoryTypes
  <2> QED
    BY <2>2, <2>3, <2>4, <2>5 DEF HistoryTypes
<1>2. CASE History!Offer /\ History!Refuse /\ UNCHANGED <<lastSnapshot, signatures, failed>>
  <2>1. counters' = [counters EXCEPT !.dropped = @ + 1]
    BY <1>2 DEF History!Refuse
  <2>2. counters' \in [dropped : Nat, persisted : Nat]
    BY <2>1, SMTT(30) DEF HistoryTypes
  <2>3. refused' \in Nat /\ offered' \in Nat
    BY <1>2 DEF History!Refuse, History!Offer, HistoryTypes
  <2> QED
    BY <1>2, <2>2, <2>3 DEF History!Offer, History!Refuse, HistoryTypes
<1>3. CASE History!Tick
  BY <1>3 DEF History!Tick, HistoryTypes
<1>4. CASE \E f \in Clients : History!Take(f)
  <2>1. PICK f \in Clients : History!Take(f)
    BY <1>4
  <2>2. PICK e \in HistoryItems :
          /\ queue' \in Seq(HistoryItems) /\ hands'[f].items \in Seq(HistoryItems)
          /\ hands' = [hands EXCEPT ![f] = [items |-> Append(hands[f].items, e), phase |-> "take"]]
          /\ hands'[f].items = Append(hands[f].items, e)
          /\ UNCHANGED <<lastSnapshot, signatures, counters, archive, observed, offered, refused,
                         accepted, resets>>
    BY <2>1, TakeEffect
  <2>3. hands' \in [Clients -> [items : Seq(HistoryItems), phase : {"rest", "take", "write"}]]
    BY <2>2 DEF HistoryTypes
  <2> QED
    BY <2>2, <2>3 DEF HistoryTypes
<1>5. CASE \E f \in Clients : History!FindEmpty(f)
  BY <1>5, FindEmptyEffect DEF History!FindEmpty, HistoryTypes
<1>6. CASE \E f \in Clients : History!CommitAll(f)
  <2>1. PICK f \in Clients : History!CommitAll(f)
    BY <1>6
  <2>2. archive' \in Seq(HistoryItems)
    BY <2>1, CommitAllEffect
  <2>3. hands' \in [Clients -> [items : Seq(HistoryItems), phase : {"rest", "take", "write"}]]
    BY <2>1, RestEffect DEF History!CommitAll
  <2>4. counters' \in [dropped : Nat, persisted : Nat]
    <3>1. PICK k \in Nat : k = Len(hands[f].items)
      BY HeldItems
    <3>2. counters' = [counters EXCEPT !.persisted = @ + k]
      BY <2>1, <3>1 DEF History!CommitAll
    <3>3. counters \in [dropped : Nat, persisted : Nat]
      BY DEF HistoryTypes
    <3>4. PICK c \in Nat : c = counters.persisted + k
      BY <3>3
    <3>5. counters' = [counters EXCEPT !.persisted = c]
      BY <3>2, <3>4
    <3> QED
      BY <3>3, <3>5
  <2> QED
    BY <2>1, <2>2, <2>3, <2>4 DEF History!CommitAll, HistoryTypes
<1>7. CASE \E f \in Clients : History!CommitFails(f)
  <2>1. PICK f \in Clients : History!CommitFails(f)
    BY <1>7
  <2>2. hands' \in [Clients -> [items : Seq(HistoryItems), phase : {"rest", "take", "write"}]]
    BY <2>1, RestEffect DEF History!CommitFails
  <2>3. counters' \in [dropped : Nat, persisted : Nat]
    <3>1. PICK k \in Nat : k = Len(hands[f].items)
      BY HeldItems
    <3>2. counters' = [counters EXCEPT !.dropped = @ + k]
      BY <2>1, <3>1 DEF History!CommitFails
    <3>3. counters \in [dropped : Nat, persisted : Nat]
      BY DEF HistoryTypes
    <3>4. PICK c \in Nat : c = counters.dropped + k
      BY <3>3
    <3>5. counters' = [counters EXCEPT !.dropped = c]
      BY <3>2, <3>4
    <3> QED
      BY <3>3, <3>5
  <2> QED
    BY <2>1, <2>2, <2>3 DEF History!CommitFails, HistoryTypes
<1>8. ASSUME History!Forget, accepted' \in Nat,
             hands' \in [Clients -> [items : Seq(HistoryItems), phase : {"rest", "take", "write"}]]
      PROVE  HistoryTypes'
  <2>1. queue' \in Seq(HistoryItems) /\ archive' \in Seq(HistoryItems)
    BY <1>8 DEF History!Forget, HistoryTypes
  <2>2. History!Never \in Int
    BY DEF History!Never
  <2>3. resets' \in Nat
    BY <1>8 DEF History!Forget, HistoryTypes
  <2>4. /\ counters' \in [dropped : Nat, persisted : Nat]
        /\ signatures' \in [Groups -> Signatures \union {"none"}]
    BY <1>8 DEF History!Forget
  <2> QED
    BY <1>8, <2>1, <2>2, <2>3, <2>4 DEF History!Forget, HistoryTypes
<1>9. CASE UNCHANGED History!vars
  BY <1>9 DEF History!vars, HistoryTypes
<1>10. CASE History!Restart
  BY <1>8, <1>10, RestartEffect DEF History!Restart
<1>11. CASE History!Clear
  <2>1. accepted' \in Nat
    BY HistoryCardinality, <1>11, FS_CardinalityType DEF History!Clear
  <2> QED
    BY <1>8, <1>11, <2>1 DEF History!Clear, HistoryTypes
<1> QED
  BY <1>1, <1>2, <1>3, <1>4, <1>5, <1>6, <1>7, <1>9, <1>10, <1>11, HistoryStep

-----------------------------------------------------------------------------
(* Order.                                                                  *)

LEMMA ItemTypes ==
  \A x \in HistoryItems : x.n \in Nat /\ x.life \in Nat /\ (x.kind = "snapshot" => x.at \in Int)
BY DEF HistoryItems

LEMMA IncreasingAppend ==
  ASSUME NEW s \in Seq(HistoryItems), NEW e \in HistoryItems, Increasing(s), \A x \in History!ToSet(s) : x.n < e.n
  PROVE  Increasing(Append(s, e))
<1>1. /\ DOMAIN s = 1 .. Len(s) /\ Len(s) \in Nat /\ Len(Append(s, e)) = Len(s) + 1
      /\ Append(s, e)[Len(s) + 1] = e /\ \A i \in 1 .. Len(s) : Append(s, e)[i] = s[i]
  OBVIOUS
<1>2. \A i \in 1 .. Len(s) : s[i].n < e.n
  BY <1>1 DEF History!ToSet
<1>3. SUFFICES ASSUME NEW i \in 1 .. Len(s) + 1, NEW j \in 1 .. Len(s) + 1, i < j
               PROVE  Append(s, e)[i].n < Append(s, e)[j].n
  BY <1>1 DEF Increasing
<1>4. i \in 1 .. Len(s)
  BY <1>1, <1>3
<1>5. CASE j = Len(s) + 1
  BY <1>1, <1>2, <1>4, <1>5
<1>6. CASE j # Len(s) + 1
  <2>1. j \in 1 .. Len(s)
    BY <1>1, <1>6
  <2> QED
    BY <1>1, <1>3, <1>4, <2>1 DEF Increasing
<1> QED
  BY <1>5, <1>6

LEMMA IncreasingTail ==
  ASSUME NEW s \in Seq(HistoryItems), s # <<>>, Increasing(s)
  PROVE  Increasing(Tail(s)) /\ \A x \in History!ToSet(Tail(s)) : Head(s).n < x.n
<1>1. /\ Head(s) = s[1] /\ Len(s) \in Nat /\ Len(s) > 0 /\ Len(Tail(s)) = Len(s) - 1
      /\ DOMAIN Tail(s) = 1 .. Len(s) - 1 /\ \A i \in 1 .. Len(s) - 1 : Tail(s)[i] = s[i + 1]
  OBVIOUS
<1>2. \A i \in 1 .. Len(s) - 1 : i + 1 \in 1 .. Len(s) /\ 1 \in 1 .. Len(s) /\ 1 < i + 1
  BY <1>1
<1>3. \A i \in 1 .. Len(s) - 1 : s[1].n < s[i + 1].n
  BY <1>2 DEF Increasing
<1>4. ASSUME NEW i \in 1 .. Len(s) - 1, NEW j \in 1 .. Len(s) - 1, i < j
      PROVE  Tail(s)[i].n < Tail(s)[j].n
  <2>1. i + 1 < j + 1
    BY <1>4
  <2> QED
    BY <1>1, <1>2, <2>1 DEF Increasing
<1> QED
  BY <1>1, <1>3, <1>4 DEF Increasing, History!ToSet

LEMMA IncreasingConcat ==
  ASSUME NEW s \in Seq(HistoryItems), NEW t \in Seq(HistoryItems), Increasing(s), Increasing(t),
         AllBefore(History!ToSet(s), History!ToSet(t))
  PROVE  Increasing(s \o t)
<1>1. /\ DOMAIN s = 1 .. Len(s) /\ DOMAIN t = 1 .. Len(t)
      /\ Len(s) \in Nat /\ Len(t) \in Nat /\ Len(s \o t) = Len(s) + Len(t)
      /\ \A i \in 1 .. Len(s) : (s \o t)[i] = s[i]
      /\ \A i \in 1 .. Len(t) : (s \o t)[Len(s) + i] = t[i]
  OBVIOUS
<1>2. SUFFICES ASSUME NEW i \in 1 .. Len(s) + Len(t), NEW j \in 1 .. Len(s) + Len(t), i < j
               PROVE  (s \o t)[i].n < (s \o t)[j].n
  BY <1>1 DEF Increasing
<1>3. CASE j \in 1 .. Len(s)
  <2>1. i \in 1 .. Len(s)
    BY <1>1, <1>2, <1>3
  <2> QED
    BY <1>1, <1>2, <1>3, <2>1 DEF Increasing
<1>4. CASE j \notin 1 .. Len(s)
  <2>1. PICK b \in 1 .. Len(t) : j = Len(s) + b
    <3>1. j - Len(s) \in 1 .. Len(t) /\ j = Len(s) + (j - Len(s))
      BY <1>1, <1>4
    <3> QED
      BY <3>1
  <2>2. CASE i \in 1 .. Len(s)
    BY <1>1, <2>1, <2>2 DEF AllBefore, History!ToSet
  <2>3. CASE i \notin 1 .. Len(s)
    <3>1. PICK a \in 1 .. Len(t) : i = Len(s) + a
      <4>1. i - Len(s) \in 1 .. Len(t) /\ i = Len(s) + (i - Len(s))
        BY <1>1, <2>3
      <4> QED
        BY <4>1
    <3>2. a < b
      BY <1>1, <1>2, <2>1, <3>1
    <3> QED
      BY <1>1, <2>1, <3>1, <3>2 DEF Increasing
  <2> QED
    BY <2>2, <2>3
<1> QED
  BY <1>3, <1>4

(* What a flush takes is in no hand yet.                                   *)
LEMMA TakenIsNew ==
  ASSUME HistoryTypes, NumbersInv, queue # <<>>
  PROVE  /\ Head(queue) \in HistoryItems /\ Head(queue) \in Queued
         /\ Head(queue) \notin History!InHand \union Archived
         /\ \A x \in History!InHand \union Archived : x.n < Head(queue).n
         /\ \A f \in Clients : Head(queue) \notin HeldBy(f)
<1>1. Head(queue) \in HistoryItems /\ Head(queue) \in Queued
  BY TailSet DEF HistoryTypes, Queued
<1>2. \A x \in History!InHand \union Archived : x.n < Head(queue).n
  BY <1>1 DEF NumbersInv, AllBefore
<1>3. Head(queue).n \in Nat
  BY <1>1, ItemTypes
<1> QED
  BY <1>1, <1>2, <1>3, HeldItems

LEMMA NothingHeld ==
  \A s \in Seq(HistoryItems) : s = <<>> => Cardinality({}) = Len(s) /\ IsFiniteSet({})
BY FS_EmptySet

LEMMA NextOrder ==
  ASSUME HistoryTypes, NumbersInv, [History!Next]_(History!vars)
  PROVE  NumbersInv'
<1>1. CASE History!Offer /\ \E item \in HistoryItems : Accepts(item)
  <2>1. PICK item \in HistoryItems : History!Offer /\ Accepts(item)
    BY <1>1
  <2>2. /\ Queued' = Queued \union {item} /\ History!InHand' = History!InHand /\ Archived' = Archived
        /\ History!Known' = History!Known \union {item} /\ \A f \in Clients : HeldBy(f)' = HeldBy(f)
        /\ hands' = hands /\ offered' = offered + 1 /\ item.n = offered /\ offered \in Nat
    BY <2>1, AcceptEffect DEF Accepts, History!Offer, HistoryTypes
  <2>3. \A x \in History!Known : x.n < offered /\ x.n \in Nat
    BY HeldItems, ItemTypes DEF NumbersInv
  <2>4. Increasing(queue')
    <3>1. \A x \in History!ToSet(queue) : x.n < item.n
      BY <2>2, <2>3 DEF History!Known
    <3>2. queue' = Append(queue, item) /\ queue \in Seq(HistoryItems) /\ Increasing(queue)
      BY <2>1 DEF Accepts, History!Accept, HistoryTypes, NumbersInv
    <3> QED
      BY <3>1, <3>2, IncreasingAppend
  <2>5. \A x \in History!Known' : x.n < offered'
    BY <2>2, <2>3
  <2>6. AllBefore(History!InHand' \union Archived', Queued')
    BY <2>2, <2>3, HeldItems DEF NumbersInv, AllBefore
  <2> QED
    BY <2>2, <2>4, <2>5, <2>6 DEF NumbersInv, Increasing, AllBefore
<1>2. ASSUME UNCHANGED <<queue, hands, archive>>, offered' = offered \/ offered' = offered + 1
      PROVE  NumbersInv'
  <2>1. \A x \in History!Known : x.n < offered' /\ x.n \in Nat
    BY <1>2, HeldItems, ItemTypes DEF NumbersInv, HistoryTypes
  <2> QED
    BY <1>2, <2>1 DEF NumbersInv, Increasing, AllBefore, History!Known, History!InHand, Archived, Queued, HeldBy
<1>3. CASE \E f \in Clients : History!Take(f)
  <2>1. PICK f \in Clients : History!Take(f)
    BY <1>3
  <2>2. PICK e \in HistoryItems :
           /\ e = Head(queue) /\ queue' = Tail(queue)
           /\ Len(hands'[f].items) = Len(hands[f].items) + 1
           /\ \A g \in Clients : g # f => hands'[g] = hands[g] /\ HeldBy(g)' = HeldBy(g)
           /\ HeldBy(f)' = HeldBy(f) \union {e}
           /\ Queued = Queued' \union {e} /\ History!InHand' = History!InHand \union {e} /\ Archived' = Archived
           /\ History!Known' = History!Known /\ offered' = offered
    BY <2>1, TakeEffect
  <2>3. queue # <<>> /\ queue \in Seq(HistoryItems) /\ Increasing(queue)
    BY <2>1 DEF History!Take, HistoryTypes, NumbersInv
  <2>4. /\ e \notin History!InHand /\ \A g \in Clients : e \notin HeldBy(g)
        /\ Increasing(queue') /\ \A x \in Queued' : e.n < x.n
    BY <2>2, <2>3, TakenIsNew, IncreasingTail DEF Queued
  <2>5. AllBefore(History!InHand' \union Archived', Queued')
    BY <2>2, <2>4 DEF NumbersInv, AllBefore
  <2>6. ASSUME NEW g \in Clients
        PROVE  IsFiniteSet(HeldBy(g)') /\ Cardinality(HeldBy(g)') = Len(hands'[g].items)
    <3>1. IsFiniteSet(HeldBy(g)) /\ Cardinality(HeldBy(g)) = Len(hands[g].items)
      BY DEF NumbersInv
    <3>2. CASE g = f
      <4>1. /\ IsFiniteSet(HeldBy(g) \union {e})
            /\ Cardinality(HeldBy(g) \union {e}) = Cardinality(HeldBy(g)) + 1
        BY <2>4, <3>1, FS_AddElement
      <4> QED
        BY <2>2, <3>1, <3>2, <4>1
    <3>3. CASE g # f
      BY <2>2, <3>1, <3>3
    <3> QED
      BY <3>2, <3>3
  <2>7. IsFiniteSet(History!InHand')
    BY <2>2, FS_AddElement DEF NumbersInv
  <2>8. \A g, h \in Clients : g # h => HeldBy(g)' \intersect HeldBy(h)' = {}
    <3> TAKE g, h \in Clients
    <3>1. g # h => HeldBy(g) \intersect HeldBy(h) = {}
      BY DEF NumbersInv
    <3> QED
      BY <2>2, <2>4, <3>1
  <2>9. \A x \in History!Known' : x.n < offered'
    BY <2>2 DEF NumbersInv
  <2> QED
    BY <2>4, <2>5, <2>6, <2>7, <2>8, <2>9 DEF NumbersInv, Increasing, AllBefore
<1>4. CASE \E f \in Clients : History!FindEmpty(f)
  <2>1. PICK f \in Clients : History!FindEmpty(f)
    BY <1>4
  <2>2. /\ \A g \in Clients : hands'[g].items = hands[g].items /\ HeldBy(g)' = HeldBy(g)
        /\ History!InHand' = History!InHand /\ Queued' = Queued /\ Archived' = Archived /\ History!Known' = History!Known
    BY <2>1, FindEmptyEffect
  <2>3. queue' = queue /\ offered' = offered
    BY <2>1 DEF History!FindEmpty
  <2> QED
    BY <2>2, <2>3 DEF NumbersInv, Increasing, AllBefore
<1>5. ASSUME NEW f \in Clients, hands' = [hands EXCEPT ![f] = History!Rested], queue' = queue,
             offered' = offered, History!Known' \subseteq History!Known, Archived' \subseteq Archived \union HeldBy(f)
      PROVE  NumbersInv'
  <2>1. /\ HeldBy(f)' = {} /\ hands'[f].items = <<>>
        /\ \A g \in Clients : g # f => hands'[g] = hands[g] /\ HeldBy(g)' = HeldBy(g)
        /\ History!InHand' = UNION {HeldBy(g) : g \in Clients \ {f}}
    BY <1>5, RestEffect
  <2>2. History!InHand' \subseteq History!InHand /\ HeldBy(f) \subseteq History!InHand /\ Queued' = Queued
    BY <1>5, <2>1, HeldItems DEF History!InHand, HeldBy, Queued
  <2>3. IsFiniteSet(History!InHand')
    BY <2>2, FS_Subset DEF NumbersInv
  <2>4. AllBefore(History!InHand' \union Archived', Queued')
    BY <1>5, <2>2 DEF NumbersInv, AllBefore
  <2>5. \A g \in Clients : IsFiniteSet(HeldBy(g)') /\ Cardinality(HeldBy(g)') = Len(hands'[g].items)
    <3>1. <<>> \in Seq(HistoryItems)
      OBVIOUS
    <3>2. Cardinality({}) = Len(<<>>) /\ IsFiniteSet({})
      BY <3>1, NothingHeld
    <3> QED
      BY <2>1, <3>2 DEF NumbersInv
  <2>6. \A g, h \in Clients : g # h => HeldBy(g)' \intersect HeldBy(h)' = {}
    BY <2>1 DEF NumbersInv
  <2> QED
    BY <1>5, <2>3, <2>4, <2>5, <2>6 DEF NumbersInv, Increasing, AllBefore
<1>6. CASE \E f \in Clients : History!CommitAll(f)
  <2>1. PICK f \in Clients : History!CommitAll(f)
    BY <1>6
  <2> QED
    BY <1>5, <2>1, CommitAllEffect DEF History!CommitAll
<1>7. CASE \E f \in Clients : History!CommitFails(f)
  <2>1. PICK f \in Clients : History!CommitFails(f)
    BY <1>7
  <2> QED
    BY <1>5, <2>1, CommitFailsEffect DEF History!CommitFails
<1>8. CASE History!Clear
  <2>1. /\ Queued' = {} /\ Archived' = Archived /\ History!InHand' = History!InHand /\ History!Known' \subseteq History!Known
        /\ \A f \in Clients : HeldBy(f)' = HeldBy(f)
    BY <1>8, ClearEffect
  <2>2. queue' = <<>> /\ hands' = hands /\ offered' = offered
    BY <1>8 DEF History!Clear, History!Forget
  <2> QED
    BY <2>1, <2>2 DEF NumbersInv, Increasing, AllBefore
<1>9. CASE History!Restart
  <2>1. /\ Queued' = {} /\ Archived' = Archived /\ History!InHand' = {} /\ History!Known' \subseteq History!Known
        /\ \A f \in Clients : HeldBy(f)' = {} /\ hands'[f].items = <<>>
    BY <1>9, RestartEffect
  <2>2. queue' = <<>> /\ offered' = offered
    BY <1>9 DEF History!Restart, History!Forget
  <2> QED
    <3>1. <<>> \in Seq(HistoryItems)
      OBVIOUS
    <3>2. Cardinality({}) = Len(<<>>) /\ IsFiniteSet({})
      BY <3>1, NothingHeld
    <3>3. \A f \in Clients : IsFiniteSet(HeldBy(f)') /\ Cardinality(HeldBy(f)') = Len(hands'[f].items)
      BY <2>1, <3>2
    <3>4. Increasing(queue')
      BY <2>2 DEF Increasing
    <3> QED
      BY <2>1, <2>2, <3>2, <3>3, <3>4 DEF NumbersInv, Increasing, AllBefore
<1> QED
  BY <1>1, <1>2, <1>3, <1>4, <1>6, <1>7, <1>8, <1>9, HistoryStep DEF History!Offer, History!Refuse, History!Tick, History!vars

-----------------------------------------------------------------------------
(* The count of the records.                                               *)

LEMMA NextCounted ==
  ASSUME HistoryTypes, NumbersInv, History!RecordsCounted, [History!Next]_(History!vars)
  PROVE  History!RecordsCounted'
<1>1. /\ accepted \in Nat /\ refused \in Nat /\ counters.persisted \in Nat /\ counters.dropped \in Nat
      /\ counters \in [dropped : Nat, persisted : Nat] /\ Len(queue) \in Nat
      /\ IsFiniteSet(History!InHand) /\ Cardinality(History!InHand) \in Nat
      /\ accepted + refused = counters.persisted + counters.dropped + Len(queue) + Cardinality(History!InHand)
  BY HistoryCardinality, FS_CardinalityType DEF HistoryTypes, NumbersInv, History!RecordsCounted
<1>13. PICK a \in Nat, r \in Nat, p \in Nat, d \in Nat, q \in Nat, c \in Nat :
         /\ a = accepted /\ r = refused /\ p = counters.persisted /\ d = counters.dropped
         /\ q = Len(queue) /\ c = Cardinality(History!InHand) /\ a + r = p + d + q + c
  BY <1>1
<1>14. a + r = p + d + q + c
  BY <1>13
<1>2. CASE History!Offer /\ \E item \in HistoryItems : Accepts(item)
  <2>1. PICK item \in HistoryItems : History!Offer /\ Accepts(item)
    BY <1>2
  <2>2. Len(queue') = Len(queue) + 1 /\ History!InHand' = History!InHand
    BY <2>1, AcceptEffect DEF Accepts, History!Offer
  <2>3. accepted' = accepted + 1 /\ refused' = refused /\ counters' = counters
    BY <2>1 DEF Accepts, History!Accept
  <2> QED
    BY HistoryCardinality, <1>1, <2>2, <2>3 DEF History!RecordsCounted
<1>3. CASE History!Offer /\ History!Refuse
  <2>1. /\ counters' = [counters EXCEPT !.dropped = @ + 1] /\ refused' = refused + 1
        /\ UNCHANGED <<queue, hands, accepted>>
    BY <1>3 DEF History!Offer, History!Refuse
  <2>2. counters'.dropped = d + 1 /\ counters'.persisted = p
    BY <1>1, <1>13, <2>1
  <2>3. History!InHand' = History!InHand /\ Len(queue') = q /\ accepted' = a /\ refused' = r + 1
    BY <1>13, <2>1 DEF History!InHand
  <2>4. a + (r + 1) = p + (d + 1) + q + c
    BY <1>14
  <2> QED
    BY HistoryCardinality, <1>13, <2>2, <2>3, <2>4 DEF History!RecordsCounted
<1>4. CASE UNCHANGED <<queue, hands, accepted, refused, counters>>
  BY <1>4 DEF History!RecordsCounted, History!InHand
<1>5. CASE \E f \in Clients : History!Take(f)
  <2>1. PICK f \in Clients : History!Take(f)
    BY <1>5
  <2>2. PICK e \in HistoryItems :
           /\ e = Head(queue) /\ Len(queue) = Len(queue') + 1 /\ queue' \in Seq(HistoryItems)
           /\ History!InHand' = History!InHand \union {e}
           /\ UNCHANGED <<accepted, refused, counters>>
    BY <2>1, TakeEffect
  <2>3. e \notin History!InHand
    BY <2>1, <2>2, TakenIsNew DEF History!Take
  <2>4. Cardinality(History!InHand') = Cardinality(History!InHand) + 1
    BY <1>1, <2>2, <2>3, FS_AddElement
  <2>5. Len(queue') \in Nat
    BY <2>2
  <2> QED
    BY HistoryCardinality, <1>1, <2>2, <2>4, <2>5 DEF History!RecordsCounted
<1>6. CASE \E f \in Clients : History!FindEmpty(f)
  BY <1>6, FindEmptyEffect DEF History!FindEmpty, History!RecordsCounted
<1>7. ASSUME NEW f \in Clients, hands' = [hands EXCEPT ![f] = History!Rested]
      PROVE  Cardinality(History!InHand) = Cardinality(History!InHand') + Len(hands[f].items)
             /\ Cardinality(History!InHand') \in Nat /\ Len(hands[f].items) \in Nat
  <2>1. History!InHand' = UNION {HeldBy(g) : g \in Clients \ {f}} /\ HeldBy(f) \subseteq History!InHand
    BY <1>7, RestEffect, HeldItems
  <2>2. History!InHand' = History!InHand \ HeldBy(f)
    BY <2>1 DEF History!InHand, HeldBy, NumbersInv
  <2>3. IsFiniteSet(HeldBy(f)) /\ Cardinality(HeldBy(f)) = Len(hands[f].items)
    BY DEF NumbersInv
  <2>4. History!InHand' \intersect HeldBy(f) = {} /\ History!InHand = History!InHand' \union HeldBy(f) /\ IsFiniteSet(History!InHand')
    BY <1>1, <2>1, <2>2, FS_Subset
  <2>5. /\ Cardinality(History!InHand' \union HeldBy(f))
             = Cardinality(History!InHand') + Cardinality(HeldBy(f)) - Cardinality(History!InHand' \intersect HeldBy(f))
        /\ Cardinality(History!InHand' \intersect HeldBy(f)) = 0
    BY <2>3, <2>4, FS_Union, FS_EmptySet
  <2>6. Cardinality(History!InHand') \in Nat /\ Cardinality(HeldBy(f)) \in Nat
    BY <2>3, <2>4, FS_CardinalityType
  <2> QED
    BY <2>3, <2>4, <2>5, <2>6
<1>8. CASE \E f \in Clients : History!CommitAll(f)
  <2>1. PICK f \in Clients : History!CommitAll(f)
    BY <1>8
  <2>2. PICK k \in Nat : k = Len(hands[f].items) /\ Cardinality(History!InHand) = Cardinality(History!InHand') + k
                         /\ Cardinality(History!InHand') \in Nat
    BY <1>7, <2>1 DEF History!CommitAll
  <2>3. counters' = [counters EXCEPT !.persisted = @ + k] /\ UNCHANGED <<queue, accepted, refused>>
    BY <2>1, <2>2 DEF History!CommitAll
  <2>4. counters'.persisted = p + k /\ counters'.dropped = d
    BY <1>1, <1>13, <2>3
  <2>5. PICK b \in Nat : b = Cardinality(History!InHand') /\ c = b + k
    BY <1>13, <2>2
  <2>6. Len(queue') = q /\ accepted' = a /\ refused' = r
    BY <1>13, <2>3
  <2>7. a + r = p + d + k + q + b
    BY <1>13, <2>5, SMTT(30)
  <2> QED
    BY HistoryCardinality, <2>4, <2>5, <2>6, <2>7 DEF History!RecordsCounted
<1>9. CASE \E f \in Clients : History!CommitFails(f)
  <2>1. PICK f \in Clients : History!CommitFails(f)
    BY <1>9
  <2>2. PICK k \in Nat : k = Len(hands[f].items) /\ Cardinality(History!InHand) = Cardinality(History!InHand') + k
                         /\ Cardinality(History!InHand') \in Nat
    BY <1>7, <2>1 DEF History!CommitFails
  <2>3. counters' = [counters EXCEPT !.dropped = @ + k] /\ UNCHANGED <<queue, accepted, refused>>
    BY <2>1, <2>2 DEF History!CommitFails
  <2>4. counters'.dropped = d + k /\ counters'.persisted = p
    BY <1>1, <1>13, <2>3
  <2>5. PICK b \in Nat : b = Cardinality(History!InHand') /\ c = b + k
    BY <1>13, <2>2
  <2>6. Len(queue') = q /\ accepted' = a /\ refused' = r
    BY <1>13, <2>3
  <2>7. a + r = p + d + k + q + b
    BY <1>13, <2>5, SMTT(30)
  <2> QED
    BY HistoryCardinality, <2>4, <2>5, <2>6, <2>7 DEF History!RecordsCounted
<1>10. ASSUME History!Forget, accepted' = Cardinality(History!InHand'), IsFiniteSet(History!InHand')
       PROVE  History!RecordsCounted'
  <2>1. /\ queue' = <<>> /\ refused' = 0 /\ counters'.dropped = 0 /\ counters'.persisted = 0
    BY <1>10 DEF History!Forget
  <2>2. Len(queue') = 0
    BY <2>1
  <2>3. Cardinality(History!InHand') \in Nat
    BY <1>10, FS_CardinalityType
  <2> QED
    BY HistoryCardinality, <1>10, <2>1, <2>2, <2>3 DEF History!RecordsCounted
<1>11. CASE History!Clear
  <2>1. History!InHand' = History!InHand
    BY <1>11, ClearEffect
  <2> QED
    BY HistoryCardinality, <1>1, <1>10, <1>11, <2>1 DEF History!Clear
<1>12. CASE History!Restart
  <2>1. History!InHand' = {}
    BY <1>12, RestartEffect
  <2> QED
    BY <1>10, <1>12, <2>1, FS_EmptySet DEF History!Restart
<1> QED
  BY <1>2, <1>3, <1>4, <1>5, <1>6, <1>8, <1>9, <1>11, <1>12, HistoryStep DEF History!Tick, History!vars

-----------------------------------------------------------------------------
(* Groups.                                                                 *)

GroupRecorded(g, sig) == \E i \in History!Known : i.kind = "group" /\ i.group = g /\ i.signature = sig

LEMMA NextGroups ==
  ASSUME HistoryTypes, History!GroupsKnown, [History!Next]_(History!vars)
  PROVE  History!GroupsKnown'
<1>1. \A g \in Groups \ failed : signatures[g] # "none" => GroupRecorded(g, signatures[g])
  BY DEF History!GroupsKnown, GroupRecorded
<1>2. ASSUME History!Known \subseteq History!Known', UNCHANGED <<signatures, failed>>
      PROVE  History!GroupsKnown'
  BY <1>2 DEF History!GroupsKnown
<1>3. CASE History!Offer /\ \E item \in HistoryItems : Accepts(item)
  <2>1. PICK item \in HistoryItems : History!Offer /\ Accepts(item)
    BY <1>3
  <2>2. History!Known' = History!Known \union {item}
    BY <2>1, AcceptEffect DEF Accepts, History!Offer
  <2>3. CASE item.kind # "group"
    BY <1>2, <2>1, <2>2, <2>3 DEF Accepts, HistoryItems
  <2>4. CASE item.kind = "group"
    <3>1. /\ item.group \in Groups /\ signatures' = [signatures EXCEPT ![item.group] = item.signature]
          /\ failed' = failed \ {item.group}
      BY <2>1, <2>4 DEF Accepts, HistoryItems
    <3>2. ASSUME NEW g \in Groups \ failed', signatures'[g] # "none"
          PROVE  \E i \in History!Known' : i.kind = "group" /\ i.group = g /\ i.signature = signatures'[g]
      <4>1. CASE g = item.group
        BY <2>2, <2>4, <3>1, <4>1 DEF HistoryTypes
      <4>2. CASE g # item.group
        BY <1>1, <2>2, <3>1, <3>2, <4>2 DEF GroupRecorded, HistoryTypes
      <4> QED
        BY <4>1, <4>2
    <3> QED
      BY <3>2 DEF History!GroupsKnown
  <2> QED
    BY <2>3, <2>4
<1>4. CASE UNCHANGED <<queue, hands, archive, signatures, failed>>
  BY <1>2, <1>4 DEF History!Known, History!InHand
<1>5. CASE \E f \in Clients : History!Take(f)
  BY <1>2, <1>5, TakeEffect
<1>6. CASE \E f \in Clients : History!FindEmpty(f)
  BY <1>2, <1>6, FindEmptyEffect DEF History!FindEmpty
<1>7. CASE \E f \in Clients : History!CommitAll(f)
  BY <1>2, <1>7, CommitAllEffect DEF History!CommitAll
<1>8. CASE \E f \in Clients : History!CommitFails(f)
  <2>1. PICK f \in Clients : History!CommitFails(f)
    BY <1>8
  <2>2. /\ History!Known \subseteq History!Known' \union HeldBy(f)
        /\ \A x \in HeldBy(f) : x.kind = "group" => x.group \in failed'
        /\ failed \subseteq failed' /\ signatures' = signatures
    BY <2>1, CommitFailsEffect DEF History!CommitFails
  <2>3. ASSUME NEW g \in Groups \ failed', signatures[g] # "none"
        PROVE  \E i \in History!Known' : i.kind = "group" /\ i.group = g /\ i.signature = signatures[g]
    BY <1>1, <2>2, <2>3 DEF GroupRecorded
  <2> QED
    BY <2>2, <2>3 DEF History!GroupsKnown
<1>9. CASE History!Clear \/ History!Restart
  <2>1. \A g \in Groups : signatures'[g] = "none"
    BY <1>9 DEF History!Clear, History!Restart, History!Forget
  <2> QED
    BY <2>1 DEF History!GroupsKnown
<1> QED
  BY <1>3, <1>4, <1>5, <1>6, <1>7, <1>8, <1>9, HistoryStep DEF History!Offer, History!Refuse, History!Tick, History!vars

-----------------------------------------------------------------------------
(* Snapshots.                                                              *)

LEMMA FewerApart ==
  ASSUME ApartInv, History!Known' \subseteq History!Known, resets' = resets, lastSnapshot' = lastSnapshot
  PROVE  ApartInv'
BY DEF ApartInv, History!SnapshotsApart

LEMMA NextApart ==
  ASSUME HistoryTypes, ApartInv, [History!Next]_(History!vars), Interval \in Nat
  PROVE  ApartInv'
<1>1. \A x \in History!Known : x.life \in Nat /\ (x.kind = "snapshot" => x.at \in Int)
  BY HeldItems, ItemTypes
<1>2. resets \in Nat /\ lastSnapshot \in Int
  BY DEF HistoryTypes
<1>3. CASE History!Offer /\ \E item \in HistoryItems : Accepts(item)
  <2>1. PICK item \in HistoryItems : History!Offer /\ Accepts(item)
    BY <1>3
  <2>2. History!Known' = History!Known \union {item} /\ item.life = resets /\ resets' = resets
    BY <2>1, AcceptEffect DEF Accepts, History!Offer
  <2>3. CASE item.kind # "snapshot"
    <3>1. lastSnapshot' = lastSnapshot
      BY <2>1, <2>3 DEF Accepts, HistoryItems
    <3> QED
      BY <1>2, <2>2, <2>3, <3>1 DEF ApartInv, History!SnapshotsApart
  <2>4. CASE item.kind = "snapshot"
    <3>1. item.at - lastSnapshot >= Interval /\ lastSnapshot' = item.at /\ item.at \in Int
      BY <2>1, <2>4, ItemTypes DEF Accepts, History!Due
    <3>2. \A k \in History!Known : k.kind = "snapshot" /\ k.life = resets => item.at - k.at >= Interval
      BY <1>1, <1>2, <3>1 DEF ApartInv
    <3>3. History!SnapshotsApart'
      BY <2>2, <3>2 DEF ApartInv, History!SnapshotsApart
    <3>4. \A k \in History!Known' : k.kind = "snapshot" /\ k.life = resets => k.at <= item.at
      BY <1>1, <1>2, <2>2, <3>1, <3>2
    <3> QED
      BY <1>2, <2>2, <3>1, <3>3, <3>4 DEF ApartInv
  <2> QED
    BY <2>3, <2>4
<1>4. CASE UNCHANGED <<queue, hands, archive, resets, lastSnapshot>>
  BY <1>4, FewerApart DEF History!Known, History!InHand
<1>5. CASE \E f \in Clients : History!Take(f)
  BY <1>5, TakeEffect, FewerApart
<1>6. CASE \E f \in Clients : History!FindEmpty(f)
  BY <1>6, FindEmptyEffect, FewerApart DEF History!FindEmpty
<1>7. CASE \E f \in Clients : History!CommitAll(f)
  BY <1>7, CommitAllEffect, FewerApart DEF History!CommitAll
<1>8. CASE \E f \in Clients : History!CommitFails(f)
  BY <1>8, CommitFailsEffect, FewerApart DEF History!CommitFails
<1>9. CASE History!Clear \/ History!Restart
  <2>1. History!Known' \subseteq History!Known /\ resets' = resets + 1
    BY <1>9, ClearEffect, RestartEffect DEF History!Clear, History!Restart, History!Forget
  <2> QED
    BY <1>1, <1>2, <2>1 DEF ApartInv, History!SnapshotsApart
<1> QED
  BY <1>3, <1>4, <1>5, <1>6, <1>7, <1>8, <1>9, HistoryStep DEF History!Offer, History!Refuse, History!Tick, History!vars

-----------------------------------------------------------------------------
(* Turns.                                                                  *)

LEMMA NextTurns ==
  ASSUME HistoryTypes, NumbersInv, TurnsInv, [History!Next]_(History!vars)
  PROVE  TurnsInv'
<1>1. CASE UNCHANGED <<hands, archive, abreast>>
  BY <1>1 DEF TurnsInv, HeldBy, Archived, History!InHand, Increasing, AllBefore
<1>2. CASE \E f \in Clients : History!Take(f)
  <2>1. PICK f \in Clients : History!Take(f)
    BY <1>2
  <2>2. PICK e \in HistoryItems :
           /\ e = Head(queue)
           /\ hands'[f].items = Append(hands[f].items, e)
           /\ \A g \in Clients : g # f => hands'[g] = hands[g] /\ HeldBy(g)' = HeldBy(g)
           /\ History!InHand' = History!InHand \union {e} /\ Archived' = Archived /\ archive' = archive
    BY <2>1, TakeEffect
  <2>3. /\ e \in Queued /\ \A x \in History!InHand \union Archived : x.n < e.n
    BY <2>1, <2>2, TakenIsNew DEF History!Take
  <2>4. SUFFICES ASSUME ~abreast'
                 PROVE  /\ Increasing(archive')
                        /\ \A g \in Clients : Increasing(hands'[g].items)
                        /\ \A g, h \in Clients : g # h => HeldBy(g)' = {} \/ HeldBy(h)' = {}
                        /\ AllBefore(Archived', History!InHand')
    BY DEF TurnsInv, Increasing, AllBefore
  <2>5. ~abreast /\ \A other \in Clients \ {f} : hands[other].items = <<>>
    BY <2>1, <2>4 DEF History!Take
  <2>6. \A g \in Clients : g # f => HeldBy(g)' = {}
    BY <2>2, <2>5 DEF HeldBy, History!ToSet
  <2>7. Increasing(hands'[f].items)
    <3>1. hands[f].items \in Seq(HistoryItems) /\ Increasing(hands[f].items)
      BY <2>5, HeldItems DEF TurnsInv
    <3>2. \A x \in History!ToSet(hands[f].items) : x.n < e.n
      BY <2>3, HeldItems DEF HeldBy
    <3> QED
      BY <2>2, <3>1, <3>2, IncreasingAppend
  <2>8. \A g \in Clients : Increasing(hands'[g].items)
    BY <2>2, <2>5, <2>7 DEF TurnsInv
  <2>9. AllBefore(Archived', History!InHand')
    BY <2>2, <2>3, <2>5 DEF TurnsInv, AllBefore
  <2> QED
    BY <2>2, <2>5, <2>6, <2>8, <2>9 DEF TurnsInv
<1>3. CASE \E f \in Clients : History!FindEmpty(f)
  <2>1. PICK f \in Clients : History!FindEmpty(f)
    BY <1>3
  <2>2. /\ \A g \in Clients : hands'[g].items = hands[g].items /\ HeldBy(g)' = HeldBy(g)
        /\ History!InHand' = History!InHand /\ Archived' = Archived /\ archive' = archive /\ abreast' = abreast
    BY <2>1, FindEmptyEffect DEF History!FindEmpty
  <2> QED
    BY <2>2 DEF TurnsInv, Increasing, AllBefore
<1>4. ASSUME NEW f \in Clients, hands' = [hands EXCEPT ![f] = History!Rested], abreast' = abreast,
             \/ archive' = archive \/ History!CommitAll(f)
      PROVE  TurnsInv'
  <2>1. /\ HeldBy(f)' = {} /\ hands'[f].items = <<>>
        /\ \A g \in Clients : g # f => hands'[g] = hands[g] /\ HeldBy(g)' = HeldBy(g)
        /\ History!InHand' = UNION {HeldBy(g) : g \in Clients \ {f}}
    BY <1>4, RestEffect
  <2>2. SUFFICES ASSUME ~abreast
                 PROVE  /\ Increasing(archive')
                        /\ \A g \in Clients : Increasing(hands'[g].items)
                        /\ \A g, h \in Clients : g # h => HeldBy(g)' = {} \/ HeldBy(h)' = {}
                        /\ AllBefore(Archived', History!InHand')
    BY <1>4 DEF TurnsInv, Increasing, AllBefore
  <2>3. /\ Increasing(archive) /\ Increasing(hands[f].items) /\ AllBefore(Archived, History!InHand)
        /\ \A g \in Clients : Increasing(hands[g].items)
        /\ \A g, h \in Clients : g # h => HeldBy(g) = {} \/ HeldBy(h) = {}
    BY <2>2 DEF TurnsInv
  <2>4. \A g \in Clients : Increasing(hands'[g].items)
    <3>1. Increasing(<<>>)
      BY DEF Increasing
    <3> QED
      BY <2>1, <2>3, <3>1
  <2>5. History!InHand' \subseteq History!InHand /\ HeldBy(f) \subseteq History!InHand
    BY <2>1, HeldItems
  <2>6. CASE archive' = archive
    <3>1. AllBefore(Archived', History!InHand')
      BY <2>3, <2>5, <2>6 DEF AllBefore, Archived
    <3> QED
      BY <2>1, <2>3, <2>4, <2>6, <3>1
  <2>7. CASE History!CommitAll(f)
    <3>1. /\ archive' = archive \o hands[f].items /\ Archived' = Archived \union HeldBy(f)
          /\ archive \in Seq(HistoryItems) /\ hands[f].items \in Seq(HistoryItems)
      BY <2>7, CommitAllEffect, HeldItems DEF HistoryTypes
    <3>2. AllBefore(History!ToSet(archive), History!ToSet(hands[f].items))
      BY <2>3, <2>5 DEF AllBefore, Archived, HeldBy
    <3>3. Increasing(archive')
      BY <2>3, <3>1, <3>2, IncreasingConcat
    <3>4. AllBefore(Archived', History!InHand')
      <4>1. HeldBy(f) = {} \/ History!InHand' = {}
        BY <2>1, <2>3
      <4> QED
        BY <2>3, <2>5, <3>1, <4>1 DEF AllBefore
    <3> QED
      BY <2>1, <2>3, <2>4, <3>3, <3>4
  <2> QED
    BY <1>4, <2>6, <2>7
<1>5. CASE \E f \in Clients : History!CommitAll(f) \/ History!CommitFails(f)
  BY <1>4, <1>5 DEF History!CommitAll, History!CommitFails
<1>6. CASE History!Clear
  BY <1>1, <1>6 DEF History!Clear, History!Forget
<1>7. CASE History!Restart
  <2>1. /\ Archived' = Archived /\ History!InHand' = {} /\ archive' = archive /\ abreast' = abreast
        /\ \A f \in Clients : HeldBy(f)' = {} /\ hands'[f].items = <<>>
    BY <1>7, RestartEffect DEF History!Restart, History!Forget
  <2>2. Increasing(<<>>)
    BY DEF Increasing
  <2>3. \A f \in Clients : Increasing(hands'[f].items)
    BY <2>1, <2>2
  <2> QED
    BY <2>1, <2>3 DEF TurnsInv, Increasing, AllBefore
<1> QED
  BY <1>1, <1>2, <1>3, <1>5, <1>6, <1>7, HistoryStep DEF History!Offer, History!Tick, History!vars

-----------------------------------------------------------------------------
(* The theorem.                                                            *)

LEMMA InitHistory == ASSUME History!Init, Interval \in Nat PROVE HistoryInv
<1>1. \A f \in Clients : hands[f] = History!Rested /\ HeldBy(f) = {} /\ hands[f].items = <<>>
  BY DEF History!Init, HeldBy, History!Rested, History!ToSet
<1>2. Queued = {} /\ Archived = {} /\ History!InHand = {} /\ History!Known = {}
  <2>1. Queued = {} /\ Archived = {}
    BY DEF History!Init, Queued, Archived, History!ToSet
  <2>2. History!InHand = {}
    BY <1>1 DEF History!InHand, HeldBy
  <2> QED
    BY <2>1, <2>2 DEF History!Known, Queued, Archived
<1>3. <<>> \in Seq(HistoryItems) /\ Len(<<>>) = 0 /\ Increasing(<<>>)
  BY DEF Increasing
<1>4. Cardinality({}) = 0 /\ IsFiniteSet({})
  BY FS_EmptySet
<1>5. HistoryTypes
  <2>1. History!Rested \in [items : Seq(HistoryItems), phase : {"rest", "take", "write"}]
    BY DEF History!Rested
  <2> QED
    BY <1>3, <2>1 DEF History!Init, HistoryTypes, History!Never
<1>6. NumbersInv
  BY <1>1, <1>2, <1>3, <1>4 DEF History!Init, NumbersInv, AllBefore
<1>7. TurnsInv
  BY <1>1, <1>2, <1>3 DEF History!Init, TurnsInv, AllBefore
<1>8. ApartInv
  BY <1>2 DEF ApartInv, History!SnapshotsApart
<1>9. History!RecordsCounted
  BY HistoryCardinality, <1>2, <1>3, <1>4 DEF History!Init, History!RecordsCounted
<1>10. History!GroupsKnown
  BY DEF History!Init, History!GroupsKnown
<1> QED
  BY <1>5, <1>6, <1>7, <1>8, <1>9, <1>10 DEF HistoryInv

LEMMA NextHistory == ASSUME HistoryInv, [History!Next]_(History!vars), Interval \in Nat PROVE HistoryInv'
<1>1. IsFiniteSet(History!InHand)
  BY DEF HistoryInv, NumbersInv
<1> QED
  BY <1>1, NextHistoryTypes, NextOrder, NextTurns, NextApart, NextCounted, NextGroups DEF HistoryInv

-----------------------------------------------------------------------------
(* The intelligence store *)

(* There are finitely many tracks, 0 is none, and observations have a place. *)
StoreOK ==
  /\ IsFiniteSet(Tracks) /\ Tracks \subseteq Int /\ 0 \notin Tracks
  /\ \A o \in Moves : o.at \in Int
  /\ \A l \in Layouts : DOMAIN l \subseteq Tracks /\ \A t \in DOMAIN l : l[t].at \in Int

Mind == [state : {"NORMAL", "COORDINATED"}, pending : {"NONE", "NORMAL", "COORDINATED"},
         ticks : Nat]

StoreTypes ==
  /\ DOMAIN trackRows \subseteq Tracks /\ \A t \in DOMAIN trackRows : trackRows[t].at \in Int
  /\ open \subseteq DOMAIN trackRows
  /\ holding = [r \in Requests |-> holding[r]]
  /\ \A r \in Requests :
       holding[r] = Store!Idle
         \/ (holding[r].track \in DOMAIN trackRows /\ holding[r].obs.at \in Int)
  /\ DOMAIN tracks \subseteq DOMAIN trackRows /\ \A t \in DOMAIN tracks : tracks[t].at \in Int
  /\ \A t \in DOMAIN mind : mind[t] \in Mind
  /\ {} \notin DOMAIN groups
  /\ spoiled \in BOOLEAN

(* What the pipeline remembers of its own updates is in the history.       *)
Remembered ==
  /\ \A t \in DOMAIN lastBehaviors : t \in DOMAIN told /\ told[t] = lastBehaviors[t]
  /\ \A g \in DOMAIN roster : g \in DOMAIN ledger /\ ledger[g] = roster[g]

(* Correlated tracks share a group.                                        *)
Together(pic, grouping) ==
  \A t, u \in DOMAIN pic : t # u /\ Store!Correlated(pic[t], pic[u]) =>
      \E g \in DOMAIN grouping : {t, u} \subseteq grouping[g]

(* No part of a group is uncorrelated with the rest of it.                 *)
Connected(pic, group) ==
  \A some \in (SUBSET group) \ {{}, group} :
      \E t \in some, u \in group \ some : Store!Correlated(pic[t], pic[u])

(* A track is in the group it is at home in, and in no other.              *)
AtHome(homes, grouping) ==
  /\ \A g \in DOMAIN grouping : \A t \in grouping[g] : t \in DOMAIN homes /\ homes[t] = g
  /\ \A t \in DOMAIN homes : homes[t] \in DOMAIN grouping /\ t \in grouping[homes[t]]

GroupsInv ==
  /\ Together(tracks, groups)
  /\ \A g \in DOMAIN groups : Connected(tracks, groups[g])
  /\ AtHome(home, groups)

StoreInv ==
  /\ StoreTypes /\ Store!SameTracks /\ Remembered /\ Store!TracksFresh /\ Store!HistoryCurrent
  /\ ~spoiled => GroupsInv /\ Store!PrioritiesCurrent

(* A set of natural numbers has a least element.                          *)
LEMMA LeastNatural ==
  ASSUME NEW S, S \subseteq Nat, S # {}
  PROVE  \E x \in S : \A y \in S : x <= y
<1>1. \E x \in S : \A y \in S : ~(<<y, x>> \in OpToRel(<, Nat))
  BY NatLessThanWellFounded, WFMin
<1>2. \A x, y \in Nat : <<y, x>> \in OpToRel(<, Nat) <=> y < x
  BY DEF OpToRel
<1>3. \E x \in S : \A y \in S : ~(y < x)
  BY <1>1, <1>2, Zenon
<1> QED
  BY <1>3

-----------------------------------------------------------------------------
(* Components *)

(* The tracks correlated with one of some, and the waves of the traversal  *)
(* from a track.                                                           *)
Neighbours(pic, some) ==
  UNION {{c \in Store!Candidates(pic, m) : Store!Correlated(pic[m], pic[c])} : m \in some}

Waves(w, pic, t, n) ==
  w = [k \in 0..n |-> IF k = 0 THEN {t} ELSE w[k - 1] \union Neighbours(pic, w[k - 1])]

(* The waves can be counted as far as one likes.                           *)
LEMMA WavesExist ==
  ASSUME NEW pic, NEW t, NEW n \in Nat
  PROVE  \E w : Waves(w, pic, t, n)
<1> DEFINE bad == {k \in Nat : ~ \E w : Waves(w, pic, t, k)}
<1>1. SUFFICES ASSUME bad # {} PROVE FALSE
  OBVIOUS
<1>2. PICK k \in bad : \A j \in bad : k <= j
  BY <1>1, LeastNatural
<1>3. k \in Nat /\ ~ \E w : Waves(w, pic, t, k)
  OBVIOUS
<1>4. CASE k = 0
  <2> DEFINE w == [j \in 0..0 |-> {t}]
  <2>1. Waves(w, pic, t, 0)
    BY DEF Waves
  <2> QED
    BY <1>3, <1>4, <2>1
<1>5. CASE k # 0
  <2>1. k - 1 \in Nat /\ k - 1 \notin bad
    BY <1>2, <1>3, <1>5
  <2>2. PICK w : Waves(w, pic, t, k - 1)
    BY <2>1
  <2> DEFINE v == [j \in 0..k |-> IF j <= k - 1 THEN w[j]
                                  ELSE w[k - 1] \union Neighbours(pic, w[k - 1])]
  <2>3. \A j \in 0..(k - 1) :
          w[j] = IF j = 0 THEN {t} ELSE w[j - 1] \union Neighbours(pic, w[j - 1])
    BY <2>2 DEF Waves
  <2>4. ASSUME NEW j \in 0..k
        PROVE  v[j] = IF j = 0 THEN {t} ELSE v[j - 1] \union Neighbours(pic, v[j - 1])
    <3>1. CASE j = k
      <4>1. v[k] = w[k - 1] \union Neighbours(pic, w[k - 1]) /\ v[k - 1] = w[k - 1]
        BY <1>3, <1>5, <2>1
      <4> QED
        BY <1>5, <3>1, <4>1
    <3>2. CASE j # k
      <4>1. j \in 0..(k - 1) /\ v[j] = w[j] /\ (j # 0 => v[j - 1] = w[j - 1])
        BY <1>3, <3>2
      <4> QED
        BY <2>3, <4>1
    <3> QED
      BY <3>1, <3>2
  <2>5. v = [j \in 0..k |-> v[j]]
    OBVIOUS
  <2> HIDE DEF v
  <2>6. Waves(v, pic, t, k)
    BY <2>4, <2>5 DEF Waves
  <2> QED
    BY <1>3, <2>6
<1> QED
  BY <1>4, <1>5

(* The store's own copy of Cardinality is the library's.                   *)
LEMMA StoreCardinality == \A S : Store!Cardinality(S) = Cardinality(S)
BY DEF Store!Cardinality, Cardinality

(* What is reached is the last wave of as many as there are tracks.        *)
LEMMA ReachIs ==
  ASSUME NEW pic, NEW t, Cardinality(DOMAIN pic) \in Nat
  PROVE  \E w : Waves(w, pic, t, Cardinality(DOMAIN pic))
                /\ Store!Reach(pic, t) = w[Cardinality(DOMAIN pic)]
<1> DEFINE n == Store!Cardinality(DOMAIN pic)
           w == CHOOSE near : Waves(near, pic, t, n)
<1>1. n = Cardinality(DOMAIN pic)
  BY StoreCardinality
<1>2. Waves(w, pic, t, n)
  BY <1>1, WavesExist
<1>3. Store!Reach(pic, t) = w[n]
  BY DEF Store!Reach, Waves, Neighbours
<1> QED
  BY <1>1, <1>2, <1>3

(* Correlation goes both ways, and only between cells side by side.        *)
LEMMA CorrelatedTracks ==
  ASSUME NEW a, NEW b, a.at \in Int, b.at \in Int, Store!Correlated(a, b)
  PROVE  Store!Correlated(b, a) /\ Store!Cell(b) - Store!Cell(a) \in -1..1
<1>1. \A x, y \in Int : x - y \in -2..2 => y - x \in -2..2 /\ (y \div 2) - (x \div 2) \in -1..1
  OBVIOUS
<1> QED
  BY <1>1 DEF Store!Correlated, Store!Cell

(* Who is correlated with one of some is their neighbour.                  *)
LEMMA NeighboursAre ==
  ASSUME NEW pic, NEW some, NEW m \in some, m \in DOMAIN pic, NEW c \in DOMAIN pic, c # m,
         \A x \in DOMAIN pic : pic[x].at \in Int, Store!Correlated(pic[m], pic[c])
  PROVE  c \in Neighbours(pic, some)
<1>1. c \in Store!Candidates(pic, m)
  BY CorrelatedTracks DEF Store!Candidates
<1> QED
  BY <1>1 DEF Neighbours

(* A wave is the one before it with its neighbours.                        *)
LEMMA WavesGrow ==
  ASSUME NEW pic, NEW t \in DOMAIN pic, NEW n \in Nat, NEW w, Waves(w, pic, t, n)
  PROVE  /\ w[0] = {t}
         /\ \A k \in 0..n : k + 1 \in 0..n => w[k + 1] = w[k] \union Neighbours(pic, w[k])
         /\ \A k \in 0..n : t \in w[k] /\ w[k] \subseteq DOMAIN pic
<1>1. w[0] = {t}
  BY DEF Waves
<1>2. \A k \in 0..n : k + 1 \in 0..n => w[k + 1] = w[k] \union Neighbours(pic, w[k])
  <2> SUFFICES ASSUME NEW k \in 0..n, k + 1 \in 0..n
               PROVE  w[k + 1] = w[k] \union Neighbours(pic, w[k])
    OBVIOUS
  <2>1. k + 1 # 0 /\ (k + 1) - 1 = k
    OBVIOUS
  <2> QED
    BY <2>1 DEF Waves
<1>3. \A some : Neighbours(pic, some) \subseteq DOMAIN pic
  BY DEF Neighbours, Store!Candidates
<1>4. \A k \in 0..n : t \in w[k] /\ w[k] \subseteq DOMAIN pic
  <2> DEFINE bad == {k \in 0..n : ~(t \in w[k] /\ w[k] \subseteq DOMAIN pic)}
  <2>1. SUFFICES ASSUME bad # {} PROVE FALSE
    OBVIOUS
  <2>2. bad \subseteq Nat
    OBVIOUS
  <2>3. PICK k \in bad : \A j \in bad : k <= j
    BY <2>1, <2>2, LeastNatural
  <2>4. k # 0
    BY <1>1
  <2>5. k - 1 \in 0..n /\ k - 1 \notin bad /\ (k - 1) + 1 = k
    BY <2>3, <2>4
  <2>6. w[k] = w[k - 1] \union Neighbours(pic, w[k - 1])
    BY <1>2, <2>5
  <2> QED
    BY <1>3, <2>5, <2>6
<1> QED
  BY <1>1, <1>2, <1>4

(* Each wave but the last that finds a track has more tracks than waves    *)
(* have passed; so the last one finds nothing more.                        *)
LEMMA WavesEnd ==
  ASSUME NEW pic, NEW t \in DOMAIN pic, IsFiniteSet(DOMAIN pic), NEW n \in Nat,
         n = Cardinality(DOMAIN pic), NEW w, Waves(w, pic, t, n)
  PROVE  Neighbours(pic, w[n]) \subseteq w[n]
<1> DEFINE Ended(k) == Neighbours(pic, w[k]) \subseteq w[k]
           size(k) == Cardinality(w[k])
           bad == {k \in 0..n : ~Ended(k) /\ ~(size(k) >= k + 1)}
<1>1. \A k \in 0..n : IsFiniteSet(w[k]) /\ size(k) \in Nat /\ size(k) <= n
  BY WavesGrow, FS_Subset, FS_CardinalityType
<1>2. bad = {}
  <2>1. SUFFICES ASSUME bad # {} PROVE FALSE
    OBVIOUS
  <2>2. bad \subseteq Nat
    OBVIOUS
  <2>3. PICK k \in bad : \A j \in bad : k <= j
    BY <2>1, <2>2, LeastNatural
  <2>4. size(0) = 1
    <3>1. w[0] = {t}
      BY WavesGrow
    <3> QED
      BY <3>1, FS_Singleton
  <2>5. k # 0
    <3>1. size(0) >= 0 + 1
      BY <2>4
    <3> QED
      BY <3>1
  <2>6. k - 1 \in 0..n /\ k - 1 \notin bad /\ (k - 1) + 1 = k /\ k \in 0..n
    BY <2>3, <2>5
  <2>7. w[k] = w[k - 1] \union Neighbours(pic, w[k - 1])
    BY <2>6, WavesGrow
  <2>8. CASE Ended(k - 1)
    <3>1. w[k] = w[k - 1]
      BY <2>7, <2>8
    <3> QED
      BY <2>8, <3>1
  <2>9. CASE ~Ended(k - 1)
    <3>1. w[k - 1] \subseteq w[k] /\ w[k - 1] # w[k]
      BY <2>7, <2>9
    <3>2. size(k - 1) < size(k)
      BY <1>1, <2>6, <3>1, FS_Subset
    <3>3. size(k - 1) >= k
      BY <2>6, <2>9
    <3>4. size(k - 1) \in Nat /\ size(k) \in Nat /\ k \in Nat
      BY <1>1, <2>6
    <3> HIDE DEF size
    <3>5. size(k) >= k + 1
      BY <3>2, <3>3, <3>4
    <3> QED
      BY <3>5
  <2> QED
    BY <2>8, <2>9
<1>3. n \in 0..n /\ ~(size(n) >= n + 1)
  BY <1>1
<1> QED
  BY <1>2, <1>3

(* What the traversal reaches from a track: tracks, connected with each    *)
(* other and correlated with no other.                                     *)
LEMMA ReachOK ==
  ASSUME NEW pic, IsFiniteSet(DOMAIN pic), \A x \in DOMAIN pic : pic[x].at \in Int,
         NEW t \in DOMAIN pic
  PROVE  /\ t \in Store!Reach(pic, t) /\ Store!Reach(pic, t) \subseteq DOMAIN pic
         /\ Connected(pic, Store!Reach(pic, t))
         /\ \A x \in Store!Reach(pic, t), y \in DOMAIN pic :
              x # y /\ Store!Correlated(pic[x], pic[y]) => y \in Store!Reach(pic, t)
<1> DEFINE n == Cardinality(DOMAIN pic)
<1>1. n \in Nat
  BY FS_CardinalityType
<1>2. PICK w : Waves(w, pic, t, n) /\ Store!Reach(pic, t) = w[n]
  BY <1>1, ReachIs
<1>3. /\ w[0] = {t}
      /\ \A k \in 0..n : k + 1 \in 0..n => w[k + 1] = w[k] \union Neighbours(pic, w[k])
      /\ \A k \in 0..n : t \in w[k] /\ w[k] \subseteq DOMAIN pic
  BY <1>1, <1>2, WavesGrow
<1>4. Neighbours(pic, w[n]) \subseteq w[n]
  BY <1>1, <1>2, WavesEnd
<1>5. n \in 0..n
  BY <1>1
<1> HIDE DEF n
<1>6. \A x \in w[n], y \in DOMAIN pic : x # y /\ Store!Correlated(pic[x], pic[y]) => y \in w[n]
  BY <1>3, <1>4, <1>5, NeighboursAre
<1>7. ASSUME NEW some \in SUBSET w[n], some # w[n], t \in some
      PROVE  \E p \in some, q \in w[n] \ some : Store!Correlated(pic[p], pic[q])
  <2> DEFINE out == {k \in 0..n : ~(w[k] \subseteq some)}
  <2>1. out \subseteq Nat /\ n \in out
    BY <1>5, <1>7
  <2>2. PICK k \in out : \A j \in out : k <= j
    BY <2>1, LeastNatural
  <2>3. k # 0
    BY <1>3, <1>7
  <2>4. k \in 0..n /\ k - 1 \in 0..n /\ k - 1 \notin out /\ (k - 1) + 1 = k
    BY <1>1, <2>2, <2>3
  <2>5. w[k - 1] \subseteq some /\ w[k] = w[k - 1] \union Neighbours(pic, w[k - 1])
    BY <1>3, <2>4
  <2>6. PICK q \in w[k] : q \notin some
    BY <2>2
  <2>7. q \in Neighbours(pic, w[k - 1])
    BY <2>5, <2>6
  <2>8. PICK p \in w[k - 1] : q \in Store!Candidates(pic, p) /\ Store!Correlated(pic[p], pic[q])
    BY <2>7 DEF Neighbours
  <2>9. p \in some /\ p \in w[n] /\ p \in DOMAIN pic /\ q \in DOMAIN pic /\ p # q
    BY <1>3, <1>5, <1>7, <2>4, <2>5, <2>8 DEF Store!Candidates
  <2>10. q \in w[n]
    BY <1>6, <2>8, <2>9
  <2> QED
    BY <2>6, <2>8, <2>9, <2>10
<1>8. Connected(pic, w[n])
  <2> SUFFICES ASSUME NEW some \in (SUBSET w[n]) \ {{}, w[n]}
               PROVE  \E p \in some, q \in w[n] \ some : Store!Correlated(pic[p], pic[q])
    BY DEF Connected
  <2>0. some \in SUBSET w[n] /\ some # {} /\ some # w[n]
    OBVIOUS
  <2>1. CASE t \in some
    BY <1>7, <2>0, <2>1
  <2>2. CASE t \notin some
    <3>1. w[n] \ some \in SUBSET w[n] /\ w[n] \ some # w[n] /\ t \in w[n] \ some
      BY <1>3, <1>5, <2>0, <2>2
    <3>2. PICK p \in w[n] \ some, q \in w[n] \ (w[n] \ some) : Store!Correlated(pic[p], pic[q])
      BY <1>7, <3>1
    <3>3. q \in some /\ p \in DOMAIN pic /\ q \in DOMAIN pic
      BY <1>3, <1>5, <2>0, <3>2
    <3>4. Store!Correlated(pic[q], pic[p])
      BY <3>2, <3>3, CorrelatedTracks
    <3> QED
      BY <3>2, <3>3, <3>4
  <2> QED
    BY <2>1, <2>2
<1> QED
  BY <1>2, <1>3, <1>5, <1>6, <1>8

(* Connected sets of which each contains what is correlated with it are    *)
(* equal when they meet.                                                   *)
LEMMA MeetingSets ==
  ASSUME NEW pic, NEW c, NEW d, c \subseteq DOMAIN pic, c \intersect d # {},
         Connected(pic, c),
         \A x \in d, y \in DOMAIN pic : x # y /\ Store!Correlated(pic[x], pic[y]) => y \in d
  PROVE  c \subseteq d
<1> SUFFICES ASSUME ~(c \subseteq d) PROVE FALSE
  OBVIOUS
<1>1. c \intersect d \in (SUBSET c) \ {{}, c}
  <2>1. PICK z \in c : z \notin d
    OBVIOUS
  <2>2. c \intersect d # c
    BY <2>1
  <2> QED
    BY <2>2
<1>2. PICK p \in c \intersect d, q \in c \ (c \intersect d) : Store!Correlated(pic[p], pic[q])
  BY <1>1 DEF Connected
<1> QED
  BY <1>2

(* The components of the tracks in sight.                                  *)
LEMMA ComponentsOK ==
  ASSUME NEW pic, IsFiniteSet(DOMAIN pic), \A x \in DOMAIN pic : pic[x].at \in Int
  PROVE  /\ \A c \in Store!Components(pic) : c \subseteq DOMAIN pic /\ c # {}
              /\ Connected(pic, c)
         /\ \A c, d \in Store!Components(pic) : c \intersect d # {} => c = d
         /\ \A x, y \in DOMAIN pic : x # y /\ Store!Correlated(pic[x], pic[y]) =>
               \E c \in Store!Components(pic) : {x, y} \subseteq c
         /\ IsFiniteSet(Store!Components(pic))
<1>1. ASSUME NEW c \in Store!Components(pic)
      PROVE  \E t \in DOMAIN pic : c = Store!Reach(pic, t)
  BY DEF Store!Components
<1>2. \A c \in Store!Components(pic) : c \subseteq DOMAIN pic /\ c # {} /\ Connected(pic, c)
  BY <1>1, ReachOK
<1>3. ASSUME NEW c \in Store!Components(pic), NEW d \in Store!Components(pic),
             c \intersect d # {}
      PROVE  c \subseteq d
  <2>1. PICK u \in DOMAIN pic : d = Store!Reach(pic, u)
    BY <1>1
  <2>2. \A x \in d, y \in DOMAIN pic : x # y /\ Store!Correlated(pic[x], pic[y]) => y \in d
    BY <2>1, ReachOK
  <2> QED
    BY <1>2, <1>3, <2>2, MeetingSets
<1>4. ASSUME NEW x \in DOMAIN pic, NEW y \in DOMAIN pic, x # y, Store!Correlated(pic[x], pic[y])
      PROVE  \E c \in Store!Components(pic) : {x, y} \subseteq c
  <2> DEFINE c == Store!Reach(pic, x)
  <2>1. x \in c /\ y \in c /\ c \subseteq DOMAIN pic
    BY <1>4, ReachOK
  <2> HIDE DEF c
  <2>2. IsFiniteSet(c) /\ Cardinality(c) \in Nat
    BY <2>1, FS_Subset, FS_CardinalityType
  <2>3. Cardinality(c) # 0 /\ Cardinality(c) # 1
    <3>1. c # {} /\ ~ \E z : c = {z}
      BY <1>4, <2>1
    <3> QED
      BY <2>2, <3>1, FS_EmptySet, FS_Singleton
  <2>4. Cardinality(c) >= 2
    BY <2>2, <2>3
  <2>5. c \in Store!Components(pic)
    BY StoreCardinality, <2>4 DEF c, Store!Components
  <2> QED
    BY <2>1, <2>5
<1>5. IsFiniteSet(Store!Components(pic))
  <2>1. Store!Components(pic) \in SUBSET SUBSET DOMAIN pic
    BY <1>2
  <2> QED
    BY <2>1, FS_SUBSET, FS_Subset
<1>6. ASSUME NEW c \in Store!Components(pic), NEW d \in Store!Components(pic),
             c \intersect d # {}
      PROVE  c = d
  <2>1. c \subseteq d /\ d \subseteq c
    BY <1>3, <1>6
  <2> QED
    BY <2>1
<1> QED
  BY <1>2, <1>4, <1>5, <1>6

-----------------------------------------------------------------------------
(* Identifiers *)

(* A finite set of integers has a least and a greatest element.            *)
LEMMA FiniteEnds ==
  ASSUME NEW S, S \subseteq Int, IsFiniteSet(S), S # {}
  PROVE  (\E m \in S : \A x \in S : m <= x) /\ (\E m \in S : \A x \in S : x <= m)
<1> DEFINE Ends(T) == (\E m \in T : \A x \in T : m <= x) /\ (\E m \in T : \A x \in T : x <= m)
           bad == {k \in Nat : \E T : /\ T \subseteq Int /\ IsFiniteSet(T) /\ T # {}
                                      /\ Cardinality(T) = k /\ ~Ends(T)}
<1>1. SUFFICES ASSUME bad # {} PROVE FALSE
  <2>1. Cardinality(S) \in Nat
    BY FS_CardinalityType
  <2>2. ~Ends(S) => Cardinality(S) \in bad
    BY <2>1
  <2> QED
    BY <2>2
<1>2. PICK k \in bad : \A j \in bad : k <= j
  BY <1>1, LeastNatural
<1>3. PICK T : T \subseteq Int /\ IsFiniteSet(T) /\ T # {} /\ Cardinality(T) = k /\ ~Ends(T)
  OBVIOUS
<1>4. PICK y \in T : TRUE
  BY <1>3
<1>5. y \in Int
  BY <1>3
<1> DEFINE R == T \ {y}
<1>6. R \subseteq Int /\ IsFiniteSet(R) /\ Cardinality(R) = k - 1 /\ Cardinality(R) \in Nat
  BY <1>3, FS_RemoveElement, FS_CardinalityType
<1>7. k - 1 \notin bad
  BY <1>2, <1>6
<1>8. R = {} \/ Ends(R)
  BY <1>6, <1>7
<1>9. \A x \in T : x = y \/ x \in R
  OBVIOUS
<1>10. R \subseteq T
  OBVIOUS
<1>11. CASE R = {}
  <2>1. \A x \in T : x = y
    BY <1>9, <1>11
  <2> QED
    BY <1>3, <1>5, <2>1
<1>12. CASE R # {}
  <2>1. PICK low \in R, high \in R : \A x \in R : low <= x /\ x <= high
    BY <1>8, <1>12
  <2>2. low \in Int /\ high \in Int /\ \A x \in R : x \in Int
    BY <1>6
  <2> HIDE DEF R, bad
  <2>3. \E m \in T : \A x \in T : m <= x
    <3>1. CASE y <= low
      <4>1. \A x \in R : y <= x
        BY <1>5, <2>1, <2>2, <3>1
      <4> QED
        BY <1>5, <1>9, <4>1
    <3>2. CASE ~(y <= low)
      <4>1. low <= y
        BY <1>5, <2>2, <3>2
      <4> QED
        BY <1>9, <1>10, <2>1, <4>1
    <3> QED
      BY <3>1, <3>2
  <2>4. \E m \in T : \A x \in T : x <= m
    <3>1. CASE high <= y
      <4>1. \A x \in R : x <= y
        BY <1>5, <2>1, <2>2, <3>1
      <4> QED
        BY <1>5, <1>9, <4>1
    <3>2. CASE ~(high <= y)
      <4>1. y <= high
        BY <1>5, <2>2, <3>2
      <4> QED
        BY <1>9, <1>10, <2>1, <4>1
    <3> QED
      BY <3>1, <3>2
  <2> QED
    BY <1>3, <2>3, <2>4
<1> QED
  BY <1>11, <1>12

(* A group of integers has a first one.                                    *)
LEMMA FirstTrack ==
  ASSUME NEW c, c \subseteq Int, IsFiniteSet(c), c # {}
  PROVE  Store!First(c) \in Int
<1>1. \E t \in c : \A u \in c : t <= u
  BY FiniteEnds
<1> QED
  BY <1>1 DEF Store!First

(* Every component gets a name, one of the old ones or a new one.          *)
LEMMA GroupingsOK ==
  ASSUME NEW pic, NEW old, {} \notin DOMAIN old, NEW f \in Store!Groupings(pic, old),
         \A c \in Store!Components(pic) : c # {}
  PROVE  /\ DOMAIN f = Store!Components(pic) /\ f \in [Store!Components(pic) -> Store!Range(f)]
         /\ \A c \in Store!Components(pic) : f[c] # {} /\ (f[c] = c \/ f[c] \in DOMAIN old)
<1>1. DOMAIN f = Store!Components(pic) /\ f = [c \in Store!Components(pic) |-> f[c]]
      /\ \A c \in Store!Components(pic) : f[c] \in Store!Identifiers(c, old)
  BY DEF Store!Groupings
<1>2. \A c : Store!Identifiers(c, old) \subseteq {c} \union DOMAIN old
  BY DEF Store!Identifiers, Store!Heirs
<1>3. \A c \in Store!Components(pic) : f[c] \in Store!Range(f)
  BY <1>1 DEF Store!Range
<1> QED
  BY <1>1, <1>2, <1>3

(* What a grouping of the tracks in sight makes of them.                   *)
LEMMA FoundOK ==
  ASSUME StoreOK, NEW pic, DOMAIN pic \subseteq Tracks, \A x \in DOMAIN pic : pic[x].at \in Int,
         NEW old, {} \notin DOMAIN old, NEW f \in Store!Groupings(pic, old)
  PROVE  /\ \A g \in DOMAIN Store!ByIdentifier(f) :
              /\ g # {} /\ Store!ByIdentifier(f)[g] \in Store!Components(pic)
              /\ f[Store!ByIdentifier(f)[g]] = g
         /\ \A c \in Store!Components(pic) : f[c] \in DOMAIN Store!ByIdentifier(f)
         /\ \A t \in DOMAIN Store!HomeOf(f) :
              \E c \in Store!Components(pic) : t \in c /\ Store!HomeOf(f)[t] = f[c]
         /\ \A c \in Store!Components(pic) : c \subseteq DOMAIN Store!HomeOf(f)
         /\ ~(Cardinality(DOMAIN Store!ByIdentifier(f)) < Cardinality(DOMAIN f)) =>
              \A c \in Store!Components(pic) : Store!ByIdentifier(f)[f[c]] = c
<1> DEFINE parts == Store!Components(pic)
           found == Store!ByIdentifier(f)
<1>1. IsFiniteSet(DOMAIN pic)
  BY FS_Subset DEF StoreOK
<1>2. /\ \A c \in parts : c \subseteq DOMAIN pic /\ c # {}
      /\ IsFiniteSet(parts)
  BY <1>1, ComponentsOK
<1>3. /\ DOMAIN f = parts /\ f \in [parts -> Store!Range(f)]
      /\ \A c \in parts : f[c] # {} /\ (f[c] = c \/ f[c] \in DOMAIN old)
  BY <1>2, GroupingsOK
<1>4. \A c \in parts : Store!First(c) \in Int
  <2>1. \A c \in parts : c \subseteq Int /\ IsFiniteSet(c) /\ c # {}
    BY <1>1, <1>2, FS_Subset DEF StoreOK
  <2> HIDE DEF parts
  <2> QED
    BY <2>1, FirstTrack
<1>5. Store!Range(f) = {f[c] : c \in parts} /\ DOMAIN found = Store!Range(f)
  BY <1>3 DEF Store!Range, Store!ByIdentifier
<1> HIDE DEF parts
<1>6. ASSUME NEW g \in DOMAIN found
      PROVE  found[g] \in parts /\ f[found[g]] = g
  <2> DEFINE same == {c \in parts : f[c] = g}
             Last(c) == c \in DOMAIN f /\ f[c] = g
                        /\ \A d \in DOMAIN f : f[d] = g => Store!First(d) <= Store!First(c)
             firsts == {Store!First(c) : c \in same}
  <2>1. firsts \subseteq Int /\ firsts # {}
    BY <1>4, <1>5, <1>6
  <2>2. IsFiniteSet(firsts)
    <3>1. IsFiniteSet(same)
      BY <1>2, FS_Subset
    <3> DEFINE first == [c \in same |-> Store!First(c)]
    <3>2. first \in Surjection(same, firsts)
      BY DEF Surjection
    <3> HIDE DEF first, same, firsts
    <3> QED
      BY <3>1, <3>2, FS_Surjection
  <2>3. PICK n \in firsts : \A x \in firsts : x <= n
    BY <2>1, <2>2, FiniteEnds
  <2>4. PICK c \in same : n = Store!First(c)
    OBVIOUS
  <2>5. Last(c)
    BY <1>3, <2>3, <2>4
  <2>6. found[g] = CHOOSE d \in DOMAIN f :
                     /\ f[d] = g
                     /\ \A e \in DOMAIN f : f[e] = g => Store!First(e) <= Store!First(d)
    BY <1>5 DEF Store!ByIdentifier
  <2> QED
    BY <1>3, <2>5, <2>6
<1>7. DOMAIN Store!HomeOf(f) = UNION parts
  BY <1>3 DEF Store!HomeOf
<1>8. ASSUME NEW t \in DOMAIN Store!HomeOf(f)
      PROVE  \E c \in parts : t \in c /\ Store!HomeOf(f)[t] = f[c]
  <2>1. Store!HomeOf(f)[t] = f[CHOOSE c \in DOMAIN f : t \in c]
    BY <1>3, <1>7 DEF Store!HomeOf
  <2>2. \E c \in parts : t \in c
    BY <1>7
  <2> QED
    BY <1>3, <2>1, <2>2
<1>9. ASSUME ~(Cardinality(DOMAIN found) < Cardinality(DOMAIN f)), NEW c \in parts
      PROVE  found[f[c]] = c
  <2>1. f \in Surjection(parts, DOMAIN found)
    BY <1>3, <1>5 DEF Surjection
  <2>2. Cardinality(DOMAIN found) <= Cardinality(parts) /\ IsFiniteSet(DOMAIN found)
        /\ (Cardinality(DOMAIN found) = Cardinality(parts) <=> f \in Injection(parts, DOMAIN found))
    BY <1>2, <2>1, FS_Surjection
  <2>3. Cardinality(DOMAIN found) \in Nat /\ Cardinality(parts) \in Nat
    BY <1>2, <2>2, FS_CardinalityType
  <2>4. Cardinality(DOMAIN found) = Cardinality(parts)
    BY <1>3, <1>9, <2>2, <2>3
  <2>5. \A a, b \in parts : f[a] = f[b] => a = b
    BY <2>2, <2>4 DEF Injection, IsInjective
  <2>6. f[c] \in DOMAIN found
    BY <1>5
  <2> QED
    BY <1>6, <2>5, <2>6
<1>10. \A g \in DOMAIN found : g # {}
  BY <1>3, <1>5
<1> QED
  BY <1>5, <1>6, <1>7, <1>8, <1>9, <1>10 DEF parts

-----------------------------------------------------------------------------
(* Reclustering *)

(* What reclustering does: the affected tracks are grouped in parts, each  *)
(* with its identifier f, and the groups touched are replaced by those     *)
(* found.                                                                  *)
Reclustered(parts, f, found, pic, near, affected, touching, homes) ==
  /\ \A c \in parts : c \subseteq affected /\ c # {} /\ Connected(pic, c)
  /\ \A c, d \in parts : c \intersect d # {} => c = d
  /\ \A x, y \in affected : x # y /\ Store!Correlated(pic[x], pic[y]) =>
        \E c \in parts : {x, y} \subseteq c
  /\ \A g \in DOMAIN found : g # {} /\ found[g] \in parts /\ f[found[g]] = g
  /\ \A c \in parts : f[c] \in DOMAIN found
  /\ DOMAIN groups' = (DOMAIN found) \union ((DOMAIN groups) \ touching)
  /\ \A g \in DOMAIN found : groups'[g] = found[g]
  /\ \A g \in (DOMAIN groups) \ touching : g \notin DOMAIN found => groups'[g] = groups[g]
  /\ DOMAIN formed' = (DOMAIN found) \union ((DOMAIN formed) \ touching)
  /\ \A g \in (DOMAIN formed) \ touching : g \notin DOMAIN found => formed'[g] = formed[g]
  /\ \A t \in affected : t \in DOMAIN home' => \E c \in parts : t \in c /\ home'[t] = f[c]
  /\ \A c \in parts : c \subseteq DOMAIN home'
  /\ \A t : t \notin affected => (t \in DOMAIN home' <=> t \in DOMAIN homes)
                                 /\ (t \in DOMAIN homes => home'[t] = homes[t])
  /\ spoiled' \in BOOLEAN
  /\ ~spoiled' =>
        /\ ~spoiled
        /\ \A g \in touching \intersect DOMAIN groups :
              \/ groups[g] \intersect near # {}
              \/ groups[g] \intersect DOMAIN pic \subseteq affected
        /\ \A c \in parts : found[f[c]] = c
        /\ \A g \in DOMAIN found : g \notin (DOMAIN groups) \ touching

(* Reclustering fixes the parts, their names and the groups found.         *)
LEMMA ReclusterIs ==
  ASSUME StoreOK, NEW pic, NEW near, NEW affected, NEW touching, NEW homes,
         DOMAIN pic \subseteq Tracks, \A x \in DOMAIN pic : pic[x].at \in Int,
         affected \subseteq DOMAIN pic, {} \notin DOMAIN groups, spoiled \in BOOLEAN,
         Store!Recluster(pic, near, affected, touching, homes)
  PROVE  \E parts, f, found :
            Reclustered(parts, f, found, pic, near, affected, touching, homes)
<1> DEFINE sub == Store!Restrict(pic, affected)
           old == Store!Restrict(groups, touching \cap DOMAIN groups)
           parts == Store!Components(sub)
<1>1. PICK f \in Store!Groupings(sub, old) :
        LET found == Store!ByIdentifier(f)
            kept == Store!Without(groups, touching)
        IN /\ groups' = Store!Over(found, kept)
           /\ home' = Store!Over(Store!HomeOf(f), Store!Without(homes, affected))
           /\ formed' = Store!Over([g \in DOMAIN found |-> Store!Formation(pic, found[g])],
                            Store!Without(formed, touching))
           /\ spoiled' = (\/ spoiled
                          \/ \E g \in touching \cap DOMAIN groups :
                                 /\ groups[g] \cap near = {}
                                 /\ ~(groups[g] \cap DOMAIN pic \subseteq affected)
                          \/ Cardinality(DOMAIN found) < Cardinality(DOMAIN f)
                          \/ DOMAIN found \cap DOMAIN kept # {})
  BY StoreCardinality DEF Store!Recluster
<1> DEFINE found == Store!ByIdentifier(f)
<1>2. /\ DOMAIN sub = affected /\ \A x \in affected : sub[x] = pic[x]
      /\ DOMAIN sub \subseteq Tracks /\ \A x \in DOMAIN sub : sub[x].at \in Int
      /\ {} \notin DOMAIN old
  BY DEF Store!Restrict
<1>3. IsFiniteSet(DOMAIN sub)
  BY <1>2, FS_Subset DEF StoreOK
<1> HIDE DEF sub, old
<1>4. /\ \A c \in parts : c \subseteq affected /\ c # {} /\ Connected(sub, c)
      /\ \A c, d \in parts : c \intersect d # {} => c = d
      /\ \A x, y \in affected : x # y /\ Store!Correlated(sub[x], sub[y]) =>
            \E c \in parts : {x, y} \subseteq c
  BY <1>2, <1>3, ComponentsOK
<1>5. /\ \A g \in DOMAIN found : g # {} /\ found[g] \in parts /\ f[found[g]] = g
      /\ \A c \in parts : f[c] \in DOMAIN found
      /\ \A t \in DOMAIN Store!HomeOf(f) : \E c \in parts : t \in c /\ Store!HomeOf(f)[t] = f[c]
      /\ \A c \in parts : c \subseteq DOMAIN Store!HomeOf(f)
      /\ ~(Cardinality(DOMAIN found) < Cardinality(DOMAIN f)) =>
            \A c \in parts : found[f[c]] = c
  BY <1>2, FoundOK
<1>6. /\ groups' = Store!Over(found, Store!Without(groups, touching))
      /\ home' = Store!Over(Store!HomeOf(f), Store!Without(homes, affected))
      /\ formed' = Store!Over([g \in DOMAIN found |-> Store!Formation(pic, found[g])],
                       Store!Without(formed, touching))
  BY <1>1
<1>7. spoiled' = (\/ spoiled
                  \/ \E g \in touching \cap DOMAIN groups :
                         /\ groups[g] \cap near = {}
                         /\ ~(groups[g] \cap DOMAIN pic \subseteq affected)
                  \/ Cardinality(DOMAIN found) < Cardinality(DOMAIN f)
                  \/ DOMAIN found \cap DOMAIN Store!Without(groups, touching) # {})
  BY <1>1
<1> HIDE DEF parts, found
<1>8. \A c \in parts : Connected(pic, c)
  <2> SUFFICES ASSUME NEW c \in parts, NEW some \in (SUBSET c) \ {{}, c}
               PROVE  \E p \in some, q \in c \ some : Store!Correlated(pic[p], pic[q])
    BY DEF Connected
  <2>1. PICK p \in some, q \in c \ some : Store!Correlated(sub[p], sub[q])
    BY <1>4 DEF Connected
  <2>2. p \in affected /\ q \in affected
    BY <1>4
  <2> QED
    BY <1>2, <2>1, <2>2
<1>9. \A x, y \in affected : x # y /\ Store!Correlated(pic[x], pic[y]) =>
         \E c \in parts : {x, y} \subseteq c
  BY <1>2, <1>4
<1>10. \A h, S : DOMAIN Store!Without(h, S) = (DOMAIN h) \ S
                 /\ \A x \in (DOMAIN h) \ S : Store!Without(h, S)[x] = h[x]
  BY DEF Store!Without, Store!Restrict
<1>11. /\ DOMAIN groups' = (DOMAIN found) \union ((DOMAIN groups) \ touching)
       /\ \A g \in DOMAIN found : groups'[g] = found[g]
       /\ \A g \in (DOMAIN groups) \ touching : g \notin DOMAIN found => groups'[g] = groups[g]
  <2> DEFINE kept == Store!Without(groups, touching)
  <2>1. DOMAIN kept = (DOMAIN groups) \ touching
        /\ \A g \in (DOMAIN groups) \ touching : kept[g] = groups[g]
    BY <1>10
  <2>2. groups' = Store!Over(found, kept)
    BY <1>6
  <2> HIDE DEF kept
  <2> QED
    BY <2>1, <2>2 DEF Store!Over
<1>12. /\ DOMAIN formed' = (DOMAIN found) \union ((DOMAIN formed) \ touching)
       /\ \A g \in (DOMAIN formed) \ touching : g \notin DOMAIN found => formed'[g] = formed[g]
  <2> DEFINE forms == [g \in DOMAIN found |-> Store!Formation(pic, found[g])]
             kept == Store!Without(formed, touching)
  <2>1. DOMAIN forms = DOMAIN found
    OBVIOUS
  <2>2. DOMAIN kept = (DOMAIN formed) \ touching
        /\ \A g \in (DOMAIN formed) \ touching : kept[g] = formed[g]
    BY <1>10
  <2>3. formed' = Store!Over(forms, kept)
    BY <1>6
  <2> HIDE DEF forms, kept
  <2> QED
    BY <2>1, <2>2, <2>3 DEF Store!Over
<1>13. /\ DOMAIN home' = (DOMAIN Store!HomeOf(f)) \union ((DOMAIN homes) \ affected)
       /\ \A t \in DOMAIN Store!HomeOf(f) : home'[t] = Store!HomeOf(f)[t]
       /\ \A t \in (DOMAIN homes) \ affected :
             t \notin DOMAIN Store!HomeOf(f) => home'[t] = homes[t]
  <2> DEFINE named == Store!HomeOf(f)
             kept == Store!Without(homes, affected)
  <2>1. DOMAIN kept = (DOMAIN homes) \ affected
        /\ \A t \in (DOMAIN homes) \ affected : kept[t] = homes[t]
    BY <1>10
  <2>2. home' = Store!Over(named, kept)
    BY <1>6
  <2> HIDE DEF named, kept
  <2>3. /\ DOMAIN home' = (DOMAIN named) \union ((DOMAIN homes) \ affected)
        /\ \A t \in DOMAIN named : home'[t] = named[t]
        /\ \A t \in (DOMAIN homes) \ affected : t \notin DOMAIN named => home'[t] = homes[t]
    BY <2>1, <2>2 DEF Store!Over
  <2> QED
    BY <2>3 DEF named
<1>14. \A t \in DOMAIN Store!HomeOf(f) : t \in affected
  BY <1>4, <1>5
<1>15. \A t \in affected : t \in DOMAIN home' => \E c \in parts : t \in c /\ home'[t] = f[c]
  BY <1>5, <1>13
<1>16. \A c \in parts : c \subseteq DOMAIN home'
  BY <1>5, <1>13
<1>17. \A t : t \notin affected => (t \in DOMAIN home' <=> t \in DOMAIN homes)
                                   /\ (t \in DOMAIN homes => home'[t] = homes[t])
  BY <1>13, <1>14
<1>18. spoiled' \in BOOLEAN
  BY <1>7
<1>19. ASSUME ~spoiled'
       PROVE  /\ ~spoiled
              /\ \A g \in touching \intersect DOMAIN groups :
                    \/ groups[g] \intersect near # {}
                    \/ groups[g] \intersect DOMAIN pic \subseteq affected
              /\ \A c \in parts : found[f[c]] = c
              /\ \A g \in DOMAIN found : g \notin (DOMAIN groups) \ touching
  <2>1. /\ ~spoiled
        /\ ~ \E g \in touching \cap DOMAIN groups :
               /\ groups[g] \cap near = {}
               /\ ~(groups[g] \cap DOMAIN pic \subseteq affected)
        /\ ~(Cardinality(DOMAIN found) < Cardinality(DOMAIN f))
        /\ DOMAIN found \cap DOMAIN Store!Without(groups, touching) = {}
    BY <1>7, <1>19
  <2>2. \A c \in parts : found[f[c]] = c
    BY <1>5, <2>1
  <2>3. \A g \in DOMAIN found : g \notin (DOMAIN groups) \ touching
    BY <1>10, <2>1
  <2> QED
    BY <2>1, <2>2, <2>3
<1>20. Reclustered(parts, f, found, pic, near, affected, touching, homes)
  BY <1>4, <1>5, <1>8, <1>9, <1>11, <1>12, <1>15, <1>16, <1>17, <1>18, <1>19 DEF Reclustered
<1> QED
  BY <1>20

(* The maps keep to the tracks in sight, whatever was reclustered.         *)
LEMMA ReclusteredTypes ==
  ASSUME NEW parts, NEW f, NEW found, NEW pic, NEW near, NEW affected, NEW touching, NEW homes,
         Reclustered(parts, f, found, pic, near, affected, touching, homes),
         affected \subseteq DOMAIN pic, DOMAIN homes \subseteq DOMAIN pic,
         DOMAIN formed = DOMAIN groups, {} \notin DOMAIN groups
  PROVE  /\ {} \notin DOMAIN groups' /\ DOMAIN formed' = DOMAIN groups'
         /\ DOMAIN home' \subseteq DOMAIN pic /\ spoiled' \in BOOLEAN
         /\ \A t \in affected \intersect DOMAIN home' :
              home'[t] \in DOMAIN groups' /\ home'[t] # {} /\ groups'[home'[t]] # {}
<1>1. {} \notin DOMAIN groups'
  BY DEF Reclustered
<1>2. DOMAIN formed' = DOMAIN groups'
  BY DEF Reclustered
<1>3. ASSUME NEW t \in DOMAIN home' PROVE t \in DOMAIN pic
  <2>1. CASE t \in affected
    BY <2>1
  <2>2. CASE t \notin affected
    BY <1>3, <2>2 DEF Reclustered
  <2> QED
    BY <2>1, <2>2
<1>4. ASSUME NEW t \in affected, t \in DOMAIN home'
      PROVE  home'[t] \in DOMAIN groups' /\ home'[t] # {} /\ groups'[home'[t]] # {}
  <2>1. PICK c \in parts : home'[t] = f[c]
    BY <1>4 DEF Reclustered
  <2>2. f[c] \in DOMAIN found
    BY DEF Reclustered
  <2> HIDE DEF Reclustered
  <2>3. f[c] # {} /\ found[f[c]] \in parts
    BY <2>2 DEF Reclustered
  <2>4. f[c] \in DOMAIN groups' /\ groups'[f[c]] = found[f[c]]
    BY <2>2 DEF Reclustered
  <2>5. found[f[c]] # {}
    BY <2>3 DEF Reclustered
  <2> QED
    BY <2>1, <2>3, <2>4, <2>5
<1>5. spoiled' \in BOOLEAN
  BY DEF Reclustered
<1> QED
  BY <1>1, <1>2, <1>3, <1>4, <1>5

(* Around a change: outside near nothing is new, what is next to near is   *)
(* affected, and so are the groups of those near.                          *)
Around(pic, near, affected, touching, homes) ==
  /\ \A x \in DOMAIN pic : x \notin near => x \in DOMAIN tracks /\ pic[x] = tracks[x]
  /\ \A x \in near : x \in DOMAIN pic => x \in affected
       /\ Store!Candidates(pic, x) \subseteq affected
  /\ \A m \in near : m \in DOMAIN home
       => groups[home[m]] \intersect DOMAIN pic \subseteq affected
  /\ \A m \in affected : m \in DOMAIN home => home[m] \in touching
  /\ \A g \in DOMAIN groups : g \notin touching => groups[g] \subseteq DOMAIN pic
  /\ \A m : m \in DOMAIN homes <=> m \in DOMAIN home /\ m \in DOMAIN pic
  /\ \A m \in DOMAIN homes : homes[m] = home[m]

(* Unless a group was cut or an identifier shared, the groups are those of *)
(* the tracks in sight, and what is not affected keeps its group.          *)
LEMMA ReclusteredExact ==
  ASSUME NEW parts, NEW f, NEW found, NEW pic, NEW near, NEW affected, NEW touching, NEW homes,
         Reclustered(parts, f, found, pic, near, affected, touching, homes),
         Around(pic, near, affected, touching, homes),
         affected \subseteq DOMAIN pic, \A x \in DOMAIN pic : pic[x].at \in Int,
         DOMAIN formed = DOMAIN groups, {} \notin DOMAIN groups, GroupsInv, ~spoiled'
  PROVE  /\ Together(pic, groups')
         /\ \A g \in DOMAIN groups' : Connected(pic, groups'[g])
         /\ AtHome(home', groups')
         /\ \A m \in DOMAIN pic : m \notin affected =>
              /\ Store!Get(home', m, {}) = Store!Get(home, m, {})
              /\ Store!Get(formed', Store!Get(home, m, {}), Store!Nothing)
                   = Store!Get(formed, Store!Get(home, m, {}), Store!Nothing)
<1>1. \A g \in DOMAIN groups : g \in touching =>
         \A m \in groups[g] : m \in DOMAIN pic => m \in affected
  <2> SUFFICES ASSUME NEW g \in DOMAIN groups, g \in touching,
                      NEW m \in groups[g], m \in DOMAIN pic
               PROVE  m \in affected
    OBVIOUS
  <2>1. \/ groups[g] \intersect near # {}
        \/ groups[g] \intersect DOMAIN pic \subseteq affected
    BY DEF Reclustered
  <2>2. CASE groups[g] \intersect near # {}
    <3>1. PICK p \in groups[g] : p \in near
      BY <2>2
    <3>2. p \in DOMAIN home /\ home[p] = g
      BY DEF GroupsInv, AtHome
    <3> QED
      BY <3>1, <3>2 DEF Around
  <2> QED
    BY <2>1, <2>2
<1>2. \A g \in DOMAIN groups : g \notin touching =>
         \A m \in groups[g] : /\ m \in DOMAIN pic /\ m \notin affected /\ m \notin near
                              /\ m \in DOMAIN homes /\ homes[m] = g /\ pic[m] = tracks[m]
  <2> SUFFICES ASSUME NEW g \in DOMAIN groups, g \notin touching, NEW m \in groups[g]
               PROVE  /\ m \in DOMAIN pic /\ m \notin affected /\ m \notin near
                      /\ m \in DOMAIN homes /\ homes[m] = g /\ pic[m] = tracks[m]
    OBVIOUS
  <2>1. m \in DOMAIN home /\ home[m] = g
    BY DEF GroupsInv, AtHome
  <2>2. m \in DOMAIN pic /\ m \notin affected
    BY <2>1 DEF Around
  <2>3. m \notin near
    BY <2>2 DEF Around
  <2> QED
    BY <2>1, <2>2, <2>3 DEF Around
<1>3. \A g \in DOMAIN groups : g \notin touching =>
         g \in DOMAIN groups' /\ groups'[g] = groups[g] /\ g \notin DOMAIN found
  BY DEF Reclustered
<1>4. \A g \in DOMAIN groups' : \/ g \in DOMAIN found /\ groups'[g] = found[g]
                                \/ g \in DOMAIN groups /\ g \notin touching
  BY DEF Reclustered
<1>5. Together(pic, groups')
  <2> SUFFICES ASSUME NEW t \in DOMAIN pic, NEW u \in DOMAIN pic, t # u,
                      Store!Correlated(pic[t], pic[u])
               PROVE  \E g \in DOMAIN groups' : {t, u} \subseteq groups'[g]
    BY DEF Together
  <2>1. CASE t \in affected /\ u \in affected
    <3>1. PICK c \in parts : {t, u} \subseteq c
      BY <2>1 DEF Reclustered
    <3>2. f[c] \in DOMAIN found /\ found[f[c]] = c
      BY DEF Reclustered
    <3>3. f[c] \in DOMAIN groups' /\ groups'[f[c]] = c
      BY <3>2 DEF Reclustered
    <3> QED
      BY <3>1, <3>3
  <2>2. CASE ~(t \in affected /\ u \in affected)
    <3>1. u \in Store!Candidates(pic, t) /\ t \in Store!Candidates(pic, u)
      <4>1. Store!Correlated(pic[u], pic[t])
        BY CorrelatedTracks
      <4> QED
        BY <4>1, CorrelatedTracks DEF Store!Candidates
    <3>2. t \notin near /\ u \notin near
      BY <2>2, <3>1 DEF Around
    <3>3. t \in DOMAIN tracks /\ u \in DOMAIN tracks /\ pic[t] = tracks[t] /\ pic[u] = tracks[u]
      BY <3>2 DEF Around
    <3>4. PICK g \in DOMAIN groups : {t, u} \subseteq groups[g]
      BY <3>3 DEF GroupsInv, Together
    <3>5. g \notin touching
      BY <1>1, <2>2, <3>4
    <3> QED
      BY <1>3, <3>4, <3>5
  <2> QED
    BY <2>1, <2>2
<1>6. ASSUME NEW g \in DOMAIN groups' PROVE Connected(pic, groups'[g])
  <2>1. CASE g \in DOMAIN found /\ groups'[g] = found[g]
    BY <2>1 DEF Reclustered
  <2>2. CASE g \in DOMAIN groups /\ g \notin touching
    <3>1. groups'[g] = groups[g] /\ Connected(tracks, groups[g])
          /\ \A m \in groups[g] : pic[m] = tracks[m]
      BY <1>2, <1>3, <2>2 DEF GroupsInv
    <3> QED
      BY <3>1 DEF Connected
  <2> QED
    BY <1>4, <2>1, <2>2
<1>7. ASSUME NEW g \in DOMAIN groups', NEW t \in groups'[g]
      PROVE  t \in DOMAIN home' /\ home'[t] = g
  <2>1. CASE g \in DOMAIN found /\ groups'[g] = found[g]
    <3>1. found[g] \in parts /\ f[found[g]] = g /\ t \in found[g]
      BY <1>7, <2>1 DEF Reclustered
    <3>2. t \in affected /\ t \in DOMAIN home'
      BY <3>1 DEF Reclustered
    <3>3. PICK c \in parts : t \in c /\ home'[t] = f[c]
      BY <3>2 DEF Reclustered
    <3>4. c = found[g]
      BY <3>1, <3>3 DEF Reclustered
    <3> QED
      BY <3>1, <3>2, <3>3, <3>4
  <2>2. CASE g \in DOMAIN groups /\ g \notin touching
    <3>1. t \in groups[g]
      BY <1>3, <1>7, <2>2
    <3>2. t \notin affected /\ t \in DOMAIN homes /\ homes[t] = g
      BY <1>2, <2>2, <3>1
    <3> QED
      BY <3>2 DEF Reclustered
  <2> QED
    BY <1>4, <2>1, <2>2
<1>8. ASSUME NEW t \in DOMAIN home'
      PROVE  home'[t] \in DOMAIN groups' /\ t \in groups'[home'[t]]
  <2>1. CASE t \in affected
    <3>1. PICK c \in parts : t \in c /\ home'[t] = f[c]
      BY <1>8, <2>1 DEF Reclustered
    <3>2. f[c] \in DOMAIN found /\ found[f[c]] = c
      BY DEF Reclustered
    <3>3. f[c] \in DOMAIN groups' /\ groups'[f[c]] = c
      BY <3>2 DEF Reclustered
    <3> QED
      BY <3>1, <3>3
  <2>2. CASE t \notin affected
    <3>1. t \in DOMAIN homes /\ home'[t] = homes[t]
      BY <1>8, <2>2 DEF Reclustered
    <3>2. t \in DOMAIN home /\ t \in DOMAIN pic /\ homes[t] = home[t]
      BY <3>1 DEF Around
    <3>3. home[t] \in DOMAIN groups /\ t \in groups[home[t]]
      BY <3>2 DEF GroupsInv, AtHome
    <3>4. home[t] \notin touching
      BY <1>1, <2>2, <3>2, <3>3
    <3> QED
      BY <1>3, <3>1, <3>2, <3>3, <3>4
  <2> QED
    BY <2>1, <2>2
<1>9. AtHome(home', groups')
  BY <1>7, <1>8 DEF AtHome
<1>10. ASSUME NEW m \in DOMAIN pic, m \notin affected
       PROVE  /\ Store!Get(home', m, {}) = Store!Get(home, m, {})
              /\ Store!Get(formed', Store!Get(home, m, {}), Store!Nothing)
                   = Store!Get(formed, Store!Get(home, m, {}), Store!Nothing)
  <2>1. CASE m \in DOMAIN home
    <3>1. m \in DOMAIN homes /\ homes[m] = home[m]
      BY <1>10, <2>1 DEF Around
    <3>2. m \in DOMAIN home' /\ home'[m] = home[m]
      BY <1>10, <3>1 DEF Reclustered
    <3>3. home[m] \in DOMAIN groups /\ m \in groups[home[m]]
      BY <2>1 DEF GroupsInv, AtHome
    <3>4. home[m] \notin touching
      BY <1>1, <1>10, <3>3
    <3>5. home[m] \in DOMAIN formed' /\ formed'[home[m]] = formed[home[m]]
          /\ home[m] \in DOMAIN formed
      BY <1>3, <3>3, <3>4 DEF Reclustered
    <3>6. Store!Get(home', m, {}) = home[m] /\ Store!Get(home, m, {}) = home[m]
      BY <2>1, <3>2 DEF Store!Get
    <3>7. Store!Get(formed', home[m], Store!Nothing) = Store!Get(formed, home[m], Store!Nothing)
      BY <3>5 DEF Store!Get
    <3> QED
      BY <3>6, <3>7
  <2>2. CASE m \notin DOMAIN home
    <3>1. m \notin DOMAIN homes
      BY <2>2 DEF Around
    <3>2. m \notin DOMAIN home'
      BY <1>10, <3>1 DEF Reclustered
    <3>3. Store!Get(home', m, {}) = {} /\ Store!Get(home, m, {}) = {}
      BY <2>2, <3>2 DEF Store!Get
    <3>4. {} \notin DOMAIN formed /\ {} \notin DOMAIN formed'
      BY DEF Reclustered
    <3>5. Store!Get(formed', {}, Store!Nothing) = Store!Nothing
            /\ Store!Get(formed, {}, Store!Nothing) = Store!Nothing
      BY <3>4 DEF Store!Get
    <3> QED
      BY <3>3, <3>5
  <2> QED
    BY <2>1, <2>2
<1> QED
  BY <1>5, <1>6, <1>9, <1>10

-----------------------------------------------------------------------------
(* Updates and removals of a track *)

(* A tick of the classifier stays within its states.                       *)
LEMMA MindKept ==
  ASSUME NEW c \in Mind, NEW candidate \in {"NORMAL", "COORDINATED"}
  PROVE  Store!Classify(c, candidate) \in Mind
<1> DEFINE n == IF candidate = c.pending THEN c.ticks + 1 ELSE 1
<1>1. /\ c = [state |-> c.state, pending |-> c.pending, ticks |-> c.ticks]
      /\ c.state \in {"NORMAL", "COORDINATED"}
      /\ c.pending \in {"NONE", "NORMAL", "COORDINATED"} /\ c.ticks \in Nat
  BY DEF Mind
<1>2. n \in Nat
  BY <1>1
<1> HIDE DEF n
<1>3. [c EXCEPT !.pending = "NONE", !.ticks = 0] \in Mind
  BY <1>1 DEF Mind
<1>4. [Store!Fresh EXCEPT !.state = candidate] \in Mind
  BY DEF Mind, Store!Fresh
<1>5. [c EXCEPT !.pending = candidate, !.ticks = n] \in Mind
  BY <1>1, <1>2 DEF Mind
<1>6. Store!Classify(c, candidate) \in {[c EXCEPT !.pending = "NONE", !.ticks = 0],
                                  [Store!Fresh EXCEPT !.state = candidate],
                                  [c EXCEPT !.pending = candidate, !.ticks = n]}
  BY DEF Store!Classify, n
<1> QED
  BY <1>3, <1>4, <1>5, <1>6

(* The classifier's memory of the tracks evaluated.                        *)
LEMMA MindsKept ==
  ASSUME \A t \in DOMAIN mind : mind[t] \in Mind, NEW homes, NEW members
  PROVE  \A m : Store!Classify(Store!Get(mind, m, Store!Fresh),
                               Store!Candidate(m, homes, members)) \in Mind
<1>1. \A m : Store!Get(mind, m, Store!Fresh) \in Mind
  BY DEF Store!Get, Store!Fresh, Mind
<1>2. \A m : Store!Candidate(m, homes, members) \in {"NORMAL", "COORDINATED"}
  BY DEF Store!Candidate
<1> QED
  BY <1>1, <1>2, MindKept

(* One round of Widen around the tracks in near.                           *)
LEMMA Widened ==
  ASSUME NEW pic, NEW near, NEW affected,
         affected = Store!Widen(near, pic) \intersect DOMAIN pic,
         \A m \in DOMAIN home : home[m] \in DOMAIN groups
  PROVE  /\ \A x \in near : x \in DOMAIN pic => x \in affected
              /\ Store!Candidates(pic, x) \subseteq affected
         /\ \A m \in near : m \in DOMAIN home =>
               groups[home[m]] \intersect DOMAIN pic \subseteq affected
<1>1. \A x : Store!Candidates(pic, x) \subseteq DOMAIN pic
  BY DEF Store!Candidates
<1>2. \A x \in near : x \in Store!Widen(near, pic)
        /\ Store!Candidates(pic, x) \subseteq Store!Widen(near, pic)
  BY DEF Store!Widen
<1>3. \A m \in near : m \in DOMAIN home => groups[home[m]] \subseteq Store!Widen(near, pic)
  <2> SUFFICES ASSUME NEW m \in near, m \in DOMAIN home
               PROVE  groups[home[m]] \subseteq Store!Widen(near, pic)
    OBVIOUS
  <2>1. Store!Get(groups, home[m], {}) = groups[home[m]]
    BY DEF Store!Get
  <2> QED
    BY <2>1 DEF Store!Widen
<1> QED
  BY <1>1, <1>2, <1>3

(* An update.                                                              *)
LEMMA UpdateEffect ==
  ASSUME StoreOK, StoreTypes, Store!SameTracks,
         ~spoiled => GroupsInv /\ Store!PrioritiesCurrent,
         NEW t \in Tracks, NEW o, o.at \in Int, Store!UpdateTrack(t, o)
  PROVE  /\ tracks' = Store!Put(tracks, t, o)
         /\ Store!SameTracks' /\ {} \notin DOMAIN groups' /\ spoiled' \in BOOLEAN
         /\ \A m \in DOMAIN mind' : mind'[m] \in Mind
         /\ t \in DOMAIN home' =>
              home'[t] \in DOMAIN groups' /\ home'[t] # {} /\ groups'[home'[t]] # {}
         /\ ~spoiled' => GroupsInv' /\ Store!PrioritiesCurrent'
<1> DEFINE pic == Store!Put(tracks, t, o)
           near == {t} \cup Store!Candidates(tracks, t) \cup Store!Candidates(pic, t)
                       \cup (IF t \in DOMAIN tracks THEN Store!Group(t) ELSE {})
           affected == Store!Widen(near, pic) \cap DOMAIN pic
           touching == {home[m] : m \in affected \cap DOMAIN home}
<1>1. /\ tracks' = pic
      /\ Store!Recluster(pic, near, affected, touching, home)
      /\ heard' = Store!Put(heard, t, Store!Get(heard, t, 0) + 1)
      /\ mind' = Store!Over([m \in affected |->
                         Store!Classify(Store!Get(mind, m, Store!Fresh),
                                        Store!Candidate(m, home', groups'))], mind)
      /\ priority' = Store!Over([m \in affected |->
                                Store!Assess(m, pic, home', formed', mind', heard')],
                          priority)
  BY DEF Store!UpdateTrack
<1>2. /\ DOMAIN pic = (DOMAIN tracks) \union {t} /\ pic[t] = o
      /\ \A x \in DOMAIN tracks : x # t => pic[x] = tracks[x]
  BY DEF Store!Put
<1>3. DOMAIN pic \subseteq Tracks /\ \A x \in DOMAIN pic : pic[x].at \in Int
  BY <1>2 DEF StoreTypes
<1>4. t \in near /\ t \in affected /\ affected \subseteq DOMAIN pic
  BY <1>2 DEF Store!Widen
<1>5. affected = Store!Widen(near, pic) \intersect DOMAIN pic
  OBVIOUS
<1>6. /\ DOMAIN formed = DOMAIN groups /\ {} \notin DOMAIN groups /\ spoiled \in BOOLEAN
      /\ DOMAIN home \subseteq DOMAIN tracks
  BY DEF StoreTypes, Store!SameTracks
<1>7. \A m \in affected : m \in DOMAIN home => home[m] \in touching
  OBVIOUS
<1> HIDE DEF pic, near, affected, touching
<1>8. PICK parts, f, found : Reclustered(parts, f, found, pic, near, affected, touching, home)
  BY <1>1, <1>3, <1>4, <1>6, ReclusterIs
<1>9. DOMAIN home \subseteq DOMAIN pic
  BY <1>2, <1>6
<1>10. /\ {} \notin DOMAIN groups' /\ DOMAIN formed' = DOMAIN groups'
       /\ DOMAIN home' \subseteq DOMAIN pic /\ spoiled' \in BOOLEAN
       /\ \A m \in affected \intersect DOMAIN home' :
            home'[m] \in DOMAIN groups' /\ home'[m] # {} /\ groups'[home'[m]] # {}
  BY <1>4, <1>6, <1>8, <1>9, ReclusteredTypes
<1>11. /\ DOMAIN mind' = affected \union DOMAIN mind
       /\ \A m \in DOMAIN mind' : mind'[m] \in Mind
       /\ \A m \in DOMAIN mind : m \notin affected => mind'[m] = mind[m]
  <2> DEFINE next == [m \in affected |->
                        Store!Classify(Store!Get(mind, m, Store!Fresh),
                                       Store!Candidate(m, home', groups'))]
  <2>1. \A m \in DOMAIN mind : mind[m] \in Mind
    BY DEF StoreTypes
  <2>2. DOMAIN next = affected /\ \A m \in affected : next[m] \in Mind
    BY <2>1, MindsKept
  <2>3. mind' = Store!Over(next, mind)
    BY <1>1
  <2> HIDE DEF next
  <2> QED
    BY <2>1, <2>2, <2>3 DEF Store!Over
<1>12. /\ DOMAIN priority' = affected \union DOMAIN priority
       /\ \A m \in affected : priority'[m] = Store!Assess(m, pic, home', formed', mind', heard')
       /\ \A m \in DOMAIN priority : m \notin affected => priority'[m] = priority[m]
  <2> DEFINE next == [m \in affected |-> Store!Assess(m, pic, home', formed', mind', heard')]
  <2>1. DOMAIN next = affected
        /\ \A m \in affected : next[m] = Store!Assess(m, pic, home', formed', mind', heard')
    OBVIOUS
  <2>2. priority' = Store!Over(next, priority)
    BY <1>1
  <2> HIDE DEF next
  <2> QED
    BY <2>1, <2>2 DEF Store!Over
<1>13. DOMAIN heard' = (DOMAIN heard) \union {t} /\ \A m \in DOMAIN heard : m # t
         => heard'[m] = heard[m]
  BY <1>1 DEF Store!Put
<1>14. Store!SameTracks'
  <2>1. DOMAIN mind' = DOMAIN tracks' /\ DOMAIN priority' = DOMAIN tracks'
    BY <1>1, <1>2, <1>4, <1>11, <1>12 DEF Store!SameTracks
  <2>2. DOMAIN heard' \subseteq DOMAIN tracks'
    BY <1>1, <1>2, <1>13 DEF Store!SameTracks
  <2> QED
    BY <1>1, <1>10, <2>1, <2>2 DEF Store!SameTracks
<1>15. ASSUME ~spoiled' PROVE GroupsInv' /\ Store!PrioritiesCurrent'
  <2>1. GroupsInv /\ Store!PrioritiesCurrent
    BY <1>8, <1>15 DEF Reclustered
  <2>2. \A m \in DOMAIN home : home[m] \in DOMAIN groups
    BY <2>1 DEF GroupsInv, AtHome
  <2>3. Around(pic, near, affected, touching, home)
    <3>1. \A x \in DOMAIN pic : x \notin near => x \in DOMAIN tracks /\ pic[x] = tracks[x]
      BY <1>2, <1>4
    <3>2. /\ \A x \in near : x \in DOMAIN pic =>
                               x \in affected /\ Store!Candidates(pic, x) \subseteq affected
          /\ \A m \in near : m \in DOMAIN home =>
                groups[home[m]] \intersect DOMAIN pic \subseteq affected
      BY <1>5, <2>2, Widened
    <3>3. \A g \in DOMAIN groups : groups[g] \subseteq DOMAIN pic
      BY <1>9, <2>1 DEF GroupsInv, AtHome
    <3> QED
      BY <1>7, <1>9, <3>1, <3>2, <3>3 DEF Around
  <2>4. /\ Together(pic, groups')
        /\ \A g \in DOMAIN groups' : Connected(pic, groups'[g])
        /\ AtHome(home', groups')
        /\ \A m \in DOMAIN pic : m \notin affected =>
              /\ Store!Get(home', m, {}) = Store!Get(home, m, {})
              /\ Store!Get(formed', Store!Get(home, m, {}), Store!Nothing)
                   = Store!Get(formed, Store!Get(home, m, {}), Store!Nothing)
    BY <1>3, <1>4, <1>6, <1>8, <1>15, <2>1, <2>3, ReclusteredExact
  <2>5. GroupsInv'
    BY <1>1, <2>4 DEF GroupsInv
  <2>6. ASSUME NEW m \in DOMAIN priority'
        PROVE  priority'[m] = Store!Assess(m, pic, home', formed', mind', heard')
    <3>1. CASE m \in affected
      BY <1>12, <3>1
    <3>2. CASE m \notin affected
      <4>1. m \in DOMAIN tracks /\ m # t /\ m \in DOMAIN priority /\ m \in DOMAIN mind
        BY <1>4, <1>12, <2>6, <3>2 DEF Store!SameTracks
      <4>2. priority'[m] = Store!Assess(m, tracks, home, formed, mind, heard)
        BY <1>12, <2>1, <3>2, <4>1 DEF Store!PrioritiesCurrent
      <4>3. pic[m] = tracks[m] /\ m \in DOMAIN pic
        BY <1>2, <4>1
      <4>4. m \in DOMAIN mind' /\ mind'[m] = mind[m]
        BY <1>11, <3>2, <4>1
      <4>5. Store!Get(heard', m, 0) = Store!Get(heard, m, 0)
        BY <1>13, <4>1 DEF Store!Get
      <4> QED
        BY <2>4, <3>2, <4>1, <4>2, <4>3, <4>4, <4>5 DEF Store!Assess
    <3> QED
      BY <3>1, <3>2
  <2>7. Store!PrioritiesCurrent'
    BY <1>1, <2>6 DEF Store!PrioritiesCurrent
  <2> QED
    BY <2>5, <2>7
<1> QED
  BY <1>1, <1>4, <1>10, <1>11, <1>14, <1>15 DEF pic

(* A removal.                                                              *)
LEMMA DropEffect ==
  ASSUME StoreOK, StoreTypes, Store!SameTracks,
         ~spoiled => GroupsInv /\ Store!PrioritiesCurrent,
         NEW t \in DOMAIN tracks, Store!DropTrack(t)
  PROVE  /\ tracks' = Store!Without(tracks, {t})
         /\ Store!SameTracks' /\ {} \notin DOMAIN groups' /\ spoiled' \in BOOLEAN
         /\ \A m \in DOMAIN mind' : mind'[m] \in Mind
         /\ ~spoiled' => GroupsInv' /\ Store!PrioritiesCurrent'
<1> DEFINE pic == Store!Without(tracks, {t})
           homes == Store!Without(home, {t})
           old == IF t \in DOMAIN home THEN {home[t]} ELSE {}
           near == (Store!Candidates(tracks, t) \cup Store!Group(t)) \ {t}
           affected == Store!Widen(near, pic) \cap DOMAIN pic
           touching == {homes[m] : m \in affected \cap DOMAIN homes} \cup old
           rest == Store!Without(priority, {t})
<1>1. /\ tracks' = pic
      /\ mind' = Store!Without(mind, {t})
      /\ heard' = Store!Without(heard, {t})
      /\ Store!Recluster(pic, near, affected, touching, homes)
      /\ priority' = Store!Over([m \in affected |->
                                Store!Assess(m, pic, home', formed', mind', heard')], rest)
  BY DEF Store!DropTrack
<1>2. DOMAIN pic = (DOMAIN tracks) \ {t} /\ \A x \in DOMAIN pic : pic[x] = tracks[x]
  BY DEF Store!Without, Store!Restrict
<1>3. DOMAIN pic \subseteq Tracks /\ \A x \in DOMAIN pic : pic[x].at \in Int
  BY <1>2 DEF StoreTypes, StoreOK
<1>4. affected \subseteq DOMAIN pic /\ affected = Store!Widen(near, pic) \intersect DOMAIN pic
  OBVIOUS
<1>5. /\ DOMAIN formed = DOMAIN groups /\ {} \notin DOMAIN groups /\ spoiled \in BOOLEAN
      /\ DOMAIN home \subseteq DOMAIN tracks
  BY DEF StoreTypes, Store!SameTracks
<1>6. DOMAIN homes = (DOMAIN home) \ {t} /\ \A m \in DOMAIN homes : homes[m] = home[m]
  BY DEF Store!Without, Store!Restrict
<1>7. /\ \A m \in affected : m \in DOMAIN homes => homes[m] \in touching
      /\ t \in DOMAIN home => home[t] \in touching
  OBVIOUS
<1>8. /\ DOMAIN mind' = (DOMAIN mind) \ {t} /\ \A m \in DOMAIN mind' : mind'[m] = mind[m]
      /\ DOMAIN heard' = (DOMAIN heard) \ {t} /\ \A m \in DOMAIN heard' : heard'[m] = heard[m]
      /\ DOMAIN rest = (DOMAIN priority) \ {t} /\ \A m \in DOMAIN rest : rest[m] = priority[m]
  BY <1>1 DEF Store!Without, Store!Restrict
<1> HIDE DEF pic, near, affected, touching, homes, rest
<1>9. PICK parts, f, found : Reclustered(parts, f, found, pic, near, affected, touching, homes)
  BY <1>1, <1>3, <1>4, <1>5, ReclusterIs
<1>10. DOMAIN homes \subseteq DOMAIN pic
  BY <1>2, <1>5, <1>6
<1>11. /\ {} \notin DOMAIN groups' /\ DOMAIN formed' = DOMAIN groups'
       /\ DOMAIN home' \subseteq DOMAIN pic /\ spoiled' \in BOOLEAN
  BY <1>4, <1>5, <1>9, <1>10, ReclusteredTypes
<1>12. /\ DOMAIN priority' = affected \union DOMAIN rest
       /\ \A m \in affected : priority'[m] = Store!Assess(m, pic, home', formed', mind', heard')
       /\ \A m \in DOMAIN rest : m \notin affected => priority'[m] = rest[m]
  <2> DEFINE next == [m \in affected |-> Store!Assess(m, pic, home', formed', mind', heard')]
  <2>1. DOMAIN next = affected
        /\ \A m \in affected : next[m] = Store!Assess(m, pic, home', formed', mind', heard')
    OBVIOUS
  <2>2. priority' = Store!Over(next, rest)
    BY <1>1
  <2> HIDE DEF next
  <2> QED
    BY <2>1, <2>2 DEF Store!Over
<1>13. Store!SameTracks'
  <2>1. DOMAIN mind' = DOMAIN tracks' /\ DOMAIN priority' = DOMAIN tracks'
    BY <1>1, <1>2, <1>4, <1>8, <1>12 DEF Store!SameTracks
  <2>2. DOMAIN heard' \subseteq DOMAIN tracks'
    BY <1>1, <1>2, <1>8 DEF Store!SameTracks
  <2> QED
    BY <1>1, <1>11, <2>1, <2>2 DEF Store!SameTracks
<1>14. \A m \in DOMAIN mind' : mind'[m] \in Mind
  BY <1>8 DEF StoreTypes
<1>15. ASSUME ~spoiled' PROVE GroupsInv' /\ Store!PrioritiesCurrent'
  <2>1. GroupsInv /\ Store!PrioritiesCurrent
    BY <1>9, <1>15 DEF Reclustered
  <2>2. \A m \in DOMAIN home : home[m] \in DOMAIN groups
    BY <2>1 DEF GroupsInv, AtHome
  <2>3. Around(pic, near, affected, touching, homes)
    <3>1. \A x \in DOMAIN pic : x \in DOMAIN tracks /\ pic[x] = tracks[x]
      BY <1>2
    <3>2. /\ \A x \in near : x \in DOMAIN pic =>
                               x \in affected /\ Store!Candidates(pic, x) \subseteq affected
          /\ \A m \in near : m \in DOMAIN home =>
                groups[home[m]] \intersect DOMAIN pic \subseteq affected
      <4>1. affected = Store!Widen(near, pic) \intersect DOMAIN pic
        BY <1>4
      <4>2. \A x \in near : x \in DOMAIN pic =>
                               x \in affected /\ Store!Candidates(pic, x) \subseteq affected
        <5> SUFFICES ASSUME NEW x \in near, x \in DOMAIN pic
                     PROVE  x \in affected /\ Store!Candidates(pic, x) \subseteq affected
          OBVIOUS
        <5>1. Store!Candidates(pic, x) \subseteq DOMAIN pic
          BY DEF Store!Candidates
        <5>2. x \in Store!Widen(near, pic)
              /\ Store!Candidates(pic, x) \subseteq Store!Widen(near, pic)
          BY DEF Store!Widen
        <5> QED
          BY <4>1, <5>1, <5>2
      <4>3. \A m \in near : m \in DOMAIN home =>
                groups[home[m]] \intersect DOMAIN pic \subseteq affected
        BY <2>2, <4>1, Widened
      <4> QED
        BY <4>2, <4>3
    <3>3. \A g \in DOMAIN groups : g \notin touching => groups[g] \subseteq DOMAIN pic
      <4> SUFFICES ASSUME NEW g \in DOMAIN groups, g \notin touching, NEW x \in groups[g]
                   PROVE  x \in DOMAIN pic
        OBVIOUS
      <4>1. x \in DOMAIN home /\ home[x] = g
        BY <2>1 DEF GroupsInv, AtHome
      <4>2. x # t
        BY <1>7, <4>1
      <4> QED
        BY <1>2, <1>5, <4>1, <4>2
    <3>4. \A m \in affected : m \in DOMAIN home => home[m] \in touching
      BY <1>2, <1>4, <1>6, <1>7
    <3>5. \A m : m \in DOMAIN homes <=> m \in DOMAIN home /\ m \in DOMAIN pic
      BY <1>2, <1>5, <1>6
    <3> QED
      BY <1>6, <3>1, <3>2, <3>3, <3>4, <3>5 DEF Around
  <2>4. /\ Together(pic, groups')
        /\ \A g \in DOMAIN groups' : Connected(pic, groups'[g])
        /\ AtHome(home', groups')
        /\ \A m \in DOMAIN pic : m \notin affected =>
              /\ Store!Get(home', m, {}) = Store!Get(home, m, {})
              /\ Store!Get(formed', Store!Get(home, m, {}), Store!Nothing)
                   = Store!Get(formed, Store!Get(home, m, {}), Store!Nothing)
    BY <1>3, <1>4, <1>5, <1>9, <1>15, <2>1, <2>3, ReclusteredExact
  <2>5. GroupsInv'
    BY <1>1, <2>4 DEF GroupsInv
  <2>6. ASSUME NEW m \in DOMAIN priority'
        PROVE  priority'[m] = Store!Assess(m, pic, home', formed', mind', heard')
    <3>1. CASE m \in affected
      BY <1>12, <3>1
    <3>2. CASE m \notin affected
      <4>1. m \in DOMAIN rest /\ m \in DOMAIN priority /\ m # t
        BY <1>8, <1>12, <2>6, <3>2
      <4>2. m \in DOMAIN tracks /\ m \in DOMAIN mind /\ m \in DOMAIN pic
        BY <1>2, <4>1 DEF Store!SameTracks
      <4>3. priority'[m] = Store!Assess(m, tracks, home, formed, mind, heard)
        BY <1>8, <1>12, <2>1, <3>2, <4>1 DEF Store!PrioritiesCurrent
      <4>4. pic[m] = tracks[m]
        BY <1>2, <4>2
      <4>5. m \in DOMAIN mind' /\ mind'[m] = mind[m]
        BY <1>8, <4>1, <4>2
      <4>6. Store!Get(heard', m, 0) = Store!Get(heard, m, 0)
        BY <1>8, <4>1 DEF Store!Get
      <4> QED
        BY <2>4, <3>2, <4>2, <4>3, <4>4, <4>5, <4>6 DEF Store!Assess
    <3> QED
      BY <3>1, <3>2
  <2>7. Store!PrioritiesCurrent'
    BY <1>1, <2>6 DEF Store!PrioritiesCurrent
  <2> QED
    BY <2>5, <2>7
<1> QED
  BY <1>1, <1>11, <1>13, <1>14, <1>15 DEF pic

(* A batch.                                                                *)
LEMMA BatchEffect ==
  ASSUME StoreOK, StoreTypes, Store!SameTracks, NEW obs, DOMAIN obs \subseteq Tracks,
         \A t \in DOMAIN obs : obs[t].at \in Int, Store!UpdateBatch(obs)
  PROVE  /\ tracks' = Store!Over(obs, tracks)
         /\ Store!SameTracks' /\ {} \notin DOMAIN groups' /\ spoiled' \in BOOLEAN
         /\ \A m \in DOMAIN mind' : mind'[m] \in Mind
         /\ ~spoiled' => GroupsInv' /\ Store!PrioritiesCurrent'
<1> DEFINE pic == Store!Over(obs, tracks)
<1>1. /\ tracks' = pic
      /\ \E f \in Store!Groupings(pic, groups) :
              /\ groups' = Store!ByIdentifier(f)
              /\ home' = Store!HomeOf(f)
              /\ spoiled' = (Cardinality(DOMAIN groups') < Cardinality(DOMAIN f))
      /\ formed' = [g \in DOMAIN groups' |-> Store!Formation(pic, groups'[g])]
      /\ mind' = [m \in DOMAIN pic |-> Store!Classify(Store!Get(mind, m, Store!Fresh),
                                                  Store!Candidate(m, home', groups'))]
      /\ priority' = [m \in DOMAIN pic |-> Store!Assess(m, pic, home', formed', mind', heard)]
      /\ heard' = heard
  BY StoreCardinality DEF Store!UpdateBatch
<1>2. /\ DOMAIN pic = (DOMAIN obs) \union DOMAIN tracks
      /\ DOMAIN pic \subseteq Tracks /\ \A x \in DOMAIN pic : pic[x].at \in Int
  BY DEF Store!Over, StoreTypes, StoreOK
<1>3. IsFiniteSet(DOMAIN pic)
  BY <1>2, FS_Subset DEF StoreOK
<1>4. {} \notin DOMAIN groups
  BY DEF StoreTypes
<1> HIDE DEF pic
<1>5. PICK f \in Store!Groupings(pic, groups) :
         /\ groups' = Store!ByIdentifier(f)
         /\ home' = Store!HomeOf(f)
         /\ spoiled' = (Cardinality(DOMAIN groups') < Cardinality(DOMAIN f))
  BY <1>1
<1> DEFINE parts == Store!Components(pic)
<1>6. /\ \A c \in parts : c \subseteq DOMAIN pic /\ c # {} /\ Connected(pic, c)
      /\ \A c, d \in parts : c \intersect d # {} => c = d
      /\ \A x, y \in DOMAIN pic : x # y /\ Store!Correlated(pic[x], pic[y]) =>
            \E c \in parts : {x, y} \subseteq c
  BY <1>2, <1>3, ComponentsOK
<1>7. /\ \A g \in DOMAIN groups' : g # {} /\ groups'[g] \in parts /\ f[groups'[g]] = g
      /\ \A c \in parts : f[c] \in DOMAIN groups'
      /\ \A t \in DOMAIN home' : \E c \in parts : t \in c /\ home'[t] = f[c]
      /\ \A c \in parts : c \subseteq DOMAIN home'
      /\ ~spoiled' => \A c \in parts : groups'[f[c]] = c
  <2> DEFINE found == Store!ByIdentifier(f)
             where == Store!HomeOf(f)
  <2>1. /\ \A g \in DOMAIN found : g # {} /\ found[g] \in parts /\ f[found[g]] = g
        /\ \A c \in parts : f[c] \in DOMAIN found
        /\ \A t \in DOMAIN where : \E c \in parts : t \in c /\ where[t] = f[c]
        /\ \A c \in parts : c \subseteq DOMAIN where
        /\ ~(Cardinality(DOMAIN found) < Cardinality(DOMAIN f)) =>
              \A c \in parts : found[f[c]] = c
    BY <1>2, <1>4, FoundOK
  <2>2. groups' = found /\ home' = where
        /\ (~spoiled' => ~(Cardinality(DOMAIN found) < Cardinality(DOMAIN f)))
    BY <1>5
  <2> HIDE DEF found, where, parts
  <2> QED
    BY <2>1, <2>2
<1> HIDE DEF parts
<1>8. Store!SameTracks'
  <2>1. DOMAIN home' \subseteq DOMAIN pic
    BY <1>6, <1>7
  <2>2. DOMAIN mind' = DOMAIN pic /\ DOMAIN priority' = DOMAIN pic
          /\ DOMAIN formed' = DOMAIN groups'
    BY <1>1
  <2>3. DOMAIN heard' \subseteq DOMAIN pic
    BY <1>1, <1>2 DEF Store!SameTracks
  <2> QED
    BY <1>1, <2>1, <2>2, <2>3 DEF Store!SameTracks
<1>9. \A m \in DOMAIN mind' : mind'[m] \in Mind
  <2>1. \A m \in DOMAIN mind : mind[m] \in Mind
    BY DEF StoreTypes
  <2> QED
    BY <1>1, <2>1, MindsKept
<1>10. spoiled' \in BOOLEAN
  BY <1>5
<1>11. ASSUME ~spoiled' PROVE GroupsInv'
  <2>1. Together(pic, groups')
    BY <1>6, <1>7, <1>11 DEF Together
  <2>2. \A g \in DOMAIN groups' : Connected(pic, groups'[g])
    BY <1>6, <1>7
  <2>3. ASSUME NEW g \in DOMAIN groups', NEW t \in groups'[g]
        PROVE  t \in DOMAIN home' /\ home'[t] = g
    <3>1. groups'[g] \in parts /\ f[groups'[g]] = g
      BY <1>7
    <3>2. t \in DOMAIN home'
      BY <1>7, <2>3, <3>1
    <3>3. PICK c \in parts : t \in c /\ home'[t] = f[c]
      BY <1>7, <3>2
    <3>4. c = groups'[g]
      BY <1>6, <2>3, <3>1, <3>3
    <3> QED
      BY <3>1, <3>2, <3>3, <3>4
  <2>4. \A t \in DOMAIN home' : home'[t] \in DOMAIN groups' /\ t \in groups'[home'[t]]
    BY <1>7, <1>11
  <2> QED
    BY <1>1, <2>1, <2>2, <2>3, <2>4 DEF GroupsInv, AtHome
<1>12. Store!PrioritiesCurrent'
  BY <1>1 DEF Store!PrioritiesCurrent
<1> QED
  BY <1>1, <1>7, <1>8, <1>9, <1>10, <1>11, <1>12 DEF pic

-----------------------------------------------------------------------------
(* The steps *)

(* Changing the feed of one request leaves those of the others.            *)
LEMMA HoldingIs ==
  ASSUME holding = [q \in Requests |-> holding[q]], NEW r \in Requests, NEW v,
         holding' = [holding EXCEPT ![r] = v]
  PROVE  /\ holding' = [q \in Requests |-> holding'[q]] /\ holding'[r] = v
         /\ \A q \in Requests : q # r => holding'[q] = holding[q]
OBVIOUS

(* What is said of the store holds while the store stays as it is.         *)
LEMMA StoreSame ==
  ASSUME StoreInv, UNCHANGED Store!store, UNCHANGED spoiled
  PROVE  /\ Store!SameTracks' /\ (~spoiled' => GroupsInv' /\ Store!PrioritiesCurrent')
         /\ {} \notin DOMAIN groups' /\ spoiled' \in BOOLEAN
         /\ \A m \in DOMAIN mind' : mind'[m] \in Mind
<1>1. /\ tracks' = tracks /\ groups' = groups /\ home' = home /\ formed' = formed
      /\ mind' = mind /\ heard' = heard /\ priority' = priority /\ spoiled' = spoiled
  BY DEF Store!store
<1>2. Store!SameTracks'
  BY <1>1 DEF StoreInv, Store!SameTracks
<1>3. GroupsInv => GroupsInv'
  BY <1>1 DEF GroupsInv
<1>4. Store!PrioritiesCurrent => Store!PrioritiesCurrent'
  BY <1>1 DEF Store!PrioritiesCurrent
<1>5. {} \notin DOMAIN groups' /\ spoiled' \in BOOLEAN
      /\ \A m \in DOMAIN mind' : mind'[m] \in Mind
  BY <1>1 DEF StoreInv, StoreTypes
<1> QED
  BY <1>1, <1>2, <1>3, <1>4, <1>5 DEF StoreInv

(* The empty dictionary has no keys.                                       *)
LEMMA NothingIs == DOMAIN Store!Nothing = {}
BY DEF Store!Nothing

(* An empty store is grouped correctly.                                    *)
LEMMA StoreEmptied ==
  ASSUME Store!Empty
  PROVE  /\ Store!SameTracks' /\ GroupsInv' /\ Store!PrioritiesCurrent'
         /\ DOMAIN tracks' = {} /\ DOMAIN mind' = {} /\ DOMAIN groups' = {}
<1>1. /\ DOMAIN tracks' = {} /\ DOMAIN groups' = {} /\ DOMAIN home' = {} /\ DOMAIN formed' = {}
      /\ DOMAIN mind' = {} /\ DOMAIN heard' = {} /\ DOMAIN priority' = {}
  BY NothingIs DEF Store!Empty
<1>2. Store!SameTracks' /\ Store!PrioritiesCurrent'
  BY <1>1 DEF Store!SameTracks, Store!PrioritiesCurrent
<1>3. GroupsInv'
  BY <1>1 DEF GroupsInv, Together, AtHome
<1> QED
  BY <1>1, <1>2, <1>3

(* A row is committed, or loaded, and held until the track is fed.         *)
LEMMA HeldKept ==
  ASSUME StoreOK, StoreInv, NEW r \in Requests, NEW t \in DOMAIN trackRows', NEW o,
         o.at \in Int,
         Store!Hold(r, t, o), Store!Change, UNCHANGED <<Store!store, Store!pipeline, spoiled,
         stale>>,
         \A u \in DOMAIN trackRows : u \in DOMAIN trackRows'
           /\ (u # t => trackRows'[u] = trackRows[u]),
         DOMAIN trackRows' \subseteq Tracks,
         \A u \in DOMAIN trackRows' : trackRows'[u].at \in Int,
         open' \subseteq DOMAIN trackRows'
  PROVE  StoreInv'
<1>1. /\ holding' = [q \in Requests |-> holding'[q]]
      /\ holding'[r] = [track |-> t, obs |-> o] /\ holding[r] = Store!Idle
      /\ \A q \in Requests : q # r => holding'[q] = holding[q]
  BY HoldingIs DEF Store!Hold, StoreInv, StoreTypes
<1>2. holding'[r].track = t /\ holding'[r].obs = o /\ holding[r].track = 0
  BY <1>1 DEF Store!Idle
<1>3. /\ Store!SameTracks' /\ (~spoiled' => GroupsInv' /\ Store!PrioritiesCurrent')
      /\ {} \notin DOMAIN groups' /\ spoiled' \in BOOLEAN
      /\ \A m \in DOMAIN mind' : mind'[m] \in Mind
  BY StoreSame
<1>4. tracks' = tracks /\ stale' = stale /\ focus' = 0
      /\ lastBehaviors' = lastBehaviors /\ roster' = roster /\ told' = told /\ ledger' = ledger
  BY DEF Store!store, Store!pipeline, Store!Change
<1>5. StoreTypes'
  <2>1. \A q \in Requests :
          holding'[q] = Store!Idle
            \/ (holding'[q].track \in DOMAIN trackRows' /\ holding'[q].obs.at \in Int)
    BY <1>1, <1>2 DEF StoreInv, StoreTypes
  <2>2. DOMAIN tracks' \subseteq DOMAIN trackRows'
          /\ \A u \in DOMAIN tracks' : tracks'[u].at \in Int
    BY <1>4 DEF StoreInv, StoreTypes
  <2> QED
    BY <1>1, <1>3, <2>1, <2>2 DEF StoreTypes
<1>6. Remembered'
  BY <1>4 DEF StoreInv, Remembered
<1>7. Store!TracksFresh'
  <2> SUFFICES ASSUME NEW u \in DOMAIN tracks, u \notin stale,
                      \A q \in Requests : holding'[q].track # u
               PROVE  tracks[u] = trackRows'[u]
    BY <1>4 DEF Store!TracksFresh
  <2>1. u # t /\ u \in DOMAIN trackRows /\ u # 0
    BY <1>2 DEF StoreInv, StoreTypes, StoreOK
  <2>2. \A q \in Requests : holding[q].track # u
    BY <1>1, <1>2, <2>1
  <2> QED
    BY <2>1, <2>2 DEF StoreInv, Store!TracksFresh
<1>8. Store!HistoryCurrent'
  BY <1>4 DEF Store!HistoryCurrent
<1> QED
  BY <1>3, <1>5, <1>6, <1>7, <1>8 DEF StoreInv

(* A commit of a row leaves the store as it is.                            *)
LEMMA NextCommit ==
  ASSUME StoreOK, StoreInv, NEW r \in Requests, NEW t \in Tracks, NEW o \in Moves,
         Store!Commit(r, t, o)
  PROVE  StoreInv'
<1>1. /\ Store!Change /\ Store!Hold(r, t, o) /\ trackRows' = Store!Put(trackRows, t, o)
           /\ open' = open \union {t}
      /\ UNCHANGED <<Store!store, Store!pipeline, spoiled, stale>>
  BY DEF Store!Commit
<1>2. /\ DOMAIN trackRows' = (DOMAIN trackRows) \union {t} /\ trackRows'[t] = o
      /\ \A u \in DOMAIN trackRows : u # t => trackRows'[u] = trackRows[u]
  BY <1>1 DEF Store!Put
<1>3. o.at \in Int /\ DOMAIN trackRows \subseteq Tracks /\ open \subseteq DOMAIN trackRows
      /\ \A u \in DOMAIN trackRows : trackRows[u].at \in Int
  BY DEF StoreOK, StoreInv, StoreTypes
<1>4. DOMAIN trackRows' \subseteq Tracks /\ open' \subseteq DOMAIN trackRows'
      /\ \A u \in DOMAIN trackRows' : trackRows'[u].at \in Int
  BY <1>1, <1>2, <1>3
<1> QED
  BY <1>1, <1>2, <1>3, <1>4, HeldKept

(* A request that looks at a row touches nothing else.                     *)
LEMMA NextLook ==
  ASSUME StoreOK, StoreInv, NEW r \in Requests, NEW t \in Tracks, Store!Look(r, t)
  PROVE  StoreInv'
<1>1. /\ Store!Change /\ t \in DOMAIN trackRows /\ Store!Hold(r, t, trackRows[t])
           /\ trackRows' = trackRows /\ open' = open
      /\ UNCHANGED <<Store!store, Store!pipeline, spoiled, stale>>
  BY DEF Store!Look
<1>2. DOMAIN trackRows \subseteq Tracks /\ open \subseteq DOMAIN trackRows
      /\ \A u \in DOMAIN trackRows : trackRows[u].at \in Int
  BY DEF StoreInv, StoreTypes
<1> QED
  BY <1>1, <1>2, HeldKept

(* A feed.  What the pipeline remembers of the track is what the history   *)
(* has of it, so what is not written is there already.                     *)
LEMMA NextFeed ==
  ASSUME StoreOK, StoreInv, NEW r \in Requests, Store!Feed(r)
  PROVE  StoreInv'
<1> DEFINE t == holding[r].track
           o == holding[r].obs
           before == IF t \in DOMAIN home /\ home[t] \in DOMAIN groups THEN home[t] ELSE {}
           after == IF t \in DOMAIN home' /\ home'[t] \in DOMAIN groups' THEN home'[t] ELSE {}
           regrouped == \/ before # after
                        \/ after # {} /\ Store!Get(roster, after, {}) # groups'[after]
           state == mind'[t].state
<1>1. /\ holding[r] # Store!Idle
      /\ Store!UpdateTrack(t, o)
      /\ holding' = [holding EXCEPT ![r] = Store!Idle]
      /\ focus' = t
      /\ stale' = IF trackRows[t] = o THEN stale \ {t} ELSE stale \cup {t}
      /\ trackRows' = trackRows /\ open' = open
  BY DEF Store!Feed
<1>2. /\ lastBehaviors' = Store!Put(lastBehaviors, t, state)
      /\ told' = IF Store!Get(lastBehaviors, t, "NONE") # state THEN Store!Put(told, t, state) ELSE told
      /\ ledger' = IF regrouped
           /\ after # {} THEN Store!Put(ledger, after, groups'[after]) ELSE ledger
      /\ roster' = IF after # {} THEN Store!Put(roster, after, groups'[after])
                   ELSE Store!Without(roster, {before})
  BY DEF Store!Feed
<1>3. t \in DOMAIN trackRows /\ o.at \in Int /\ t \in Tracks
  BY <1>1 DEF StoreInv, StoreTypes
<1>4. /\ tracks' = Store!Put(tracks, t, o)
      /\ Store!SameTracks' /\ {} \notin DOMAIN groups' /\ spoiled' \in BOOLEAN
      /\ \A m \in DOMAIN mind' : mind'[m] \in Mind
      /\ t \in DOMAIN home' =>
           home'[t] \in DOMAIN groups' /\ home'[t] # {} /\ groups'[home'[t]] # {}
      /\ ~spoiled' => GroupsInv' /\ Store!PrioritiesCurrent'
  <2>1. StoreTypes /\ Store!SameTracks /\ (~spoiled => GroupsInv /\ Store!PrioritiesCurrent)
    BY DEF StoreInv
  <2> QED
    BY <1>1, <1>3, <2>1, UpdateEffect
<1>5. /\ holding' = [q \in Requests |-> holding'[q]] /\ holding'[r] = Store!Idle
      /\ \A q \in Requests : q # r => holding'[q] = holding[q]
  BY <1>1, HoldingIs DEF StoreInv, StoreTypes
<1>6. /\ DOMAIN tracks' = (DOMAIN tracks) \union {t} /\ tracks'[t] = o
      /\ \A u \in DOMAIN tracks : u # t => tracks'[u] = tracks[u]
  BY <1>4 DEF Store!Put
<1>7. t \in DOMAIN mind' /\ state \in {"NORMAL", "COORDINATED"}
  <2>1. t \in DOMAIN mind'
    BY <1>4, <1>6 DEF Store!SameTracks
  <2> QED
    BY <1>4, <2>1 DEF Mind
<1>8. after # {} => after \in DOMAIN groups' /\ groups'[after] # {} /\ after = home'[t]
  BY <1>4
<1>9. t \in DOMAIN home' => after = home'[t] /\ after # {}
  BY <1>4
<1> HIDE DEF before, after, regrouped, state
<1>10. /\ DOMAIN lastBehaviors' = (DOMAIN lastBehaviors) \union {t} /\ lastBehaviors'[t] = state
       /\ \A u \in DOMAIN lastBehaviors : u # t => lastBehaviors'[u] = lastBehaviors[u]
  BY <1>2 DEF Store!Put
<1>11. \A u \in DOMAIN lastBehaviors' : u \in DOMAIN told' /\ told'[u] = lastBehaviors'[u]
  <2>1. \A u \in DOMAIN lastBehaviors : u \in DOMAIN told /\ told[u] = lastBehaviors[u]
    BY DEF StoreInv, Remembered
  <2>2. CASE Store!Get(lastBehaviors, t, "NONE") # state
    <3>1. /\ DOMAIN told' = (DOMAIN told) \union {t} /\ told'[t] = state
          /\ \A u \in DOMAIN told : u # t => told'[u] = told[u]
      BY <1>2, <2>2 DEF Store!Put
    <3> QED
      BY <1>10, <2>1, <3>1
  <2>3. CASE Store!Get(lastBehaviors, t, "NONE") = state
    <3>1. t \in DOMAIN lastBehaviors /\ lastBehaviors[t] = state
      BY <1>7, <2>3 DEF Store!Get
    <3>2. told' = told
      BY <1>2, <2>3
    <3> QED
      BY <1>10, <2>1, <3>1, <3>2
  <2> QED
    BY <2>2, <2>3
<1>12. \A g \in DOMAIN roster' : g \in DOMAIN ledger' /\ ledger'[g] = roster'[g]
  <2>1. \A g \in DOMAIN roster : g \in DOMAIN ledger /\ ledger[g] = roster[g]
    BY DEF StoreInv, Remembered
  <2>2. CASE after = {}
    <3>1. roster' = Store!Without(roster, {before}) /\ ledger' = ledger
      BY <1>2, <2>2
    <3>2. DOMAIN roster' \subseteq DOMAIN roster
            /\ \A g \in DOMAIN roster' : roster'[g] = roster[g]
      BY <3>1 DEF Store!Without, Store!Restrict
    <3> QED
      BY <2>1, <3>1, <3>2
  <2>3. CASE after # {}
    <3>1. /\ DOMAIN roster' = (DOMAIN roster) \union {after} /\ roster'[after] = groups'[after]
          /\ \A g \in DOMAIN roster : g # after => roster'[g] = roster[g]
      BY <1>2, <2>3 DEF Store!Put
    <3>2. CASE regrouped
      <4>1. /\ DOMAIN ledger' = (DOMAIN ledger) \union {after}
                 /\ ledger'[after] = groups'[after]
            /\ \A g \in DOMAIN ledger : g # after => ledger'[g] = ledger[g]
        BY <1>2, <2>3, <3>2 DEF Store!Put
      <4> QED
        BY <2>1, <3>1, <4>1
    <3>3. CASE ~regrouped
      <4>1. Store!Get(roster, after, {}) = groups'[after] /\ ledger' = ledger
        BY <1>2, <2>3, <3>3 DEF regrouped
      <4>2. after \in DOMAIN roster /\ roster[after] = groups'[after]
        BY <1>8, <2>3, <4>1 DEF Store!Get
      <4> QED
        BY <2>1, <3>1, <4>1, <4>2
    <3> QED
      BY <3>2, <3>3
  <2> QED
    BY <2>2, <2>3
<1>13. Store!HistoryCurrent'
  <2>1. told'[t] = mind'[t].state
    BY <1>10, <1>11 DEF state
  <2>2. ASSUME t \in DOMAIN home' PROVE ledger'[home'[t]] = groups'[home'[t]]
    <3>1. after = home'[t] /\ after # {}
      BY <1>9, <2>2
    <3>2. after \in DOMAIN roster' /\ roster'[after] = groups'[after]
      BY <1>2, <3>1 DEF Store!Put
    <3> QED
      BY <1>12, <3>1, <3>2
  <2> QED
    BY <1>1, <2>1, <2>2 DEF Store!HistoryCurrent
<1>14. Store!TracksFresh'
  <2> SUFFICES ASSUME NEW u \in DOMAIN tracks', u \notin stale',
                      \A q \in Requests : holding'[q].track # u
               PROVE  tracks'[u] = trackRows'[u]
    BY DEF Store!TracksFresh
  <2>1. CASE u = t
    BY <1>1, <1>6, <2>1
  <2>2. CASE u # t
    <3>1. u \in DOMAIN tracks /\ u \notin stale /\ tracks'[u] = tracks[u]
      BY <1>1, <1>6, <2>2
    <3>2. \A q \in Requests : holding[q].track # u
      BY <1>5, <2>2
    <3> QED
      BY <1>1, <3>1, <3>2 DEF StoreInv, Store!TracksFresh
  <2> QED
    BY <2>1, <2>2
<1>15. StoreTypes'
  <2>1. \A q \in Requests :
          holding'[q] = Store!Idle
            \/ (holding'[q].track \in DOMAIN trackRows' /\ holding'[q].obs.at \in Int)
    BY <1>1, <1>5 DEF StoreInv, StoreTypes
  <2>2. DOMAIN tracks' \subseteq DOMAIN trackRows'
          /\ \A u \in DOMAIN tracks' : tracks'[u].at \in Int
    BY <1>1, <1>3, <1>6 DEF StoreInv, StoreTypes
  <2>3. DOMAIN trackRows' \subseteq Tracks
          /\ (\A u \in DOMAIN trackRows' : trackRows'[u].at \in Int)
        /\ open' \subseteq DOMAIN trackRows'
    BY <1>1 DEF StoreInv, StoreTypes
  <2> QED
    BY <1>4, <1>5, <2>1, <2>2, <2>3 DEF StoreTypes
<1> QED
  BY <1>4, <1>11, <1>12, <1>13, <1>14, <1>15 DEF StoreInv, Remembered

(* A feed that fails is given up.                                          *)
LEMMA NextFeedFails ==
  ASSUME StoreOK, StoreInv, NEW r \in Requests, Store!FeedFails(r)
  PROVE  StoreInv'
<1>1. /\ holding[r] # Store!Idle /\ holding' = [holding EXCEPT ![r] = Store!Idle]
      /\ stale' = stale \union {holding[r].track} /\ focus' = 0
      /\ UNCHANGED <<trackRows, open, Store!store, Store!pipeline, trackChanges, spoiled>>
  BY DEF Store!FeedFails
<1>2. /\ holding' = [q \in Requests |-> holding'[q]] /\ holding'[r] = Store!Idle
      /\ \A q \in Requests : q # r => holding'[q] = holding[q]
  BY <1>1, HoldingIs DEF StoreInv, StoreTypes
<1>3. /\ Store!SameTracks' /\ (~spoiled' => GroupsInv' /\ Store!PrioritiesCurrent')
      /\ {} \notin DOMAIN groups' /\ spoiled' \in BOOLEAN
      /\ \A m \in DOMAIN mind' : mind'[m] \in Mind
  BY <1>1, StoreSame
<1>4. tracks' = tracks /\ trackRows' = trackRows /\ open' = open
      /\ lastBehaviors' = lastBehaviors /\ roster' = roster /\ told' = told /\ ledger' = ledger
  BY <1>1 DEF Store!store, Store!pipeline
<1>5. StoreTypes'
  <2>1. \A q \in Requests :
          holding'[q] = Store!Idle
            \/ (holding'[q].track \in DOMAIN trackRows /\ holding'[q].obs.at \in Int)
    BY <1>2 DEF StoreInv, StoreTypes
  <2> QED
    BY <1>2, <1>3, <1>4, <2>1 DEF StoreInv, StoreTypes
<1>6. Store!TracksFresh'
  <2> SUFFICES ASSUME NEW u \in DOMAIN tracks, u \notin stale',
                      \A q \in Requests : holding'[q].track # u
               PROVE  tracks[u] = trackRows[u]
    BY <1>4 DEF Store!TracksFresh
  <2>1. u \notin stale /\ u # holding[r].track
    BY <1>1
  <2>2. \A q \in Requests : holding[q].track # u
    BY <1>2, <2>1
  <2> QED
    BY <2>1, <2>2 DEF StoreInv, Store!TracksFresh
<1>7. Store!HistoryCurrent' /\ Remembered'
  BY <1>1, <1>4 DEF StoreInv, Remembered, Store!HistoryCurrent
<1> QED
  BY <1>3, <1>5, <1>6, <1>7 DEF StoreInv

(* A closed row leaves the store as it is.                                 *)
LEMMA NextClose ==
  ASSUME StoreOK, StoreInv, NEW t \in Tracks, Store!Close(t)
  PROVE  StoreInv'
<1>1. /\ open' = open \ {t} /\ focus' = 0
      /\ UNCHANGED <<trackRows, holding, Store!store, Store!pipeline, spoiled, stale>>
  BY DEF Store!Close, Store!Change
<1>2. /\ Store!SameTracks' /\ (~spoiled' => GroupsInv' /\ Store!PrioritiesCurrent')
      /\ {} \notin DOMAIN groups' /\ spoiled' \in BOOLEAN
      /\ \A m \in DOMAIN mind' : mind'[m] \in Mind
  BY <1>1, StoreSame
<1>3. tracks' = tracks /\ trackRows' = trackRows /\ holding' = holding /\ stale' = stale
      /\ lastBehaviors' = lastBehaviors /\ roster' = roster /\ told' = told /\ ledger' = ledger
  BY <1>1 DEF Store!store, Store!pipeline
<1>4. StoreTypes'
  BY <1>1, <1>2, <1>3 DEF StoreInv, StoreTypes
<1>5. Store!TracksFresh' /\ Store!HistoryCurrent' /\ Remembered'
  BY <1>1, <1>3 DEF StoreInv, Store!TracksFresh, Remembered, Store!HistoryCurrent
<1> QED
  BY <1>2, <1>4, <1>5 DEF StoreInv

(* The summary: a batch of the active rows, or nothing.                    *)
LEMMA NextRead ==
  ASSUME StoreOK, StoreInv, Store!Read
  PROVE  StoreInv'
<1>1. /\ focus' = 0 /\ trackRows' = trackRows /\ open' = open /\ holding' = holding
      /\ lastBehaviors' = lastBehaviors /\ roster' = roster /\ told' = told /\ ledger' = ledger
  BY DEF Store!Read
<1>2. /\ StoreTypes /\ Store!SameTracks /\ Remembered /\ Store!TracksFresh
      /\ (~spoiled => GroupsInv /\ Store!PrioritiesCurrent)
  BY DEF StoreInv
<1>3. Store!HistoryCurrent' /\ Remembered'
  BY <1>1, <1>2 DEF Remembered, Store!HistoryCurrent
<1>4. CASE open # {}
  <2> DEFINE obs == Store!Restrict(trackRows, open)
  <2>1. Store!UpdateBatch(obs) /\ stale' = stale \ open
    BY <1>4 DEF Store!Read
  <2>2. DOMAIN obs = open /\ \A u \in open : obs[u] = trackRows[u]
    BY DEF Store!Restrict
  <2> HIDE DEF obs
  <2>3. DOMAIN obs \subseteq Tracks /\ \A u \in DOMAIN obs : obs[u].at \in Int
    BY <1>2, <2>2 DEF StoreTypes
  <2>4. /\ tracks' = Store!Over(obs, tracks)
        /\ Store!SameTracks' /\ {} \notin DOMAIN groups' /\ spoiled' \in BOOLEAN
        /\ \A m \in DOMAIN mind' : mind'[m] \in Mind
        /\ ~spoiled' => GroupsInv' /\ Store!PrioritiesCurrent'
    BY <1>2, <2>1, <2>3, BatchEffect
  <2>5. /\ DOMAIN tracks' = open \union DOMAIN tracks
        /\ \A u \in open : tracks'[u] = trackRows[u]
        /\ \A u \in DOMAIN tracks : u \notin open => tracks'[u] = tracks[u]
    BY <2>2, <2>4 DEF Store!Over
  <2>6. StoreTypes'
    <3>1. DOMAIN tracks' \subseteq DOMAIN trackRows'
            /\ \A u \in DOMAIN tracks' : tracks'[u].at \in Int
      BY <1>1, <1>2, <2>5 DEF StoreTypes
    <3> QED
      BY <1>1, <1>2, <2>4, <3>1 DEF StoreTypes
  <2>7. Store!TracksFresh'
    BY <1>1, <1>2, <2>1, <2>5 DEF Store!TracksFresh
  <2> QED
    BY <1>3, <2>4, <2>6, <2>7 DEF StoreInv
<1>5. CASE open = {}
  <2>1. Store!Empty /\ spoiled' = FALSE
    BY <1>5 DEF Store!Read
  <2>2. /\ Store!SameTracks' /\ GroupsInv' /\ Store!PrioritiesCurrent'
        /\ DOMAIN tracks' = {} /\ DOMAIN mind' = {} /\ DOMAIN groups' = {}
    BY <2>1, StoreEmptied
  <2>3. StoreTypes' /\ Store!TracksFresh'
    BY <1>1, <1>2, <2>1, <2>2 DEF StoreTypes, Store!TracksFresh
  <2> QED
    BY <1>3, <2>2, <2>3 DEF StoreInv
<1> QED
  BY <1>4, <1>5

(* Removing a track takes it from the tables and its group.                *)
LEMMA NextRemove ==
  ASSUME StoreOK, StoreInv, NEW t \in Tracks, Store!Remove(t)
  PROVE  StoreInv'
<1>1. /\ t \in DOMAIN tracks /\ Store!DropTrack(t)
           /\ lastBehaviors' = Store!Without(lastBehaviors, {t})
      /\ stale' = stale \ {t} /\ focus' = 0
      /\ trackRows' = trackRows /\ open' = open /\ holding' = holding
      /\ roster' = roster /\ told' = told /\ ledger' = ledger
  BY DEF Store!Remove, Store!Change
<1>2. /\ StoreTypes /\ Store!SameTracks /\ Remembered /\ Store!TracksFresh
      /\ (~spoiled => GroupsInv /\ Store!PrioritiesCurrent)
  BY DEF StoreInv
<1>3. /\ tracks' = Store!Without(tracks, {t})
      /\ Store!SameTracks' /\ {} \notin DOMAIN groups' /\ spoiled' \in BOOLEAN
      /\ \A m \in DOMAIN mind' : mind'[m] \in Mind
      /\ ~spoiled' => GroupsInv' /\ Store!PrioritiesCurrent'
  BY <1>1, <1>2, DropEffect
<1>4. DOMAIN tracks' = (DOMAIN tracks) \ {t} /\ \A u \in DOMAIN tracks' : tracks'[u] = tracks[u]
  BY <1>3 DEF Store!Without, Store!Restrict
<1>5. DOMAIN lastBehaviors' \subseteq DOMAIN lastBehaviors
        /\ \A u \in DOMAIN lastBehaviors' : lastBehaviors'[u] = lastBehaviors[u]
  BY <1>1 DEF Store!Without, Store!Restrict
<1>6. Remembered' /\ Store!HistoryCurrent'
  BY <1>1, <1>2, <1>5 DEF Remembered, Store!HistoryCurrent
<1>7. Store!TracksFresh'
  BY <1>1, <1>2, <1>4 DEF Store!TracksFresh
<1>8. StoreTypes'
  BY <1>1, <1>2, <1>3, <1>4 DEF StoreTypes
<1> QED
  BY <1>3, <1>6, <1>7, <1>8 DEF StoreInv

(* A restart begins with an empty store.                                   *)
LEMMA NextRestart ==
  ASSUME StoreOK, StoreInv, Store!Restart
  PROVE  StoreInv'
<1>1. /\ Store!Empty /\ lastBehaviors' = Store!Nothing /\ roster' = Store!Nothing
      /\ holding' = [r \in Requests |-> Store!Idle] /\ spoiled' = FALSE
      /\ focus' = 0 /\ trackRows' = trackRows /\ open' = open
  BY DEF Store!Restart, Store!Change
<1>2. /\ Store!SameTracks' /\ GroupsInv' /\ Store!PrioritiesCurrent'
      /\ DOMAIN tracks' = {} /\ DOMAIN mind' = {} /\ DOMAIN groups' = {}
  BY <1>1, StoreEmptied
<1>3. Remembered' /\ Store!HistoryCurrent' /\ Store!TracksFresh'
  BY <1>1, <1>2, NothingIs DEF Remembered, Store!HistoryCurrent, Store!TracksFresh
<1>4. StoreTypes'
  BY <1>1, <1>2 DEF StoreInv, StoreTypes
<1> QED
  BY <1>2, <1>3, <1>4 DEF StoreInv

(* The store begins empty.                                                 *)
LEMMA InitStore == ASSUME StoreOK, Store!Init PROVE StoreInv
<1>1. /\ DOMAIN tracks = {} /\ DOMAIN groups = {} /\ DOMAIN home = {} /\ DOMAIN formed = {}
      /\ DOMAIN mind = {} /\ DOMAIN heard = {} /\ DOMAIN priority = {}
      /\ DOMAIN lastBehaviors = {} /\ DOMAIN roster = {}
  BY NothingIs DEF Store!Init
<1>2. Store!SameTracks /\ Store!PrioritiesCurrent /\ Remembered /\ Store!TracksFresh
  BY <1>1 DEF Store!SameTracks, Store!PrioritiesCurrent, Remembered, Store!TracksFresh
<1>3. GroupsInv
  BY <1>1 DEF GroupsInv, Together, AtHome
<1>4. StoreTypes
  <2>1. trackRows \in Layouts /\ open = DOMAIN trackRows
          /\ holding = [r \in Requests |-> Store!Idle]
        /\ spoiled = FALSE
    BY DEF Store!Init
  <2> QED
    BY <1>1, <2>1 DEF StoreOK, StoreTypes
<1>5. Store!HistoryCurrent
  BY DEF Store!Init, Store!HistoryCurrent
<1> QED
  BY <1>2, <1>3, <1>4, <1>5 DEF StoreInv

(* Every step of the store keeps its invariant.                            *)
LEMMA NextStore == ASSUME StoreOK, StoreInv, [Store!Next]_(Store!vars) PROVE StoreInv'
<1>1. CASE UNCHANGED Store!vars
  <2>1. UNCHANGED Store!store /\ UNCHANGED spoiled /\ trackRows' = trackRows /\ open' = open
          /\ tracks' = tracks
        /\ holding' = holding /\ stale' = stale /\ focus' = focus
        /\ lastBehaviors' = lastBehaviors /\ roster' = roster /\ told' = told
             /\ ledger' = ledger
        /\ home' = home /\ mind' = mind /\ groups' = groups
    BY <1>1 DEF Store!vars, Store!store, Store!pipeline
  <2>2. /\ Store!SameTracks' /\ (~spoiled' => GroupsInv' /\ Store!PrioritiesCurrent')
        /\ {} \notin DOMAIN groups' /\ spoiled' \in BOOLEAN
        /\ \A m \in DOMAIN mind' : mind'[m] \in Mind
    BY <2>1, StoreSame
  <2>3. StoreTypes'
    BY <2>1, <2>2 DEF StoreInv, StoreTypes
  <2>4. Remembered' /\ Store!TracksFresh' /\ Store!HistoryCurrent'
    BY <2>1 DEF StoreInv, Remembered, Store!TracksFresh, Store!HistoryCurrent
  <2> QED
    BY <2>2, <2>3, <2>4 DEF StoreInv
<1>2. CASE Store!Next
  <2>1. \/ \E r \in Requests, t \in Tracks : (\E o \in Moves : Store!Commit(r, t, o))
             \/ Store!Look(r, t)
        \/ \E r \in Requests : Store!Feed(r) \/ Store!FeedFails(r)
        \/ \E t \in Tracks : Store!Close(t) \/ Store!Remove(t)
        \/ Store!Read \/ Store!Restart
    BY <1>2 DEF Store!Next
  <2> QED
    BY <2>1, NextCommit, NextLook, NextFeed, NextFeedFails, NextClose, NextRemove, NextRead,
       NextRestart
<1> QED
  BY <1>1, <1>2

(* The invariant has what the run checks of the store.                     *)
LEMMA StoreInvSound == ASSUME StoreOK, StoreInv PROVE Store!StoreSound
<1>1. ASSUME GroupsInv PROVE Store!GroupsExact
  <2>1. \A t, u \in DOMAIN tracks :
           t # u /\ Store!Correlated(tracks[t], tracks[u]) =>
               \E g \in DOMAIN groups : {t, u} \subseteq groups[g]
    BY <1>1 DEF GroupsInv, Together
  <2>2. \A g \in DOMAIN groups :
           \A some \in (SUBSET groups[g]) \ {{}, groups[g]} :
               \E t \in some, u \in groups[g] \ some : Store!Correlated(tracks[t], tracks[u])
    BY <1>1 DEF GroupsInv, Connected
  <2>3. \A t \in Tracks : (t \in DOMAIN home) <=> \E g \in DOMAIN groups : t \in groups[g]
    BY <1>1 DEF GroupsInv, AtHome
  <2>4. \A t \in DOMAIN home : home[t] \in DOMAIN groups /\ t \in groups[home[t]]
    BY <1>1 DEF GroupsInv, AtHome
  <2> QED
    BY <2>1, <2>2, <2>3, <2>4 DEF Store!GroupsExact
<1> QED
  BY <1>1 DEF StoreInv, Store!StoreSound

-----------------------------------------------------------------------------
(* The scores of a track *)

(* Instantaneous scores are points out of a hundred.                       *)
ScoringOK == Scores \subseteq 0..100

Conditions == {"RAPID_CHANGE", "ANOMALOUS", "COORDINATED", "APPROACHING", "DEPARTING",
               "LOITERING", "NORMAL"}

(* The state is the condition that came twice in a row; the last condition *)
(* is the state or pending, for as long as it has been coming.             *)
MindEarned ==
  /\ classifier \in [state : Conditions, pending : Conditions \union {"NONE"}, ticks : Nat]
  /\ streak \in [of : Conditions \union {"NONE"}, length : 0..2]
  /\ classifier.state = settled
  /\ classifier.pending # "NONE" => classifier.pending = streak.of
       /\ classifier.ticks = streak.length
  /\ streak.of = "NONE" <=> streak.length = 0
  /\ streak.of # "NONE" /\ streak.of # classifier.state =>
        classifier.pending = streak.of /\ classifier.ticks = 1 /\ streak.length = 1

FlagKept ==
  /\ anomaly \in [score : 0..100, qualifying : 0..3, recovery : Nat, on : BOOLEAN]
  /\ above \in 0..3 /\ below \in 0..5 /\ peak \in 0..100
  /\ anomaly.qualifying = above
  /\ above = 3 => anomaly.on
  /\ below = 5 => ~anomaly.on
  /\ anomaly.on => anomaly.recovery = below
  /\ anomaly.score <= peak

ScoringInv == MindEarned /\ FlagKept /\ Scoring!NeverCritical

(* The precedence always has a first condition that applies.               *)
LEMMA ConditionFound ==
  ASSUME NEW S
  PROVE  Scoring!Candidate(S) \in Conditions
<1> DEFINE T == {n \in 1..Len(Scoring!Precedence) : Scoring!Precedence[n] \in S \cup {"NORMAL"}}
           n == CHOOSE k \in T : \A j \in T : k <= j
<1>1. Len(Scoring!Precedence) = 7 /\ Scoring!Precedence[7] = "NORMAL"
      /\ \A k \in 1..7 : Scoring!Precedence[k] \in Conditions
  BY DEF Scoring!Precedence, Conditions
<1>2. 7 \in T /\ T \subseteq Nat /\ T \subseteq 1..7
  BY <1>1
<1>3. \E k \in T : \A j \in T : k <= j
  BY <1>2, LeastNatural
<1> HIDE DEF T
<1>4. n \in T
  BY <1>3
<1>5. Scoring!Candidate(S) = Scoring!Precedence[n]
  BY DEF Scoring!Candidate, T
<1> QED
  BY <1>1, <1>2, <1>4, <1>5

(* Only a condition that comes twice in a row becomes the state.           *)
LEMMA MindStep ==
  ASSUME MindEarned, NEW candidate \in Conditions, Scoring!Classify(candidate),
         Scoring!Follow(candidate)
  PROVE  MindEarned'
<1> DEFINE n == IF candidate = classifier.pending THEN classifier.ticks + 1 ELSE 1
<1>1. /\ classifier = [state |-> classifier.state, pending |-> classifier.pending,
                       ticks |-> classifier.ticks]
      /\ classifier.state \in Conditions /\ classifier.pending \in Conditions \union {"NONE"}
      /\ classifier.ticks \in Nat
      /\ streak.of \in Conditions \union {"NONE"} /\ streak.length \in {0, 1, 2}
      /\ classifier.state = settled
  BY DEF MindEarned
<1>2. /\ classifier.pending # "NONE" => classifier.pending = streak.of
           /\ classifier.ticks = streak.length
      /\ streak.of = "NONE" <=> streak.length = 0
      /\ streak.of # "NONE" /\ streak.of # classifier.state =>
            classifier.pending = streak.of /\ classifier.ticks = 1 /\ streak.length = 1
  BY DEF MindEarned
<1>3. candidate # "NONE"
  BY DEF Conditions
<1>4. /\ streak' = [of |-> candidate,
                    length |-> IF candidate = streak.of
                               THEN Scoring!Capped(streak.length, Scoring!EnterTicks)
                               ELSE 1]
      /\ settled' = IF streak'.length = Scoring!EnterTicks THEN candidate ELSE settled
  BY DEF Scoring!Follow
<1>5. /\ streak'.of = candidate /\ streak' \in [of : Conditions \union {"NONE"}, length : 0..2]
      /\ candidate = streak.of /\ streak.length = 0 => streak'.length = 1
      /\ candidate = streak.of /\ streak.length # 0 => streak'.length = 2
      /\ candidate # streak.of => streak'.length = 1
  <2> DEFINE long == IF candidate = streak.of
                     THEN Scoring!Capped(streak.length, Scoring!EnterTicks) ELSE 1
  <2>1. /\ candidate = streak.of /\ streak.length = 0 => long = 1
        /\ candidate = streak.of /\ streak.length # 0 => long = 2
        /\ candidate # streak.of => long = 1
        /\ long \in 0..2
    BY <1>1 DEF Scoring!Capped, Scoring!EnterTicks
  <2>2. streak' = [of |-> candidate, length |-> long]
    BY <1>4
  <2> HIDE DEF long
  <2> QED
    BY <2>1, <2>2
<1>6. settled' = IF streak'.length = 2 THEN candidate ELSE settled
  BY <1>4 DEF Scoring!EnterTicks
<1>7. CASE candidate = classifier.state
  <2>1. classifier' = [state |-> candidate, pending |-> "NONE", ticks |-> 0]
    BY <1>1, <1>7 DEF Scoring!Classify
  <2>2. classifier'.state = candidate /\ classifier'.pending = "NONE" /\ settled' = candidate
    BY <1>1, <1>6, <1>7, <2>1
  <2>3. streak'.length # 0
    BY <1>1, <1>5
  <2> QED
    BY <1>3, <1>5, <2>1, <2>2, <2>3 DEF MindEarned
<1>8. CASE candidate # classifier.state /\ candidate = streak.of
  <2>1. classifier.pending = candidate /\ classifier.ticks = 1 /\ streak.length = 1
    BY <1>2, <1>3, <1>8
  <2>2. classifier' = [state |-> candidate, pending |-> "NONE", ticks |-> 0]
    BY <1>8, <2>1 DEF Scoring!Classify, Scoring!EnterTicks
  <2>3. streak'.length = 2 /\ settled' = candidate
    BY <1>5, <1>6, <1>8, <2>1
  <2> QED
    BY <1>3, <1>5, <2>2, <2>3 DEF MindEarned
<1>9. CASE candidate # classifier.state /\ candidate # streak.of
  <2>1. candidate # classifier.pending
    BY <1>2, <1>3, <1>9
  <2>2. classifier' = [state |-> classifier.state, pending |-> candidate, ticks |-> 1]
    <3>1. classifier' = [classifier EXCEPT !.pending = candidate, !.ticks = 1]
      BY <1>9, <2>1 DEF Scoring!Classify, Scoring!EnterTicks
    <3> QED
      BY <1>1, <3>1
  <2>3. streak'.length = 1 /\ settled' = settled
    BY <1>5, <1>6, <1>9
  <2> QED
    BY <1>1, <1>3, <1>5, <2>2, <2>3 DEF MindEarned
<1> QED
  BY <1>7, <1>8, <1>9

(* The flag goes up with the third score above, down with the fifth below. *)
LEMMA AccumulateStep ==
  ASSUME FlagKept, NEW score \in 0..100, NEW dt \in -1..1, Scoring!Accumulate(score, dt),
         above' = IF anomaly'.score >= Scoring!EnterAnomalous.threshold
                  THEN Scoring!Capped(above, Scoring!EnterAnomalous.ticks) ELSE 0,
         below' = IF anomaly'.score < Scoring!ExitAnomalous.threshold
                  THEN Scoring!Capped(below, Scoring!ExitAnomalous.ticks) ELSE 0,
         peak' = IF score > peak THEN score ELSE peak
  PROVE  FlagKept'
<1> DEFINE value == Scoring!Decayed(anomaly.score, dt) + Scoring!Gained(score, dt)
           high == value >= 60
           low == value < 40
           more == IF high THEN anomaly.qualifying + 1 ELSE 0
           recovery == IF anomaly.on /\ low THEN anomaly.recovery + 1 ELSE 0
           enough == IF more > 3 THEN 3 ELSE more
           flag == IF anomaly.on THEN ~(low /\ recovery >= 5) ELSE more >= 3
<1>1. /\ anomaly.score \in 0..100 /\ anomaly.qualifying \in 0..3 /\ anomaly.recovery \in Nat
      /\ anomaly.on \in BOOLEAN /\ above \in 0..3 /\ below \in 0..5 /\ peak \in 0..100
      /\ anomaly.qualifying = above /\ anomaly.score <= peak
      /\ above = 3 => anomaly.on
      /\ below = 5 => ~anomaly.on
      /\ anomaly.on => anomaly.recovery = below
  BY DEF FlagKept
<1>2. anomaly' = [score |-> value, qualifying |-> enough, recovery |-> recovery, on |-> flag]
  BY DEF Scoring!Accumulate, Scoring!EnterAnomalous, Scoring!ExitAnomalous
<1>3. peak' \in 0..100 /\ peak <= peak' /\ score <= peak'
  BY <1>1
<1>4. value \in 0..100 /\ value <= peak'
  <2>1. \A s, e, p \in 0..100 : s <= p /\ e <= p =>
          (s \div 2) + (e \div 2) \in 0..100 /\ (s \div 2) + (e \div 2) <= p
    OBVIOUS
  <2>2. anomaly.score <= peak'
    BY <1>1, <1>3
  <2>3. CASE dt <= 0
    BY <1>1, <2>2, <2>3 DEF Scoring!Decayed, Scoring!Gained
  <2>4. CASE ~(dt <= 0)
    BY <1>1, <1>3, <2>1, <2>2, <2>4 DEF Scoring!Decayed, Scoring!Gained
  <2> QED
    BY <2>3, <2>4
<1> HIDE DEF value
<1>5. high \in BOOLEAN /\ low \in BOOLEAN /\ (high => ~low)
  BY <1>4
<1>6. /\ above' = IF high THEN (IF above < 3 THEN above + 1 ELSE 3) ELSE 0
      /\ below' = IF low THEN (IF below < 5 THEN below + 1 ELSE 5) ELSE 0
  BY <1>2 DEF Scoring!Capped, Scoring!EnterAnomalous, Scoring!ExitAnomalous
<1> HIDE DEF high, low
<1>7. more \in 0..4 /\ enough \in 0..3 /\ above' \in 0..3 /\ below' \in 0..5 /\ enough = above'
      /\ (above' = 3 => more >= 3) /\ (above' = 3 => high) /\ (more >= 3 => high)
  BY <1>1, <1>6
<1>8. recovery \in Nat /\ (anomaly.on => recovery = below')
  BY <1>1, <1>6
<1>9. (below' = 5 => low) /\ (~low => below' = 0)
  BY <1>1, <1>6
<1> HIDE DEF more, enough
<1>10. flag \in BOOLEAN
  <2>1. CASE anomaly.on
    <3>1. flag = ~(low /\ recovery >= 5)
      BY <2>1
    <3> QED
      BY <3>1
  <2>2. CASE ~anomaly.on
    <3>1. flag = (more >= 3)
      BY <2>2
    <3>2. (more >= 3) \in BOOLEAN
      BY <1>7
    <3> QED
      BY <3>1, <3>2, Zenon
  <2> QED
    BY <2>1, <2>2
<1>11. above' = 3 => flag
  BY <1>1, <1>5, <1>7
<1>12. below' = 5 => ~flag
  BY <1>1, <1>5, <1>7, <1>8, <1>9
<1>13. flag => recovery = below'
  BY <1>1, <1>5, <1>7, <1>8, <1>9
<1> HIDE DEF recovery, flag
<1>14. /\ anomaly'.score = value /\ anomaly'.qualifying = enough /\ anomaly'.recovery = recovery
       /\ anomaly'.on = flag
       /\ anomaly' \in [score : 0..100, qualifying : 0..3, recovery : Nat, on : BOOLEAN]
  BY <1>2, <1>4, <1>7, <1>8, <1>10
<1> QED
  BY <1>3, <1>4, <1>7, <1>11, <1>12, <1>13, <1>14 DEF FlagKept

(* At best 67 points: no share of the geofence, 90 points of behaviour and *)
(* everything else in full.                                                *)
LEMMA PointsBounded ==
  ASSUME NEW b \in 0..90, NEW p \in 0..100, NEW c \in 0..100, NEW s \in {0, 100}
  PROVE  Scoring!Score(0, b, p, c, s, s) \in Int /\ Scoring!Score(0, b, p, c, s, s) < 80
<1> DEFINE x == 30 * 0 + 25 * b + 20 * p + 15 * c + 10 * s
<1>1. x \in 0..6750
  <2>1. 25 * b \in 0..2250 /\ 20 * p \in 0..2000 /\ 15 * c \in 0..1500 /\ 10 * s \in 0..1000
    OBVIOUS
  <2> QED
    BY <2>1
<1>2. Scoring!Score(0, b, p, c, s, s) = (x * (30 + (70 * s) \div 100)) \div 10000
  BY DEF Scoring!Score
<1> HIDE DEF x
<1>3. (x * 100) \div 10000 \in 0..79 /\ (x * 30) \div 10000 \in 0..79
  BY <1>1
<1>4. CASE s = 0
  BY <1>2, <1>3, <1>4
<1>5. CASE s = 100
  BY <1>2, <1>3, <1>5
<1> QED
  BY <1>4, <1>5

(* At best 67 points out of 100 are reached, short of CRITICAL.            *)
LEMMA PrioritizeStep ==
  ASSUME MindEarned', FlagKept', NEW S, NEW strong \in {0, 100}, Scoring!Prioritize(S, strong)
  PROVE  Scoring!NeverCritical'
<1> DEFINE shared == IF "COORDINATED" \in S THEN 100 ELSE 0
           score == Scoring!Score(0, Scoring!Weight[classifier'.state], anomaly'.score,
                                  shared, strong, strong)
<1>1. Scoring!Weight[classifier'.state] \in 0..90
  <2>1. classifier'.state \in Conditions
    BY DEF MindEarned
  <2> QED
    BY <2>1 DEF Scoring!Weight, Conditions
<1>2. anomaly'.score \in 0..100
  BY DEF FlagKept
<1>3. assessment' = [score |-> score, level |-> Scoring!Level(score)]
  BY DEF Scoring!Prioritize
<1>4. shared \in 0..100
  OBVIOUS
<1> HIDE DEF shared
<1>5. score \in Int /\ score < 80
  <2> DEFINE b == Scoring!Weight[classifier'.state]
             p == anomaly'.score
  <2>1. b \in 0..90 /\ p \in 0..100
    BY <1>1, <1>2
  <2>2. score = Scoring!Score(0, b, p, shared, strong, strong)
    OBVIOUS
  <2> HIDE DEF b, p, score
  <2> QED
    BY <1>4, <2>1, <2>2, PointsBounded
<1> HIDE DEF score
<1>6. Scoring!Level(score) # "CRITICAL"
  BY <1>5 DEF Scoring!Level
<1> QED
  BY <1>3, <1>6 DEF Scoring!NeverCritical

(* A track begins NORMAL, without score or flag.                           *)
LEMMA InitScoring == ASSUME Scoring!Init PROVE ScoringInv
<1>1. MindEarned
  BY DEF Scoring!Init, MindEarned, Conditions
<1>2. FlagKept
  BY DEF Scoring!Init, FlagKept
<1> QED
  BY <1>1, <1>2 DEF Scoring!Init, ScoringInv, Scoring!NeverCritical

(* Every evaluation keeps the invariant of the scores.                     *)
LEMMA NextScoring ==
  ASSUME ScoringOK, ScoringInv, [Scoring!Next]_(Scoring!vars)
  PROVE  ScoringInv'
<1>1. CASE UNCHANGED Scoring!vars
  BY <1>1 DEF Scoring!vars, ScoringInv, MindEarned, FlagKept, Scoring!NeverCritical
<1>2. ASSUME NEW S \in Evidence, NEW strong \in {0, 100}, Scoring!Neighbour(S, strong)
      PROVE  ScoringInv'
  <2>1. /\ anomaly' = anomaly /\ above' = above /\ below' = below /\ peak' = peak
        /\ Scoring!Classify(Scoring!Candidate(S)) /\ Scoring!Follow(Scoring!Candidate(S))
             /\ Scoring!Prioritize(S, strong)
    BY <1>2 DEF Scoring!Neighbour
  <2>2. FlagKept'
    BY <2>1 DEF ScoringInv, FlagKept
  <2>3. MindEarned'
    BY <2>1, ConditionFound, MindStep DEF ScoringInv
  <2> QED
    BY <2>1, <2>2, <2>3, PrioritizeStep DEF ScoringInv
<1>3. ASSUME NEW S \in Evidence, NEW strong \in {0, 100}, NEW score \in Scores,
             NEW dt \in -1..1,
             Scoring!Observe(S, score, dt, strong)
      PROVE  ScoringInv'
  <2>1. /\ Scoring!Accumulate(score, dt)
        /\ above' = IF anomaly'.score >= Scoring!EnterAnomalous.threshold
                    THEN Scoring!Capped(above, Scoring!EnterAnomalous.ticks) ELSE 0
        /\ below' = IF anomaly'.score < Scoring!ExitAnomalous.threshold
                    THEN Scoring!Capped(below, Scoring!ExitAnomalous.ticks) ELSE 0
        /\ peak' = IF score > peak THEN score ELSE peak
        /\ Scoring!Classify(Scoring!Candidate(S)) /\ Scoring!Follow(Scoring!Candidate(S))
             /\ Scoring!Prioritize(S, strong)
    BY <1>3 DEF Scoring!Observe
  <2>2. FlagKept'
    BY <2>1, AccumulateStep DEF ScoringInv, ScoringOK
  <2>3. MindEarned'
    BY <2>1, ConditionFound, MindStep DEF ScoringInv
  <2> QED
    BY <2>1, <2>2, <2>3, PrioritizeStep DEF ScoringInv
<1> QED
  BY <1>1, <1>2, <1>3 DEF Scoring!Next

(* The invariant has what the run checks of the scores.                    *)
LEMMA ScoringInvSound == ASSUME ScoringInv PROVE Scoring!ScoringSound
BY DEF ScoringInv, MindEarned, FlagKept, Scoring!ScoringSound, Scoring!StateEarned,
       Scoring!FlagEarned, Scoring!EnterAnomalous, Scoring!ExitAnomalous

-----------------------------------------------------------------------------
(* The composition: a step is one of the part the behaviour belongs to, or *)
(* leaves that part as it is.                                              *)
LEMMA PartStep ==
  ASSUME [Next]_vars
  PROVE  /\ part' = part
         /\ part = "rights" => [Rights!Next]_(Rights!vars)
         /\ part = "login" => [Guard!Next]_(Guard!vars)
         /\ part = "store" => [Store!Next]_(Store!vars)
         /\ part = "scoring" => [Scoring!Next]_(Scoring!vars)
         /\ part = "history" => [History!Next]_(History!vars)
<1>1. CASE UNCHANGED vars
  BY <1>1 DEF vars, rightsVars, loginVars, storeVars, scoringVars, historyVars,
              Rights!vars, Guard!vars, Store!vars, Store!store, Store!pipeline,
              Scoring!vars, History!vars
<1>2. CASE Next
  BY <1>2 DEF Next
<1> QED
  BY <1>1, <1>2

(* Roles and logins, whatever the policies and however mutations and       *)
(* attempts overlap: no active super admin is lost, a deleted role leaves  *)
(* nothing behind and nobody hands out what he does not hold, unless off   *)
(* SQLite mutations met; no window admits more than the policy says and no *)
(* locked account opens, where requests do not overlap in a memory store.  *)
THEOREM AccessAlwaysSound ==
  ASSUME LoginOK
  PROVE  Spec => []AccessSound
<1> DEFINE PartInv == /\ part = "rights" => RightsInv
                      /\ part = "login" => LoginInv
<1>1. PartInv => AccessSound
  BY RightsInvSound, LoginInvSound DEF AccessSound
<1>2. Init => PartInv
  BY InitRights, InitLogin DEF Init
<1>3. PartInv /\ [Next]_vars => PartInv'
  BY PartStep, NextRights, NextLogin
<1> QED
  BY <1>1, <1>2, <1>3, PTL DEF Spec

(* Whatever is flushed, refused, lost with a batch, cleared or restarted,  *)
(* and however many flushes run: no record goes missing uncounted, what    *)
(* the signatures say is recorded is stored or on its way, snapshots of a  *)
(* life are apart, and flushes that take turns store in order              *)
(* (history/persistence.py).                                               *)
THEOREM HistoryAlwaysSound ==
  ASSUME Interval \in Nat
  PROVE  Spec => [](part = "history" => History!HistorySound)
<1> DEFINE PartInv == part = "history" => HistoryInv
<1>1. PartInv => (part = "history" => History!HistorySound)
  BY DEF HistoryInv, HistoryTypes, ApartInv, TurnsInv, Increasing, History!HistorySound,
         History!StoredInOrder
<1>2. Init => PartInv
  BY InitHistory DEF Init
<1>3. PartInv /\ [Next]_vars => PartInv'
  BY PartStep, NextHistory
<1> QED
  BY <1>1, <1>2, <1>3, PTL DEF Spec

(* The intelligence, whatever is committed, fed, lost, overtaken, closed,  *)
(* removed, resynchronised or restarted in between: unless an update cuts  *)
(* a group or an identifier is shared, the store's groups are those of a   *)
(* batch over all its tracks and its priorities what evaluating them now   *)
(* would give (intelligence/incremental.py); the history holds what was    *)
(* last fed; states and flags are earned by evaluations in a row, nothing  *)
(* is ever critical; and no record of the history goes missing uncounted.  *)
THEOREM IntelligenceAlwaysSound ==
  ASSUME StoreOK, ScoringOK, Interval \in Nat
  PROVE  Spec => []IntelligenceSound
<1> DEFINE PartInv == /\ part = "store" => StoreInv
                      /\ part = "scoring" => ScoringInv
                      /\ part = "history" => HistoryInv
<1>1. PartInv => IntelligenceSound
  <2>1. HistoryInv => History!HistorySound
    BY DEF HistoryInv, HistoryTypes, ApartInv, TurnsInv, Increasing, History!HistorySound,
           History!StoredInOrder
  <2> QED
    BY <2>1, StoreInvSound, ScoringInvSound DEF IntelligenceSound
<1>2. Init => PartInv
  BY InitStore, InitScoring, InitHistory DEF Init
<1>3. PartInv /\ [Next]_vars => PartInv'
  BY PartStep, NextStore, NextScoring, NextHistory
<1> QED
  BY <1>1, <1>2, <1>3, PTL DEF Spec

=============================================================================
