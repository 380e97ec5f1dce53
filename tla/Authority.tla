----------------------------- MODULE Authority -----------------------------
(* Roles, permissions and who may change them.                             *)
(*                                                                         *)
(* A mutation checks the actor's authority and then writes and commits.    *)
(* On SQLite it first takes the writer's lock, so that nothing is written  *)
(* between the check and the commit; on PostgreSQL (READ COMMITTED)        *)
(* another mutation may commit in between.  The creation and the deletion  *)
(* of a role wait for the lock only when they write.                       *)
EXTENDS Naturals, FiniteSets

CONSTANTS
    Users,
    Requests,     \* requests in flight
    MaxMutations  \* bound: mutations in a behaviour

VARIABLES
    serial,       \* TRUE on SQLite
    disabled,     \* users whose status is DISABLED
    member,       \* roles of each user
    custom,       \* permissions of the custom role
    exists,       \* whether the custom role exists
    mutation,     \* what each request is doing
    mutations,    \* mutations begun so far
    admitted,     \* history: super admins since the bootstrap
    crossed,      \* history: some mutation met another between check and commit
    overreach     \* history: some mutation gave what its actor did not hold

vars == <<serial, disabled, member, custom, exists, mutation, mutations, admitted, crossed,
          overreach>>

(* Three permissions stand for all: the two that guard mutations, and one  *)
(* that guards something else.                                             *)
Keys == {"roles.assign", "roles.update", "incidents.purge"}
Roles == {"SUPER_ADMIN", "SECURITY_ADMIN", "CUSTOM"}
Granted(perms) == [r \in Roles |-> CASE r = "SUPER_ADMIN" -> Keys
                                     [] r = "SECURITY_ADMIN" -> {"roles.assign"}
                                     [] OTHER -> perms]
Ready == [op |-> "none", actor |-> "nobody", target |-> "nobody", key |-> "none"]

Active == Users \ disabled
HeldIn(u, roles, perms) == UNION {Granted(perms)[r] : r \in roles[u]}
Held(u) == HeldIn(u, member, custom)

Init ==
    /\ serial \in BOOLEAN
    /\ disabled \in {d \in SUBSET Users : Cardinality(d) <= 1}
    /\ member \in {[u \in Users |-> {}]} \union
                  {[u \in Users |-> CASE u = admin -> {"SUPER_ADMIN"}
                                      [] u = officer -> {"SECURITY_ADMIN"}
                                      [] OTHER -> {}] : admin, officer \in Users}
    /\ custom \in {{}, {"roles.update"}}
    /\ exists = TRUE
    /\ mutation = [r \in Requests |-> Ready]
    /\ mutations = 0
    /\ admitted = {u \in Active : "SUPER_ADMIN" \in member[u]}
    /\ crossed = FALSE
    /\ overreach = FALSE

-----------------------------------------------------------------------------
(* A mutation: its check, and its commit *)

Idle(r) == mutation[r].op = "none"
Others(r) == {x \in Requests \ {r} : ~Idle(x)}

(* A custom role that is no longer there cannot be loaded again. *)
Loadable(role) == role = "CUSTOM" => exists

Check(r, op, actor, target, key) ==
    /\ Idle(r)
    /\ mutations < MaxMutations
    /\ serial => Others(r) = {}
    /\ mutations' = mutations + 1
    /\ mutation' = [mutation EXCEPT ![r] = [op |-> op, actor |-> actor, target |-> target,
                                            key |-> key]]
    /\ UNCHANGED <<serial, disabled, member, custom, exists, admitted, crossed, overreach>>

(* Mutant: any holder of roles.assign assigns any role. *)
MayAssignAny(actor, role) ==
    /\ actor \in Active
    /\ "roles.assign" \in Held(actor)

MayAssign(actor, role) ==
    /\ actor \in Active
    /\ "roles.assign" \in Held(actor)
    /\ Granted(custom)[role] \subseteq Held(actor)

CheckAssign(r, actor, target, role) ==
    /\ Loadable(role)
    /\ MayAssign(actor, role)
    /\ role \notin member[target]
    /\ Check(r, "assign", actor, target, role)

(* The query that is to find another active super admin excludes, besides  *)
(* the target, the role that is taken away, which is the only one of that  *)
(* name: it finds nobody.                                                  *)
SuperAdminsBesides(target, role) ==
    {u \in Active \ {target} : \E x \in member[u] \ {role} : x = "SUPER_ADMIN"}

CheckRevoke(r, actor, target, role) ==
    /\ Loadable(role)
    /\ MayAssign(actor, role)
    /\ role \in member[target]
    /\ role = "SUPER_ADMIN" /\ target \in Active => SuperAdminsBesides(target, role) # {}
    /\ Check(r, "revoke", actor, target, role)

(* Permissions of a role change only for custom roles, and within the      *)
(* actor's own.                                                            *)
MayUpdate(actor, key) ==
    /\ exists
    /\ actor \in Active
    /\ {"roles.update", key} \subseteq Held(actor)

CheckExtend(r, actor, key) ==
    /\ MayUpdate(actor, key)
    /\ key \notin custom
    /\ Check(r, "extend", actor, "nobody", key)

CheckReduce(r, actor, key) ==
    /\ MayUpdate(actor, key)
    /\ key \in custom
    /\ Check(r, "reduce", actor, "nobody", key)

(* The bootstrap command makes an active user the first super admin. *)
CheckBootstrap(r, target) ==
    /\ target \in Active
    /\ ~\E u \in Active : "SUPER_ADMIN" \in member[u]
    /\ Check(r, "bootstrap", "nobody", target, "SUPER_ADMIN")

(* What the rows are after the mutation; a row that another mutation has   *)
(* already written or removed makes the statement fail.                    *)
Possible(m) ==
    CASE m.op = "assign"    -> m.key \notin member[m.target] /\ Loadable(m.key)
      [] m.op = "bootstrap" -> m.key \notin member[m.target]
      [] m.op = "revoke"    -> m.key \in member[m.target]
      [] m.op = "extend"    -> m.key \notin custom /\ exists
      [] OTHER              -> m.key \in custom

MemberAfter(m) ==
    CASE m.op \in {"assign", "bootstrap"} -> [member EXCEPT ![m.target] = @ \union {m.key}]
      [] m.op = "revoke"                  -> [member EXCEPT ![m.target] = @ \ {m.key}]
      [] OTHER                            -> member

CustomAfter(m) ==
    CASE m.op = "extend" -> custom \union {m.key}
      [] m.op = "reduce" -> custom \ {m.key}
      [] OTHER           -> custom

Overreaches(m) ==
    /\ m.op # "bootstrap"
    /\ \E u \in Users : ~(HeldIn(u, MemberAfter(m), CustomAfter(m)) \ Held(u)
                              \subseteq Held(m.actor))

Commit(r) ==
    LET m == mutation[r] IN
    /\ ~Idle(r)
    /\ Possible(m)
    /\ member' = MemberAfter(m)
    /\ custom' = CustomAfter(m)
    /\ overreach' = (overreach \/ Overreaches(m))
    /\ crossed' = (crossed \/ Others(r) # {})
    /\ admitted' = admitted \union {u \in Active : "SUPER_ADMIN" \in MemberAfter(m)[u]}
    /\ mutation' = [mutation EXCEPT ![r] = Ready]
    /\ UNCHANGED <<serial, disabled, exists, mutations>>

(* The audit event or the commit fails, or the row is already so. *)
Rollback(r) ==
    /\ ~Idle(r)
    /\ mutation' = [mutation EXCEPT ![r] = Ready]
    /\ UNCHANGED <<serial, disabled, member, custom, exists, mutations, admitted, crossed,
                   overreach>>

-----------------------------------------------------------------------------
(* The custom role itself.  A system role is neither created, nor deleted. *)

Writable(r) == Idle(r) /\ mutations < MaxMutations /\ (serial => Others(r) = {})

(* The name must be new and no reserved one. *)
CreateRole(r, actor) ==
    /\ Writable(r)
    /\ ~exists
    /\ actor \in Active /\ "SUPER_ADMIN" \in member[actor]
    /\ exists' = TRUE
    /\ custom' = {}
    /\ mutations' = mutations + 1
    /\ UNCHANGED <<serial, disabled, member, mutation, admitted, crossed, overreach>>

(* The role goes with its memberships and its permissions. *)
DeleteRole(r, actor) ==
    /\ Writable(r)
    /\ exists
    /\ actor \in Active /\ "SUPER_ADMIN" \in member[actor]
    /\ exists' = FALSE
    /\ custom' = {}
    /\ member' = [u \in Users |-> member[u] \ {"CUSTOM"}]
    /\ mutations' = mutations + 1
    /\ crossed' = (crossed \/ Others(r) # {})
    /\ UNCHANGED <<serial, disabled, mutation, admitted, overreach>>

Next ==
    \E r \in Requests :
        \/ Commit(r) \/ Rollback(r)
        \/ \E actor, target \in Users, role \in Roles :
               CheckAssign(r, actor, target, role) \/ CheckRevoke(r, actor, target, role)
        \/ \E actor \in Users, key \in Keys : CheckExtend(r, actor, key) \/ CheckReduce(r, actor, key)
        \/ \E actor \in Users :
               CheckBootstrap(r, actor) \/ CreateRole(r, actor) \/ DeleteRole(r, actor)

Spec == Init /\ [][Next]_vars

-----------------------------------------------------------------------------
(* Properties *)

TypeOK ==
    /\ member \in [Users -> SUBSET Roles]
    /\ custom \subseteq Keys
    /\ \A r \in Requests : mutation[r].op \in {"none", "assign", "revoke", "extend", "reduce",
                                               "bootstrap"}

(* No active super admin is ever lost, on either database and whatever the *)
(* mutations that overlap: the role cannot be taken from an active user.   *)
SuperAdminsStay == \A u \in admitted : "SUPER_ADMIN" \in member[u]

(* Nobody hands out authority he does not hold, neither directly nor by    *)
(* extending a role whose members gain it: on SQLite always, elsewhere as  *)
(* long as no mutation commits between the check and the commit of         *)
(* another.                                                                *)
NoOverreach == serial \/ ~crossed => ~overreach

(* A role that was deleted leaves no authority behind. *)
DeletedRoleGone == ~exists => custom = {} /\ \A u \in Users : "CUSTOM" \notin member[u]

AuthoritySound == TypeOK /\ SuperAdminsStay /\ NoOverreach /\ DeletedRoleGone

=============================================================================
