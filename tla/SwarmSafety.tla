---------------------------- MODULE SwarmSafety ----------------------------
(* Safety policies and safety decisions of one swarm, as the routes keep   *)
(* them: policies and decisions in the database, the policy in force and   *)
(* the cooldowns in the memory of the process.                             *)
(*                                                                         *)
(* No route feeds the fusion engine, so a snapshot holds no vehicle and    *)
(* the one condition that can be met is the leader's missing telemetry.    *)
EXTENDS Integers, Sequences, FiniteSets

CONSTANTS
    Operators,   \* requests in flight
    Cooldowns,   \* bound: the cooldowns a policy may have
    Standard,    \* cooldown of the default policy
    Span,        \* bound: the clock
    MaxPolicies, \* bound: policies
    MaxRuns      \* bound: starts of the process

VARIABLES
    policies,     \* the rows, in the order of their commits
    inForce,    \* cooldown of the policy the engine uses
    last,       \* when the engine last decided about the leader
    operator,   \* the requests
    wall,       \* the clock, in seconds after the longest cooldown
    generation, \* starts of the process
    decisions,  \* stored decisions: [at, calm, generation, alone]
    crossed     \* history: the last policy was stored while another was adopted, or
                \* in an earlier life of the process

vars == <<policies, inForce, last, operator, wall, generation, decisions, crossed>>

Waiting == [op |-> "none", calm |-> Standard, at |-> 0]
Long(S) == CHOOSE n \in S : \A k \in S : k <= n
Unset == -Long(Cooldowns \cup {Standard})    \* the default 0.0, long ago

Init ==
    /\ policies = <<>>
    /\ inForce = Standard
    /\ last = Unset
    /\ operator = [o \in Operators |-> Waiting]
    /\ wall = 0
    /\ generation = 1
    /\ decisions = {}
    /\ crossed = FALSE

Finish(o) == operator' = [operator EXCEPT ![o] = Waiting]

(* POST policies: the row is committed first, then the engine takes it.    *)
StorePolicy(o, calm) ==
    /\ operator[o] = Waiting
    /\ Len(policies) < MaxPolicies
    /\ policies' = Append(policies, calm)
    /\ operator' = [operator EXCEPT ![o] = [Waiting EXCEPT !.op = "adopt", !.calm = calm]]
    /\ crossed' = \E other \in Operators : operator[other].op = "adopt"
    /\ UNCHANGED <<inForce, last, wall, generation, decisions>>

AdoptPolicy(o) ==
    /\ operator[o].op = "adopt"
    /\ inForce' = operator[o].calm
    /\ Finish(o)
    /\ UNCHANGED <<policies, last, wall, generation, decisions, crossed>>

(* POST eval: the cooldown is read, then set, then the decision stored; an *)
(* evaluation takes less than a second.                                    *)
MayTrigger == wall - last >= inForce

CheckCooldown(o) ==
    /\ operator[o] = Waiting
    /\ MayTrigger
    /\ operator' = [operator EXCEPT ![o] = [Waiting EXCEPT !.op = "decide", !.calm = inForce]]
    /\ UNCHANGED <<policies, inForce, last, wall, generation, decisions, crossed>>

Deciding == {o \in Operators : operator[o].op = "decide"}

SetCooldown(o) ==
    /\ operator[o].op = "decide"
    /\ last' = wall
    /\ operator' = [operator EXCEPT ![o].op = IF Deciding = {o} THEN "store" ELSE "shared",
                                    ![o].at = wall]
    /\ UNCHANGED <<policies, inForce, wall, generation, decisions, crossed>>

(* A commit that fails loses the decision; the cooldown has begun all the  *)
(* same.                                                                   *)
StoreDecision(o, ok) ==
    LET q == operator[o]
        d == [at |-> q.at, calm |-> q.calm, generation |-> generation,
              alone |-> q.op = "store"]
    IN /\ q.op \in {"store", "shared"}
       /\ decisions' = IF ok THEN decisions \cup {d} ELSE decisions
       /\ Finish(o)
       /\ UNCHANGED <<policies, inForce, last, wall, generation, crossed>>

Tock ==
    /\ wall < Span
    /\ \A o \in Operators : operator[o].op # "decide"
    /\ wall' = wall + 1
    /\ UNCHANGED <<policies, inForce, last, operator, generation, decisions, crossed>>

(* A new process starts with the default policy and no cooldowns.          *)
Reboot ==
    /\ generation < MaxRuns
    /\ generation' = generation + 1
    /\ inForce' = Standard
    /\ last' = Unset
    /\ operator' = [o \in Operators |-> Waiting]
    /\ crossed' = (policies # <<>>)
    /\ UNCHANGED <<policies, wall, decisions>>

Next ==
    \/ \E o \in Operators :
        \/ \E calm \in Cooldowns : StorePolicy(o, calm)
        \/ AdoptPolicy(o) \/ CheckCooldown(o) \/ SetCooldown(o)
        \/ \E ok \in BOOLEAN : StoreDecision(o, ok)
    \/ Tock \/ Reboot

Spec == Init /\ [][Next]_vars

-----------------------------------------------------------------------------
(* Within one life of the process, and unless their evaluations overlap,   *)
(* two decisions about a leader are at least the cooldown apart that was   *)
(* in force when the later one was made.                                   *)
DecisionsApart ==
    \A d, e \in decisions :
        (/\ d.generation = e.generation
         /\ d.alone /\ e.alone
         /\ d.at < e.at) =>
            e.at - d.at >= e.calm

(* The policy in force is the one stored last, unless two were stored at     *)
(* the same time, one is being adopted, or the process was started since.  *)
PolicyInForce ==
    (/\ policies # <<>> /\ ~crossed
     /\ \A o \in Operators : operator[o].op # "adopt") =>
        inForce = policies[Len(policies)]

SafetySound == DecisionsApart /\ PolicyInForce

=============================================================================
