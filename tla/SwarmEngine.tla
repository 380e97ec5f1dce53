---------------------------- MODULE SwarmEngine ----------------------------
(* The swarm engine without state of its own: member configuration,        *)
(* formation slots, the safety judgement of one step and the separation    *)
(* part of the telemetry aggregate.  A configuration is a record of the    *)
(* member list and the leader's id; positions are whole metres on a line.  *)
EXTENDS Integers, Sequences, FiniteSets, SequencesExt

CONSTANTS
    Vehicles,    \* vehicle ids
    NoVehicle,   \* the absent id
    Separation   \* [min, warning, critical]: the distances of constraints and policy

Roles == {"LEADER", "FOLLOWER"}
Formations == {"LINE", "COLUMN", "V_FORMATION", "GRID", "CIRCLE"}

Member(v, role, slot) == [id |-> v, role |-> role, slot |-> slot]
NoMembers == [members |-> <<>>, leader |-> NoVehicle]

Ids(cfg) == {cfg.members[i].id : i \in DOMAIN cfg.members}
Reindexed(list) == [i \in DOMAIN list |-> [list[i] EXCEPT !.slot = i - 1]]

-----------------------------------------------------------------------------
(* Configuration.                                                          *)

(* A member that registers again changes its role and nothing else.        *)
RegisterMember(cfg, v, role) ==
    LET leads == role = "LEADER" \/ (cfg.members = <<>> /\ cfg.leader = NoVehicle)
        entry == Member(v, IF leads THEN "LEADER" ELSE role, Len(cfg.members))
    IN IF v \in Ids(cfg)
       THEN [cfg EXCEPT !.members =
                [i \in DOMAIN @ |-> IF @[i].id = v THEN [@[i] EXCEPT !.role = role] ELSE @[i]]]
       ELSE [members |-> Append(cfg.members, entry),
             leader |-> IF leads THEN v ELSE cfg.leader]

(* Ids are unique, since none is registered twice: the others are the list *)
(* without one place.                                                      *)
PlaceOf(cfg, v) == CHOOSE i \in DOMAIN cfg.members : cfg.members[i].id = v
Others(cfg, v) ==
    IF v \in Ids(cfg) THEN RemoveAt(cfg.members, PlaceOf(cfg, v)) ELSE cfg.members

(* The first of the remaining members takes over from a leader removed.    *)
RemoveMember(cfg, v) ==
    LET rest == Others(cfg, v)
        crowned == IF rest = <<>> THEN <<>> ELSE [rest EXCEPT ![1].role = "LEADER"]
        heir == IF rest = <<>> THEN NoVehicle ELSE rest[1].id
    IN IF cfg.leader = v
       THEN [members |-> Reindexed(crowned), leader |-> heir]
       ELSE [cfg EXCEPT !.members = Reindexed(rest)]

SetLeader(cfg, v) ==
    LET others == Others(cfg, v)
        followers == [i \in DOMAIN others |-> [others[i] EXCEPT !.role = "FOLLOWER"]]
    IN IF v \notin Ids(cfg) THEN cfg
       ELSE [members |-> Reindexed(<<Member(v, "LEADER", 0)>> \o followers), leader |-> v]

-----------------------------------------------------------------------------
(* Formation slots, in spacings ahead of and to the right of the leader;   *)
(* an arc is the place on the ring, of as many places as followers.        *)

Half(k) == (k + 1) \div 2                       \* math.ceil(k / 2)
Columns(n) == CHOOSE c \in 2..(n + 2) :         \* max(2, ceil(sqrt(n)))
                 c * c >= n /\ \A d \in 2..(c - 1) : d * d < n

Offset(kind, n, k) ==
    LET side == IF k % 2 = 0 THEN -1 ELSE 1
        at(x, y) == [x |-> x, y |-> y, arc |-> 0]
    IN CASE k = 0 -> at(0, 0)
         [] k > 0 /\ kind = "LINE" -> at(0, side * Half(k))
         [] k > 0 /\ kind = "COLUMN" -> at(-k, 0)
         [] k > 0 /\ kind = "V_FORMATION" -> at(-Half(k), -side * Half(k))
         [] k > 0 /\ kind = "GRID" ->
                at(-(k \div Columns(n)), (k % Columns(n)) - (Columns(n) \div 2))
         [] k > 0 /\ kind = "CIRCLE" -> [x |-> 0, y |-> 0, arc |-> k]

Slots(kind, n) == [k \in 0..(n - 1) |-> Offset(kind, n, k)]

(* A slot index without a slot gets the default offset, the leader's.      *)
OffsetOf(slots, k) == IF k \in DOMAIN slots THEN slots[k] ELSE [x |-> 0, y |-> 0, arc |-> 0]

(* The mission translator gives every member the slot of its index.        *)
MissionOffsets(cfg, kind) ==
    [v \in Ids(cfg) |->
        OffsetOf(Slots(kind, Len(cfg.members)), cfg.members[PlaceOf(cfg, v)].slot)]

-----------------------------------------------------------------------------
(* Safety of one step.  A vehicle state has a role, a slot, a position,    *)
(* and whether its telemetry is stale and its slot missed by far.          *)

Distance(p, q) == IF p > q THEN p - q ELSE q - p
Breach(a, b) == Distance(a.at, b.at) < Separation.min

Event(kind, severity, who) == [kind |-> kind, severity |-> severity, vehicles |-> who]

LeaderPresent(leader, states) == leader \in DOMAIN states /\ ~states[leader].stale

LeaderEvents(leader, states) ==
    IF leader = NoVehicle \/ LeaderPresent(leader, states) THEN {}
    ELSE {Event("LEADER_LOST", "CRITICAL", {leader})}

Holders(states, slot) == {v \in DOMAIN states : states[v].slot = slot}

SlotEvents(states) ==
    {Event("SLOT_CONFLICT", "WARNING", Holders(states, s)) :
        s \in {states[v].slot : v \in {v \in DOMAIN states :
                    Cardinality(Holders(states, states[v].slot)) > 1}}}

VehicleEvents(states) ==
    {Event("VEHICLE_DISCONNECTED",
           IF states[v].role = "LEADER" THEN "CRITICAL" ELSE "WARNING", {v}) :
        v \in {v \in DOMAIN states : states[v].stale}}
    \cup
    {Event("FORMATION_DEVIATION", "WARNING", {v}) :
        v \in {v \in DOMAIN states : states[v].role = "FOLLOWER" /\ states[v].deviates}}

SeparationEvents(states) ==
    {Event("MINIMUM_SEPARATION_BREACH", "CRITICAL", pair) :
        pair \in {pair \in SUBSET DOMAIN states :
            /\ Cardinality(pair) = 2
            /\ \E v, w \in pair : v # w /\ Breach(states[v], states[w])}}

SafetyEvents(leader, states) ==
    IF DOMAIN states = {} THEN {Event("VEHICLE_DISCONNECTED", "CRITICAL", {})}
    ELSE LeaderEvents(leader, states) \cup SlotEvents(states)
            \cup VehicleEvents(states) \cup SeparationEvents(states)

Disconnected(states) ==
    LET n == Cardinality(DOMAIN states)
        limit == IF n \div 2 > 1 THEN n \div 2 ELSE 1
    IN n = 0 \/ Cardinality({v \in DOMAIN states : states[v].stale}) >= limit

Health(leader, states) ==
    LET events == SafetyEvents(leader, states)
    IN IF Disconnected(states) THEN "DISCONNECTED"
       ELSE IF SeparationEvents(states) # {} \/ (leader # NoVehicle /\ ~LeaderPresent(leader, states))
            THEN "CRITICAL"
       ELSE IF \E e \in events : e.severity = "WARNING" THEN "DEGRADED"
       ELSE "HEALTHY"

-----------------------------------------------------------------------------
(* The closest pair of a telemetry map, and the decision it calls for.     *)
(* Two vehicles at one place are at distance 0, which reads as no data.    *)

Pairs(place) == {p \in SUBSET DOMAIN place : Cardinality(p) = 2}
Gap(place, pair) == CHOOSE d \in {Distance(place[v], place[w]) : v, w \in pair} :
                        \A v, w \in pair : Distance(place[v], place[w]) <= d
ClosestPair(place) ==
    IF Pairs(place) = {} THEN {}
    ELSE CHOOSE p \in Pairs(place) : \A q \in Pairs(place) : Gap(place, p) <= Gap(place, q)

SeparationLevel(place) ==
    LET pair == ClosestPair(place)
    IN IF pair = {} \/ Gap(place, pair) = 0 THEN "none"
       ELSE IF Gap(place, pair) < Separation.critical THEN "critical"
       ELSE IF Gap(place, pair) < Separation.warning THEN "warning"
       ELSE "none"

=============================================================================
