-------------------------- MODULE TrackCorrelation --------------------------
(* How tracks are correlated and grouped, without state.                   *)
(*                                                                         *)
(* Tracks lie on one row of the grid.  A position counts half cells, so    *)
(* that two tracks are within the 500 m of the threshold when they are at  *)
(* most two apart.  The speed, the heading and the time of an observation  *)
(* are one value, its way: unequal ways are too far apart to correlate,    *)
(* and an unknown one correlates with all.                                 *)
EXTENDS Integers, FiniteSets, Functions

CONSTANT Tracks    \* numbers, in the order of the identifiers they stand for

Cell(o) == o.at \div 2

(* The tracks indexed in the cell of a track and in the cells around it.   *)
Candidates(seen, t) ==
    {c \in DOMAIN seen \ {t} : t \in DOMAIN seen /\ Cell(seen[c]) - Cell(seen[t]) \in -1..1}

Correlated(a, b) ==
    /\ a.at - b.at \in -2..2
    /\ a.way = b.way \/ "unknown" \in {a.way, b.way}

(* What a breadth-first traversal of the correlated pairs reaches.         *)
Reach(seen, t) ==
    LET near[n \in 0..Cardinality(DOMAIN seen)] ==
            LET before == near[n - 1]
            IN IF n = 0 THEN {t}
               ELSE before \cup UNION {{c \in Candidates(seen, m) : Correlated(seen[m], seen[c])} :
                                          m \in before}
    IN near[Cardinality(DOMAIN seen)]

Components(seen) == {c \in {Reach(seen, t) : t \in DOMAIN seen} : Cardinality(c) >= 2}

-----------------------------------------------------------------------------
(* Identifiers.  The hash of the members is the set of the members.  A     *)
(* group that shares at least half of its members and the other's (their   *)
(* union) with an existing one inherits the identifier of the one it       *)
(* shares most with; of two that tie the first in the order of a set, that *)
(* is: any of them.                                                        *)
Shared(a, b) == Cardinality(a \cap b)
Either(a, b) == Cardinality(a \cup b)

Heirs(members, groups) ==
    {g \in DOMAIN groups :
        /\ 2 * Shared(members, groups[g]) >= Either(members, groups[g])
        /\ \A h \in DOMAIN groups :
               Shared(members, groups[g]) * Either(members, groups[h])
                   >= Shared(members, groups[h]) * Either(members, groups[g])}

Identifiers(members, groups) ==
    IF Heirs(members, groups) = {} THEN {members} ELSE Heirs(members, groups)

(* The possible results of correlate_tracks: each component with its       *)
(* identifier.  Nothing keeps two components from inheriting the same.     *)
Groupings(seen, groups) ==
    LET parts == Components(seen)
        names == UNION {Identifiers(c, groups) : c \in parts}
    IN {f \in [parts -> names] : \A c \in parts : f[c] \in Identifiers(c, groups)}

(* A dictionary of the result: of two components with one identifier the   *)
(* last one stays, and they are sorted by their first members.             *)
First(c) == CHOOSE t \in c : \A u \in c : t <= u
ByIdentifier(f) ==
    [g \in Range(f) |-> CHOOSE c \in DOMAIN f :
                            /\ f[c] = g
                            /\ \A d \in DOMAIN f : f[d] = g => First(d) <= First(c)]
HomeOf(f) == [t \in UNION DOMAIN f |-> f[CHOOSE c \in DOMAIN f : t \in c]]

(* A formation is measured from the ways of its members; it is represented *)
(* by what it is measured from.                                            *)
Formation(seen, members) == [m \in members |-> seen[m].way]

=============================================================================
