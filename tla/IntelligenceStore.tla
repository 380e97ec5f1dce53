------------------------- MODULE IntelligenceStore -------------------------
(* The incremental intelligence store, the pipeline in front of it and the *)
(* requests that feed it.                                                  *)
(*                                                                         *)
(* A mutation of the store runs under its lock and is one step.  A request *)
(* commits a track's row, or loads it, and feeds what it holds to the      *)
(* pipeline later; reading the summary resynchronises the store when its   *)
(* tracks are not those of the database.  A formation and a priority are   *)
(* represented by what they are computed from.                             *)
EXTENDS TrackCorrelation

CONSTANTS
    Requests,    \* requests in flight
    Layouts,     \* bound: rows of active tracks at the start
    Moves,       \* bound: observations a track may be updated with
    MaxChanges   \* bound: requests, closed rows, removals and restarts

VARIABLES
    rows,        \* database: the observation in each track's row
    open,        \* tracks whose row is NEW, ACTIVE or STALE
    holding,     \* what each request holds: [track, obs]
    tracks,      \* _tracks, and the grid that indexes them
    groups,      \* _groups: identifier to members
    home,        \* _track_group_map
    formed,      \* _formations
    mind,        \* _classifier_states, whose state _behaviors repeats
    heard,       \* observations the anomaly accumulator has taken for a track
    priority,    \* _priorities
    ready,       \* _bootstrapped
    last,        \* _last_behavior_states
    roster,      \* _last_group_members
    told,        \* history: the last behaviour recorded for each track
    ledger,      \* history: the last members recorded for each group
    changes,
    focus,       \* history: the track fed in the last step, 0 if none
    spoiled,     \* history: a group was cut, or an identifier shared, since the last batch
    outdated     \* history: tracks that were last fed with something else than their row

store == <<tracks, groups, home, formed, mind, heard, priority>>
pipeline == <<ready, last, roster, told, ledger>>
vars == <<rows, open, holding, store, pipeline, changes, focus, spoiled, outdated>>

Nothing == <<>>                          \* the empty function
Idle == [track |-> 0, obs |-> Nothing]
Fresh == [state |-> "NORMAL", pending |-> "NONE", ticks |-> 0]
EnterTicks == 2

Empty ==
    /\ tracks' = Nothing /\ groups' = Nothing /\ home' = Nothing /\ formed' = Nothing
    /\ mind' = Nothing /\ heard' = Nothing /\ priority' = Nothing

Init ==
    /\ rows \in Layouts
    /\ open = DOMAIN rows
    /\ holding = [r \in Requests |-> Idle]
    /\ tracks = Nothing /\ groups = Nothing /\ home = Nothing /\ formed = Nothing
    /\ mind = Nothing /\ heard = Nothing /\ priority = Nothing
    /\ ready = FALSE
    /\ last = Nothing /\ roster = Nothing /\ told = Nothing /\ ledger = Nothing
    /\ changes = 0
    /\ focus = 0
    /\ spoiled = FALSE
    /\ outdated = {}

-----------------------------------------------------------------------------
(* Evaluation of tracks *)

(* Dictionaries. *)
Get(f, x, default) == IF x \in DOMAIN f THEN f[x] ELSE default
Put(f, x, value) == [y \in DOMAIN f \cup {x} |-> IF y = x THEN value ELSE f[y]]
Over(f, g) == [x \in DOMAIN f \cup DOMAIN g |-> IF x \in DOMAIN f THEN f[x] ELSE g[x]]
Without(f, S) == Restrict(f, DOMAIN f \ S)

(* The classifier's hysteresis: another state is entered when it has been  *)
(* the candidate of EnterTicks evaluations in a row.  The store passes     *)
(* nothing but the group, so a candidate is COORDINATED or NORMAL.         *)
Classify(c, candidate) ==
    LET n == IF candidate = c.pending THEN c.ticks + 1 ELSE 1
    IN IF candidate = c.state THEN [c EXCEPT !.pending = "NONE", !.ticks = 0]
       ELSE IF n >= EnterTicks THEN [Fresh EXCEPT !.state = candidate]
       ELSE [c EXCEPT !.pending = candidate, !.ticks = n]

Candidate(t, homes, members) ==
    IF t \in DOMAIN homes /\ homes[t] \in DOMAIN members THEN "COORDINATED" ELSE "NORMAL"

(* evaluate_threat_priority, by its inputs. *)
Assess(t, seen, homes, forms, minds, counts) ==
    LET g == Get(homes, t, {})
    IN [group |-> g, formation |-> Get(forms, g, Nothing),
        behavior |-> IF t \in DOMAIN minds THEN minds[t].state ELSE "NONE",
        anomaly |-> Get(counts, t, 0), way |-> seen[t].way]

(* Mutant: the members of the old groups are not looked at again. *)
WidenByPlace(near, seen) == near \cup UNION {Candidates(seen, m) : m \in near}

(* One round around the tracks first affected: their candidates, and the   *)
(* members of their groups, over the list taken before the round.          *)
Widen(near, seen) ==
    near \cup (UNION {Candidates(seen, m) : m \in near})
         \cup (UNION {Get(groups, home[m], {}) : m \in near \cap DOMAIN home})

(* Reclusters the affected tracks and puts the result in the place of the  *)
(* groups they belonged to.  A group that the round reached from a         *)
(* candidate's side may be cut, and two components may get one identifier. *)
Recluster(seen, near, affected, touching, homes) ==
    \E f \in Groupings(Restrict(seen, affected),
                       Restrict(groups, touching \cap DOMAIN groups)) :
        LET found == ByIdentifier(f)
            kept == Without(groups, touching)
        IN /\ groups' = Over(found, kept)
           /\ home' = Over(HomeOf(f), Without(homes, affected))
           /\ formed' = Over([g \in DOMAIN found |-> Formation(seen, found[g])],
                            Without(formed, touching))
           /\ spoiled' = (\/ spoiled
                          \/ \E g \in touching \cap DOMAIN groups :
                                 /\ groups[g] \cap near = {}
                                 /\ ~(groups[g] \cap DOMAIN seen \subseteq affected)
                          \/ Cardinality(DOMAIN found) < Cardinality(DOMAIN f)
                          \/ DOMAIN found \cap DOMAIN kept # {})

Group(t) == IF t \in DOMAIN home THEN Get(groups, home[t], {}) ELSE {}

UpdateTrack(t, o) ==
    LET seen == Put(tracks, t, o)
        near == {t} \cup Candidates(tracks, t) \cup Candidates(seen, t)
                    \cup (IF t \in DOMAIN tracks THEN Group(t) ELSE {})
        affected == Widen(near, seen) \cap DOMAIN seen
        touching == {home[m] : m \in affected \cap DOMAIN home}
    IN /\ tracks' = seen
       /\ Recluster(seen, near, affected, touching, home)
       /\ heard' = Put(heard, t, Get(heard, t, 0) + 1)
       /\ mind' = Over([m \in affected |->
                          Classify(Get(mind, m, Fresh), Candidate(m, home', groups'))], mind)
       /\ priority' = Over([m \in affected |-> Assess(m, seen, home', formed', mind', heard')],
                          priority)

(* Tracks are added and updated, never removed; every track is evaluated   *)
(* again, and the anomaly accumulator hears nothing.                       *)
UpdateBatch(obs) ==
    LET seen == Over(obs, tracks)
    IN /\ tracks' = seen
       /\ \E f \in Groupings(seen, groups) :
              /\ groups' = ByIdentifier(f)
              /\ home' = HomeOf(f)
              /\ spoiled' = (Cardinality(DOMAIN groups') < Cardinality(DOMAIN f))
       /\ formed' = [g \in DOMAIN groups' |-> Formation(seen, groups'[g])]
       /\ mind' = [m \in DOMAIN seen |-> Classify(Get(mind, m, Fresh),
                                                  Candidate(m, home', groups'))]
       /\ priority' = [m \in DOMAIN seen |-> Assess(m, seen, home', formed', mind', heard)]
       /\ UNCHANGED heard

(* Priorities are computed again, behaviours are not. *)
DropTrack(t) ==
    LET seen == Without(tracks, {t})
        homes == Without(home, {t})
        old == IF t \in DOMAIN home THEN {home[t]} ELSE {}
        near == (Candidates(tracks, t) \cup Group(t)) \ {t}
        affected == Widen(near, seen) \cap DOMAIN seen
        touching == {homes[m] : m \in affected \cap DOMAIN homes} \cup old
    IN /\ tracks' = seen
       /\ mind' = Without(mind, {t})
       /\ heard' = Without(heard, {t})
       /\ Recluster(seen, near, affected, touching, homes)
       /\ priority' = Over([m \in affected |-> Assess(m, seen, home', formed', mind', heard')],
                          Without(priority, {t}))

-----------------------------------------------------------------------------
(* Requests *)

Change ==
    /\ changes < MaxChanges
    /\ changes' = changes + 1
    /\ focus' = 0

Hold(r, t, o) ==
    /\ holding[r] = Idle
    /\ holding' = [holding EXCEPT ![r] = [track |-> t, obs |-> o]]

(* The tracker commits a track's row; the track is fed afterwards. *)
Commit(r, t, o) ==
    /\ Change
    /\ Hold(r, t, o)
    /\ rows' = Put(rows, t, o)
    /\ open' = open \cup {t}
    /\ UNCHANGED <<store, pipeline, spoiled, outdated>>

(* GET tracks/{id}/intelligence loads a row in any state, and feeds it too. *)
Look(r, t) ==
    /\ Change
    /\ t \in DOMAIN rows
    /\ Hold(r, t, rows[t])
    /\ UNCHANGED <<rows, open, store, pipeline, spoiled, outdated>>

(* process_track_update.  What the track was is compared with what the     *)
(* pipeline remembers of its last own update, not with the store.          *)
Feed(r) ==
    LET t == holding[r].track
        before == IF t \in DOMAIN home /\ home[t] \in DOMAIN groups THEN home[t] ELSE {}
        after == IF t \in DOMAIN home' /\ home'[t] \in DOMAIN groups' THEN home'[t] ELSE {}
        regrouped == \/ before # after
                     \/ after # {} /\ Get(roster, after, {}) # groups'[after]
    IN /\ holding[r] # Idle
       /\ ready' = TRUE
       /\ UpdateTrack(t, holding[r].obs)
       /\ last' = Put(last, t, mind'[t].state)
       /\ told' = IF Get(last, t, "NONE") # mind'[t].state THEN Put(told, t, mind'[t].state)
                  ELSE told
       /\ ledger' = IF regrouped /\ after # {} THEN Put(ledger, after, groups'[after]) ELSE ledger
       /\ roster' = IF after # {} THEN Put(roster, after, groups'[after])
                    ELSE Without(roster, {before})
       /\ holding' = [holding EXCEPT ![r] = Idle]
       /\ focus' = t
       /\ outdated' = IF rows[t] = holding[r].obs THEN outdated \ {t} ELSE outdated \cup {t}
       /\ UNCHANGED <<rows, open, changes>>

(* An evaluation that fails before it feeds is logged and forgotten. *)
FeedFails(r) ==
    /\ holding[r] # Idle
    /\ holding' = [holding EXCEPT ![r] = Idle]
    /\ outdated' = outdated \cup {holding[r].track}
    /\ focus' = 0
    /\ UNCHANGED <<rows, open, store, pipeline, changes, spoiled>>

(* The life cycle takes a track's row out of the active states. *)
Close(t) ==
    /\ Change
    /\ t \in open
    /\ open' = open \ {t}
    /\ UNCHANGED <<rows, holding, store, pipeline, spoiled, outdated>>

(* GET intelligence/summary.  An empty database empties the store, and     *)
(* leaves what the pipeline remembers.                                     *)
Read ==
    /\ ~ready \/ DOMAIN tracks # open
    /\ ready' = TRUE
    /\ focus' = 0
    /\ IF open # {}
       THEN UpdateBatch(Restrict(rows, open)) /\ outdated' = outdated \ open
       ELSE Empty /\ spoiled' = FALSE /\ outdated' = {}
    /\ UNCHANGED <<rows, open, holding, last, roster, told, ledger, changes>>

Remove(t) ==
    /\ Change
    /\ t \in DOMAIN tracks
    /\ DropTrack(t)
    /\ last' = Without(last, {t})
    /\ outdated' = outdated \ {t}
    /\ UNCHANGED <<rows, open, holding, ready, roster, told, ledger>>

(* Another process begins with an empty store. *)
Restart ==
    /\ Change
    /\ ready /\ Empty
    /\ ready' = FALSE
    /\ last' = Nothing /\ roster' = Nothing
    /\ holding' = [r \in Requests |-> Idle]
    /\ spoiled' = FALSE
    /\ outdated' = {}
    /\ UNCHANGED <<rows, open, told, ledger>>

Next ==
    \/ \E r \in Requests :
        \/ \E t \in Tracks :
            \/ \E o \in Moves : Commit(r, t, o)
            \/ Look(r, t)
        \/ Feed(r) \/ FeedFails(r)
    \/ \E t \in Tracks : Close(t) \/ Remove(t)
    \/ Read \/ Restart

Spec == Init /\ [][Next]_vars

-----------------------------------------------------------------------------
(* The groups are those of a batch over all tracks: correlated tracks      *)
(* share a group, no group falls apart into uncorrelated halves, and the   *)
(* reverse map agrees.                                                     *)
GroupsExact ==
    /\ \A t, u \in DOMAIN tracks :
           t # u /\ Correlated(tracks[t], tracks[u]) =>
               \E g \in DOMAIN groups : {t, u} \subseteq groups[g]
    /\ \A g \in DOMAIN groups :
           \A part \in (SUBSET groups[g]) \ {{}, groups[g]} :
               \E t \in part, u \in groups[g] \ part : Correlated(tracks[t], tracks[u])
    /\ \A t \in Tracks :
           (t \in DOMAIN home) <=> \E g \in DOMAIN groups : t \in groups[g]
    /\ \A t \in DOMAIN home : home[t] \in DOMAIN groups /\ t \in groups[home[t]]

(* Every stored priority is what evaluating the track now would give.      *)
PrioritiesCurrent ==
    \A t \in DOMAIN priority : priority[t] = Assess(t, tracks, home, formed, mind, heard)

(* A track is known to all parts of the store or to none.                  *)
SameTracks ==
    /\ DOMAIN mind = DOMAIN tracks
    /\ DOMAIN priority = DOMAIN tracks
    /\ DOMAIN heard \subseteq DOMAIN tracks
    /\ DOMAIN formed = DOMAIN groups
    /\ DOMAIN home \subseteq DOMAIN tracks

(* An active track that the store knows is where its row says, unless a    *)
(* feed was lost or overtaken, or is still to come.                        *)
TracksFresh ==
    \A t \in DOMAIN tracks \ outdated :
        (\A r \in Requests : holding[r].track # t) => tracks[t] = rows[t]

(* After a track was fed the history holds its behaviour and the members   *)
(* of its group, whatever was fed, dropped or resynchronised before.       *)
HistoryCurrent ==
    focus # 0 =>
        /\ told[focus] = mind[focus].state
        /\ focus \in DOMAIN home => ledger[home[focus]] = groups[home[focus]]

(* Groups and priorities are exact until an update or a removal cuts a     *)
(* group that is not next to the track, or gives an identifier to two      *)
(* groups; and again after the next batch.                                 *)
StoreSound ==
    /\ ~spoiled => GroupsExact /\ PrioritiesCurrent
    /\ SameTracks /\ TracksFresh /\ HistoryCurrent

=============================================================================
