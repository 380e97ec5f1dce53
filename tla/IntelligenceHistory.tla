------------------------ MODULE IntelligenceHistory ------------------------
(* The buffered persistence of intelligence history: records enter a       *)
(* bounded queue without waiting, a flush drains the queue one record at a *)
(* time, without the service's lock, and commits what it took at once.     *)
EXTENDS Integers, SequencesExt

CONSTANTS
    Groups,
    Signatures,   \* bound: members and places a group may have
    Flushers,     \* callers of flush
    Capacity,     \* max_queue_size
    Interval,     \* snapshot_min_interval
    MaxTime,      \* bound: the clock
    MaxRecords    \* bound: records offered

VARIABLES
    queue,        \* the queue
    lastSnapshot, \* _last_snapshot_time, or Never
    signatures,   \* _last_group_signatures, "none" when there is none
    counters,     \* [dropped, persisted]
    hands,        \* what each flush has taken: [items, phase]
    stored,       \* the rows of the history tables, in the order of their commits
    clock,        \* the time of the latest observation
    offered,      \* records offered
    refused,      \* history: records a full queue refused since the last reset
    accepted,     \* history: records accepted since the last reset, or in hand at it
    life,         \* history: resets
    failed,       \* history: groups whose last record was in a batch that failed
    abreast       \* history: two flushes took records at a time

vars == <<queue, lastSnapshot, signatures, counters, hands, stored, clock, offered, refused,
          accepted, life, failed, abreast>>

Never == -Interval - 1   \* before every observation by the interval
Rested == [items |-> <<>>, phase |-> "rest"]

Init ==
    /\ queue = <<>>
    /\ lastSnapshot = Never
    /\ signatures = [g \in Groups |-> "none"]
    /\ counters = [dropped |-> 0, persisted |-> 0]
    /\ hands = [f \in Flushers |-> Rested]
    /\ stored = <<>>
    /\ clock = 0
    /\ offered = 0 /\ refused = 0 /\ accepted = 0 /\ life = 0
    /\ failed = {}
    /\ abreast = FALSE

-----------------------------------------------------------------------------
(* Records *)

Offer ==
    /\ offered < MaxRecords
    /\ offered' = offered + 1
    /\ UNCHANGED <<hands, stored, clock, life, abreast>>

Accept(item) ==
    /\ Len(queue) < Capacity
    /\ queue' = Append(queue, item)
    /\ accepted' = accepted + 1
    /\ UNCHANGED <<counters, refused>>

Refuse ==
    /\ Len(queue) >= Capacity
    /\ counters' = [counters EXCEPT !.dropped = @ + 1]
    /\ refused' = refused + 1
    /\ UNCHANGED <<queue, accepted>>

(* Mutant: snapshots are not throttled. *)
DueAlways(at) == TRUE

Due(at) == at - lastSnapshot >= Interval

(* record_summary_snapshot: the throttle moves on only when the queue      *)
(* takes the snapshot.  The time is that of an observation, which may be   *)
(* older than the latest.                                                  *)
RecordSnapshot(at) ==
    /\ Offer
    /\ Due(at)
    /\ \/ Accept([kind |-> "snapshot", at |-> at, n |-> offered, life |-> life]) /\ lastSnapshot' = at
       \/ Refuse /\ UNCHANGED lastSnapshot
    /\ UNCHANGED <<signatures, failed>>

(* record_group_history: so does the signature that marks what is known.   *)
RecordGroup(g, sig) ==
    /\ Offer
    /\ signatures[g] # sig
    /\ \/ /\ Accept([kind |-> "group", group |-> g, signature |-> sig, n |-> offered, life |-> life])
          /\ signatures' = [signatures EXCEPT ![g] = sig]
          /\ failed' = failed \ {g}
       \/ Refuse /\ UNCHANGED <<signatures, failed>>
    /\ UNCHANGED lastSnapshot

RecordBehavior ==
    /\ Offer
    /\ Accept([kind |-> "behavior", n |-> offered, life |-> life]) \/ Refuse
    /\ UNCHANGED <<lastSnapshot, signatures, failed>>

Tick ==
    /\ clock < MaxTime
    /\ clock' = clock + 1
    /\ UNCHANGED <<queue, lastSnapshot, signatures, counters, hands, stored, offered, refused,
                   accepted, life, failed, abreast>>

-----------------------------------------------------------------------------
(* flush *)

Take(f) ==
    /\ hands[f].phase # "write"
    /\ queue # <<>>
    /\ queue' = Tail(queue)
    /\ hands' = [hands EXCEPT ![f] = [items |-> Append(@.items, Head(queue)), phase |-> "take"]]
    /\ abreast' = (abreast \/ \E other \in Flushers \ {f} : hands[other].items # <<>>)
    /\ UNCHANGED <<lastSnapshot, signatures, counters, stored, clock, offered, refused, accepted,
                   life, failed>>

FindEmpty(f) ==
    /\ hands[f].phase = "take"
    /\ queue = <<>>
    /\ hands' = [hands EXCEPT ![f].phase = "write"]
    /\ UNCHANGED <<queue, lastSnapshot, signatures, counters, stored, clock, offered, refused,
                   accepted, life, failed, abreast>>

CommitAll(f) ==
    /\ hands[f].phase = "write"
    /\ stored' = stored \o hands[f].items
    /\ counters' = [counters EXCEPT !.persisted = @ + Len(hands[f].items)]
    /\ hands' = [hands EXCEPT ![f] = Rested]
    /\ UNCHANGED <<queue, lastSnapshot, signatures, clock, offered, refused, accepted, life,
                   failed, abreast>>

(* One transaction: a batch that fails is lost whole.  The signatures of   *)
(* its groups stay.                                                        *)
CommitFails(f) ==
    /\ hands[f].phase = "write"
    /\ counters' = [counters EXCEPT !.dropped = @ + Len(hands[f].items)]
    /\ hands' = [hands EXCEPT ![f] = Rested]
    /\ failed' = failed \cup {i.group : i \in {j \in ToSet(hands[f].items) : j.kind = "group"}}
    /\ UNCHANGED <<queue, lastSnapshot, signatures, stored, clock, offered, refused, accepted,
                   life, abreast>>

InHand == UNION {ToSet(hands[f].items) : f \in Flushers}

Forget ==
    /\ life < 1
    /\ life' = life + 1
    /\ queue' = <<>>
    /\ lastSnapshot' = Never
    /\ signatures' = [g \in Groups |-> "none"]
    /\ counters' = [dropped |-> 0, persisted |-> 0]
    /\ refused' = 0
    /\ failed' = {}
    /\ UNCHANGED <<stored, clock, offered, abreast>>

(* clear: a flush under way keeps what it took. *)
Clear ==
    /\ Forget
    /\ accepted' = Cardinality(InHand)
    /\ UNCHANGED hands

(* The process ends; queue and flushes end with it. *)
Restart ==
    /\ Forget
    /\ accepted' = 0
    /\ hands' = [f \in Flushers |-> Rested]

Next ==
    \/ \E at \in {clock - 1, clock} : RecordSnapshot(at)
    \/ \E g \in Groups, sig \in Signatures : RecordGroup(g, sig)
    \/ RecordBehavior
    \/ Tick
    \/ \E f \in Flushers : Take(f) \/ FindEmpty(f) \/ CommitAll(f) \/ CommitFails(f)
    \/ Clear \/ Restart

Spec == Init /\ [][Next]_vars

-----------------------------------------------------------------------------
Known == ToSet(queue) \cup InHand \cup ToSet(stored)

(* No record goes missing uncounted: what was offered is persisted,        *)
(* dropped, queued or in the hands of a flush.                             *)
RecordsCounted ==
    accepted + refused =
        counters.persisted + counters.dropped + Len(queue) + Cardinality(InHand)

(* What the signatures say is recorded is stored or on its way, unless the *)
(* batch failed that held it.                                              *)
GroupsKnown ==
    \A g \in Groups \ failed :
        signatures[g] # "none" =>
            \E i \in Known : i.kind = "group" /\ i.group = g /\ i.signature = signatures[g]

(* Snapshots of one life are at least the interval apart, whatever was     *)
(* refused or came late.                                                   *)
SnapshotsApart ==
    \A i, j \in {k \in Known : k.kind = "snapshot"} :
        i # j /\ i.life = j.life => i.at - j.at >= Interval \/ j.at - i.at >= Interval

(* Records are stored in the order they were accepted in, each once,       *)
(* unless two flushes took them in turns.                                  *)
StoredInOrder ==
    ~abreast => \A m, n \in 1..Len(stored) : m < n => stored[m].n < stored[n].n

HistorySound == RecordsCounted /\ GroupsKnown /\ SnapshotsApart /\ StoredInOrder

=============================================================================
