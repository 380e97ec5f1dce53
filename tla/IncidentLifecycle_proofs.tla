----------------------- MODULE IncidentLifecycle_proofs -----------------------
(***************************************************************************)
(* Theorems of IncidentLifecycle for every number of concurrent requests   *)
(* and every set of users; the second part is about a server that handles  *)
(* one request at a time: the row, the numbers and the log are then        *)
(* exactly those of the workflow.                                          *)
(***************************************************************************)
EXTENDS IncidentLifecycle, FiniteSetTheorems, SequenceTheorems, TLAPS

Working == {"sequence", "flush", "commit", "publish"}

(* What a request carries while it works: a change of status names a       *)
(* status other than the one its session loaded.                           *)
RequestOK(r) ==
  pc[r] \in Working =>
    /\ event[r] \in Event /\ event[r].by = r
    /\ loaded[r] \in Loaded
    /\ event[r].type \in Changes \union {"CREATED"} <=> event[r].new # None
    /\ event[r].new # None => event[r].new # loaded[r].status

RequestsOK == \A r \in Requests : RequestOK(r)

(* The committed numbers are 1 .. m: this is what makes max(sequence) one  *)
(* of them, and it is the reason for NoSequenceGaps.                       *)
Contiguous == \E m \in 0 .. Len(timeline) : Sequences(timeline) = 1 .. m

(* A request that has its number found the smaller ones committed.         *)
NumberOK(r) ==
  pc[r] \in {"flush", "commit"} =>
    /\ event[r].sequence \in 1 .. Len(timeline) + 1
    /\ 1 .. (event[r].sequence - 1) \subseteq Sequences(timeline)

NumbersOK == \A r \in Requests : NumberOK(r)

Inv == /\ TypeOK /\ RequestsOK
       /\ Contiguous /\ NumbersOK /\ NoSequenceGaps
       /\ StatusMatchesTimeline

-----------------------------------------------------------------------------
(* The operators. *)

LEMMA MaxOfContiguous ==
  ASSUME NEW tl, NEW m \in Nat, Sequences(tl) = 1 .. m
  PROVE  MaxSequence(tl) = m
<1> DEFINE P(n) == \A k \in Sequences(tl) : k <= n
           x == CHOOSE n \in Sequences(tl) \union {0} : P(n)
<1>1. m \in Sequences(tl) \union {0} /\ P(m)
  OBVIOUS
<1>2. x \in Sequences(tl) \union {0} /\ P(x)
  BY <1>1
<1>3. x = m
  BY <1>2
<1> QED
  BY <1>3 DEF MaxSequence

(* Appending a timeline event adds its number.                             *)
LEMMA SequencesAppend ==
  ASSUME NEW tl \in Seq(Event), NEW e \in Event
  PROVE  Sequences(Append(tl, e)) = Sequences(tl) \union {e.sequence}
<1> DEFINE new == Append(tl, e)
<1>1. new \in Seq(Event) /\ Len(new) = Len(tl) + 1 /\ DOMAIN new = 1 .. Len(tl) + 1
  OBVIOUS
<1>2. new[Len(tl) + 1] = e /\ \A i \in 1 .. Len(tl) : new[i] = tl[i]
  OBVIOUS
<1>3. DOMAIN tl = 1 .. Len(tl) /\ Len(tl) \in Nat
  OBVIOUS
<1> HIDE DEF new
<1>4. Sequences(new) = Sequences(tl) \union {e.sequence}
  BY <1>1, <1>2, <1>3 DEF Sequences
<1> QED
  BY <1>4 DEF new

LEMMA NumberedType ==
  ASSUME NEW e \in Event, NEW n \in Nat
  PROVE  /\ Numbered(e, n) \in Event
         /\ Numbered(e, n).by = e.by /\ Numbered(e, n).sequence = n
         /\ Numbered(e, n).type = e.type /\ Numbered(e, n).new = e.new
  BY DEF Event, Numbered

-----------------------------------------------------------------------------
LEMMA InitInv == Init => Inv
<1> SUFFICES ASSUME Init PROVE Inv
  OBVIOUS
<1>1. TypeOK
  BY DEF Init, TypeOK, PC
<1>2. RequestsOK /\ NumbersOK
  BY DEF Init, RequestsOK, RequestOK, NumbersOK, NumberOK, Working
<1>3. Sequences(timeline) = {}
  BY DEF Init, Sequences
<1>4. Contiguous
  <2>1. Len(timeline) = 0 /\ 1 .. 0 = {}
    BY DEF Init
  <2> QED
    BY <1>3, <2>1 DEF Contiguous
<1>5. NoSequenceGaps /\ StatusMatchesTimeline
  BY DEF Init, NoSequenceGaps, StatusMatchesTimeline
<1> QED
  BY <1>1, <1>2, <1>4, <1>5 DEF Inv

-----------------------------------------------------------------------------
(* A request starts. *)

LEMMA BeginStep ==
  ASSUME Inv, NEW r \in Requests, NEW type, NEW previous \in Status \union {None},
         NEW new \in Status \union {None}, NEW user \in Users \union {None},
         type \in Changes \union Assignments \union {"CREATED", "NOTE_ADDED"},
         type \in Changes \union {"CREATED"} <=> new # None,
         new # None => new # status,
         Begin(r, type, previous, new, user)
  PROVE  Inv'
<1> DEFINE e == [by |-> r, sequence |-> 0, type |-> type,
                 previous |-> previous, new |-> new, user |-> user]
           old == [status |-> status, assigned_to |-> assigned_to]
<1>1. e \in Event /\ e.by = r /\ e.type = type /\ e.new = new
  BY DEF Event
<1>2. old \in Loaded /\ old.status = status
  BY DEF Loaded, Inv, TypeOK
<1>3. /\ event' = [event EXCEPT ![r] = e]
      /\ loaded' = [loaded EXCEPT ![r] = old]
      /\ pc' = [pc EXCEPT ![r] = "sequence"]
      /\ UNCHANGED <<row, timeline, published, rowLock>>
  BY DEF Begin, Goto
<1> HIDE DEF e, old
<1>4. TypeOK'
  BY <1>1, <1>2, <1>3 DEF Inv, TypeOK, PC, row
<1>5. RequestsOK'
  <2>1. RequestOK(r)'
    BY <1>1, <1>2, <1>3 DEF RequestOK, Inv, TypeOK
  <2>2. ASSUME NEW q \in Requests, q # r PROVE RequestOK(q)'
    BY <1>3, <2>2 DEF RequestOK, RequestsOK, Inv, TypeOK
  <2> QED
    BY <2>1, <2>2 DEF RequestsOK
<1>6. NumbersOK'
  BY <1>3 DEF NumbersOK, NumberOK, Inv, TypeOK
<1>7. Contiguous' /\ NoSequenceGaps' /\ StatusMatchesTimeline'
  BY <1>3 DEF Inv, Contiguous, NoSequenceGaps, StatusMatchesTimeline, row
<1> QED
  BY <1>4, <1>5, <1>6, <1>7 DEF Inv

LEMMA StartStep ==
  ASSUME Inv, NEW r \in Requests, Start(r)
  PROVE  Inv'
<1>0. None \notin Status /\ None \notin Users
  BY IncidentAssumption
<1>1. CASE CreateIncident(r)
  BY <1>0, <1>1, BeginStep DEF CreateIncident, Status, Changes
<1>2. ASSUME NEW move \in Moves, ChangeStatus(r, move) PROVE Inv'
  <2>1. move.type \in Changes /\ move.target \in Status
    BY DEF Moves, Changes, Status
  <2>2. status \in Status /\ move.target # status
    BY <1>2 DEF ChangeStatus, Permitted, Inv, TypeOK
  <2> QED
    BY <1>0, <1>2, <2>1, <2>2, BeginStep DEF ChangeStatus
<1>3. ASSUME NEW move \in Moves, Refuse(r, move) PROVE Inv'
  <2>1. /\ pc' = [pc EXCEPT ![r] = "done"]
        /\ UNCHANGED <<row, timeline, published, rowLock, event, loaded>>
    BY <1>3 DEF Refuse, Goto
  <2>2. TypeOK'
    BY <2>1 DEF Inv, TypeOK, PC, row
  <2>3. RequestsOK' /\ NumbersOK'
    BY <2>1 DEF Inv, TypeOK, RequestsOK, RequestOK, NumbersOK, NumberOK, Working
  <2>4. Contiguous' /\ NoSequenceGaps' /\ StatusMatchesTimeline'
    BY <2>1 DEF Inv, Contiguous, NoSequenceGaps, StatusMatchesTimeline, row
  <2> QED
    BY <2>2, <2>3, <2>4 DEF Inv
<1>4. ASSUME NEW user \in Users, AssignIncident(r, user) PROVE Inv'
  BY <1>0, <1>4, BeginStep DEF AssignIncident, Assignments, Changes, Status
<1>5. CASE AddNote(r)
  BY <1>0, <1>5, BeginStep DEF AddNote, Changes, Status
<1> QED
  BY <1>1, <1>2, <1>3, <1>4, <1>5 DEF Start

-----------------------------------------------------------------------------
(* A request goes on. *)

LEMMA NextSequenceStep ==
  ASSUME Inv, NEW r \in Requests, NextSequence(r)
  PROVE  Inv'
<1> DEFINE n == MaxSequence(timeline) + 1
           e == Numbered(event[r], n)
<1>1. PICK m \in 0 .. Len(timeline) : Sequences(timeline) = 1 .. m
  BY DEF Inv, Contiguous
<1>2. n = m + 1 /\ Len(timeline) \in Nat /\ m \in Nat /\ m <= Len(timeline)
  BY <1>1, MaxOfContiguous DEF Inv, TypeOK
<1>3. event[r] \in Event /\ pc[r] \in Working
  BY DEF NextSequence, Inv, RequestsOK, RequestOK, Working
<1>4. /\ e \in Event /\ e.by = event[r].by /\ e.sequence = n
      /\ e.type = event[r].type /\ e.new = event[r].new
  <2>1. n \in Nat
    BY <1>2
  <2> HIDE DEF n
  <2> QED
    BY <1>3, <2>1, NumberedType
<1>5. /\ event' = [event EXCEPT ![r] = e]
      /\ pc' = [pc EXCEPT ![r] = "flush"]
      /\ UNCHANGED <<row, timeline, published, rowLock, loaded>>
  BY DEF NextSequence, Goto
<1> HIDE DEF e, n
<1>6. TypeOK'
  BY <1>4, <1>5 DEF Inv, TypeOK, PC, row
<1>7. RequestsOK'
  <2>1. RequestOK(r)'
    BY <1>3, <1>4, <1>5 DEF Inv, TypeOK, RequestsOK, RequestOK
  <2>2. ASSUME NEW q \in Requests, q # r PROVE RequestOK(q)'
    BY <1>5, <2>2 DEF Inv, TypeOK, RequestsOK, RequestOK
  <2> QED
    BY <2>1, <2>2 DEF RequestsOK
<1>8. NumbersOK'
  <2>1. n \in 1 .. Len(timeline) + 1 /\ 1 .. (n - 1) \subseteq Sequences(timeline)
    BY <1>1, <1>2
  <2>2. NumberOK(r)'
    BY <1>4, <1>5, <2>1 DEF Inv, TypeOK, NumberOK
  <2>3. ASSUME NEW q \in Requests, q # r PROVE NumberOK(q)'
    BY <1>5, <2>3 DEF Inv, TypeOK, NumbersOK, NumberOK
  <2> QED
    BY <2>2, <2>3 DEF NumbersOK
<1>9. Contiguous' /\ NoSequenceGaps' /\ StatusMatchesTimeline'
  BY <1>5 DEF Inv, Contiguous, NoSequenceGaps, StatusMatchesTimeline, row
<1> QED
  BY <1>6, <1>7, <1>8, <1>9 DEF Inv

LEMMA FlushStep ==
  ASSUME Inv, NEW r \in Requests, Flush(r)
  PROVE  Inv'
<1>1. /\ pc[r] = "flush" /\ pc' = [pc EXCEPT ![r] = "commit"]
      /\ rowLock' \in {r, rowLock}
      /\ UNCHANGED <<row, timeline, published, event, loaded>>
  BY DEF Flush, Goto
<1>2. TypeOK'
  BY <1>1 DEF Inv, TypeOK, PC, row
<1>3. RequestsOK'
  BY <1>1 DEF Inv, TypeOK, RequestsOK, RequestOK, Working
<1>4. NumbersOK'
  BY <1>1 DEF Inv, TypeOK, NumbersOK, NumberOK
<1>5. Contiguous' /\ NoSequenceGaps' /\ StatusMatchesTimeline'
  BY <1>1 DEF Inv, Contiguous, NoSequenceGaps, StatusMatchesTimeline, row
<1> QED
  BY <1>2, <1>3, <1>4, <1>5 DEF Inv

LEMMA CommitStep ==
  ASSUME Inv, NEW r \in Requests, Commit(r)
  PROVE  Inv'
<1> DEFINE e == event[r]
           k == Len(timeline) + 1
<1>1. /\ pc[r] = "commit" /\ pc' = [pc EXCEPT ![r] = "publish"]
      /\ UpdateRow(e, loaded[r])
      /\ timeline' = Append(timeline, e)
      /\ rowLock' \in {None, rowLock}
      /\ UNCHANGED <<published, event, loaded>>
  BY DEF Commit, Goto, Unlock
<1>2. /\ e \in Event /\ loaded[r] \in Loaded
      /\ e.type \in Changes \union {"CREATED"} <=> e.new # None
      /\ e.new # None => e.new # loaded[r].status
  BY <1>1 DEF Inv, RequestsOK, RequestOK, Working
<1>3. e.sequence \in 1 .. k /\ 1 .. (e.sequence - 1) \subseteq Sequences(timeline)
  BY <1>1 DEF Inv, NumbersOK, NumberOK
<1>4. timeline \in Seq(Event) /\ Len(timeline) \in Nat
  BY DEF Inv, TypeOK
<1>5. /\ timeline' \in Seq(Event) /\ Len(timeline') = k
      /\ DOMAIN timeline' = 1 .. k /\ DOMAIN timeline = 1 .. Len(timeline)
      /\ timeline'[k] = e /\ \A i \in 1 .. Len(timeline) : timeline'[i] = timeline[i]
  BY <1>1, <1>2, <1>4
<1>6. Sequences(timeline') = Sequences(timeline) \union {e.sequence}
  BY <1>1, <1>2, <1>4, SequencesAppend
<1>7. status' = IF e.new # None THEN e.new ELSE status
  BY <1>1, <1>2 DEF UpdateRow, Written
<1>8. e.user \in Users \union {None} /\ e.new \in Status \union {None}
  BY <1>2 DEF Event
<1> HIDE DEF e, k
<1>9. TypeOK'
  <2>1. status' \in Status \union {None}
    BY <1>7, <1>8 DEF Inv, TypeOK
  <2>2. assigned_to' \in Users \union {None}
    BY <1>1, <1>8 DEF UpdateRow, Assignee, Written, Inv, TypeOK
  <2>3. stamped' \subseteq Status
    BY <1>1 DEF UpdateRow, Stamps, Status, Inv, TypeOK
  <2> QED
    BY <1>1, <1>5, <2>1, <2>2, <2>3 DEF Inv, TypeOK, PC
<1>10. RequestsOK'
  BY <1>1 DEF Inv, TypeOK, RequestsOK, RequestOK, Working
<1>11. NumbersOK'
  <2>1. ASSUME NEW q \in Requests, pc'[q] \in {"flush", "commit"} PROVE NumberOK(q)'
    <3>1. q # r /\ pc[q] = pc'[q] /\ event'[q] = event[q]
      BY <1>1, <2>1 DEF Inv, TypeOK
    <3>2. /\ event[q].sequence \in 1 .. Len(timeline) + 1
          /\ 1 .. (event[q].sequence - 1) \subseteq Sequences(timeline)
      BY <2>1, <3>1 DEF Inv, NumbersOK, NumberOK
    <3>3. event[q].sequence \in 1 .. Len(timeline') + 1
      BY <1>4, <1>5, <3>2 DEF k
    <3> QED
      BY <1>6, <3>1, <3>2, <3>3 DEF NumberOK
  <2> QED
    BY <2>1 DEF NumbersOK, NumberOK
<1>12. Contiguous'
  <2>1. PICK m \in 0 .. Len(timeline) : Sequences(timeline) = 1 .. m
    BY DEF Inv, Contiguous
  <2>2. CASE e.sequence \in 1 .. m
    <3>1. Sequences(timeline') = 1 .. m
      BY <1>6, <2>1, <2>2
    <3>2. m \in 0 .. Len(timeline')
      BY <1>4, <1>5 DEF k
    <3> QED
      BY <3>1, <3>2 DEF Contiguous
  <2>3. CASE e.sequence \notin 1 .. m
    <3>1. e.sequence \in Nat /\ m \in Nat /\ e.sequence >= m + 1
      BY <1>3, <1>4, <2>3 DEF k
    <3>2. e.sequence <= m + 1
      <4>1. SUFFICES ASSUME e.sequence > m + 1 PROVE FALSE
        BY <3>1
      <4>2. m + 1 \in 1 .. (e.sequence - 1)
        BY <3>1, <4>1
      <4>3. m + 1 \in 1 .. m
        BY <1>3, <2>1, <4>2
      <4> QED
        BY <3>1, <4>3
    <3>3. Sequences(timeline') = 1 .. (m + 1)
      BY <1>6, <2>1, <3>1, <3>2
    <3>4. m + 1 \in 0 .. Len(timeline')
      BY <1>4, <1>5 DEF k
    <3> QED
      BY <3>3, <3>4 DEF Contiguous
  <2> QED
    BY <2>2, <2>3
<1>13. NoSequenceGaps'
  <2>1. ASSUME NEW i \in 1 .. k
        PROVE  /\ timeline'[i].sequence \in 1 .. i
               /\ 1 .. timeline'[i].sequence \subseteq Sequences(timeline')
    <3>1. CASE i = k
      <4>1. timeline'[i].sequence = e.sequence
        BY <1>5, <3>1
      <4>2. \A j \in 1 .. e.sequence : j \in 1 .. (e.sequence - 1) \/ j = e.sequence
        BY <1>3, <1>4 DEF k
      <4> QED
        BY <1>3, <1>6, <3>1, <4>1, <4>2
    <3>2. CASE i # k
      <4>1. i \in DOMAIN timeline /\ timeline'[i] = timeline[i]
        BY <1>4, <1>5, <3>2 DEF k
      <4> QED
        BY <1>6, <4>1 DEF Inv, NoSequenceGaps
    <3> QED
      BY <3>1, <3>2
  <2> QED
    BY <1>5, <2>1 DEF NoSequenceGaps
<1>14. StatusMatchesTimeline'
  <2>1. SUFFICES ASSUME NEW i \in 1 .. k, timeline'[i].new # None,
                        \A j \in (i + 1) .. k : timeline'[j].new = None
                 PROVE  timeline'[i].new = status'
    BY <1>5 DEF StatusMatchesTimeline
  <2>2. CASE i = k
    BY <1>5, <1>7, <2>1, <2>2
  <2>3. CASE i # k
    <3>1. i \in 1 .. Len(timeline) /\ k \in (i + 1) .. k
      BY <1>4, <2>3 DEF k
    <3>2. e.new = None /\ status' = status
      BY <1>5, <1>7, <2>1, <3>1
    <3>3. timeline[i].new # None
      BY <1>5, <2>1, <3>1
    <3>4. ASSUME NEW j \in (i + 1) .. Len(timeline) PROVE timeline[j].new = None
      <4>1. j \in 1 .. Len(timeline) /\ j \in (i + 1) .. k
        BY <1>4, <3>1 DEF k
      <4> QED
        BY <1>5, <2>1, <4>1
    <3>5. timeline[i].new = status
      BY <1>5, <3>1, <3>3, <3>4 DEF Inv, StatusMatchesTimeline
    <3> QED
      BY <1>5, <3>1, <3>2, <3>5
  <2> QED
    BY <2>2, <2>3
<1> QED
  BY <1>9, <1>10, <1>11, <1>12, <1>13, <1>14 DEF Inv

(* A request that ends touches neither the row nor the timeline.           *)
LEMMA EndStep ==
  ASSUME Inv, NEW r \in Requests, End(r), UNCHANGED <<row, timeline>>,
         published' \in Seq(Event), rowLock' \in {None, rowLock}
  PROVE  Inv'
<1>1. /\ pc' = [pc EXCEPT ![r] = "done"]
      /\ event' = [event EXCEPT ![r] = None]
      /\ loaded' = [loaded EXCEPT ![r] = None]
  BY DEF End, Goto
<1>2. TypeOK'
  BY <1>1 DEF Inv, TypeOK, PC, row
<1>3. RequestsOK'
  <2>1. ASSUME NEW q \in Requests PROVE RequestOK(q)'
    BY <1>1 DEF Inv, TypeOK, RequestsOK, RequestOK, Working
  <2> QED
    BY <2>1 DEF RequestsOK
<1>4. NumbersOK'
  BY <1>1 DEF Inv, TypeOK, NumbersOK, NumberOK
<1>5. Contiguous' /\ NoSequenceGaps' /\ StatusMatchesTimeline'
  BY DEF Inv, Contiguous, NoSequenceGaps, StatusMatchesTimeline, row
<1> QED
  BY <1>2, <1>3, <1>4, <1>5 DEF Inv

LEMMA NextInv == Inv /\ [Next]_vars => Inv'
<1> SUFFICES ASSUME Inv, [Next]_vars PROVE Inv'
  OBVIOUS
<1>1. published \in Seq(Event)
  BY DEF Inv, TypeOK
<1>2. ASSUME NEW r \in Requests, Rollback(r) PROVE Inv'
  BY <1>1, <1>2, EndStep DEF Rollback, Unlock
<1>3. ASSUME NEW r \in Requests, PublishPending(r) PROVE Inv'
  <2>1. event[r] \in Event
    BY <1>3 DEF PublishPending, Inv, RequestsOK, RequestOK, Working
  <2>2. Append(published, event[r]) \in Seq(Event)
    BY <1>1, <2>1
  <2> QED
    BY <1>3, <2>2, EndStep DEF PublishPending
<1>4. ASSUME NEW r \in Requests, LosePending(r) PROVE Inv'
  BY <1>1, <1>4, EndStep DEF LosePending
<1>5. ASSUME UNCHANGED vars PROVE Inv'
  <2>1. TypeOK' /\ RequestsOK' /\ NumbersOK'
    BY <1>5 DEF vars, row, requestVars, Inv, TypeOK, RequestsOK, RequestOK,
       NumbersOK, NumberOK
  <2>2. Contiguous' /\ NoSequenceGaps' /\ StatusMatchesTimeline'
    BY <1>5 DEF vars, row, Inv, Contiguous, NoSequenceGaps, StatusMatchesTimeline
  <2> QED
    BY <2>1, <2>2 DEF Inv
<1> QED
  BY <1>2, <1>3, <1>4, <1>5, StartStep, NextSequenceStep, FlushStep, CommitStep
  DEF Next, Proceed

LEMMA Invariant == Spec => []Inv
  BY InitInv, NextInv, PTL DEF Spec

(* Every reachable state of the incident service is well typed.            *)
THEOREM TypeCorrect == Spec => []TypeOK
<1>1. Inv => TypeOK
  BY DEF Inv
<1> QED
  BY <1>1, Invariant, PTL

(* The row always shows the last status the committed timeline names.      *)
THEOREM StatusAlwaysMatches == Spec => []StatusMatchesTimeline
<1>1. Inv => StatusMatchesTimeline
  BY DEF Inv
<1> QED
  BY <1>1, Invariant, PTL

(* The committed timeline has no gap, and no number above its length.      *)
THEOREM TimelineHasNoGaps == Spec => []NoSequenceGaps
<1>1. Inv => NoSequenceGaps
  BY DEF Inv
<1> QED
  BY <1>1, Invariant, PTL

-----------------------------------------------------------------------------
(* Publication. *)

(* A request that is about to publish has committed its event, and one     *)
(* that has published is done.                                             *)
Committed ==
  \A r \in Requests :
    pc[r] = "publish" => \E j \in DOMAIN timeline : timeline[j] = event[r]

PublishersDone == \A i \in DOMAIN published : pc[published[i].by] = "done"

PublishInv == Inv /\ Committed /\ PublishersDone /\ PublishedOnceCommitted

LEMMA PublishedBy ==
  ASSUME PublishInv, NEW i \in DOMAIN published
  PROVE  published[i].by \in Requests /\ pc[published[i].by] = "done"
<1>1. published \in Seq(Event)
  BY DEF PublishInv, Inv, TypeOK
<1>2. published[i] \in Event
  BY <1>1, ElementOfSeq
<1>3. published[i].by \in Requests
  BY <1>2 DEF Event
<1> QED
  BY <1>3 DEF PublishInv, PublishersDone

(* A step that publishes nothing and commits nothing.                      *)
LEMMA NothingPublished ==
  ASSUME PublishInv, NEW r \in Requests, NEW label,
         pc' = [pc EXCEPT ![r] = label], label # "publish", pc[r] # "done",
         UNCHANGED <<timeline, published>>,
         \A q \in Requests \ {r} : event'[q] = event[q]
  PROVE  Committed' /\ PublishersDone' /\ PublishedOnceCommitted'
<1>1. Committed'
  BY DEF PublishInv, Committed, Inv, TypeOK
<1>2. PublishersDone'
  <2>1. ASSUME NEW i \in DOMAIN published PROVE pc'[published[i].by] = "done"
    <3>1. published[i].by \in Requests /\ pc[published[i].by] = "done"
      BY PublishedBy
    <3> QED
      BY <3>1 DEF PublishInv, Inv, TypeOK
  <2> QED
    BY <2>1 DEF PublishersDone
<1>3. PublishedOnceCommitted'
  BY DEF PublishInv, PublishedOnceCommitted
<1> QED
  BY <1>1, <1>2, <1>3

LEMMA CommitPublishes ==
  ASSUME PublishInv, NEW r \in Requests, Commit(r)
  PROVE  Committed' /\ PublishersDone' /\ PublishedOnceCommitted'
<1> DEFINE e == event[r]
           k == Len(timeline) + 1
<1>1. /\ pc[r] = "commit" /\ pc' = [pc EXCEPT ![r] = "publish"]
      /\ timeline' = Append(timeline, e)
      /\ UNCHANGED <<published, event>>
  BY DEF Commit, Goto
<1>2. e \in Event /\ timeline \in Seq(Event)
  BY <1>1 DEF PublishInv, Inv, RequestsOK, RequestOK, Working, TypeOK
<1>3. /\ k \in DOMAIN timeline' /\ timeline'[k] = e
      /\ \A i \in DOMAIN timeline : i \in DOMAIN timeline' /\ timeline'[i] = timeline[i]
  BY <1>1, <1>2
<1> HIDE DEF e, k
<1>4. Committed'
  <2>1. ASSUME NEW q \in Requests, pc'[q] = "publish"
        PROVE  \E j \in DOMAIN timeline' : timeline'[j] = event'[q]
    <3>1. CASE q = r
      BY <1>1, <1>3, <3>1 DEF e
    <3>2. CASE q # r
      <4>1. pc[q] = "publish"
        BY <1>1, <2>1, <3>2 DEF PublishInv, Inv, TypeOK
      <4>2. PICK j \in DOMAIN timeline : timeline[j] = event[q]
        BY <4>1 DEF PublishInv, Committed
      <4> QED
        BY <1>1, <1>3, <4>2
    <3> QED
      BY <3>1, <3>2
  <2> QED
    BY <2>1 DEF Committed
<1>5. PublishersDone'
  <2>1. ASSUME NEW i \in DOMAIN published PROVE pc'[published[i].by] = "done"
    <3>1. published[i].by \in Requests /\ pc[published[i].by] = "done"
      BY PublishedBy
    <3> QED
      BY <1>1, <3>1 DEF PublishInv, Inv, TypeOK
  <2> QED
    BY <1>1, <2>1 DEF PublishersDone
<1>6. PublishedOnceCommitted'
  <2>1. ASSUME NEW i \in DOMAIN published
        PROVE  \E j \in DOMAIN timeline' : published[i] = timeline'[j]
    <3>1. PICK j \in DOMAIN timeline : published[i] = timeline[j]
      BY DEF PublishInv, PublishedOnceCommitted
    <3> QED
      BY <1>3, <3>1
  <2> QED
    BY <1>1, <2>1 DEF PublishInv, PublishedOnceCommitted
<1> QED
  BY <1>4, <1>5, <1>6

LEMMA PublishPublishes ==
  ASSUME PublishInv, NEW r \in Requests, PublishPending(r)
  PROVE  Committed' /\ PublishersDone' /\ PublishedOnceCommitted'
<1> DEFINE e == event[r]
           k == Len(published) + 1
<1>1. /\ pc[r] = "publish" /\ pc' = [pc EXCEPT ![r] = "done"]
      /\ event' = [event EXCEPT ![r] = None]
      /\ published' = Append(published, e)
      /\ UNCHANGED timeline
  BY DEF PublishPending, End, Goto
<1>2. e \in Event /\ e.by = r /\ published \in Seq(Event)
  BY <1>1 DEF PublishInv, Inv, RequestsOK, RequestOK, Working, TypeOK
<1>3. /\ DOMAIN published' = 1 .. k /\ DOMAIN published = 1 .. (k - 1)
      /\ k \in Nat /\ published'[k] = e
      /\ \A i \in 1 .. (k - 1) : published'[i] = published[i]
  BY <1>1, <1>2
<1>4. \E j \in DOMAIN timeline : timeline[j] = e
  BY <1>1 DEF PublishInv, Committed
<1> HIDE DEF e, k
<1>5. ASSUME NEW i \in 1 .. (k - 1)
      PROVE  published[i].by \in Requests /\ pc[published[i].by] = "done"
  BY <1>3, PublishedBy
<1>6. \A i \in 1 .. k : i \in 1 .. (k - 1) \/ i = k
  BY <1>3
<1>7. Committed'
  BY <1>1 DEF PublishInv, Committed, Inv, TypeOK
<1>8. PublishersDone'
  <2>1. ASSUME NEW i \in 1 .. k PROVE pc'[published'[i].by] = "done"
    <3>1. CASE i = k
      BY <1>1, <1>2, <1>3, <3>1 DEF PublishInv, Inv, TypeOK
    <3>2. CASE i \in 1 .. (k - 1)
      BY <1>1, <1>3, <1>5, <3>2 DEF PublishInv, Inv, TypeOK
    <3> QED
      BY <1>6, <3>1, <3>2
  <2> QED
    BY <1>3, <2>1 DEF PublishersDone
<1>9. PublishedOnceCommitted'
  <2>1. ASSUME NEW i \in 1 .. k PROVE \E j \in DOMAIN timeline : published'[i] = timeline[j]
    BY <1>3, <1>4, <1>6 DEF PublishInv, PublishedOnceCommitted
  <2>2. ASSUME NEW i \in 1 .. (k - 1) PROVE published[i].by # r
    BY <1>1, <1>5
  <2>3. ASSUME NEW i \in 1 .. k, NEW j \in 1 .. k, i # j
        PROVE  published'[i].by # published'[j].by
    BY <1>2, <1>3, <1>6, <2>2, <2>3 DEF PublishInv, PublishedOnceCommitted
  <2> QED
    BY <1>1, <1>3, <2>1, <2>3 DEF PublishedOnceCommitted
<1> QED
  BY <1>7, <1>8, <1>9

LEMMA NextPublish == PublishInv /\ [Next]_vars => PublishInv'
<1> SUFFICES ASSUME PublishInv, [Next]_vars PROVE PublishInv'
  OBVIOUS
<1> DEFINE Goal == Committed' /\ PublishersDone' /\ PublishedOnceCommitted'
<1>0. Inv'
  BY NextInv DEF PublishInv
<1>1. ASSUME NEW r \in Requests, Start(r) PROVE Goal
  <2>1. \E label \in {"sequence", "done"} :
          /\ pc[r] = "new" /\ pc' = [pc EXCEPT ![r] = label]
          /\ UNCHANGED <<timeline, published>>
          /\ \A q \in Requests \ {r} : event'[q] = event[q]
    BY <1>1 DEF Start, CreateIncident, ChangeStatus, Refuse, AssignIncident, AddNote,
       Begin, Goto, PublishInv, Inv, TypeOK
  <2> QED
    BY <2>1, NothingPublished
<1>2. ASSUME NEW r \in Requests, NextSequence(r) \/ Flush(r) \/ Rollback(r) \/ LosePending(r)
      PROVE  Goal
  <2>1. \E label \in {"flush", "commit", "done"} :
          /\ pc[r] # "done" /\ pc' = [pc EXCEPT ![r] = label]
          /\ UNCHANGED <<timeline, published>>
          /\ \A q \in Requests \ {r} : event'[q] = event[q]
    BY <1>2 DEF NextSequence, Flush, Rollback, LosePending, End, Goto, PublishInv, Inv, TypeOK
  <2> QED
    BY <2>1, NothingPublished
<1>3. ASSUME UNCHANGED vars PROVE Goal
  BY <1>3 DEF vars, requestVars, PublishInv, Committed, PublishersDone, PublishedOnceCommitted
<1>4. Goal
  BY <1>1, <1>2, <1>3, CommitPublishes, PublishPublishes DEF Next, Proceed
<1> QED
  BY <1>0, <1>4 DEF PublishInv

(* No event reaches the bus that is not committed, and none twice.         *)
THEOREM PublicationSound == Spec => []PublishedOnceCommitted
<1>1. Init => PublishInv
  BY InitInv DEF Init, PublishInv, Committed, PublishersDone, PublishedOnceCommitted
<1>2. PublishInv => PublishedOnceCommitted
  BY DEF PublishInv
<1> QED
  BY <1>1, <1>2, NextPublish, PTL DEF Spec

-----------------------------------------------------------------------------
(* One request at a time.                                                  *)

OneAtATime == Pool = 1

Alone == \A q, r \in Active : q = r

(* What a request has made up its mind to write is a move of the workflow  *)
(* from the status the row has, or an annotation of an existing incident.  *)
Intended(e) ==
  /\ e.new # None => /\ e.previous = status
                     /\ <<status, e.new>> \in Workflow!Edges
                     /\ e.type \in {"CREATED", "DE_ESCALATED", e.new}
  /\ e.new = None => /\ e.previous = None /\ status # None
                     /\ e.type \in {"ASSIGNED", "REASSIGNED", "NOTE_ADDED"}
  /\ e.type \in Assignments <=> e.user # None

(* Nothing has changed since the session of a request loaded the row.      *)
Current(r) ==
  pc[r] \in {"sequence", "flush", "commit"} =>
    /\ loaded[r] = [status |-> status, assigned_to |-> assigned_to]
    /\ Intended(event[r])

AllCurrent == \A r \in Requests : Current(r)

(* Every event of the timeline has the number of its place.                *)
Numbering == Sequences(timeline) = 1 .. Len(timeline)

NextNumber ==
  \A r \in Requests :
    pc[r] \in {"flush", "commit"} => event[r].sequence = Len(timeline) + 1

SerialInv == /\ Inv /\ Alone /\ AllCurrent
             /\ Numbering /\ NextNumber /\ AssigneeMatchesTimeline

-----------------------------------------------------------------------------
LEMMA InitSerial == Init => SerialInv
<1> SUFFICES ASSUME Init PROVE SerialInv
  OBVIOUS
<1>1. Alone /\ AllCurrent /\ NextNumber
  BY DEF Init, Alone, Active, AllCurrent, Current, NextNumber
<1>2. Numbering
  <2>1. timeline = <<>> /\ Len(timeline) = 0 /\ 1 .. 0 = {}
    BY DEF Init
  <2> QED
    BY <2>1 DEF Numbering, Sequences
<1>3. AssigneeMatchesTimeline
  BY DEF Init, AssigneeMatchesTimeline
<1> QED
  BY <1>1, <1>2, <1>3, InitInv DEF SerialInv

(* A request that begins finds no other one at work.                       *)
LEMMA NobodyActive ==
  ASSUME OneAtATime, Alone, Cardinality(Active) < Pool
  PROVE  Active = {}
<1>1. SUFFICES ASSUME NEW q \in Active PROVE FALSE
  OBVIOUS
<1>2. Active = {q}
  BY <1>1 DEF Alone
<1>3. Cardinality(Active) = 1
  BY <1>2, FS_Singleton
<1> QED
  BY <1>3 DEF OneAtATime

(* Only the step of the one active request is possible.                    *)
LEMMA OthersIdle ==
  ASSUME SerialInv, NEW r \in Requests, pc[r] \in Working
  PROVE  \A q \in Requests : q # r => pc[q] \notin Working
  BY DEF SerialInv, Alone, Active, Working, Inv, TypeOK, PC

-----------------------------------------------------------------------------
LEMMA BeginSerial ==
  ASSUME OneAtATime, SerialInv, NEW r \in Requests, NEW type,
         NEW previous, NEW new, NEW user,
         Begin(r, type, previous, new, user),
         Intended([by |-> r, sequence |-> 0, type |-> type,
                   previous |-> previous, new |-> new, user |-> user])
  PROVE  /\ Alone' /\ AllCurrent' /\ Numbering' /\ NextNumber'
         /\ AssigneeMatchesTimeline'
<1> DEFINE e == [by |-> r, sequence |-> 0, type |-> type,
                 previous |-> previous, new |-> new, user |-> user]
           old == [status |-> status, assigned_to |-> assigned_to]
<1>1. /\ event' = [event EXCEPT ![r] = e]
      /\ loaded' = [loaded EXCEPT ![r] = old]
      /\ pc' = [pc EXCEPT ![r] = "sequence"]
      /\ UNCHANGED <<row, timeline>>
      /\ Cardinality(Active) < Pool
  BY DEF Begin, Goto
<1>2. \A q \in Requests : pc[q] \in {"new", "done"}
  <2>1. Active = {}
    BY <1>1, NobodyActive DEF SerialInv
  <2> QED
    BY <2>1 DEF Active
<1>3. \A q \in Requests : q # r => pc'[q] \in {"new", "done"}
  BY <1>1, <1>2 DEF SerialInv, Inv, TypeOK
<1>4. Intended(e)'
  BY <1>1 DEF Intended, row, Workflow!Edges
<1> HIDE DEF e
<1>5. Alone'
  BY <1>3 DEF Alone, Active
<1>6. AllCurrent'
  <2>1. Current(r)'
    BY <1>1, <1>4 DEF Current, Intended, SerialInv, Inv, TypeOK, row
  <2> QED
    BY <1>3, <2>1 DEF AllCurrent, Current
<1>7. NextNumber'
  BY <1>1, <1>3 DEF NextNumber, SerialInv, Inv, TypeOK
<1>8. Numbering' /\ AssigneeMatchesTimeline'
  BY <1>1 DEF SerialInv, Numbering, Sequences, AssigneeMatchesTimeline, row
<1> QED
  BY <1>5, <1>6, <1>7, <1>8

(* Every transition that passes validate_transition is an edge.            *)
LEMMA PermittedEdge ==
  ASSUME NEW from, NEW to, Permitted(from, to)
  PROVE  <<from, to>> \in Workflow!Edges /\ to \in Status
  BY DEF Permitted, Transitions, Workflow!Edges, Status

LEMMA StartSerial ==
  ASSUME OneAtATime, SerialInv, NEW r \in Requests, Start(r)
  PROVE  /\ Alone' /\ AllCurrent' /\ Numbering' /\ NextNumber'
         /\ AssigneeMatchesTimeline'
<1> DEFINE Goal == /\ Alone' /\ AllCurrent' /\ Numbering' /\ NextNumber'
                   /\ AssigneeMatchesTimeline'
           e(type, previous, new, user) ==
             [by |-> r, sequence |-> 0, type |-> type,
              previous |-> previous, new |-> new, user |-> user]
<1>0. None \notin Status /\ None \notin Users
  BY IncidentAssumption
<1>1. CASE CreateIncident(r)
  <2>1. status = None /\ Begin(r, "CREATED", None, "NEW", None)
    BY <1>1 DEF CreateIncident
  <2>2. Intended(e("CREATED", None, "NEW", None))
    BY <1>0, <2>1 DEF Intended, Workflow!Edges, Status, Assignments
  <2> QED
    BY <2>1, <2>2, BeginSerial
<1>2. ASSUME NEW move \in Moves, ChangeStatus(r, move) PROVE Goal
  <2>1. Permitted(status, move.target) /\ Begin(r, move.type, status, move.target, None)
    BY <1>2 DEF ChangeStatus
  <2>2. move.type \in {"DE_ESCALATED", move.target} /\ move.type \notin Assignments
    BY DEF Moves, Assignments, Status
  <2>3. Intended(e(move.type, status, move.target, None))
    BY <1>0, <2>1, <2>2, PermittedEdge DEF Intended
  <2> QED
    BY <2>1, <2>3, BeginSerial
<1>3. ASSUME NEW move \in Moves, Refuse(r, move) PROVE Goal
  <2>1. /\ pc' = [pc EXCEPT ![r] = "done"]
        /\ UNCHANGED <<row, timeline, event, loaded>>
    BY <1>3 DEF Refuse, Goto
  <2>2. Alone'
    BY <2>1 DEF SerialInv, Alone, Active, Inv, TypeOK
  <2>3. AllCurrent'
    BY <2>1 DEF SerialInv, AllCurrent, Current, Intended, Inv, TypeOK, row
  <2>4. NextNumber'
    BY <2>1 DEF SerialInv, NextNumber, Inv, TypeOK
  <2>5. Numbering' /\ AssigneeMatchesTimeline'
    BY <2>1 DEF SerialInv, Numbering, Sequences, AssigneeMatchesTimeline, row
  <2> QED
    BY <2>2, <2>3, <2>4, <2>5
<1>4. ASSUME NEW user \in Users, AssignIncident(r, user) PROVE Goal
  <2>1. PICK type \in Assignments :
          status # None /\ Begin(r, type, None, None, user)
    BY <1>4 DEF AssignIncident, Assignments
  <2>2. Intended(e(type, None, None, user))
    BY <1>0, <2>1 DEF Intended, Assignments
  <2> QED
    BY <2>1, <2>2, BeginSerial
<1>5. CASE AddNote(r)
  <2>1. status # None /\ Begin(r, "NOTE_ADDED", None, None, None)
    BY <1>5 DEF AddNote
  <2>2. Intended(e("NOTE_ADDED", None, None, None))
    BY <1>0, <2>1 DEF Intended, Assignments
  <2> QED
    BY <2>1, <2>2, BeginSerial
<1> QED
  BY <1>1, <1>2, <1>3, <1>4, <1>5 DEF Start

-----------------------------------------------------------------------------
LEMMA NumberedIntent ==
  ASSUME NEW x, NEW n, Intended(x)
  PROVE  Intended(Numbered(x, n)) /\ Numbered(x, n).sequence = n
  BY DEF Intended, Numbered

(* A step of the active request that leaves row and timeline alone.        *)
LEMMA QuietSerial ==
  ASSUME SerialInv, NEW r \in Requests, pc[r] \in Working, NEW label \in PC,
         pc' = [pc EXCEPT ![r] = label],
         UNCHANGED <<row, timeline>>,
         label \in {"sequence", "flush", "commit"} =>
           /\ pc[r] \in {"sequence", "flush", "commit"}
           /\ loaded'[r] = loaded[r] /\ Intended(event'[r]),
         label \in {"flush", "commit"} => event'[r].sequence = Len(timeline) + 1
  PROVE  /\ Alone' /\ AllCurrent' /\ Numbering' /\ NextNumber'
         /\ AssigneeMatchesTimeline'
<1>1. \A q \in Requests : q # r => pc'[q] \notin Working
  BY OthersIdle DEF SerialInv, Inv, TypeOK
<1>2. pc'[r] = label
  BY DEF SerialInv, Inv, TypeOK
<1>3. Alone'
  <2>1. \A q \in Requests : q # r => pc'[q] \in {"new", "done"}
    BY <1>1 DEF Working, PC, SerialInv, Inv, TypeOK
  <2> QED
    BY <2>1 DEF Alone, Active
<1>4. AllCurrent'
  <2>1. ASSUME label \in {"sequence", "flush", "commit"} PROVE Current(r)'
    <3>1. Intended(event[r])'
      BY <2>1 DEF Intended, row, Workflow!Edges
    <3>2. loaded'[r] = [status |-> status', assigned_to |-> assigned_to']
      BY <2>1 DEF SerialInv, AllCurrent, Current, row
    <3> QED
      BY <3>1, <3>2 DEF Current
  <2>2. Current(r)'
    BY <1>2, <2>1 DEF Current
  <2>3. ASSUME NEW q \in Requests, q # r PROVE Current(q)'
    BY <1>1, <2>3 DEF Current, Working
  <2> QED
    BY <2>2, <2>3 DEF AllCurrent
<1>5. NextNumber'
  BY <1>1, <1>2 DEF NextNumber, Working
<1>6. Numbering' /\ AssigneeMatchesTimeline'
  BY DEF SerialInv, Numbering, Sequences, AssigneeMatchesTimeline, row
<1> QED
  BY <1>3, <1>4, <1>5, <1>6

(* Without concurrent requests the next number is that of the next place.  *)
LEMMA NextSequenceSerial ==
  ASSUME SerialInv, NEW r \in Requests, NextSequence(r)
  PROVE  /\ Alone' /\ AllCurrent' /\ Numbering' /\ NextNumber'
         /\ AssigneeMatchesTimeline'
<1> DEFINE n == MaxSequence(timeline) + 1
<1>1. n = Len(timeline) + 1
  <2>1. Len(timeline) \in Nat
    BY DEF SerialInv, Inv, TypeOK
  <2>2. MaxSequence(timeline) = Len(timeline)
    BY <2>1, MaxOfContiguous DEF SerialInv, Numbering
  <2> QED
    BY <2>2
<1>2. /\ pc[r] = "sequence" /\ pc' = [pc EXCEPT ![r] = "flush"]
      /\ event' = [event EXCEPT ![r] = Numbered(event[r], n)]
      /\ UNCHANGED <<row, timeline, loaded>>
  BY DEF NextSequence, Goto
<1>3. event'[r] = Numbered(event[r], n)
  BY <1>2 DEF SerialInv, Inv, TypeOK
<1>4. Intended(event[r])
  BY <1>2 DEF SerialInv, AllCurrent, Current
<1> HIDE DEF n
<1>5. Intended(event'[r]) /\ event'[r].sequence = Len(timeline) + 1
  BY <1>1, <1>3, <1>4, NumberedIntent
<1>6. pc[r] \in Working /\ "flush" \in PC
  BY <1>2 DEF Working, PC
<1> QED
  BY <1>2, <1>5, <1>6, QuietSerial

LEMMA FlushSerial ==
  ASSUME SerialInv, NEW r \in Requests, Flush(r)
  PROVE  /\ Alone' /\ AllCurrent' /\ Numbering' /\ NextNumber'
         /\ AssigneeMatchesTimeline'
<1>1. /\ pc[r] = "flush" /\ pc' = [pc EXCEPT ![r] = "commit"]
      /\ UNCHANGED <<row, timeline, event, loaded>>
  BY DEF Flush, Goto
<1>2. Intended(event[r]) /\ event[r].sequence = Len(timeline) + 1
  BY <1>1 DEF SerialInv, AllCurrent, Current, NextNumber
<1>3. pc[r] \in Working /\ "commit" \in PC
  BY <1>1 DEF Working, PC
<1> QED
  BY <1>1, <1>2, <1>3, QuietSerial

LEMMA EndSerial ==
  ASSUME SerialInv, NEW r \in Requests,
         Rollback(r) \/ PublishPending(r) \/ LosePending(r)
  PROVE  /\ Alone' /\ AllCurrent' /\ Numbering' /\ NextNumber'
         /\ AssigneeMatchesTimeline'
<1>1. /\ pc[r] \in Working /\ pc' = [pc EXCEPT ![r] = "done"]
      /\ UNCHANGED <<row, timeline>>
  BY DEF Rollback, PublishPending, LosePending, End, Goto, Working
<1>2. "done" \in PC
  BY DEF PC
<1> QED
  BY <1>1, <1>2, QuietSerial

-----------------------------------------------------------------------------
(* What the commit of the only request does to the row.                    *)
LEMMA CommitRow ==
  ASSUME SerialInv, NEW r \in Requests, Commit(r)
  PROVE  /\ status' = IF event[r].new # None THEN event[r].new ELSE status
         /\ assigned_to' = IF event[r].user # None THEN event[r].user ELSE assigned_to
         /\ Intended(event[r]) /\ event[r] \in Event
         /\ event[r].sequence = Len(timeline) + 1
         /\ timeline' = Append(timeline, event[r])
<1>1. pc[r] = "commit" /\ UpdateRow(event[r], loaded[r]) /\ timeline' = Append(timeline, event[r])
  BY DEF Commit
<1>2. /\ loaded[r].status = status /\ loaded[r].assigned_to = assigned_to
      /\ Intended(event[r]) /\ event[r].sequence = Len(timeline) + 1
  BY <1>1 DEF SerialInv, AllCurrent, Current, NextNumber
<1>3. /\ event[r] \in Event
      /\ event[r].type \in Changes \union {"CREATED"} <=> event[r].new # None
  BY <1>1 DEF SerialInv, Inv, RequestsOK, RequestOK, Working
<1>4. status' = IF event[r].new # None THEN event[r].new ELSE status
  BY <1>1, <1>2, <1>3 DEF UpdateRow, Written
<1>5. assigned_to' = IF event[r].user # None THEN event[r].user ELSE assigned_to
  BY <1>1, <1>2 DEF UpdateRow, Assignee, Written, Intended
<1> QED
  BY <1>1, <1>2, <1>3, <1>4, <1>5

LEMMA CommitSerial ==
  ASSUME SerialInv, NEW r \in Requests, Commit(r)
  PROVE  /\ Alone' /\ AllCurrent' /\ Numbering' /\ NextNumber'
         /\ AssigneeMatchesTimeline'
<1> DEFINE e == event[r]
           k == Len(timeline) + 1
<1>1. /\ assigned_to' = IF e.user # None THEN e.user ELSE assigned_to
      /\ e \in Event /\ e.sequence = k /\ timeline' = Append(timeline, e)
  BY CommitRow
<1>2. pc[r] = "commit" /\ pc' = [pc EXCEPT ![r] = "publish"]
  BY DEF Commit, Goto
<1>3. timeline \in Seq(Event) /\ Len(timeline) \in Nat
  BY DEF SerialInv, Inv, TypeOK
<1>4. /\ Len(timeline') = k /\ DOMAIN timeline' = 1 .. k
      /\ DOMAIN timeline = 1 .. Len(timeline)
      /\ timeline'[k] = e /\ \A i \in 1 .. Len(timeline) : timeline'[i] = timeline[i]
  BY <1>1, <1>3
<1>5. Sequences(timeline') = Sequences(timeline) \union {e.sequence}
  BY <1>1, <1>3, SequencesAppend
<1> HIDE DEF e
<1>6. pc'[r] = "publish" /\ \A q \in Requests : q # r => pc'[q] \notin Working
  <2>1. pc[r] \in Working
    BY <1>2 DEF Working
  <2> QED
    BY <1>2, <2>1, OthersIdle DEF SerialInv, Inv, TypeOK
<1>7. Alone'
  <2>1. \A q \in Requests : q # r => pc'[q] \in {"new", "done"}
    BY <1>2, <1>6 DEF Working, PC, SerialInv, Inv, TypeOK
  <2> QED
    BY <2>1 DEF Alone, Active
<1>8. AllCurrent' /\ NextNumber'
  BY <1>6 DEF AllCurrent, Current, NextNumber, Working
<1>9. Numbering'
  BY <1>1, <1>3, <1>4, <1>5 DEF SerialInv, Numbering
<1> HIDE DEF k
<1>10. AssigneeMatchesTimeline'
  <2>0. k \in Nat /\ k = Len(timeline) + 1
    BY <1>3 DEF k
  <2>1. SUFFICES ASSUME NEW i \in 1 .. k, timeline'[i].user # None,
                        \A j \in (i + 1) .. k : timeline'[j].user = None
                 PROVE  timeline'[i].user = assigned_to'
    BY <1>4 DEF AssigneeMatchesTimeline
  <2>2. CASE i = k
    BY <1>1, <1>4, <2>1, <2>2
  <2>3. CASE i # k
    <3>1. i \in 1 .. Len(timeline) /\ k \in (i + 1) .. k
      BY <1>3, <2>0, <2>3
    <3>2. e.user = None /\ assigned_to' = assigned_to
      BY <1>1, <1>4, <2>1, <3>1
    <3>3. timeline[i].user # None
      BY <1>4, <2>1, <3>1
    <3>4. ASSUME NEW j \in (i + 1) .. Len(timeline) PROVE timeline[j].user = None
      <4>1. j \in 1 .. Len(timeline) /\ j \in (i + 1) .. k
        BY <1>3, <2>0, <3>1
      <4> QED
        BY <1>4, <2>1, <4>1
    <3>5. timeline[i].user = assigned_to
      BY <1>4, <3>1, <3>3, <3>4 DEF SerialInv, AssigneeMatchesTimeline
    <3> QED
      BY <1>4, <3>1, <3>2, <3>5
  <2> QED
    BY <2>2, <2>3
<1> QED
  BY <1>7, <1>8, <1>9, <1>10

-----------------------------------------------------------------------------
LEMMA NextSerial == OneAtATime /\ SerialInv /\ [Next]_vars => SerialInv'
<1> SUFFICES ASSUME OneAtATime, SerialInv, [Next]_vars PROVE SerialInv'
  OBVIOUS
<1>1. Inv'
  BY NextInv DEF SerialInv
<1>2. CASE UNCHANGED vars
  BY <1>1, <1>2 DEF vars, row, requestVars, SerialInv, Alone, Active, AllCurrent, Current,
     Intended, Numbering, Sequences, NextNumber, AssigneeMatchesTimeline
<1>3. CASE Next
  BY <1>1, <1>3, StartSerial, NextSequenceSerial, FlushSerial, CommitSerial, EndSerial
  DEF Next, Proceed, SerialInv
<1> QED
  BY <1>2, <1>3

LEMMA SerialInvariant == ASSUME OneAtATime PROVE Spec => []SerialInv
<1>1. SerialInv /\ [Next]_vars => SerialInv'
  BY NextSerial
<1> QED
  BY <1>1, InitSerial, PTL DEF Spec

(* One request at a time, the row shows the user of the last assignment    *)
(* in the timeline: assign_incident never writes past a stale column.      *)
THEOREM AssigneeAlwaysMatches == ASSUME OneAtATime PROVE Spec => []AssigneeMatchesTimeline
<1>1. SerialInv => AssigneeMatchesTimeline
  BY DEF SerialInv
<1> QED
  BY <1>1, SerialInvariant, PTL

-----------------------------------------------------------------------------
(* The refinement: the initial state maps to the initial state of the      *)
(* workflow, a commit to one of its steps, any other step to a stutter.    *)

Entry(e) == [sequence |-> e.sequence, type |-> e.type,
             previous |-> e.previous, new |-> e.new]

LEMMA LogGrows ==
  ASSUME timeline \in Seq(Event), NEW e \in Event, timeline' = Append(timeline, e)
  PROVE  Log' = Append(Log, Entry(e)) /\ Len(Log) = Len(timeline)
<1> DEFINE n == Len(timeline)
           Entries == {Entry(x) : x \in Event}
<1>1. /\ n \in Nat /\ DOMAIN timeline = 1 .. n /\ DOMAIN timeline' = 1 .. (n + 1)
      /\ \A i \in 1 .. n : timeline[i] \in Event /\ timeline'[i] = timeline[i]
      /\ timeline'[n + 1] = e
  OBVIOUS
<1> HIDE DEF n
<1>2. Log = [i \in 1 .. n |-> Entry(timeline[i])]
  BY <1>1 DEF Log, Entry
<1>3. Log' = [i \in 1 .. (n + 1) |-> Entry(timeline'[i])]
  BY <1>1 DEF Log, Entry
<1>4. Log \in [1 .. n -> Entries]
  BY <1>1, <1>2
<1>5. Log \in Seq(Entries) /\ Len(Log) = n
  BY <1>1, <1>4
<1>6. Entry(e) \in Entries
  OBVIOUS
<1>7. Log' \in Seq(Entries) /\ Len(Log') = n + 1
  <2>1. \A i \in 1 .. (n + 1) : timeline'[i] \in Event
    BY <1>1
  <2>2. Log' \in [1 .. (n + 1) -> Entries]
    BY <1>3, <2>1
  <2> QED
    BY <1>1, <2>2
<1> HIDE DEF Entries
<1> DEFINE longer == Append(Log, Entry(e))
<1>8. /\ longer \in Seq(Entries) /\ Len(longer) = n + 1
      /\ longer[n + 1] = Entry(e)
      /\ \A i \in 1 .. n : longer[i] = Log[i]
  BY <1>1, <1>5, <1>6
<1> HIDE DEF longer
<1>9. \A i \in 1 .. Len(Log') : Log'[i] = longer[i]
  <2>1. Log'[n + 1] = Entry(e)
    BY <1>1, <1>3
  <2>2. ASSUME NEW i \in 1 .. n PROVE Log'[i] = Log[i]
    BY <1>1, <1>2, <1>3
  <2>3. \A i \in 1 .. (n + 1) : i \in 1 .. n \/ i = n + 1
    BY <1>1
  <2> QED
    BY <1>7, <1>8, <2>1, <2>2, <2>3
<1>10. Log' = longer
  BY <1>7, <1>8, <1>9, SeqEqual
<1> QED
  BY <1>5, <1>10 DEF n, longer

LEMMA CommitMoves ==
  ASSUME SerialInv, NEW r \in Requests, Commit(r)
  PROVE  Workflow!Next
<1> DEFINE e == event[r]
<1>1. /\ status' = IF e.new # None THEN e.new ELSE status
      /\ Intended(e) /\ e \in Event
      /\ e.sequence = Len(timeline) + 1
      /\ timeline' = Append(timeline, e)
  BY CommitRow
<1>2. timeline \in Seq(Event)
  BY DEF SerialInv, Inv, TypeOK
<1> HIDE DEF e
<1>3. Log' = Append(Log, Entry(e)) /\ Len(Log) = Len(timeline)
  BY <1>1, <1>2, LogGrows
<1>4. Workflow!Record(e.type, e.previous, e.new)
  BY <1>1, <1>3 DEF Workflow!Record, Entry
<1>5. CASE e.new # None
  <2>1. /\ e.previous = status /\ status' = e.new
        /\ <<status, e.new>> \in Workflow!Edges
        /\ e.type \in {"CREATED", "DE_ESCALATED", e.new}
    BY <1>1, <1>5 DEF Intended
  <2>2. Workflow!Move
    BY <1>4, <2>1 DEF Workflow!Move
  <2> QED
    BY <2>2 DEF Workflow!Next
<1>6. CASE e.new = None
  <2>1. /\ e.previous = None /\ status # None /\ status' = status
        /\ e.type \in {"ASSIGNED", "REASSIGNED", "NOTE_ADDED"}
    BY <1>1, <1>6 DEF Intended
  <2>2. Workflow!Annotate
    BY <1>4, <1>6, <2>1 DEF Workflow!Annotate
  <2> QED
    BY <2>2 DEF Workflow!Next
<1> QED
  BY <1>5, <1>6

LEMMA StepsMap ==
  SerialInv /\ [Next]_vars => [Workflow!Next]_(Workflow!workflowVars)
<1> SUFFICES ASSUME SerialInv, [Next]_vars
             PROVE  [Workflow!Next]_(Workflow!workflowVars)
  OBVIOUS
<1>1. ASSUME UNCHANGED <<status, timeline>> PROVE UNCHANGED Workflow!workflowVars
  BY <1>1 DEF Workflow!workflowVars, Log
<1>2. ASSUME UNCHANGED vars PROVE UNCHANGED <<status, timeline>>
  BY <1>2 DEF vars, row
<1>3. ASSUME NEW r \in Requests, Start(r) PROVE UNCHANGED <<status, timeline>>
  BY <1>3 DEF Start, CreateIncident, ChangeStatus, Refuse, AssignIncident, AddNote, Begin, row
<1>4. ASSUME NEW r \in Requests,
             NextSequence(r) \/ Flush(r) \/ PublishPending(r) \/ LosePending(r) \/ Rollback(r)
      PROVE  UNCHANGED <<status, timeline>>
  BY <1>4 DEF NextSequence, Flush, PublishPending, LosePending, Rollback, row
<1> QED
  BY <1>1, <1>2, <1>3, <1>4, CommitMoves DEF Next, Proceed

(* One request at a time, the service implements the incident workflow:    *)
(* every commit is one move along an edge of VALID_INCIDENT_TRANSITIONS or *)
(* one annotation, recorded under the next number, and nothing else        *)
(* touches the row's status or the timeline.                               *)
THEOREM WorkflowImplemented == ASSUME OneAtATime PROVE Spec => ImplementsWorkflow
<1>1. Init => Workflow!Init
  <2>1. ASSUME Init PROVE Workflow!Init
    <3>1. status = None /\ timeline = <<>>
      BY <2>1 DEF Init
    <3>2. Log = <<>>
      BY <3>1 DEF Log
    <3> QED
      BY <3>1, <3>2 DEF Workflow!Init
  <2> QED
    BY <2>1
<1> QED
  BY <1>1, StepsMap, SerialInvariant, PTL
  DEF ImplementsWorkflow, Spec, Workflow!Spec

=============================================================================
