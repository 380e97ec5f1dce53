--------------------------- MODULE EventBus_proofs --------------------------
(***************************************************************************)
(* Theorems about EventBus, for every set of threads, subscriptions and    *)
(* channels and every capacity: its types, the count of what was put, how  *)
(* far a queue exceeds its maxsize, what is lost without a trace, and in   *)
(* which order the events of one thread arrive.  The last part is about    *)
(* the bus when only the event loop publishes.                             *)
(***************************************************************************)
EXTENDS EventBus, FiniteSetTheorems, SequenceTheorems, TLAPS

Busy == {"dispatch", "deliver", "append", "count", "evict", "reput"}

(* What a thread's position in publish says of its local variables.        *)
ThreadOK(t) ==
  /\ pc[t] # "idle" => envelope[t] \in Envelope /\ envelope[t].by = t
  /\ pc[t] \in Busy => envelope[t].id \in 1 .. total_published
  /\ pc[t] \in {"append", "count", "evict", "reput"} => current[t] \in targets[t]
  /\ pc[t] \in {"idle", "store", "dispatch"} => targets[t] = {}

LocalsOK == \A t \in Threads : ThreadOK(t)

TypeInv == TypeOK /\ LocalsOK

LEMMA InitType == Init => TypeInv
  BY BusAssumption DEF Init, TypeInv, TypeOK, LocalsOK, ThreadOK, PC, Busy

LEMMA NextType == TypeInv /\ [Next]_vars => TypeInv'
<1>1. ASSUME TypeInv, NEW t \in Threads, NEW ch \in Channels,
             NEW kind \in Kinds \union {Heartbeat}, ReadSequence(t, ch, kind)
      PROVE  TypeInv'
  <2>1. [channel |-> ch, kind |-> kind, sequence |-> sequences[ch] + 1,
         id |-> 0, by |-> t] \in Envelope
    BY BusAssumption, <1>1 DEF TypeInv, TypeOK, Envelope
  <2>2. TypeOK'
    BY <1>1, <2>1 DEF ReadSequence, Goto, subVars, history, TypeInv, TypeOK, PC
  <2>3. LocalsOK'
    BY <1>1, <2>1 DEF ReadSequence, Goto, subVars, history, TypeInv, TypeOK, LocalsOK, ThreadOK, PC, Busy
  <2> QED
    BY <2>2, <2>3 DEF TypeInv
<1>2. ASSUME TypeInv, NEW t \in Threads, StoreSequence(t)
      PROVE  TypeInv'
  <2>1. envelope[t] \in Envelope /\ envelope[t].by = t
    BY <1>2 DEF StoreSequence, StoreNumber, TypeInv, LocalsOK, ThreadOK
  <2>2. envelope[t].channel \in Channels /\ envelope[t].sequence \in Nat
    BY <2>1 DEF Envelope
  <2>3. LET e == Stamped(envelope[t], total_published + 1)
        IN  e \in Envelope /\ e.by = t /\ e.id = total_published + 1
    BY <1>2, <2>1 DEF Stamped, Envelope, TypeInv, TypeOK
  <2>4. TypeOK'
    BY <1>2, <2>1, <2>2, <2>3 DEF StoreSequence, StoreNumber, Goto, subVars, history, TypeInv, TypeOK, PC
  <2>5. LocalsOK'
    BY <1>2, <2>1, <2>2, <2>3 DEF StoreSequence, StoreNumber, Goto, subVars, history, TypeInv, TypeOK, LocalsOK, ThreadOK, PC, Busy
  <2> QED
    BY <2>4, <2>5 DEF TypeInv
<1>3. ASSUME TypeInv, NEW t \in Threads, StoreHeartbeat(t)
      PROVE  TypeInv'
  <2>1. envelope[t] \in Envelope
    BY <1>3 DEF StoreHeartbeat, StoreNumber, TypeInv, LocalsOK, ThreadOK
  <2>2. envelope[t].channel \in Channels /\ envelope[t].sequence \in Nat
    BY <2>1 DEF Envelope
  <2>3. TypeOK'
    BY <1>3, <2>1, <2>2 DEF StoreHeartbeat, StoreNumber, Goto, subVars, history, TypeInv, TypeOK, PC
  <2>4. LocalsOK'
    BY <1>3, <2>1, <2>2 DEF StoreHeartbeat, StoreNumber, Goto, subVars, history, TypeInv, TypeOK, LocalsOK, ThreadOK, PC, Busy
  <2> QED
    BY <2>3, <2>4 DEF TypeInv
<1>4. ASSUME TypeInv, NEW t \in Threads, CopyTargets(t)
      PROVE  TypeInv'
  <2>1. TypeOK'
    BY <1>4 DEF CopyTargets, Matching, Goto, subVars, TypeInv, TypeOK, PC
  <2>2. LocalsOK'
    BY <1>4 DEF CopyTargets, Matching, Goto, subVars, TypeInv, TypeOK, LocalsOK, ThreadOK, PC, Busy
  <2> QED
    BY <2>1, <2>2 DEF TypeInv
<1>5. ASSUME TypeInv, NEW t \in Threads, NEW s \in Subs, FindRoom(t, s)
      PROVE  TypeInv'
  <2>1. TypeOK'
    BY <1>5 DEF FindRoom, Goto, subVars, history, TypeInv, TypeOK, PC
  <2>2. LocalsOK'
    BY <1>5 DEF FindRoom, Goto, subVars, history, TypeInv, TypeOK, LocalsOK, ThreadOK, PC, Busy
  <2> QED
    BY <2>1, <2>2 DEF TypeInv
<1>6. ASSUME TypeInv, NEW t \in Threads, PutEnvelope(t)
      PROVE  TypeInv'
  <2>1. current[t] \in Subs /\ envelope[t] \in Envelope
    BY <1>6 DEF PutEnvelope, TypeInv, TypeOK, LocalsOK, ThreadOK
  <2>2. Append(queue[current[t]], envelope[t]) \in Seq(Envelope)
    BY <1>6, <2>1 DEF TypeInv, TypeOK
  <2>3. TypeOK'
    BY <1>6, <2>1, <2>2 DEF PutEnvelope, Goto, history, TypeInv, TypeOK, PC
  <2>4. LocalsOK'
    BY <1>6, <2>1 DEF PutEnvelope, Goto, history, TypeInv, TypeOK, LocalsOK, ThreadOK, PC, Busy
  <2> QED
    BY <2>3, <2>4 DEF TypeInv
<1>16. ASSUME TypeInv, NEW t \in Threads, CountDelivered(t)
       PROVE  TypeInv'
  <2>0. current[t] \in Subs
    BY <1>16 DEF CountDelivered, TypeInv, TypeOK, LocalsOK, ThreadOK
  <2>1. TypeOK'
    BY <1>16, <2>0 DEF CountDelivered, CountOne, Visited, Goto, history, TypeInv, TypeOK, PC
  <2>2. LocalsOK'
    BY <1>16, <2>0 DEF CountDelivered, CountOne, Visited, Goto, history, TypeInv, TypeOK, LocalsOK, ThreadOK, PC, Busy
  <2> QED
    BY <2>1, <2>2 DEF TypeInv
<1>7. ASSUME TypeInv, NEW t \in Threads, NEW s \in Subs, DropNew(t, s)
      PROVE  TypeInv'
  <2>1. TypeOK'
    BY <1>7 DEF DropNew, CountDrop, Visited, history, TypeInv, TypeOK, PC
  <2>2. LocalsOK'
    BY <1>7 DEF DropNew, CountDrop, Visited, history, TypeInv, TypeOK, LocalsOK, ThreadOK, PC, Busy
  <2> QED
    BY <2>1, <2>2 DEF TypeInv
<1>8. ASSUME TypeInv, NEW t \in Threads, NEW s \in Subs, BeginEviction(t, s)
      PROVE  TypeInv'
  <2>1. TypeOK'
    BY <1>8 DEF BeginEviction, CountDrop, Goto, history, TypeInv, TypeOK, PC
  <2>2. LocalsOK'
    BY <1>8 DEF BeginEviction, CountDrop, Goto, history, TypeInv, TypeOK, LocalsOK, ThreadOK, PC, Busy
  <2> QED
    BY <2>1, <2>2 DEF TypeInv
<1>9. ASSUME TypeInv, NEW t \in Threads, EvictOldest(t)
      PROVE  TypeInv'
  <2>1. current[t] \in Subs
    BY <1>9 DEF EvictOldest, Evictable, TypeInv, TypeOK, LocalsOK, ThreadOK
  <2>2. queue[current[t]] # <<>> => Tail(queue[current[t]]) \in Seq(Envelope)
    BY <1>9, <2>1 DEF TypeInv, TypeOK
  <2>3. queue' \in [Subs -> Seq(Envelope)] /\ evicted' \in [Subs -> Nat]
    <3>1. CASE queue[current[t]] = <<>>
      BY <1>9, <3>1 DEF EvictOldest, Evictable, TypeInv, TypeOK
    <3>2. CASE queue[current[t]] # <<>>
      <4>1. /\ queue' = [queue EXCEPT ![current[t]] = Tail(queue[current[t]])]
            /\ evicted' = [evicted EXCEPT ![current[t]] = evicted[current[t]] + 1]
        BY <1>9, <3>2 DEF EvictOldest, Evictable
      <4> QED
        BY <1>9, <2>1, <2>2, <3>2, <4>1 DEF TypeInv, TypeOK
    <3> QED
      BY <3>1, <3>2
  <2>4. TypeOK'
    BY <1>9, <2>3 DEF EvictOldest, Evictable, Goto, TypeInv, TypeOK, PC
  <2>5. /\ pc[t] = "evict" /\ pc' = [pc EXCEPT ![t] = "reput"]
        /\ UNCHANGED <<total_published, envelope, targets, current>>
    BY <1>9 DEF EvictOldest, Goto
  <2>6. LocalsOK'
    <3> SUFFICES ASSUME NEW u \in Threads
                 PROVE  ThreadOK(u)'
      BY DEF LocalsOK
    <3>1. ThreadOK(u)
      BY <1>9 DEF TypeInv, LocalsOK
    <3>2. pc'[u] = IF u = t THEN "reput" ELSE pc[u]
      BY <1>9, <2>5 DEF TypeInv, TypeOK
    <3> QED
      BY <2>5, <3>1, <3>2 DEF ThreadOK, Busy
  <2> QED
    BY <2>4, <2>6 DEF TypeInv
<1>10. ASSUME TypeInv, NEW t \in Threads, PutAfterEviction(t)
       PROVE  TypeInv'
  <2>1. current[t] \in Subs /\ targets[t] \ {current[t]} \in SUBSET Subs
    BY <1>10 DEF TypeInv, TypeOK, LocalsOK, ThreadOK, PutAfterEviction
  <2>2. pc[t] = "reput" /\ UNCHANGED <<total_published, envelope, current>>
    BY <1>10 DEF PutAfterEviction
  <2>3. \/ pc' = [pc EXCEPT ![t] = "append"] /\ targets' = targets
        \/ /\ pc' = [pc EXCEPT ![t] = "deliver"]
           /\ targets' = [targets EXCEPT ![t] = @ \ {current[t]}]
    BY <1>10 DEF PutAfterEviction, Visited, Goto
  <2>4. pc' \in [Threads -> PC] /\ targets' \in [Threads -> SUBSET Subs]
    <3>1. CASE pc' = [pc EXCEPT ![t] = "append"] /\ targets' = targets
      BY <1>10, <3>1 DEF TypeInv, TypeOK, PC
    <3>2. CASE /\ pc' = [pc EXCEPT ![t] = "deliver"]
               /\ targets' = [targets EXCEPT ![t] = @ \ {current[t]}]
      BY <1>10, <2>1, <3>2 DEF TypeInv, TypeOK, PC
    <3> QED
      BY <2>3, <3>1, <3>2
  <2>5. TypeOK'
    BY <1>10, <2>4 DEF PutAfterEviction, subVars, history, TypeInv, TypeOK
  <2>6. LocalsOK'
    <3> SUFFICES ASSUME NEW u \in Threads
                 PROVE  ThreadOK(u)'
      BY DEF LocalsOK
    <3>1. ThreadOK(u)
      BY <1>10 DEF TypeInv, LocalsOK
    <3>2. CASE u = t
      BY <1>10, <2>2, <2>3, <3>1, <3>2 DEF TypeInv, TypeOK, ThreadOK, Busy
    <3>3. CASE u # t
      BY <1>10, <2>2, <2>3, <3>1, <3>3 DEF TypeInv, TypeOK, ThreadOK, Busy
    <3> QED
      BY <3>2, <3>3
  <2> QED
    BY <2>5, <2>6 DEF TypeInv
<1>11. ASSUME TypeInv, NEW t \in Threads, Return(t)
       PROVE  TypeInv'
  <2>1. TypeOK'
    BY <1>11 DEF Return, Goto, subVars, history, TypeInv, TypeOK, PC
  <2>2. LocalsOK'
    BY <1>11 DEF Return, Goto, subVars, history, TypeInv, TypeOK, LocalsOK, ThreadOK, PC, Busy
  <2> QED
    BY <2>1, <2>2 DEF TypeInv
<1>12. ASSUME TypeInv, NEW s \in Subs, Subscribe(s)
       PROVE  TypeInv'
  <2>1. TypeOK'
    BY <1>12 DEF Subscribe, threadVars, history, TypeInv, TypeOK, PC
  <2>2. LocalsOK'
    BY <1>12 DEF Subscribe, threadVars, history, TypeInv, TypeOK, LocalsOK, ThreadOK, PC, Busy
  <2> QED
    BY <2>1, <2>2 DEF TypeInv
<1>13. ASSUME TypeInv, NEW s \in Subs, Unsubscribe(s)
       PROVE  TypeInv'
  <2>1. TypeOK'
    BY <1>13 DEF Unsubscribe, threadVars, history, TypeInv, TypeOK, PC
  <2>2. LocalsOK'
    BY <1>13 DEF Unsubscribe, threadVars, history, TypeInv, TypeOK, LocalsOK, ThreadOK, PC, Busy
  <2> QED
    BY <2>1, <2>2 DEF TypeInv
<1>14. ASSUME TypeInv, NEW s \in Subs, Take(s)
       PROVE  TypeInv'
  <2>1. /\ Head(queue[s]) \in Envelope
        /\ Tail(queue[s]) \in Seq(Envelope)
        /\ Append(received[s], Head(queue[s])) \in Seq(Envelope)
    BY <1>14 DEF Take, Ready, TypeInv, TypeOK
  <2>2. TypeOK'
    BY <1>14, <2>1 DEF Take, Ready, threadVars, TypeInv, TypeOK, PC
  <2>3. LocalsOK'
    BY <1>14, <2>1 DEF Take, Ready, threadVars, TypeInv, TypeOK, LocalsOK, ThreadOK, PC, Busy
  <2> QED
    BY <2>2, <2>3 DEF TypeInv
<1>15. ASSUME TypeInv, UNCHANGED vars
       PROVE  TypeInv'
  <2>1. TypeOK'
    BY <1>15 DEF vars, subVars, threadVars, history, TypeInv, TypeOK, PC
  <2>2. LocalsOK'
    BY <1>15 DEF vars, subVars, threadVars, history, TypeInv, TypeOK, LocalsOK, ThreadOK, PC, Busy
  <2> QED
    BY <2>1, <2>2 DEF TypeInv
<1> QED
  BY <1>1, <1>2, <1>3, <1>4, <1>5, <1>6, <1>7, <1>8, <1>9, <1>10, <1>11, <1>12, <1>13, <1>14, <1>15, <1>16
  DEF Next, Publish, Visit

(* The state of the bus keeps its type, and a thread inside publish always *)
(* has an envelope and, where it needs one, a subscription to put into.    *)
THEOREM TypeCorrect == Spec => []TypeOK
<1>1. TypeInv => TypeOK
  BY DEF TypeInv
<1> QED
  BY <1>1, InitType, NextType, PTL DEF Spec

-----------------------------------------------------------------------------
(* What a step does to the threads that are counting a put into the queue  *)
(* of s: one enters, one leaves, or nobody moves.                          *)
LEMMA CountingGrows ==
  ASSUME TypeInv, NEW t \in Threads, NEW s \in Subs, s = current[t], PutEnvelope(t)
  PROVE  Cardinality(Counting(s)') = Cardinality(Counting(s)) + 1
<1>1. Counting(s)' = Counting(s) \union {t} /\ t \notin Counting(s)
  BY DEF PutEnvelope, Goto, Counting, TypeInv, TypeOK
<1>2. IsFiniteSet(Counting(s))
  BY BusAssumption, FS_Subset DEF Counting
<1> QED
  BY <1>1, <1>2, FS_AddElement

LEMMA CountingShrinks ==
  ASSUME TypeInv, NEW t \in Threads, NEW s \in Subs, s = current[t], CountDelivered(t)
  PROVE  Cardinality(Counting(s)) = Cardinality(Counting(s)') + 1
<1>1. /\ Counting(s) = Counting(s)' \union {t}
      /\ t \notin Counting(s)'
  BY DEF CountDelivered, Goto, Counting, TypeInv, TypeOK
<1>2. IsFiniteSet(Counting(s)')
  BY BusAssumption, FS_Subset DEF Counting
<1> QED
  BY <1>1, <1>2, FS_AddElement

LEMMA NextDelivered ==
  TypeInv /\ DeliveredExact /\ [Next]_vars => DeliveredExact'
<1> DEFINE Exact(s) ==
      delivered_count[s] + Cardinality(Counting(s))
        = Len(received[s]) + Len(queue[s]) + evicted[s]
<1> SUFFICES ASSUME TypeInv, DeliveredExact, [Next]_vars, NEW s \in Subs
             PROVE  Exact(s)'
  BY DEF DeliveredExact
<1>0. /\ delivered_count[s] + Cardinality(Counting(s))
           = Len(received[s]) + Len(queue[s]) + evicted[s]
      /\ queue[s] \in Seq(Envelope) /\ received[s] \in Seq(Envelope)
      /\ Len(queue[s]) \in Nat /\ Len(received[s]) \in Nat
      /\ delivered_count[s] \in Nat /\ evicted[s] \in Nat
  BY DEF DeliveredExact, TypeInv, TypeOK
<1>C. Cardinality(Counting(s)) \in Nat
  <2>1. IsFiniteSet(Counting(s))
    BY BusAssumption, FS_Subset DEF Counting
  <2> QED
    BY <2>1, FS_CardinalityType
\* Names for the terms of the balance: the solver does not add lengths.
<1>d. PICK d \in Nat : d = delivered_count[s]
  BY <1>0
<1>c. PICK c \in Nat : c = Cardinality(Counting(s))
  BY <1>C
<1>r. PICK r \in Nat : r = Len(received[s])
  BY <1>0
<1>q. PICK q \in Nat : q = Len(queue[s])
  BY <1>0
<1>e. PICK e \in Nat : e = evicted[s]
  BY <1>0
<1>B. d + c = r + q + e
  BY <1>0, <1>d, <1>c, <1>r, <1>q, <1>e
<1>1. ASSUME NEW t \in Threads, PutEnvelope(t)
      PROVE  Exact(s)'
  <2>1. current[t] \in Subs /\ envelope[t] \in Envelope
    BY <1>1 DEF PutEnvelope, TypeInv, TypeOK, LocalsOK, ThreadOK
  <2>2. CASE s = current[t]
    <3>1. /\ queue'[s] = Append(queue[s], envelope[t])
          /\ delivered_count'[s] = delivered_count[s]
          /\ received'[s] = received[s] /\ evicted'[s] = evicted[s]
      BY <1>1, <2>1, <2>2 DEF PutEnvelope, history, TypeInv, TypeOK
    <3>2. Len(queue'[s]) = Len(queue[s]) + 1
      BY <1>0, <2>1, <3>1
    <3>3. Cardinality(Counting(s)') = Cardinality(Counting(s)) + 1
      BY <1>1, <2>2, CountingGrows
    <3>4. d + (c + 1) = r + (q + 1) + e
      BY <1>B
    <3> QED
      BY <1>d, <1>c, <1>r, <1>q, <1>e, <3>1, <3>2, <3>3, <3>4, Zenon
  <2>3. CASE s # current[t]
    <3>1. Counting(s)' = Counting(s)
      BY <1>1, <2>3 DEF PutEnvelope, Goto, Counting, TypeInv, TypeOK
    <3>2. /\ queue'[s] = queue[s] /\ delivered_count'[s] = delivered_count[s]
          /\ received'[s] = received[s] /\ evicted'[s] = evicted[s]
      BY <1>1, <2>1, <2>3 DEF PutEnvelope, history, TypeInv, TypeOK
    <3> QED
      BY <1>0, <3>1, <3>2
  <2> QED
    BY <2>2, <2>3
<1>2. ASSUME NEW t \in Threads, CountDelivered(t)
      PROVE  Exact(s)'
  <2>0. current[t] \in Subs /\ queue' = queue /\ received' = received /\ evicted' = evicted
    BY <1>2 DEF CountDelivered, history, TypeInv, TypeOK, LocalsOK, ThreadOK
  <2>1. CASE s = current[t]
    <3>1. delivered_count'[s] = delivered_count[s] + 1
      BY <1>2, <2>0, <2>1 DEF CountDelivered, CountOne, TypeInv, TypeOK
    <3>2. Cardinality(Counting(s)) = Cardinality(Counting(s)') + 1
      BY <1>2, <2>1, CountingShrinks
    <3>3. Cardinality(Counting(s)') \in Nat
      BY BusAssumption, FS_Subset, FS_CardinalityType DEF Counting
    <3>4. PICK k \in Nat : k = Cardinality(Counting(s)')
      BY <3>3
    <3>5. c = k + 1
      BY <1>c, <3>2, <3>4, Zenon
    <3>6. (d + 1) + k = r + q + e
      BY <1>B, <3>5
    <3> QED
      BY <1>d, <1>r, <1>q, <1>e, <2>0, <3>1, <3>4, <3>6, Zenon
  <2>2. CASE s # current[t]
    <3>1. Counting(s)' = Counting(s)
      BY <1>2, <2>2 DEF CountDelivered, Goto, Counting, TypeInv, TypeOK
    <3>2. delivered_count'[s] = delivered_count[s]
      BY <1>2, <2>0, <2>2 DEF CountDelivered, CountOne, TypeInv, TypeOK
    <3> QED
      BY <1>0, <2>0, <3>1, <3>2
  <2> QED
    BY <2>1, <2>2
<1>3. ASSUME NEW t \in Threads, EvictOldest(t)
      PROVE  Exact(s)'
  <2>0. Counting(s)' = Counting(s) /\ received' = received /\ delivered_count' = delivered_count
    BY <1>3 DEF EvictOldest, Goto, Counting, TypeInv, TypeOK
  <2>1. CASE s = current[t] /\ queue[s] # <<>>
    <3>1. queue'[s] = Tail(queue[s]) /\ evicted'[s] = evicted[s] + 1
      BY <1>3, <2>1 DEF EvictOldest, Evictable, TypeInv, TypeOK
    <3>2. Len(queue[s]) = Len(queue'[s]) + 1 /\ Len(queue'[s]) \in Nat
      BY <1>0, <2>1, <3>1
    <3>3. PICK k \in Nat : k = Len(queue'[s])
      BY <3>2
    <3>4. q = k + 1
      BY <1>q, <3>2, <3>3, Zenon
    <3>5. d + c = r + k + (e + 1)
      BY <1>B, <3>4
    <3> QED
      BY <1>d, <1>c, <1>r, <1>e, <2>0, <3>1, <3>3, <3>5, Zenon
  <2>2. CASE ~(s = current[t] /\ queue[s] # <<>>)
    <3>1. queue'[s] = queue[s] /\ evicted'[s] = evicted[s]
      BY <1>3, <2>2 DEF EvictOldest, Evictable, TypeInv, TypeOK
    <3> QED
      BY <1>0, <2>0, <3>1
  <2> QED
    BY <2>1, <2>2
<1>4. ASSUME NEW u \in Subs, Take(u)
      PROVE  Exact(s)'
  <2>0. Counting(s)' = Counting(s) /\ delivered_count' = delivered_count /\ evicted' = evicted
    BY <1>4 DEF Take, threadVars, Counting
  <2>1. CASE s = u
    <3>1. /\ queue[s] # <<>>
          /\ queue'[s] = Tail(queue[s])
          /\ received'[s] = Append(received[s], Head(queue[s]))
      BY <1>4, <2>1 DEF Take, Ready, TypeInv, TypeOK
    <3>2. Head(queue[s]) \in Envelope
      BY <1>0, <3>1
    <3>3. /\ Len(queue[s]) = Len(queue'[s]) + 1 /\ Len(queue'[s]) \in Nat
          /\ Len(received'[s]) = Len(received[s]) + 1
      BY <1>0, <3>1, <3>2
    <3>4. PICK k \in Nat : k = Len(queue'[s])
      BY <3>3
    <3>5. q = k + 1
      BY <1>q, <3>3, <3>4, Zenon
    <3>6. d + c = (r + 1) + k + e
      BY <1>B, <3>5
    <3> QED
      BY <1>d, <1>c, <1>r, <1>e, <2>0, <3>3, <3>4, <3>6, Zenon
  <2>2. CASE s # u
    <3>1. queue'[s] = queue[s] /\ received'[s] = received[s]
      BY <1>4, <2>2 DEF Take, Ready, TypeInv, TypeOK
    <3> QED
      BY <1>0, <2>0, <3>1
  <2> QED
    BY <2>1, <2>2
<1>5. ASSUME Counting(s)' = Counting(s),
             UNCHANGED <<queue, received, delivered_count, evicted>>
      PROVE  Exact(s)'
  BY <1>0, <1>5
<1> QED
  <2>1. ASSUME NEW t \in Threads, NEW ch \in Channels,
               NEW kind \in Kinds \union {Heartbeat}, ReadSequence(t, ch, kind)
        PROVE  Exact(s)'
    <3>1. Counting(s)' = Counting(s)
      BY <2>1 DEF ReadSequence, Goto, Counting, TypeInv, TypeOK
    <3> QED
      BY <1>5, <2>1, <3>1 DEF ReadSequence, subVars, history
  <2>2. ASSUME NEW t \in Threads,
               StoreSequence(t) \/ StoreHeartbeat(t) \/ CopyTargets(t) \/ Return(t)
        PROVE  Exact(s)'
    <3>1. Counting(s)' = Counting(s)
      BY <2>2 DEF StoreSequence, StoreHeartbeat, StoreNumber, CopyTargets, Return,
                  Goto, Counting, TypeInv, TypeOK
    <3> QED
      BY <1>5, <2>2, <3>1 DEF StoreSequence, StoreHeartbeat, CopyTargets, Return, subVars, history
  <2>3. ASSUME NEW t \in Threads, NEW u \in Subs,
               FindRoom(t, u) \/ DropNew(t, u) \/ BeginEviction(t, u)
        PROVE  Exact(s)'
    <3>1. Counting(s)' = Counting(s)
      BY <2>3 DEF FindRoom, DropNew, BeginEviction, Goto, Counting, TypeInv, TypeOK
    <3> QED
      BY <1>5, <2>3, <3>1 DEF FindRoom, DropNew, BeginEviction, CountDrop, subVars, history
  <2>4. ASSUME NEW t \in Threads, PutAfterEviction(t)
        PROVE  Exact(s)'
    <3>1. Counting(s)' = Counting(s)
      BY <2>4 DEF PutAfterEviction, Goto, Counting, TypeInv, TypeOK
    <3> QED
      BY <1>5, <2>4, <3>1 DEF PutAfterEviction, subVars, history
  <2>5. ASSUME NEW u \in Subs, Subscribe(u) \/ Unsubscribe(u)
        PROVE  Exact(s)'
    <3>1. Counting(s)' = Counting(s)
      BY <2>5 DEF Subscribe, Unsubscribe, threadVars, Counting
    <3> QED
      BY <1>5, <2>5, <3>1 DEF Subscribe, Unsubscribe, history
  <2>6. CASE UNCHANGED vars
    <3>1. Counting(s)' = Counting(s)
      BY <2>6 DEF vars, threadVars, Counting
    <3> QED
      BY <1>5, <2>6, <3>1 DEF vars, subVars, history
  <2> QED
    BY <1>1, <1>2, <1>3, <1>4, <2>1, <2>2, <2>3, <2>4, <2>5, <2>6 DEF Next, Publish, Visit

(* For any number of threads and any interleaving of put, count, eviction  *)
(* and pump, delivered_count and the puts still to be counted make up what *)
(* entered a queue, each of which was taken, evicted, or is still queued.  *)
THEOREM DeliveredAlwaysExact == Spec => []DeliveredExact
<1>1. Init => DeliveredExact
  <2> SUFFICES ASSUME Init, NEW s \in Subs
               PROVE  delivered_count[s] + Cardinality(Counting(s))
                        = Len(received[s]) + Len(queue[s]) + evicted[s]
    BY DEF DeliveredExact
  <2>1. Counting(s) = {}
    BY DEF Init, Counting
  <2>2. Cardinality(Counting(s)) = 0
    BY <2>1, FS_EmptySet
  <2>3. delivered_count[s] = 0 /\ evicted[s] = 0 /\ received[s] = <<>> /\ queue[s] = <<>>
    BY DEF Init
  <2> QED
    BY <2>2, <2>3
<1> QED
  BY <1>1, InitType, NextType, NextDelivered, PTL DEF Spec

-----------------------------------------------------------------------------
(* How far queues fill, and what is lost.                                  *)

(* The threads that have seen room in the queue of s and not yet put.      *)
Appending(s) == {t \in Threads : pc[t] = "append" /\ current[t] = s}

(* QueueBound is not inductive: what counts is the length a queue has when *)
(* everybody who has seen room in it has put.                              *)
RoomBound ==
  \A s \in Subs :
    Len(queue[s]) + Cardinality(Appending(s)) + 1 <= Capacity + Cardinality(Threads)

LEMMA AppendingFinite ==
  ASSUME NEW s
  PROVE  /\ IsFiniteSet(Appending(s))
         /\ Cardinality(Appending(s)) \in Nat
         /\ Cardinality(Threads) \in Nat
<1>1. IsFiniteSet(Appending(s))
  BY BusAssumption, FS_Subset DEF Appending
<1> QED
  BY <1>1, BusAssumption, FS_CardinalityType

(* A thread that finds room is not among the others that have found it, so *)
(* with it they are at most all threads.                                   *)
LEMMA RoomFound ==
  ASSUME TypeInv, TypeInv', NEW t \in Threads, NEW s \in Subs, ~Full(s), queue' = queue
  PROVE  Len(queue'[s]) + Cardinality(Appending(s)') + 1 <= Capacity + Cardinality(Threads)
<1>1. Appending(s)' \subseteq Threads
  BY DEF Appending
<1>2. /\ Cardinality(Appending(s)') <= Cardinality(Threads)
      /\ Cardinality(Appending(s)') \in Nat
      /\ Cardinality(Threads) \in Nat
  BY <1>1, BusAssumption, FS_Subset, FS_CardinalityType
<1>3. Len(queue[s]) \in Nat /\ Capacity \in Nat /\ ~(Len(queue[s]) >= Capacity)
  BY BusAssumption DEF Full, TypeInv, TypeOK
<1>4. PICK q \in Nat : q = Len(queue'[s])
  BY <1>3
<1>5. PICK a \in Nat : a = Cardinality(Appending(s)')
  BY <1>2
<1>6. PICK n \in Nat : n = Cardinality(Threads)
  BY <1>2
<1>7. q + 1 <= Capacity /\ a <= n
  BY <1>2, <1>3, <1>4, <1>5, <1>6
<1>8. q + a + 1 <= Capacity + n
  BY <1>3, <1>7
<1> QED
  BY <1>4, <1>5, <1>6, <1>8, Zenon

LEMMA NextRoom == TypeInv /\ TypeInv' /\ RoomBound /\ [Next]_vars => RoomBound'
<1> DEFINE Bounded(s) ==
      Len(queue[s]) + Cardinality(Appending(s)) + 1 <= Capacity + Cardinality(Threads)
<1> SUFFICES ASSUME TypeInv, TypeInv', RoomBound, [Next]_vars, NEW s \in Subs
             PROVE  Bounded(s)'
  BY DEF RoomBound
<1>0. Bounded(s) /\ queue[s] \in Seq(Envelope) /\ Len(queue[s]) \in Nat /\ Capacity \in Nat
  BY BusAssumption DEF RoomBound, TypeInv, TypeOK
\* Names for the terms: the solver does not add lengths.
<1>q. PICK q \in Nat : q = Len(queue[s])
  BY <1>0
<1>a. PICK a \in Nat : a = Cardinality(Appending(s))
  BY AppendingFinite
<1>n. PICK n \in Nat : n = Cardinality(Threads)
  BY AppendingFinite
<1>B. q + a + 1 <= Capacity + n
  BY <1>0, <1>q, <1>a, <1>n
<1>1. ASSUME Appending(s)' = Appending(s), queue'[s] = queue[s]
      PROVE  Bounded(s)'
  BY <1>0, <1>1
<1>2. ASSUME NEW t \in Threads, PutEnvelope(t)
      PROVE  Bounded(s)'
  <2>0. current[t] \in Subs /\ envelope[t] \in Envelope
    BY <1>2 DEF PutEnvelope, TypeInv, TypeOK, LocalsOK, ThreadOK
  <2>1. CASE s = current[t]
    <3>1. Len(queue'[s]) = Len(queue[s]) + 1
      BY <1>0, <1>2, <2>0, <2>1 DEF PutEnvelope, TypeInv, TypeOK
    <3>2. /\ Appending(s) = Appending(s)' \union {t}
          /\ t \notin Appending(s)'
      BY <1>2, <2>1 DEF PutEnvelope, Goto, Appending, TypeInv, TypeOK
    <3>3. IsFiniteSet(Appending(s)')
      BY BusAssumption, FS_Subset DEF Appending
    <3>4. Cardinality(Appending(s)) = Cardinality(Appending(s)') + 1
      BY <3>2, <3>3, FS_AddElement
    <3>5. PICK k \in Nat : k = Cardinality(Appending(s)')
      BY <3>3, FS_CardinalityType
    <3>6. a = k + 1
      BY <1>a, <3>4, <3>5, Zenon
    <3>7. (q + 1) + k + 1 <= Capacity + n
      BY <1>0, <1>B, <3>6
    <3> QED
      BY <1>q, <1>n, <3>1, <3>5, <3>7, Zenon
  <2>2. CASE s # current[t]
    <3>1. Appending(s)' = Appending(s)
      BY <1>2, <2>2 DEF PutEnvelope, Goto, Appending, TypeInv, TypeOK
    <3>2. queue'[s] = queue[s]
      BY <1>2, <2>0, <2>2 DEF PutEnvelope, TypeInv, TypeOK
    <3> QED
      BY <1>1, <3>1, <3>2
  <2> QED
    BY <2>1, <2>2
<1>3. ASSUME NEW t \in Threads, NEW u \in Subs, FindRoom(t, u)
      PROVE  Bounded(s)'
  <2>0. queue' = queue /\ ~Full(u)
    BY <1>3 DEF FindRoom, subVars
  <2>1. CASE s = u
    BY <1>3, <2>0, <2>1, RoomFound
  <2>2. CASE s # u
    <3>1. Appending(s)' = Appending(s)
      BY <1>3, <2>2 DEF FindRoom, Goto, Appending, TypeInv, TypeOK
    <3> QED
      BY <1>1, <2>0, <3>1
  <2> QED
    BY <2>1, <2>2
<1>4. ASSUME NEW t \in Threads, PutAfterEviction(t)
      PROVE  Bounded(s)'
  <2>0. queue' = queue /\ current' = current
    BY <1>4 DEF PutAfterEviction, subVars
  <2>1. CASE s = current[t] /\ ~Full(s)
    BY <1>4, <2>0, <2>1, RoomFound
  <2>2. CASE ~(s = current[t] /\ ~Full(s))
    <3>1. Appending(s)' = Appending(s)
      BY <1>4, <2>2 DEF PutAfterEviction, Goto, Appending, TypeInv, TypeOK
    <3> QED
      BY <1>1, <2>0, <3>1
  <2> QED
    BY <2>1, <2>2
<1>5. ASSUME Appending(s)' = Appending(s), queue[s] # <<>>, queue'[s] = Tail(queue[s])
      PROVE  Bounded(s)'
  <2>1. PICK k \in Nat : k = Len(queue'[s]) /\ q = k + 1
    BY <1>0, <1>5, <1>q
  <2>2. k + a + 1 <= Capacity + n
    BY <1>0, <1>B, <2>1
  <2> QED
    BY <1>5, <1>a, <1>n, <2>1, <2>2, Zenon
<1>6. ASSUME NEW t \in Threads, EvictOldest(t)
      PROVE  Bounded(s)'
  <2>0. Appending(s)' = Appending(s)
    BY <1>6 DEF EvictOldest, Goto, Appending, TypeInv, TypeOK
  <2>1. CASE s = current[t] /\ queue[s] # <<>>
    BY <1>5, <1>6, <2>0, <2>1 DEF EvictOldest, Evictable, TypeInv, TypeOK
  <2>2. CASE ~(s = current[t] /\ queue[s] # <<>>)
    <3>1. queue'[s] = queue[s]
      BY <1>6, <2>2 DEF EvictOldest, Evictable, TypeInv, TypeOK
    <3> QED
      BY <1>1, <2>0, <3>1
  <2> QED
    BY <2>1, <2>2
<1>7. ASSUME NEW u \in Subs, Take(u)
      PROVE  Bounded(s)'
  <2>0. Appending(s)' = Appending(s)
    BY <1>7 DEF Take, threadVars, Appending
  <2>1. CASE s = u
    BY <1>5, <1>7, <2>0, <2>1 DEF Take, Ready, TypeInv, TypeOK
  <2>2. CASE s # u
    <3>1. queue'[s] = queue[s]
      BY <1>7, <2>2 DEF Take, TypeInv, TypeOK
    <3> QED
      BY <1>1, <2>0, <3>1
  <2> QED
    BY <2>1, <2>2
<1> QED
  <2>1. ASSUME NEW t \in Threads, NEW ch \in Channels,
               NEW kind \in Kinds \union {Heartbeat}, ReadSequence(t, ch, kind)
        PROVE  Bounded(s)'
    <3>1. Appending(s)' = Appending(s)
      BY <2>1 DEF ReadSequence, Goto, Appending, TypeInv, TypeOK
    <3> QED
      BY <1>1, <2>1, <3>1 DEF ReadSequence, subVars
  <2>2. ASSUME NEW t \in Threads,
               \/ StoreSequence(t) \/ StoreHeartbeat(t) \/ CopyTargets(t) \/ Return(t)
        PROVE  Bounded(s)'
    <3>1. Appending(s)' = Appending(s)
      BY <2>2 DEF StoreSequence, StoreHeartbeat, StoreNumber, CopyTargets, Return,
                  Goto, Appending, TypeInv, TypeOK
    <3> QED
      BY <1>1, <2>2, <3>1 DEF StoreSequence, StoreHeartbeat, CopyTargets, Return, subVars
  <2>3. ASSUME NEW t \in Threads, CountDelivered(t)
        PROVE  Bounded(s)'
    <3>1. Appending(s)' = Appending(s)
      BY <2>3 DEF CountDelivered, Goto, Appending, TypeInv, TypeOK
    <3> QED
      BY <1>1, <2>3, <3>1 DEF CountDelivered
  <2>4. ASSUME NEW t \in Threads, NEW u \in Subs, DropNew(t, u) \/ BeginEviction(t, u)
        PROVE  Bounded(s)'
    <3>1. Appending(s)' = Appending(s)
      BY <2>4 DEF DropNew, BeginEviction, Goto, Appending, TypeInv, TypeOK
    <3> QED
      BY <1>1, <2>4, <3>1 DEF DropNew, BeginEviction
  <2>5. ASSUME NEW u \in Subs, Subscribe(u) \/ Unsubscribe(u)
        PROVE  Bounded(s)'
    <3>1. Appending(s)' = Appending(s)
      BY <2>5 DEF Subscribe, Unsubscribe, threadVars, Appending
    <3> QED
      BY <1>1, <2>5, <3>1 DEF Subscribe, Unsubscribe
  <2>6. CASE UNCHANGED vars
    <3>1. Appending(s)' = Appending(s)
      BY <2>6 DEF vars, threadVars, Appending
    <3> QED
      BY <1>1, <2>6, <3>1 DEF vars, subVars
  <2> QED
    BY <1>2, <1>3, <1>4, <1>6, <1>7, <2>1, <2>2, <2>3, <2>4, <2>5, <2>6 DEF Next, Publish, Visit

(* With any number of threads between the test of a queue's size and the   *)
(* append, the queue exceeds its maxsize by less than their number         *)
(* (core/events.py:158-160).                                               *)
THEOREM QueueStaysBounded == Spec => []QueueBound
<1>1. Init => RoomBound
  <2> SUFFICES ASSUME Init, NEW s \in Subs
               PROVE  Len(queue[s]) + Cardinality(Appending(s)) + 1
                        <= Capacity + Cardinality(Threads)
    BY DEF RoomBound
  <2>1. Appending(s) = {} /\ queue[s] = <<>>
    BY DEF Init, Appending
  <2>2. Cardinality(Appending(s)) = 0
    BY <2>1, FS_EmptySet
  <2>3. Capacity \in Nat /\ Capacity >= 1 /\ Cardinality(Threads) \in Nat
    BY BusAssumption, FS_CardinalityType
  <2> QED
    BY <2>1, <2>2, <2>3
<1>2. TypeInv /\ RoomBound => QueueBound
  <2> SUFFICES ASSUME TypeInv, RoomBound, NEW s \in Subs
               PROVE  Len(queue[s]) + 1 <= Capacity + Cardinality(Threads)
    BY DEF QueueBound
  <2>1. Len(queue[s]) \in Nat /\ Capacity \in Nat
    BY BusAssumption DEF TypeInv, TypeOK
  <2> QED
    BY <2>1, AppendingFinite DEF RoomBound
<1> QED
  BY <1>1, <1>2, InitType, NextType, NextRoom, PTL DEF Spec
-----------------------------------------------------------------------------
(* A publish owes each of its targets an outcome: when it copies them it   *)
(* takes the debt on, a count or a drop pays it.                           *)
LEMMA OwingFinite ==
  ASSUME NEW s
  PROVE  /\ IsFiniteSet(Owing(s)) /\ Cardinality(Owing(s)) \in Nat
         /\ IsFiniteSet(Owing(s)') /\ Cardinality(Owing(s)') \in Nat
<1>1. IsFiniteSet(Owing(s)) /\ IsFiniteSet(Owing(s)')
  BY BusAssumption, FS_Subset DEF Owing
<1> QED
  BY <1>1, FS_CardinalityType

LEMMA NextLoss == TypeInv /\ TypeInv' /\ NoSilentLoss /\ [Next]_vars => NoSilentLoss'
<1> DEFINE Accounted(s) ==
      offered[s] <= delivered_count[s] + dropped_count[s] + Cardinality(Owing(s))
<1> SUFFICES ASSUME TypeInv, TypeInv', NoSilentLoss, [Next]_vars, NEW s \in Subs
             PROVE  Accounted(s)'
  BY DEF NoSilentLoss
<1>0. /\ Accounted(s)
      /\ offered[s] \in Nat /\ delivered_count[s] \in Nat /\ dropped_count[s] \in Nat
      /\ Cardinality(Owing(s)) \in Nat /\ Cardinality(Owing(s)') \in Nat
  BY OwingFinite DEF NoSilentLoss, TypeInv, TypeOK
\* A step that moves nobody in or out of the debtors.
<1>1. ASSUME Owing(s)' = Owing(s), offered'[s] = offered[s],
             delivered_count'[s] = delivered_count[s], dropped_count'[s] = dropped_count[s]
      PROVE  Accounted(s)'
  BY <1>0, <1>1
\* A thread becomes a debtor of s; at most then is an envelope offered.
<1>2. ASSUME NEW t, t \notin Owing(s), Owing(s)' = Owing(s) \union {t},
             offered'[s] \in {offered[s], offered[s] + 1},
             delivered_count'[s] = delivered_count[s], dropped_count'[s] = dropped_count[s]
      PROVE  Accounted(s)'
  <2>1. Cardinality(Owing(s)') = Cardinality(Owing(s)) + 1
    BY <1>2, OwingFinite, FS_AddElement
  <2> QED
    BY <1>0, <1>2, <2>1
\* A debtor pays: one of the counters goes up.
<1>3. ASSUME NEW t, t \notin Owing(s)', Owing(s) = Owing(s)' \union {t},
             offered'[s] = offered[s],
             \/ /\ delivered_count'[s] = delivered_count[s] + 1
                /\ dropped_count'[s] = dropped_count[s]
             \/ /\ delivered_count'[s] = delivered_count[s]
                /\ dropped_count'[s] = dropped_count[s] + 1
      PROVE  Accounted(s)'
  <2>1. Cardinality(Owing(s)) = Cardinality(Owing(s)') + 1
    BY <1>3, OwingFinite, FS_AddElement
  <2> QED
    BY <1>0, <1>3, <2>1
<1>4. ASSUME NEW t \in Threads, CopyTargets(t)
      PROVE  Accounted(s)'
  <2>0. /\ delivered_count' = delivered_count /\ dropped_count' = dropped_count
        /\ targets[t] = {}
    BY <1>4 DEF CopyTargets, subVars, TypeInv, LocalsOK, ThreadOK
  <2>1. CASE s \in Matching(envelope[t])
    <3>1. offered'[s] = offered[s] + 1
      BY <1>4, <2>1 DEF CopyTargets
    <3>2. t \notin Owing(s) /\ Owing(s)' = Owing(s) \union {t}
      BY <1>4, <2>0, <2>1 DEF CopyTargets, Goto, Owing, TypeInv, TypeOK
    <3> QED
      BY <1>2, <2>0, <3>1, <3>2
  <2>2. CASE s \notin Matching(envelope[t])
    <3>1. offered'[s] = offered[s]
      BY <1>4, <2>2 DEF CopyTargets
    <3>2. Owing(s)' = Owing(s)
      BY <1>4, <2>0, <2>2 DEF CopyTargets, Goto, Owing, TypeInv, TypeOK
    <3> QED
      BY <1>1, <2>0, <3>1, <3>2
  <2> QED
    BY <2>1, <2>2
<1>5. ASSUME NEW t \in Threads, CountDelivered(t)
      PROVE  Accounted(s)'
  <2>0. /\ current[t] \in targets[t] /\ current[t] \in Subs
        /\ offered' = offered /\ dropped_count' = dropped_count
    BY <1>5 DEF CountDelivered, history, TypeInv, TypeOK, LocalsOK, ThreadOK
  <2>1. CASE s = current[t]
    <3>1. delivered_count'[s] = delivered_count[s] + 1
      BY <1>5, <2>1 DEF CountDelivered, CountOne, TypeInv, TypeOK
    <3>2. t \notin Owing(s)' /\ Owing(s) = Owing(s)' \union {t}
      BY <1>5, <2>0, <2>1 DEF CountDelivered, Visited, Goto, Owing, TypeInv, TypeOK
    <3> QED
      BY <1>3, <2>0, <3>1, <3>2
  <2>2. CASE s # current[t]
    <3>1. delivered_count'[s] = delivered_count[s]
      BY <1>5, <2>0, <2>2 DEF CountDelivered, CountOne, TypeInv, TypeOK
    <3>2. Owing(s)' = Owing(s)
      BY <1>5, <2>2 DEF CountDelivered, Visited, Goto, Owing, TypeInv, TypeOK
    <3> QED
      BY <1>1, <2>0, <3>1, <3>2
  <2> QED
    BY <2>1, <2>2
<1>6. ASSUME NEW t \in Threads, NEW u \in Subs, DropNew(t, u) \/ BeginEviction(t, u)
      PROVE  Accounted(s)'
  <2>0. /\ offered' = offered /\ delivered_count' = delivered_count
        /\ dropped_count' = [dropped_count EXCEPT ![u] = @ + 1]
    BY <1>6 DEF DropNew, BeginEviction, CountDrop, history
  <2>1. CASE s = u
    <3>1. dropped_count'[s] = dropped_count[s] + 1
      BY <2>0, <2>1 DEF TypeInv, TypeOK
    <3>2. t \notin Owing(s)' /\ Owing(s) = Owing(s)' \union {t}
      BY <1>6, <2>1 DEF DropNew, BeginEviction, Visited, Goto, Owing, TypeInv, TypeOK
    <3> QED
      BY <1>3, <2>0, <3>1, <3>2
  <2>2. CASE s # u
    <3>1. dropped_count'[s] = dropped_count[s]
      BY <2>0, <2>2 DEF TypeInv, TypeOK
    <3>2. Owing(s)' = Owing(s)
      BY <1>6, <2>2, ZenonT(30) DEF DropNew, BeginEviction, Visited, Goto, Owing, TypeInv, TypeOK
    <3> QED
      BY <1>1, <2>0, <3>1, <3>2
  <2> QED
    BY <2>1, <2>2
<1>7. ASSUME NEW t \in Threads, PutAfterEviction(t)
      PROVE  Accounted(s)'
  <2>0. /\ UNCHANGED <<offered, delivered_count, dropped_count, current>>
        /\ pc[t] = "reput" /\ current[t] \in targets[t]
    BY <1>7 DEF PutAfterEviction, subVars, history, TypeInv, LocalsOK, ThreadOK
  <2>1. CASE s = current[t] /\ ~Full(s)
    <3>1. t \notin Owing(s) /\ Owing(s)' = Owing(s) \union {t}
      BY <1>7, <2>0, <2>1 DEF PutAfterEviction, Goto, Owing, TypeInv, TypeOK
    <3> QED
      BY <1>2, <2>0, <3>1
  <2>2. CASE ~(s = current[t] /\ ~Full(s))
    <3>1. CASE pc' = [pc EXCEPT ![t] = "append"] /\ targets' = targets /\ s # current[t]
      <4>1. Owing(s)' = Owing(s)
        BY <2>0, <3>1 DEF Owing, TypeInv, TypeOK
      <4> QED
        BY <1>1, <2>0, <4>1
    <3>2. CASE /\ pc' = [pc EXCEPT ![t] = "deliver"]
               /\ targets' = [targets EXCEPT ![t] = @ \ {current[t]}]
      <4>1. \A x \in Threads \ {t} : pc'[x] = pc[x] /\ targets'[x] = targets[x]
        BY <3>2 DEF TypeInv, TypeOK
      <4>2. pc'[t] = "deliver" /\ targets'[t] = targets[t] \ {current[t]}
        BY <3>2 DEF TypeInv, TypeOK
      <4>3. Owing(s)' = Owing(s)
        BY <2>0, <4>1, <4>2 DEF Owing
      <4> QED
        BY <1>1, <2>0, <4>3
    <3>3. \/ pc' = [pc EXCEPT ![t] = "append"] /\ targets' = targets /\ s # current[t]
          \/ /\ pc' = [pc EXCEPT ![t] = "deliver"]
             /\ targets' = [targets EXCEPT ![t] = @ \ {current[t]}]
      BY <1>7, <2>2 DEF PutAfterEviction, Visited, Goto
    <3> QED
      BY <3>1, <3>2, <3>3
  <2> QED
    BY <2>1, <2>2
<1> QED
  <2>1. ASSUME NEW t \in Threads, NEW ch \in Channels,
               NEW kind \in Kinds \union {Heartbeat}, ReadSequence(t, ch, kind)
        PROVE  Accounted(s)'
    <3>1. Owing(s)' = Owing(s)
      BY <2>1 DEF ReadSequence, Goto, Owing, TypeInv, TypeOK
    <3> QED
      BY <1>1, <2>1, <3>1 DEF ReadSequence, subVars, history
  <2>2. ASSUME NEW t \in Threads,
               StoreSequence(t) \/ StoreHeartbeat(t) \/ Return(t)
        PROVE  Accounted(s)'
    <3>1. Owing(s)' = Owing(s)
      BY <2>2 DEF StoreSequence, StoreHeartbeat, StoreNumber, Return, Goto, Owing, TypeInv, TypeOK
    <3> QED
      BY <1>1, <2>2, <3>1 DEF StoreSequence, StoreHeartbeat, Return, subVars, history
  <2>3. ASSUME NEW t \in Threads, NEW u \in Subs, FindRoom(t, u)
        PROVE  Accounted(s)'
    <3>1. Owing(s)' = Owing(s)
      BY <2>3 DEF FindRoom, Goto, Owing, TypeInv, TypeOK
    <3> QED
      BY <1>1, <2>3, <3>1 DEF FindRoom, subVars, history
  <2>4. ASSUME NEW t \in Threads, PutEnvelope(t) \/ EvictOldest(t)
        PROVE  Accounted(s)'
    <3>1. Owing(s)' = Owing(s)
      BY <2>4 DEF PutEnvelope, EvictOldest, Goto, Owing, TypeInv, TypeOK
    <3> QED
      BY <1>1, <2>4, <3>1 DEF PutEnvelope, EvictOldest, history
  <2>5. ASSUME NEW u \in Subs, Subscribe(u) \/ Unsubscribe(u) \/ Take(u)
        PROVE  Accounted(s)'
    <3>1. Owing(s)' = Owing(s)
      BY <2>5 DEF Subscribe, Unsubscribe, Take, threadVars, Owing
    <3> QED
      BY <1>1, <2>5, <3>1 DEF Subscribe, Unsubscribe, Take, history
  <2>6. CASE UNCHANGED vars
    <3>1. Owing(s)' = Owing(s)
      BY <2>6 DEF vars, threadVars, Owing
    <3> QED
      BY <1>1, <2>6, <3>1 DEF vars, subVars, history
  <2> QED
    BY <1>4, <1>5, <1>6, <1>7, <2>1, <2>2, <2>3, <2>4, <2>5, <2>6 DEF Next, Publish, Visit

(* Whatever the interleaving, an event that matched a subscription was     *)
(* counted as delivered or dropped, or its publish has still to do so: the *)
(* second put that fails loses nothing that is not counted                 *)
(* (core/events.py:154-184).                                               *)
THEOREM LossIsCounted == Spec => []NoSilentLoss
<1>1. Init => NoSilentLoss
  <2> SUFFICES ASSUME Init, NEW s \in Subs
               PROVE  offered[s] <= delivered_count[s] + dropped_count[s]
                                      + Cardinality(Owing(s))
    BY DEF NoSilentLoss
  <2>1. offered[s] = 0 /\ delivered_count[s] = 0 /\ dropped_count[s] = 0
    BY DEF Init
  <2> QED
    BY <2>1, OwingFinite
<1> QED
  BY <1>1, InitType, NextType, NextLoss, PTL DEF Spec

-----------------------------------------------------------------------------
(* In which order the events of one thread arrive.                         *)

(* What becomes of a feed, received[s] \o queue[s].                        *)

(* A put makes the feed one longer. *)
LEMMA GrownFeed ==
  ASSUME NEW S, NEW r \in Seq(S), NEW q \in Seq(S), NEW e \in S
  PROVE  /\ r \o Append(q, e) \in Seq(S)
         /\ Len(r \o Append(q, e)) = Len(r \o q) + 1
         /\ \A i \in 1 .. Len(r \o q) : (r \o Append(q, e))[i] = (r \o q)[i]
         /\ (r \o Append(q, e))[Len(r \o q) + 1] = e
<1>1. r \o Append(q, e) = Append(r \o q, e)
  <2>1. <<e>> \in Seq(S) /\ Append(q, e) = q \o <<e>>
    OBVIOUS
  <2>2. r \o q \in Seq(S)
    OBVIOUS
  <2>3. Append(r \o q, e) = (r \o q) \o <<e>>
    BY <2>2, AppendProperties
  <2> QED
    BY <2>1, <2>3, ConcatAssociative
<1>2. r \o q \in Seq(S)
  OBVIOUS
<1> QED
  BY <1>1, <1>2, AppendProperties

(* An eviction takes one element out of it. *)
LEMMA ShrunkFeed ==
  ASSUME NEW S, NEW r \in Seq(S), NEW q \in Seq(S), q # <<>>
  PROVE  /\ r \o Tail(q) \in Seq(S)
         /\ Len(r \o q) = Len(r \o Tail(q)) + 1
         /\ \A i \in 1 .. Len(r \o Tail(q)) :
              (r \o Tail(q))[i] = (r \o q)[IF i <= Len(r) THEN i ELSE i + 1]
<1>1. Tail(q) \in Seq(S) /\ Len(Tail(q)) = Len(q) - 1
      /\ \A i \in 1 .. Len(Tail(q)) : Tail(q)[i] = q[i + 1]
  BY HeadTailProperties
<1>2. /\ r \o q \in Seq(S) /\ Len(r \o q) = Len(r) + Len(q)
      /\ \A i \in 1 .. Len(r) + Len(q) :
           (r \o q)[i] = IF i <= Len(r) THEN r[i] ELSE q[i - Len(r)]
  BY ConcatProperties
<1>3. /\ r \o Tail(q) \in Seq(S) /\ Len(r \o Tail(q)) = Len(r) + Len(Tail(q))
      /\ \A i \in 1 .. Len(r) + Len(Tail(q)) :
           (r \o Tail(q))[i] = IF i <= Len(r) THEN r[i] ELSE Tail(q)[i - Len(r)]
  BY <1>1, ConcatProperties
<1>m. PICK m \in Nat : m = Len(r)
  OBVIOUS
<1>n. PICK n \in Nat : n = Len(q) - 1 /\ n + 1 = Len(q)
  BY EmptySeq
<1>4. Len(r \o q) = m + (n + 1) /\ Len(r \o Tail(q)) = m + n
  BY <1>1, <1>2, <1>3, <1>m, <1>n, Zenon
<1>5. ASSUME NEW i \in 1 .. m + n
      PROVE  (r \o Tail(q))[i] = (r \o q)[IF i <= m THEN i ELSE i + 1]
  <2>1. CASE i <= m
    <3>1. (r \o Tail(q))[i] = r[i]
      BY <1>1, <1>3, <1>m, <1>n, <2>1
    <3>2. (r \o q)[i] = r[i]
      BY <1>2, <1>m, <1>n, <2>1
    <3> QED
      BY <2>1, <3>1, <3>2
  <2>2. CASE ~(i <= m)
    <3>1. (r \o Tail(q))[i] = Tail(q)[i - m]
      BY <1>1, <1>3, <1>m, <1>n, <2>2
    <3>2. Tail(q)[i - m] = q[(i - m) + 1]
      BY <1>1, <1>n, <2>2
    <3>3. (r \o q)[i + 1] = q[(i + 1) - m]
      BY <1>2, <1>m, <1>n, <2>2
    <3>4. (i + 1) - m = (i - m) + 1
      BY <2>2
    <3> QED
      BY <2>2, <3>1, <3>2, <3>3, <3>4
  <2> QED
    BY <2>1, <2>2
<1> QED
  BY <1>3, <1>4, <1>5, <1>m

(* The pump leaves it as it is. *)
LEMMA TakenFeed ==
  ASSUME NEW S, NEW r \in Seq(S), NEW q \in Seq(S), q # <<>>
  PROVE  Append(r, Head(q)) \o Tail(q) = r \o q
<1>1. /\ Head(q) \in S /\ Tail(q) \in Seq(S) /\ <<Head(q)>> \in Seq(S)
      /\ q = <<Head(q)>> \o Tail(q)
  OBVIOUS
<1>2. Append(r, Head(q)) = r \o <<Head(q)>>
  BY <1>1, AppendProperties
<1> QED
  BY <1>1, <1>2, ConcatAssociative

LEMMA FeedType ==
  ASSUME TypeInv, NEW s \in Subs
  PROVE  /\ queue[s] \in Seq(Envelope) /\ received[s] \in Seq(Envelope)
         /\ Feed(s) \in Seq(Envelope)
         /\ Len(Feed(s)) \in Nat /\ DOMAIN Feed(s) = 1 .. Len(Feed(s))
<1>1. queue[s] \in Seq(Envelope) /\ received[s] \in Seq(Envelope)
  BY DEF TypeInv, TypeOK
<1>2. Feed(s) \in Seq(Envelope)
  BY <1>1, ConcatProperties DEF Feed
<1> QED
  BY <1>1, <1>2, LenProperties

(* PutEnvelope appends to the feed of its subscription.                     *)
LEMMA PutFeed ==
  ASSUME TypeInv, TypeInv', NEW t \in Threads, NEW s \in Subs, s = current[t], PutEnvelope(t)
  PROVE  \E n \in Nat : /\ DOMAIN Feed(s) = 1 .. n /\ DOMAIN Feed(s)' = 1 .. n + 1
                        /\ \A i \in 1 .. n : Feed(s)'[i] = Feed(s)[i]
                        /\ Feed(s)'[n + 1] = envelope[t]
<1> DEFINE F == Feed(s)
           G == Feed(s)'
<1>0. received' = received /\ queue'[s] = Append(queue[s], envelope[t])
  BY DEF PutEnvelope, history, TypeInv, TypeOK
<1>1. envelope[t] \in Envelope
  BY DEF PutEnvelope, TypeInv, LocalsOK, ThreadOK
<1>2. /\ Len(F) \in Nat /\ DOMAIN F = 1 .. Len(F)
      /\ DOMAIN G = 1 .. Len(F) + 1
      /\ \A i \in 1 .. Len(F) : G[i] = F[i]
      /\ G[Len(F) + 1] = envelope[t]
  <2>1. G = received[s] \o Append(queue[s], envelope[t])
    BY <1>0 DEF Feed
  <2>2. /\ G \in Seq(Envelope) /\ Len(G) = Len(F) + 1
        /\ \A i \in 1 .. Len(F) : G[i] = F[i]
        /\ G[Len(F) + 1] = envelope[t]
    <3>1. queue[s] \in Seq(Envelope) /\ received[s] \in Seq(Envelope)
      BY FeedType
    <3>2. \A r \in Seq(Envelope), q \in Seq(Envelope), e \in Envelope : \A f, g :
            f = r \o q /\ g = r \o Append(q, e) =>
              /\ g \in Seq(Envelope) /\ Len(g) = Len(f) + 1
              /\ \A i \in 1 .. Len(f) : g[i] = f[i]
              /\ g[Len(f) + 1] = e
      BY GrownFeed
    <3>3. F = received[s] \o queue[s]
      BY DEF Feed
    <3> HIDE DEF F, G
    <3>4. \A f, g :
            f = received[s] \o queue[s] /\ g = received[s] \o Append(queue[s], envelope[t]) =>
              /\ g \in Seq(Envelope) /\ Len(g) = Len(f) + 1
              /\ \A i \in 1 .. Len(f) : g[i] = f[i]
              /\ g[Len(f) + 1] = envelope[t]
      BY <1>1, <3>1, <3>2, Zenon
    <3> QED
      BY <2>1, <3>3, <3>4, ZenonT(30)
  <2>3. DOMAIN G = 1 .. Len(G)
    BY <2>2, LenProperties
  <2> QED
    BY <2>2, <2>3, FeedType
<1> HIDE DEF F, G
<1>3. PICK n \in Nat : n = Len(F)
  BY <1>2
<1>4. /\ DOMAIN F = 1 .. n /\ DOMAIN G = 1 .. n + 1
      /\ \A i \in 1 .. n : G[i] = F[i]
      /\ G[n + 1] = envelope[t]
  BY <1>2, <1>3
<1> QED
  BY <1>4 DEF F, G

(* EvictOldest takes an element out of it.                                  *)
LEMMA EvictFeed ==
  ASSUME TypeInv, TypeInv', NEW t \in Threads, NEW s \in Subs, s = current[t],
         queue[s] # <<>>, EvictOldest(t)
  PROVE  \E n, r \in Nat :
           /\ DOMAIN Feed(s) = 1 .. n + 1 /\ DOMAIN Feed(s)' = 1 .. n
           /\ \A i \in 1 .. n : Feed(s)'[i] = Feed(s)[IF i <= r THEN i ELSE i + 1]
<1> DEFINE F == Feed(s)
           G == Feed(s)'
<1>0. received' = received /\ queue'[s] = Tail(queue[s])
  BY DEF EvictOldest, Evictable, TypeInv, TypeOK
<1>2. /\ Len(F) \in Nat /\ DOMAIN F = 1 .. Len(F)
      /\ Len(G) \in Nat /\ DOMAIN G = 1 .. Len(G)
      /\ Len(F) = Len(G) + 1
      /\ Len(received[s]) \in Nat
      /\ \A i \in 1 .. Len(G) : G[i] = F[IF i <= Len(received[s]) THEN i ELSE i + 1]
  <2>1. G = received[s] \o Tail(queue[s])
    BY <1>0 DEF Feed
  <2>2. /\ G \in Seq(Envelope) /\ Len(F) = Len(G) + 1
        /\ \A i \in 1 .. Len(G) : G[i] = F[IF i <= Len(received[s]) THEN i ELSE i + 1]
    <3>1. queue[s] \in Seq(Envelope) /\ received[s] \in Seq(Envelope)
      BY FeedType
    <3>2. \A r \in Seq(Envelope), q \in Seq(Envelope) : q # <<>> =>
            /\ r \o Tail(q) \in Seq(Envelope)
            /\ Len(r \o q) = Len(r \o Tail(q)) + 1
            /\ \A i \in 1 .. Len(r \o Tail(q)) :
                 (r \o Tail(q))[i] = (r \o q)[IF i <= Len(r) THEN i ELSE i + 1]
      BY ShrunkFeed
    <3>3. F = received[s] \o queue[s]
      BY DEF Feed
    <3> HIDE DEF F, G
    <3> QED
      BY <2>1, <3>1, <3>2, <3>3
  <2>3. DOMAIN G = 1 .. Len(G) /\ Len(G) \in Nat
    BY <2>2, LenProperties
  <2> QED
    BY <2>2, <2>3, FeedType
<1> HIDE DEF F, G
<1>3. PICK n \in Nat : n = Len(G)
  BY <1>2
<1>4. PICK r \in Nat : r = Len(received[s])
  BY <1>2
<1>5. /\ DOMAIN F = 1 .. n + 1 /\ DOMAIN G = 1 .. n
      /\ \A i \in 1 .. n : G[i] = F[IF i <= r THEN i ELSE i + 1]
  BY <1>2, <1>3, <1>4
<1> QED
  BY <1>5 DEF F, G

-----------------------------------------------------------------------------
(* A thread will still put its envelope into the queue of s, or may.       *)
Waits(s, t) ==
  \/ pc[t] = "dispatch"
  \/ s \in targets[t] /\ ~(pc[t] = "count" /\ current[t] = s)

OwnOrder(s) ==
  \A i, j \in DOMAIN Feed(s) :
    i < j /\ Feed(s)[i].by = Feed(s)[j].by => Feed(s)[i].id < Feed(s)[j].id

FeedPublished(s) == \A i \in DOMAIN Feed(s) : Feed(s)[i].id \in 1 .. total_published

(* What a thread is about to put is younger than all it has put.           *)
OwnBehind(s) ==
  \A t \in Threads : Waits(s, t) =>
    \A i \in DOMAIN Feed(s) : Feed(s)[i].by = t => Feed(s)[i].id < envelope[t].id

FeedInv(s) == OwnOrder(s) /\ FeedPublished(s) /\ OwnBehind(s)

OrderInv == \A s \in Subs : FeedInv(s)

(* A thread that waits has an envelope with a number of its own.           *)
LEMMA WaiterHolds ==
  ASSUME TypeInv, NEW s, NEW t \in Threads, Waits(s, t)
  PROVE  envelope[t] \in Envelope /\ envelope[t].id \in 1 .. total_published
BY DEF Waits, TypeInv, TypeOK, LocalsOK, ThreadOK, PC, Busy

(* The threads that wait for s after a step waited before, with the same   *)
(* envelope, or have just numbered it.                                     *)
NoNewWaiter(s) ==
  \A t \in Threads : Waits(s, t)' =>
    \/ Waits(s, t) /\ envelope'[t] = envelope[t]
    \/ envelope'[t].id = total_published + 1

LEMMA FeedKept ==
  ASSUME TypeInv, TypeInv', NEW s \in Subs, FeedInv(s),
         Feed(s)' = Feed(s), NoNewWaiter(s),
         total_published' \in {total_published, total_published + 1}
  PROVE  FeedInv(s)'
<1>0. total_published \in Nat /\ total_published' \in Nat
  BY DEF TypeInv, TypeOK
<1>1. OwnOrder(s)'
  BY DEF FeedInv, OwnOrder
<1>2. FeedPublished(s)'
  BY <1>0 DEF FeedInv, FeedPublished
<1>3. OwnBehind(s)'
  <2> SUFFICES ASSUME NEW t \in Threads, Waits(s, t)',
                      NEW i \in DOMAIN Feed(s), Feed(s)[i].by = t
               PROVE  Feed(s)[i].id < envelope'[t].id
    BY DEF OwnBehind
  <2>1. CASE Waits(s, t) /\ envelope'[t] = envelope[t]
    BY <2>1 DEF FeedInv, OwnBehind
  <2>2. CASE envelope'[t].id = total_published + 1
    <3>1. Feed(s)[i].id \in 1 .. total_published
      BY DEF FeedInv, FeedPublished
    <3> QED
      BY <1>0, <2>2, <3>1
  <2> QED
    BY <2>1, <2>2 DEF NoNewWaiter
<1> QED
  BY <1>1, <1>2, <1>3 DEF FeedInv

(* PutEnvelope: the thread waited, so its envelope is the youngest of its  *)
(* own, and now it waits no more.                                          *)
LEMMA FeedGrows ==
  ASSUME TypeInv, TypeInv', NEW t \in Threads, NEW s \in Subs, s = current[t], FeedInv(s),
         PutEnvelope(t)
  PROVE  FeedInv(s)'
<1> DEFINE F == Feed(s)
           G == Feed(s)'
<1>0. /\ pc[t] = "append" /\ pc' = [pc EXCEPT ![t] = "count"]
      /\ UNCHANGED <<total_published, envelope, targets, current>>
  BY DEF PutEnvelope, Goto, history, TypeInv, TypeOK
<1>1. Waits(s, t) /\ envelope[t] \in Envelope /\ envelope[t].by = t
      /\ envelope[t].id \in 1 .. total_published
  BY <1>0 DEF Waits, TypeInv, TypeOK, LocalsOK, ThreadOK, Busy
<1>d. PICK n \in Nat : /\ DOMAIN F = 1 .. n /\ DOMAIN G = 1 .. n + 1
                       /\ \A i \in 1 .. n : G[i] = F[i]
                       /\ G[n + 1] = envelope[t]
  BY PutFeed
<1> HIDE DEF F, G
<1>f. /\ \A i, j \in DOMAIN F : i < j /\ F[i].by = F[j].by => F[i].id < F[j].id
      /\ \A i \in DOMAIN F : F[i].id \in 1 .. total_published
      /\ \A u \in Threads : Waits(s, u) =>
           \A i \in DOMAIN F : F[i].by = u => F[i].id < envelope[u].id
  BY DEF F, FeedInv, OwnOrder, FeedPublished, OwnBehind
<1>3. OwnOrder(s)'
  <2> SUFFICES ASSUME NEW i \in 1 .. n + 1, NEW j \in 1 .. n + 1, i < j, G[i].by = G[j].by
               PROVE  G[i].id < G[j].id
    BY <1>d DEF OwnOrder, G
  <2>1. i \in 1 .. n /\ G[i] = F[i]
    BY <1>d
  <2>2. CASE j \in 1 .. n
    BY <1>d, <1>f, <2>1, <2>2
  <2>3. CASE j = n + 1
    BY <1>1, <1>d, <1>f, <2>1, <2>3
  <2> QED
    BY <2>2, <2>3
<1>4. FeedPublished(s)'
  <2> SUFFICES ASSUME NEW i \in 1 .. n + 1
               PROVE  G[i].id \in 1 .. total_published
    BY <1>0, <1>d DEF FeedPublished, G
  <2>1. CASE i \in 1 .. n
    BY <1>d, <1>f, <2>1
  <2>2. CASE i = n + 1
    BY <1>1, <1>d, <2>2
  <2> QED
    BY <2>1, <2>2
<1>5. OwnBehind(s)'
  <2> SUFFICES ASSUME NEW u \in Threads, Waits(s, u)', NEW i \in 1 .. n + 1, G[i].by = u
               PROVE  G[i].id < envelope[u].id
    BY <1>0, <1>d DEF OwnBehind, G
  <2>1. u # t /\ Waits(s, u)
    BY <1>0 DEF Waits, TypeInv, TypeOK
  <2>2. i \in 1 .. n
    BY <1>1, <1>d, <2>1
  <2> QED
    BY <1>d, <1>f, <2>1, <2>2
<1> QED
  BY <1>3, <1>4, <1>5 DEF FeedInv

(* EvictOldest: an order survives the removal of an element.               *)
LEMMA FeedShrinks ==
  ASSUME TypeInv, TypeInv', NEW t \in Threads, NEW s \in Subs, s = current[t], FeedInv(s),
         queue[s] # <<>>, EvictOldest(t)
  PROVE  FeedInv(s)'
<1> DEFINE F == Feed(s)
           G == Feed(s)'
<1>0. /\ pc[t] = "evict" /\ pc' = [pc EXCEPT ![t] = "reput"]
      /\ UNCHANGED <<total_published, envelope, targets, current>>
  BY DEF EvictOldest, Evictable, Goto, TypeInv, TypeOK
<1>1. \A u \in Threads : Waits(s, u)' => Waits(s, u)
  BY <1>0 DEF Waits, TypeInv, TypeOK
<1>e. PICK n \in Nat, r \in Nat :
             /\ DOMAIN F = 1 .. n + 1 /\ DOMAIN G = 1 .. n
             /\ \A i \in 1 .. n : G[i] = F[IF i <= r THEN i ELSE i + 1]
  BY EvictFeed
<1> HIDE DEF F, G
<1>f. /\ \A i, j \in DOMAIN F : i < j /\ F[i].by = F[j].by => F[i].id < F[j].id
      /\ \A i \in DOMAIN F : F[i].id \in 1 .. total_published
      /\ \A u \in Threads : Waits(s, u) =>
           \A i \in DOMAIN F : F[i].by = u => F[i].id < envelope[u].id
  BY DEF F, FeedInv, OwnOrder, FeedPublished, OwnBehind
<1> DEFINE m(i) == IF i <= r THEN i ELSE i + 1
<1>d. /\ DOMAIN F = 1 .. n + 1 /\ DOMAIN G = 1 .. n
      /\ \A i \in 1 .. n : m(i) \in 1 .. n + 1 /\ G[i] = F[m(i)]
  BY <1>e
<1>m. \A i, j \in 1 .. n : i < j => m(i) < m(j)
  OBVIOUS
<1> HIDE DEF m
<1>3. OwnOrder(s)'
  <2> SUFFICES ASSUME NEW i \in 1 .. n, NEW j \in 1 .. n, i < j, G[i].by = G[j].by
               PROVE  G[i].id < G[j].id
    BY <1>d DEF OwnOrder, G
  <2> QED
    BY <1>d, <1>f, <1>m, ZenonT(30)
<1>4. FeedPublished(s)'
  <2> SUFFICES ASSUME NEW i \in 1 .. n
               PROVE  G[i].id \in 1 .. total_published
    BY <1>0, <1>d DEF FeedPublished, G
  <2> QED
    BY <1>d, <1>f
<1>5. OwnBehind(s)'
  <2> SUFFICES ASSUME NEW u \in Threads, Waits(s, u)', NEW i \in 1 .. n, G[i].by = u
               PROVE  G[i].id < envelope[u].id
    BY <1>0, <1>d DEF OwnBehind, G
  <2> QED
    BY <1>1, <1>d, <1>f
<1> QED
  BY <1>3, <1>4, <1>5 DEF FeedInv

LEMMA NextOrder == TypeInv /\ TypeInv' /\ OrderInv /\ [Next]_vars => OrderInv'
<1> SUFFICES ASSUME TypeInv, TypeInv', OrderInv, [Next]_vars, NEW s \in Subs
             PROVE  FeedInv(s)'
  BY DEF OrderInv
<1>0. FeedInv(s) /\ total_published \in Nat
  BY DEF OrderInv, TypeInv, TypeOK
<1>1. ASSUME NEW t \in Threads, NEW ch \in Channels,
             NEW kind \in Kinds \union {Heartbeat}, ReadSequence(t, ch, kind)
      PROVE  FeedInv(s)'
  <2>1. Feed(s)' = Feed(s) /\ total_published' = total_published
    BY <1>1 DEF ReadSequence, subVars, history, Feed
  <2>2. targets[t] = {} /\ pc' = [pc EXCEPT ![t] = "store"] /\ targets' = targets
        /\ current' = current /\ \A u \in Threads \ {t} : envelope'[u] = envelope[u]
    BY <1>1 DEF ReadSequence, Goto, TypeInv, TypeOK, LocalsOK, ThreadOK
  <2>3. NoNewWaiter(s)
    BY <2>2 DEF NoNewWaiter, Waits, TypeInv, TypeOK
  <2> QED
    BY <1>0, <2>1, <2>3, FeedKept
<1>2. ASSUME NEW t \in Threads, StoreSequence(t)
      PROVE  FeedInv(s)'
  <2>1. Feed(s)' = Feed(s) /\ total_published' = total_published + 1
    BY <1>2 DEF StoreSequence, subVars, history, Feed
  <2>2. /\ pc' = [pc EXCEPT ![t] = "dispatch"] /\ targets' = targets /\ current' = current
        /\ envelope' = [envelope EXCEPT ![t] = Stamped(envelope[t], total_published + 1)]
    BY <1>2 DEF StoreSequence, Goto
  <2>3. envelope'[t].id = total_published + 1
    BY <2>2 DEF Stamped, TypeInv, TypeOK
  <2>4. \A u \in Threads \ {t} : envelope'[u] = envelope[u] /\ pc'[u] = pc[u]
    BY <2>2 DEF TypeInv, TypeOK
  <2>5. NoNewWaiter(s)
    BY <2>2, <2>3, <2>4 DEF NoNewWaiter, Waits
  <2> QED
    BY <1>0, <2>1, <2>5, FeedKept
<1>3. ASSUME NEW t \in Threads, PutEnvelope(t)
      PROVE  FeedInv(s)'
  <2>0. current[t] \in Subs
    BY <1>3 DEF PutEnvelope, TypeInv, TypeOK, LocalsOK, ThreadOK
  <2>1. CASE s = current[t]
    BY <1>0, <1>3, <2>1, FeedGrows
  <2>2. CASE s # current[t]
    <3>1. Feed(s)' = Feed(s) /\ total_published' = total_published
      BY <1>3, <2>0, <2>2 DEF PutEnvelope, history, Feed, TypeInv, TypeOK
    <3>2. NoNewWaiter(s)
      BY <1>3, <2>2 DEF PutEnvelope, Goto, NoNewWaiter, Waits, TypeInv, TypeOK
    <3> QED
      BY <1>0, <3>1, <3>2, FeedKept
  <2> QED
    BY <2>1, <2>2
<1>4. ASSUME NEW t \in Threads, EvictOldest(t)
      PROVE  FeedInv(s)'
  <2>1. CASE s = current[t] /\ queue[s] # <<>>
    BY <1>0, <1>4, <2>1, FeedShrinks
  <2>2. CASE ~(s = current[t] /\ queue[s] # <<>>)
    <3>1. Feed(s)' = Feed(s) /\ total_published' = total_published
      BY <1>4, <2>2 DEF EvictOldest, Evictable, Feed, TypeInv, TypeOK
    <3>2. /\ pc[t] = "evict" /\ pc' = [pc EXCEPT ![t] = "reput"]
          /\ UNCHANGED <<envelope, targets, current>>
      BY <1>4 DEF EvictOldest, Goto
    <3>3. NoNewWaiter(s)
      BY <3>2 DEF NoNewWaiter, Waits, TypeInv, TypeOK
    <3> QED
      BY <1>0, <3>1, <3>3, FeedKept
  <2> QED
    BY <2>1, <2>2
<1>5. ASSUME NEW u \in Subs, Take(u)
      PROVE  FeedInv(s)'
  <2>1. Feed(s)' = Feed(s)
    <3>1. CASE s = u
      <4>1. /\ queue[s] # <<>> /\ queue'[s] = Tail(queue[s])
            /\ received'[s] = Append(received[s], Head(queue[s]))
        BY <1>5, <3>1 DEF Take, Ready, TypeInv, TypeOK
      <4> QED
        BY <4>1, FeedType, TakenFeed DEF Feed
    <3>2. CASE s # u
      BY <1>5, <3>2 DEF Take, Ready, Feed, TypeInv, TypeOK
    <3> QED
      BY <3>1, <3>2
  <2>2. NoNewWaiter(s) /\ total_published' = total_published
    BY <1>5 DEF Take, threadVars, NoNewWaiter, Waits
  <2> QED
    BY <1>0, <2>1, <2>2, FeedKept
\* The other steps touch neither a queue nor an envelope.
<1>6. ASSUME Feed(s)' = Feed(s), total_published' = total_published, envelope' = envelope,
             \A t \in Threads : Waits(s, t)' => Waits(s, t)
      PROVE  FeedInv(s)'
  BY <1>0, <1>6, FeedKept DEF NoNewWaiter
<1>7. ASSUME NEW t \in Threads, StoreHeartbeat(t) \/ CopyTargets(t) \/ Return(t)
      PROVE  FeedInv(s)'
  <2>1. \A x \in Threads : Waits(s, x)' => Waits(s, x)
    BY <1>7 DEF StoreHeartbeat, StoreNumber, CopyTargets, Return, Goto, Waits, TypeInv, TypeOK
  <2> QED
    BY <1>6, <1>7, <2>1 DEF StoreHeartbeat, CopyTargets, Return, subVars, history, Feed
<1>8. ASSUME NEW t \in Threads, NEW u \in Subs,
             FindRoom(t, u) \/ DropNew(t, u) \/ BeginEviction(t, u)
      PROVE  FeedInv(s)'
  <2>1. \A x \in Threads : Waits(s, x)' => Waits(s, x)
    BY <1>8 DEF FindRoom, DropNew, BeginEviction, Visited, Goto, Waits, TypeInv, TypeOK
  <2> QED
    BY <1>6, <1>8, <2>1 DEF FindRoom, DropNew, BeginEviction, subVars, history, Feed
<1>9. ASSUME NEW t \in Threads, CountDelivered(t)
      PROVE  FeedInv(s)'
  <2>1. \A x \in Threads : Waits(s, x)' => Waits(s, x)
    BY <1>9 DEF CountDelivered, Visited, Goto, Waits, TypeInv, TypeOK
  <2> QED
    BY <1>6, <1>9, <2>1 DEF CountDelivered, history, Feed
<1>10. ASSUME NEW t \in Threads, PutAfterEviction(t)
       PROVE  FeedInv(s)'
  <2>0. pc[t] = "reput" /\ current' = current
    BY <1>10 DEF PutAfterEviction
  <2>1. \A x \in Threads \ {t} : pc'[x] = pc[x] /\ targets'[x] = targets[x]
    BY <1>10 DEF PutAfterEviction, Visited, Goto, TypeInv, TypeOK
  <2>2. targets'[t] \subseteq targets[t] /\ pc'[t] \in {"append", "deliver"}
    BY <1>10, SMTT(30) DEF PutAfterEviction, Visited, Goto, TypeInv, TypeOK
  <2>3. \A x \in Threads : Waits(s, x)' => Waits(s, x)
    BY <2>0, <2>1, <2>2 DEF Waits
  <2> QED
    BY <1>6, <1>10, <2>3 DEF PutAfterEviction, subVars, history, Feed
<1>11. ASSUME NEW u \in Subs, Subscribe(u) \/ Unsubscribe(u)
       PROVE  FeedInv(s)'
  <2>1. \A x \in Threads : Waits(s, x)' => Waits(s, x)
    BY <1>11 DEF Subscribe, Unsubscribe, threadVars, Waits
  <2> QED
    BY <1>6, <1>11, <2>1 DEF Subscribe, Unsubscribe, threadVars, history, Feed
<1>12. CASE UNCHANGED vars
  <2>1. \A x \in Threads : Waits(s, x)' => Waits(s, x)
    BY <1>12 DEF vars, threadVars, Waits
  <2> QED
    BY <1>6, <1>12, <2>1 DEF vars, subVars, threadVars, history, Feed
<1> QED
  BY <1>1, <1>2, <1>3, <1>4, <1>5, <1>7, <1>8, <1>9, <1>10, <1>11, <1>12 DEF Next, Publish, Visit

(* Whoever else publishes, evicts or drops, the events of one thread reach *)
(* a subscriber in the order in which it published them, none twice        *)
(* (core/events.py:154-184).                                               *)
THEOREM ThreadsKeepOrder == Spec => []ThreadFifo
<1>1. Init => OrderInv
  <2> SUFFICES ASSUME Init, NEW s \in Subs
               PROVE  FeedInv(s)
    BY DEF OrderInv
  <2>1. Feed(s) = <<>> /\ \A t \in Threads : ~Waits(s, t)
    BY DEF Init, Feed, Waits
  <2> QED
    BY <2>1 DEF FeedInv, OwnOrder, FeedPublished, OwnBehind
<1>2. OrderInv => ThreadFifo
  BY DEF OrderInv, FeedInv, OwnOrder, ThreadFifo
<1> QED
  BY <1>1, <1>2, InitType, NextType, NextOrder, PTL DEF Spec

-----------------------------------------------------------------------------
(* Only the event loop publishes. *)

OnlyLoop == Threads = {Loop}

-----------------------------------------------------------------------------
(* Nobody takes the room of an eviction. *)

RoomMade ==
  /\ pc[Loop] = "evict" => Full(current[Loop])
  /\ pc[Loop] = "reput" => ~Full(current[Loop])

LEMMA NextRoomMade ==
  ASSUME OnlyLoop
  PROVE  TypeInv /\ TypeInv' /\ QueueBound /\ RoomMade /\ [Next]_vars => RoomMade'
<1> SUFFICES ASSUME TypeInv, TypeInv', QueueBound, RoomMade, [Next]_vars
             PROVE  RoomMade'
  OBVIOUS
<1> USE DEF OnlyLoop
<1>1. ASSUME NEW s \in Subs, BeginEviction(Loop, s)
      PROVE  RoomMade'
  <2>1. /\ pc'[Loop] = "evict" /\ current'[Loop] = s /\ queue' = queue /\ Full(s)
    BY <1>1 DEF BeginEviction, Goto, TypeInv, TypeOK
  <2> QED
    BY <2>1 DEF RoomMade, Full
<1>2. ASSUME EvictOldest(Loop)
      PROVE  RoomMade'
  <2>1. /\ pc[Loop] = "evict" /\ pc'[Loop] = "reput" /\ current'[Loop] = current[Loop]
        /\ current[Loop] \in Subs
    BY <1>2 DEF EvictOldest, Goto, TypeInv, TypeOK, LocalsOK, ThreadOK
  <2> DEFINE q == queue[current[Loop]]
  <2>2. q \in Seq(Envelope) /\ Len(q) \in Nat /\ Capacity \in Nat /\ Capacity >= 1
    BY <2>1, BusAssumption DEF TypeInv, TypeOK
  <2>3. Len(q) + 1 <= Capacity + 1 /\ Len(q) >= Capacity
    BY <2>1, FS_Singleton DEF RoomMade, Full, QueueBound
  <2>4. q # <<>>
    BY <2>2, <2>3, EmptySeq
  <2>5. queue'[current[Loop]] = Tail(q)
    BY <1>2, <2>1, <2>4 DEF EvictOldest, Evictable, TypeInv, TypeOK
  <2>6. Len(Tail(q)) = Len(q) - 1
    BY <2>2, <2>4, HeadTailProperties
  <2>7. ~(Len(Tail(q)) >= Capacity)
    BY <2>2, <2>3, <2>6
  <2> QED
    BY <2>1, <2>5, <2>7 DEF RoomMade, Full
<1>3. ASSUME pc'[Loop] \notin {"evict", "reput"}
      PROVE  RoomMade'
  BY <1>3 DEF RoomMade
<1>4. CASE UNCHANGED vars
  BY <1>4 DEF vars, subVars, threadVars, RoomMade, Full
<1>5. ASSUME NEW ch \in Channels, NEW kind \in Kinds \union {Heartbeat},
             ReadSequence(Loop, ch, kind)
      PROVE  RoomMade'
  BY <1>3, <1>5 DEF ReadSequence, Goto, TypeInv, TypeOK
<1>6. ASSUME StoreSequence(Loop) \/ StoreHeartbeat(Loop) \/ CopyTargets(Loop) \/ Return(Loop)
      PROVE  RoomMade'
  BY <1>3, <1>6 DEF StoreSequence, StoreHeartbeat, StoreNumber, CopyTargets, Return, Goto,
                    TypeInv, TypeOK
<1>7. ASSUME NEW s \in Subs, FindRoom(Loop, s) \/ DropNew(Loop, s)
      PROVE  RoomMade'
  BY <1>3, <1>7 DEF FindRoom, DropNew, Goto, TypeInv, TypeOK
<1>8. ASSUME PutEnvelope(Loop) \/ CountDelivered(Loop) \/ PutAfterEviction(Loop)
      PROVE  RoomMade'
  BY <1>3, <1>8 DEF PutEnvelope, CountDelivered, PutAfterEviction, Goto, TypeInv, TypeOK
<1>9. ASSUME NEW s \in Subs, Subscribe(s) \/ Unsubscribe(s) \/ Take(s)
      PROVE  RoomMade'
  BY <1>3, <1>9 DEF Subscribe, Unsubscribe, Take, LoopFree, threadVars
<1> QED
  BY <1>1, <1>2, <1>4, <1>5, <1>6, <1>7, <1>8, <1>9 DEF Next, Publish, Visit

-----------------------------------------------------------------------------
(* The drop count, and what the loop still owes.  A critical event that    *)
(* evicts is counted at once and owed again when its victim is gone.       *)

Owed(s) ==
  IF s \in targets[Loop] /\ ~(current[Loop] = s /\ pc[Loop] \in {"count", "evict"})
  THEN 1 ELSE 0

DropBalance ==
  \A s \in Subs :
    offered[s] = Len(received[s]) + Len(queue[s]) + dropped_count[s] + Owed(s)

LEMMA NextBalance ==
  ASSUME OnlyLoop
  PROVE  TypeInv /\ TypeInv' /\ RoomMade /\ DropBalance /\ [Next]_vars => DropBalance'
<1> DEFINE Balanced(s) ==
      offered[s] = Len(received[s]) + Len(queue[s]) + dropped_count[s] + Owed(s)
<1> SUFFICES ASSUME TypeInv, TypeInv', RoomMade, DropBalance, [Next]_vars, NEW s \in Subs
             PROVE  Balanced(s)'
  BY DEF DropBalance
<1> USE DEF OnlyLoop
<1>0. /\ Balanced(s) /\ Owed(s) \in 0 .. 1 /\ Owed(s)' \in 0 .. 1
      /\ queue[s] \in Seq(Envelope) /\ received[s] \in Seq(Envelope)
      /\ Len(queue[s]) \in Nat /\ Len(received[s]) \in Nat
      /\ offered[s] \in Nat /\ dropped_count[s] \in Nat
  <2>1. Owed(s) \in 0 .. 1 /\ Owed(s)' \in 0 .. 1
    BY DEF Owed
  <2>2. /\ queue[s] \in Seq(Envelope) /\ received[s] \in Seq(Envelope)
        /\ offered[s] \in Nat /\ dropped_count[s] \in Nat
    BY DEF TypeInv, TypeOK
  <2>3. Len(queue[s]) \in Nat /\ Len(received[s]) \in Nat
    BY <2>2, LenProperties
  <2>4. Balanced(s)
    BY Zenon DEF DropBalance
  <2> QED
    BY <2>1, <2>2, <2>3, <2>4, Zenon
\* Names for the terms of the balance: the solver does not add lengths.
<1>o. PICK o \in Nat : o = offered[s]
  BY <1>0
<1>r. PICK r \in Nat : r = Len(received[s])
  BY <1>0
<1>q. PICK q \in Nat : q = Len(queue[s])
  BY <1>0
<1>d. PICK d \in Nat : d = dropped_count[s]
  BY <1>0
<1>w. PICK w \in 0 .. 1 : w = Owed(s)
  BY <1>0
<1>B. o = r + q + d + w
  BY <1>0, <1>o, <1>r, <1>q, <1>d, <1>w
<1>1. ASSUME Owed(s)' = Owed(s), offered'[s] = offered[s], dropped_count'[s] = dropped_count[s],
             received'[s] = received[s], queue'[s] = queue[s]
      PROVE  Balanced(s)'
  BY <1>0, <1>1
<1>2. CASE CopyTargets(Loop)
  <2>0. received' = received /\ queue' = queue /\ dropped_count' = dropped_count
        /\ targets[Loop] = {} /\ Owed(s) = 0
    BY <1>2 DEF CopyTargets, subVars, Owed, TypeInv, LocalsOK, ThreadOK
  <2>1. CASE s \in Matching(envelope[Loop])
    <3>1. offered'[s] = offered[s] + 1
      BY <1>2, <2>1 DEF CopyTargets
    <3>2. Owed(s)' = 1
      BY <1>2, <2>1 DEF CopyTargets, Goto, Owed, TypeInv, TypeOK
    <3>3. w = 0
      BY <1>w, <2>0
    <3>4. o + 1 = r + q + d + 1
      BY <1>B, <3>3
    <3> QED
      BY <1>o, <1>r, <1>q, <1>d, <2>0, <3>1, <3>2, <3>4, Zenon
  <2>2. CASE s \notin Matching(envelope[Loop])
    <3>1. offered'[s] = offered[s]
      BY <1>2, <2>2 DEF CopyTargets
    <3>2. Owed(s)' = 0
      BY <1>2, <2>2 DEF CopyTargets, Goto, Owed, TypeInv, TypeOK
    <3> QED
      BY <1>1, <2>0, <3>1, <3>2
  <2> QED
    BY <2>1, <2>2
<1>3. CASE PutEnvelope(Loop)
  <2>0. /\ current[Loop] \in Subs /\ current[Loop] \in targets[Loop]
        /\ envelope[Loop] \in Envelope
        /\ UNCHANGED <<received, dropped_count, offered>>
    BY <1>3 DEF PutEnvelope, history, TypeInv, TypeOK, LocalsOK, ThreadOK
  <2>1. CASE s = current[Loop]
    <3>1. queue'[s] = Append(queue[s], envelope[Loop])
      BY <1>3, <2>1 DEF PutEnvelope, TypeInv, TypeOK
    <3>2. Len(queue'[s]) = Len(queue[s]) + 1
      BY <1>0, <2>0, <3>1
    <3>3. Owed(s) = 1 /\ Owed(s)' = 0
      BY <1>3, <2>0, <2>1 DEF PutEnvelope, Goto, Owed, TypeInv, TypeOK
    <3>4. w = 1
      BY <1>w, <3>3
    <3>5. o = r + (q + 1) + d + 0
      BY <1>B, <3>4
    <3> QED
      BY <1>o, <1>r, <1>q, <1>d, <2>0, <3>2, <3>3, <3>5, Zenon
  <2>2. CASE s # current[Loop]
    <3>1. queue'[s] = queue[s]
      BY <1>3, <2>0, <2>2 DEF PutEnvelope, TypeInv, TypeOK
    <3>2. Owed(s)' = Owed(s)
      BY <1>3, <2>2 DEF PutEnvelope, Goto, Owed, TypeInv, TypeOK
    <3> QED
      BY <1>1, <2>0, <3>1, <3>2
  <2> QED
    BY <2>1, <2>2
<1>4. ASSUME NEW u \in Subs, DropNew(Loop, u) \/ BeginEviction(Loop, u)
      PROVE  Balanced(s)'
  <2>0. /\ UNCHANGED <<received, queue, offered>>
        /\ dropped_count' = [dropped_count EXCEPT ![u] = @ + 1]
        /\ pc[Loop] = "deliver" /\ u \in targets[Loop]
    BY <1>4 DEF DropNew, BeginEviction, CountDrop, history
  <2>1. CASE s = u
    <3>1. dropped_count'[s] = dropped_count[s] + 1
      BY <2>0, <2>1 DEF TypeInv, TypeOK
    <3>2. Owed(s) = 1
      BY <2>0, <2>1 DEF Owed
    <3>3. Owed(s)' = 0
      BY <1>4, <2>1 DEF DropNew, BeginEviction, Visited, Goto, Owed, TypeInv, TypeOK
    <3>4. w = 1
      BY <1>w, <3>2
    <3>5. o = r + q + (d + 1) + 0
      BY <1>B, <3>4
    <3> QED
      BY <1>o, <1>r, <1>q, <1>d, <2>0, <3>1, <3>3, <3>5, Zenon
  <2>2. CASE s # u
    <3>1. dropped_count'[s] = dropped_count[s]
      BY <2>0, <2>2 DEF TypeInv, TypeOK
    <3>2. Owed(s)' = Owed(s)
      BY <1>4, <2>0, <2>2 DEF DropNew, BeginEviction, Visited, Goto, Owed, TypeInv, TypeOK
    <3> QED
      BY <1>1, <2>0, <3>1, <3>2
  <2> QED
    BY <2>1, <2>2
<1>5. CASE EvictOldest(Loop)
  <2>0. /\ current[Loop] \in Subs /\ current[Loop] \in targets[Loop] /\ pc[Loop] = "evict"
        /\ pc'[Loop] = "reput"
        /\ UNCHANGED <<received, dropped_count, offered, targets, current>>
    BY <1>5 DEF EvictOldest, Goto, TypeInv, TypeOK, LocalsOK, ThreadOK
  <2>1. CASE s = current[Loop]
    <3>1. queue[s] # <<>>
      BY <2>0, <2>1, BusAssumption, EmptySeq DEF RoomMade, Full
    <3>2. queue'[s] = Tail(queue[s])
      BY <1>5, <2>1, <3>1 DEF EvictOldest, Evictable, TypeInv, TypeOK
    <3>3. Len(queue[s]) = Len(queue'[s]) + 1 /\ Len(queue'[s]) \in Nat
      BY <1>0, <3>1, <3>2
    <3>4. PICK k \in Nat : k = Len(queue'[s])
      BY <3>3
    <3>5. q = k + 1
      BY <1>q, <3>3, <3>4, Zenon
    <3>6. Owed(s) = 0 /\ Owed(s)' = 1
      BY <2>0, <2>1 DEF Owed
    <3>7. w = 0
      BY <1>w, <3>6
    <3>8. o = r + k + d + 1
      BY <1>B, <3>5, <3>7
    <3> QED
      BY <1>o, <1>r, <1>d, <2>0, <3>4, <3>6, <3>8, Zenon
  <2>2. CASE s # current[Loop]
    <3>1. queue'[s] = queue[s]
      BY <1>5, <2>2 DEF EvictOldest, Evictable, TypeInv, TypeOK
    <3>2. Owed(s)' = Owed(s)
      BY <2>0, <2>2 DEF Owed
    <3> QED
      BY <1>1, <2>0, <3>1, <3>2
  <2> QED
    BY <2>1, <2>2
<1>6. ASSUME NEW u \in Subs, Take(u)
      PROVE  Balanced(s)'
  <2>0. Owed(s)' = Owed(s) /\ dropped_count' = dropped_count /\ offered' = offered
    BY <1>6 DEF Take, threadVars, Owed
  <2>1. CASE s = u
    <3>1. /\ queue[s] # <<>>
          /\ queue'[s] = Tail(queue[s])
          /\ received'[s] = Append(received[s], Head(queue[s]))
      BY <1>6, <2>1 DEF Take, Ready, TypeInv, TypeOK
    <3>2. Head(queue[s]) \in Envelope
      BY <1>0, <3>1
    <3>3. /\ Len(queue[s]) = Len(queue'[s]) + 1 /\ Len(queue'[s]) \in Nat
          /\ Len(received'[s]) = Len(received[s]) + 1
      BY <1>0, <3>1, <3>2
    <3>4. PICK k \in Nat : k = Len(queue'[s])
      BY <3>3
    <3>5. q = k + 1
      BY <1>q, <3>3, <3>4, Zenon
    <3>6. o = (r + 1) + k + d + w
      BY <1>B, <3>5
    <3> QED
      BY <1>o, <1>r, <1>d, <1>w, <2>0, <3>3, <3>4, <3>6, Zenon
  <2>2. CASE s # u
    <3>1. queue'[s] = queue[s] /\ received'[s] = received[s]
      BY <1>6, <2>2 DEF Take, Ready, TypeInv, TypeOK
    <3> QED
      BY <1>1, <2>0, <3>1
  <2> QED
    BY <2>1, <2>2
<1>7. CASE CountDelivered(Loop)
  <2>1. Owed(s)' = Owed(s)
    BY <1>7 DEF CountDelivered, Visited, Goto, Owed, TypeInv, TypeOK
  <2> QED
    BY <1>1, <1>7, <2>1 DEF CountDelivered, history
<1>8. CASE PutAfterEviction(Loop)
  <2>1. ~Full(current[Loop]) /\ pc[Loop] = "reput"
    BY <1>8 DEF PutAfterEviction, RoomMade
  <2>2. pc'[Loop] = "append" /\ UNCHANGED <<targets, current>>
    BY <1>8, <2>1 DEF PutAfterEviction, Goto, TypeInv, TypeOK
  <2>3. Owed(s)' = Owed(s)
    BY <2>1, <2>2 DEF Owed
  <2> QED
    BY <1>1, <1>8, <2>3 DEF PutAfterEviction, subVars, history
<1>9. ASSUME NEW u \in Subs, FindRoom(Loop, u)
      PROVE  Balanced(s)'
  <2>1. Owed(s)' = Owed(s)
    BY <1>9 DEF FindRoom, Goto, Owed, TypeInv, TypeOK
  <2> QED
    BY <1>1, <1>9, <2>1 DEF FindRoom, subVars, history
<1>10. ASSUME NEW ch \in Channels, NEW kind \in Kinds \union {Heartbeat},
              ReadSequence(Loop, ch, kind)
       PROVE  Balanced(s)'
  <2>1. Owed(s)' = Owed(s)
    BY <1>10 DEF ReadSequence, Goto, Owed, TypeInv, TypeOK
  <2> QED
    BY <1>1, <1>10, <2>1 DEF ReadSequence, subVars, history
<1>11. CASE StoreSequence(Loop) \/ StoreHeartbeat(Loop) \/ Return(Loop)
  <2>1. Owed(s)' = Owed(s)
    BY <1>11 DEF StoreSequence, StoreHeartbeat, StoreNumber, Return, Goto, Owed, TypeInv, TypeOK
  <2> QED
    BY <1>1, <1>11, <2>1 DEF StoreSequence, StoreHeartbeat, Return, subVars, history
<1>12. ASSUME NEW u \in Subs, Subscribe(u) \/ Unsubscribe(u)
       PROVE  Balanced(s)'
  <2>1. Owed(s)' = Owed(s)
    BY <1>12 DEF Subscribe, Unsubscribe, threadVars, Owed
  <2> QED
    BY <1>1, <1>12, <2>1 DEF Subscribe, Unsubscribe, history
<1>13. CASE UNCHANGED vars
  <2>1. Owed(s)' = Owed(s)
    BY <1>13 DEF vars, threadVars, Owed
  <2> QED
    BY <1>1, <1>13, <2>1 DEF vars, subVars, history
<1> QED
  BY <1>2, <1>3, <1>4, <1>5, <1>6, <1>7, <1>8, <1>9, <1>10, <1>11, <1>12, <1>13
  DEF Next, Publish, Visit

-----------------------------------------------------------------------------
(* Numbers.  The loop stores the number it has read before anybody else    *)
(* reads, so an envelope it will put is above all of its channel.          *)

NumberOK ==
  pc[Loop] = "store" => envelope[Loop].sequence = sequences[envelope[Loop].channel] + 1

FeedNumbered(s) ==
  \A i \in DOMAIN Feed(s) : Feed(s)[i].sequence <= sequences[Feed(s)[i].channel]

NumberAhead(s) ==
  Waits(s, Loop) =>
    /\ envelope[Loop].sequence <= sequences[envelope[Loop].channel]
    /\ \A i \in DOMAIN Feed(s) : Feed(s)[i].channel = envelope[Loop].channel
         => Feed(s)[i].sequence < envelope[Loop].sequence

NumberOrder(s) ==
  \A i, j \in DOMAIN Feed(s) :
    i < j /\ Feed(s)[i].channel = Feed(s)[j].channel
      => Feed(s)[i].sequence < Feed(s)[j].sequence

FeedNumbers(s) == NumberOrder(s) /\ FeedNumbered(s) /\ NumberAhead(s)

NumberInv == NumberOK /\ \A s \in Subs : FeedNumbers(s)

LEMMA NextNumberOK ==
  ASSUME OnlyLoop
  PROVE  TypeInv /\ TypeInv' /\ NumberOK /\ [Next]_vars => NumberOK'
<1> SUFFICES ASSUME TypeInv, TypeInv', NumberOK, [Next]_vars
             PROVE  NumberOK'
  OBVIOUS
<1> USE DEF OnlyLoop
<1>1. ASSUME NEW ch \in Channels, NEW kind \in Kinds \union {Heartbeat},
             ReadSequence(Loop, ch, kind)
      PROVE  NumberOK'
  BY <1>1, BusAssumption DEF ReadSequence, NumberOK, TypeInv, TypeOK
<1>2. ASSUME pc'[Loop] # "store"
      PROVE  NumberOK'
  BY <1>2 DEF NumberOK
<1>3. ASSUME StoreSequence(Loop) \/ StoreHeartbeat(Loop) \/ CopyTargets(Loop) \/ Return(Loop)
      PROVE  NumberOK'
  BY <1>2, <1>3, BusAssumption
  DEF StoreSequence, StoreHeartbeat, StoreNumber, CopyTargets, Return, Goto, TypeInv, TypeOK
<1>4. ASSUME NEW s \in Subs, FindRoom(Loop, s) \/ DropNew(Loop, s) \/ BeginEviction(Loop, s)
      PROVE  NumberOK'
  BY <1>2, <1>4, BusAssumption DEF FindRoom, DropNew, BeginEviction, Goto, TypeInv, TypeOK
<1>5. ASSUME PutEnvelope(Loop) \/ CountDelivered(Loop) \/ PutAfterEviction(Loop)
      PROVE  NumberOK'
  BY <1>2, <1>5, BusAssumption DEF PutEnvelope, CountDelivered, PutAfterEviction, Goto, TypeInv, TypeOK
<1>6. CASE EvictOldest(Loop)
  BY <1>2, <1>6, BusAssumption DEF EvictOldest, Goto, TypeInv, TypeOK
<1>7. ASSUME NEW s \in Subs, Subscribe(s) \/ Unsubscribe(s) \/ Take(s)
      PROVE  NumberOK'
  BY <1>2, <1>7 DEF Subscribe, Unsubscribe, Take, LoopFree, threadVars
<1>8. CASE UNCHANGED vars
  BY <1>8 DEF vars, threadVars, NumberOK
<1> QED
  BY <1>1, <1>3, <1>4, <1>5, <1>6, <1>7, <1>8 DEF Next, Publish, Visit

(* A step that leaves the feed and the numbers alone; who waits has waited *)
(* with the same envelope.                                                 *)
LEMMA NumbersKept ==
  ASSUME NEW s \in Subs, FeedNumbers(s), Feed(s)' = Feed(s), sequences' = sequences,
         Waits(s, Loop)' => Waits(s, Loop) /\ envelope'[Loop] = envelope[Loop]
  PROVE  FeedNumbers(s)'
BY DEF FeedNumbers, NumberOrder, FeedNumbered, NumberAhead

(* A number is stored: it is one more than any of its channel's, and all   *)
(* that the loop has put is below.                                         *)
LEMMA NumberStored ==
  ASSUME TypeInv, TypeInv', NumberOK, NEW s \in Subs, FeedNumbers(s), StoreNumber(Loop),
         Feed(s)' = Feed(s),
         /\ envelope'[Loop].channel = envelope[Loop].channel
         /\ envelope'[Loop].sequence = envelope[Loop].sequence
  PROVE  FeedNumbers(s)'
<1> DEFINE c == envelope[Loop].channel
           F == Feed(s)
<1>1. /\ envelope[Loop].sequence = sequences[c] + 1
      /\ c \in Channels
      /\ sequences' = [sequences EXCEPT ![c] = sequences[c] + 1]
      /\ sequences \in [Channels -> Nat]
  BY BusAssumption DEF StoreNumber, NumberOK, TypeInv, TypeOK, LocalsOK, ThreadOK, Envelope
<1>2. /\ DOMAIN F = 1 .. Len(F)
      /\ \A i \in DOMAIN F : F[i].sequence \in Nat /\ F[i].channel \in Channels
  <2>1. DOMAIN F = 1 .. Len(F) /\ F \in Seq(Envelope)
    BY FeedType
  <2>2. \A i \in DOMAIN F : F[i] \in Envelope
    BY <2>1, ElementOfSeq
  <2> QED
    BY <2>1, <2>2 DEF Envelope
<1>3. /\ \A i \in DOMAIN F : F[i].sequence <= sequences[F[i].channel]
      /\ \A i, j \in DOMAIN F :
           i < j /\ F[i].channel = F[j].channel => F[i].sequence < F[j].sequence
  BY DEF FeedNumbers, FeedNumbered, NumberOrder
<1> HIDE DEF F
<1>4. \A i \in DOMAIN F : F[i].sequence <= sequences'[F[i].channel]
  <2> SUFFICES ASSUME NEW i \in DOMAIN F
               PROVE  F[i].sequence <= sequences'[F[i].channel]
    OBVIOUS
  <2>1. F[i].sequence \in Nat /\ F[i].channel \in Channels /\ F[i].sequence <= sequences[F[i].channel]
    BY <1>2, <1>3
  <2>2. CASE F[i].channel = c
    BY <1>1, <2>1, <2>2
  <2>3. CASE F[i].channel # c
    BY <1>1, <2>1, <2>3
  <2> QED
    BY <2>2, <2>3
<1>5. \A i \in DOMAIN F : F[i].channel = c => F[i].sequence < sequences[c] + 1
  BY <1>1, <1>2, <1>3
<1>6. NumberOrder(s)'
  BY <1>3 DEF NumberOrder, F
<1>7. FeedNumbered(s)'
  BY <1>4 DEF FeedNumbered, F
<1>8. NumberAhead(s)'
  <2>1. sequences'[c] = sequences[c] + 1 /\ sequences[c] + 1 \in Nat
    BY <1>1
  <2> QED
    BY <1>1, <1>5, <2>1 DEF NumberAhead, F
<1> QED
  BY <1>6, <1>7, <1>8 DEF FeedNumbers

LEMMA NumbersGrow ==
  ASSUME TypeInv, TypeInv', NEW s \in Subs, s = current[Loop], FeedNumbers(s), PutEnvelope(Loop)
  PROVE  FeedNumbers(s)'
<1> DEFINE F == Feed(s)
           G == Feed(s)'
           e == envelope[Loop]
<1>1. Waits(s, Loop) /\ ~Waits(s, Loop)' /\ sequences' = sequences
  BY BusAssumption DEF PutEnvelope, Goto, Waits, TypeInv, TypeOK, LocalsOK, ThreadOK, Busy
<1>2. PICK n \in Nat : /\ DOMAIN F = 1 .. n /\ DOMAIN G = 1 .. n + 1
                       /\ \A i \in 1 .. n : G[i] = F[i]
                       /\ G[n + 1] = e
  BY PutFeed, BusAssumption
<1>3. /\ \A i \in DOMAIN F : F[i].sequence <= sequences[F[i].channel]
      /\ \A i, j \in DOMAIN F :
           i < j /\ F[i].channel = F[j].channel => F[i].sequence < F[j].sequence
      /\ e.sequence <= sequences[e.channel]
      /\ \A i \in DOMAIN F : F[i].channel = e.channel => F[i].sequence < e.sequence
  BY <1>1 DEF FeedNumbers, FeedNumbered, NumberOrder, NumberAhead
<1> HIDE DEF F, G, e
<1>4. NumberOrder(s)'
  <2> SUFFICES ASSUME NEW i \in 1 .. n + 1, NEW j \in 1 .. n + 1, i < j,
                      G[i].channel = G[j].channel
               PROVE  G[i].sequence < G[j].sequence
    BY <1>2 DEF NumberOrder, G
  <2>1. i \in 1 .. n /\ G[i] = F[i]
    BY <1>2
  <2>2. CASE j \in 1 .. n
    BY <1>2, <1>3, <2>1, <2>2
  <2>3. CASE j = n + 1
    BY <1>2, <1>3, <2>1, <2>3
  <2> QED
    BY <2>2, <2>3
<1>5. FeedNumbered(s)'
  <2> SUFFICES ASSUME NEW i \in 1 .. n + 1
               PROVE  G[i].sequence <= sequences[G[i].channel]
    BY <1>1, <1>2 DEF FeedNumbered, G
  <2>1. CASE i \in 1 .. n
    BY <1>2, <1>3, <2>1
  <2>2. CASE i = n + 1
    BY <1>2, <1>3, <2>2
  <2> QED
    BY <2>1, <2>2
<1>6. NumberAhead(s)'
  BY <1>1 DEF NumberAhead
<1> QED
  BY <1>4, <1>5, <1>6 DEF FeedNumbers

LEMMA NumbersShrink ==
  ASSUME TypeInv, TypeInv', NEW s \in Subs, s = current[Loop], FeedNumbers(s),
         queue[s] # <<>>, EvictOldest(Loop)
  PROVE  FeedNumbers(s)'
<1> DEFINE F == Feed(s)
           G == Feed(s)'
           e == envelope[Loop]
<1>1. Waits(s, Loop) /\ sequences' = sequences /\ envelope' = envelope
  BY BusAssumption DEF EvictOldest, Waits, TypeInv, TypeOK, LocalsOK, ThreadOK
<1>2. PICK n \in Nat, r \in Nat :
             /\ DOMAIN F = 1 .. n + 1 /\ DOMAIN G = 1 .. n
             /\ \A i \in 1 .. n : G[i] = F[IF i <= r THEN i ELSE i + 1]
  BY EvictFeed, BusAssumption
<1>3. /\ \A i \in DOMAIN F : F[i].sequence <= sequences[F[i].channel]
      /\ \A i, j \in DOMAIN F :
           i < j /\ F[i].channel = F[j].channel => F[i].sequence < F[j].sequence
      /\ e.sequence <= sequences[e.channel]
      /\ \A i \in DOMAIN F : F[i].channel = e.channel => F[i].sequence < e.sequence
  BY <1>1 DEF FeedNumbers, FeedNumbered, NumberOrder, NumberAhead
<1> HIDE DEF F, G
<1> DEFINE m(i) == IF i <= r THEN i ELSE i + 1
<1>d. /\ DOMAIN F = 1 .. n + 1 /\ DOMAIN G = 1 .. n
      /\ \A i \in 1 .. n : m(i) \in 1 .. n + 1 /\ G[i] = F[m(i)]
  BY <1>2
<1>m. \A i, j \in 1 .. n : i < j => m(i) < m(j)
  OBVIOUS
<1> HIDE DEF m
<1>4. NumberOrder(s)'
  <2> SUFFICES ASSUME NEW i \in 1 .. n, NEW j \in 1 .. n, i < j, G[i].channel = G[j].channel
               PROVE  G[i].sequence < G[j].sequence
    BY <1>d DEF NumberOrder, G
  <2> QED
    BY <1>d, <1>3, <1>m
<1>5. FeedNumbered(s)'
  <2> SUFFICES ASSUME NEW i \in 1 .. n
               PROVE  G[i].sequence <= sequences[G[i].channel]
    BY <1>1, <1>d DEF FeedNumbered, G
  <2> QED
    BY <1>d, <1>3
<1>6. NumberAhead(s)'
  <2> SUFFICES ASSUME NEW i \in 1 .. n, G[i].channel = e.channel
               PROVE  G[i].sequence < e.sequence
    BY <1>1, <1>3, <1>d DEF NumberAhead, G
  <2> QED
    BY <1>d, <1>3
<1> QED
  BY <1>4, <1>5, <1>6 DEF FeedNumbers

LEMMA NextNumbers ==
  ASSUME OnlyLoop
  PROVE  TypeInv /\ TypeInv' /\ NumberInv /\ [Next]_vars => NumberInv'
<1> SUFFICES ASSUME TypeInv, TypeInv', NumberInv, [Next]_vars
             PROVE  NumberInv'
  OBVIOUS
<1>0. NumberOK'
  BY NextNumberOK DEF NumberInv
<1> SUFFICES ASSUME NEW s \in Subs
             PROVE  FeedNumbers(s)'
  BY <1>0 DEF NumberInv
<1>a. FeedNumbers(s) /\ NumberOK /\ Loop \in Threads
  BY BusAssumption DEF NumberInv
<1> USE DEF OnlyLoop
<1>1. ASSUME NEW ch \in Channels, NEW kind \in Kinds \union {Heartbeat},
             ReadSequence(Loop, ch, kind)
      PROVE  FeedNumbers(s)'
  <2>1. Feed(s)' = Feed(s) /\ sequences' = sequences
    BY <1>1 DEF ReadSequence, subVars, history, Feed
  <2>2. ~Waits(s, Loop)'
    BY <1>1, <1>a DEF ReadSequence, Goto, Waits, TypeInv, TypeOK, LocalsOK, ThreadOK
  <2> QED
    BY <1>a, <2>1, <2>2, NumbersKept
<1>2. CASE StoreSequence(Loop)
  <2>1. StoreNumber(Loop) /\ Feed(s)' = Feed(s)
    BY <1>2 DEF StoreSequence, subVars, history, Feed
  <2>2. /\ envelope'[Loop].channel = envelope[Loop].channel
        /\ envelope'[Loop].sequence = envelope[Loop].sequence
    BY <1>2, <1>a DEF StoreSequence, Stamped, TypeInv, TypeOK
  <2> QED
    BY <1>a, <2>1, <2>2, NumberStored
<1>3. CASE StoreHeartbeat(Loop)
  <2>1. StoreNumber(Loop) /\ Feed(s)' = Feed(s) /\ envelope' = envelope
    BY <1>3 DEF StoreHeartbeat, subVars, history, Feed
  <2> QED
    BY <1>a, <2>1, NumberStored
<1>4. CASE PutEnvelope(Loop)
  <2>1. CASE s = current[Loop]
    BY <1>4, <1>a, <2>1, NumbersGrow
  <2>2. CASE s # current[Loop]
    <3>1. Feed(s)' = Feed(s) /\ sequences' = sequences
      BY <1>4, <1>a, <2>2 DEF PutEnvelope, history, Feed, TypeInv, TypeOK, LocalsOK, ThreadOK
    <3>2. Waits(s, Loop)' => Waits(s, Loop) /\ envelope'[Loop] = envelope[Loop]
      BY <1>4, <1>a, <2>2 DEF PutEnvelope, Goto, Waits, TypeInv, TypeOK
    <3> QED
      BY <1>a, <3>1, <3>2, NumbersKept
  <2> QED
    BY <2>1, <2>2
<1>5. CASE EvictOldest(Loop)
  <2>1. CASE s = current[Loop] /\ queue[s] # <<>>
    BY <1>5, <1>a, <2>1, NumbersShrink
  <2>2. CASE ~(s = current[Loop] /\ queue[s] # <<>>)
    <3>1. Feed(s)' = Feed(s) /\ sequences' = sequences
      BY <1>5, <1>a, <2>2 DEF EvictOldest, Evictable, Feed, TypeInv, TypeOK
    <3>2. /\ pc[Loop] = "evict" /\ pc' = [pc EXCEPT ![Loop] = "reput"]
          /\ UNCHANGED <<envelope, targets, current>>
      BY <1>5 DEF EvictOldest, Goto
    <3>3. Waits(s, Loop)' => Waits(s, Loop) /\ envelope'[Loop] = envelope[Loop]
      BY <1>a, <3>2 DEF Waits, TypeInv, TypeOK
    <3> QED
      BY <1>a, <3>1, <3>3, NumbersKept
  <2> QED
    BY <2>1, <2>2
<1>6. ASSUME NEW u \in Subs, Take(u)
      PROVE  FeedNumbers(s)'
  <2>1. Feed(s)' = Feed(s)
    <3>1. CASE s = u
      <4>1. /\ queue[s] # <<>> /\ queue'[s] = Tail(queue[s])
            /\ received'[s] = Append(received[s], Head(queue[s]))
        BY <1>6, <3>1 DEF Take, Ready, TypeInv, TypeOK
      <4> QED
        BY <4>1, FeedType, TakenFeed DEF Feed
    <3>2. CASE s # u
      BY <1>6, <3>2 DEF Take, Ready, Feed, TypeInv, TypeOK
    <3> QED
      BY <3>1, <3>2
  <2>2. UNCHANGED <<sequences, pc, targets, current, envelope>>
    BY <1>6 DEF Take, threadVars
  <2> QED
    BY <1>a, <2>1, <2>2, NumbersKept DEF Waits
\* The other steps touch neither a feed, nor an envelope, nor a number.
<1>7. ASSUME Feed(s)' = Feed(s), sequences' = sequences, envelope' = envelope,
             Waits(s, Loop)' => Waits(s, Loop)
      PROVE  FeedNumbers(s)'
  BY <1>7, <1>a, NumbersKept
<1>8. CASE CopyTargets(Loop) \/ Return(Loop)
  <2>1. Waits(s, Loop)' => Waits(s, Loop)
    BY <1>8, <1>a DEF CopyTargets, Return, Goto, Waits, TypeInv, TypeOK
  <2> QED
    BY <1>7, <1>8, <2>1 DEF CopyTargets, Return, subVars, history, Feed
<1>9. ASSUME NEW u \in Subs, FindRoom(Loop, u) \/ DropNew(Loop, u) \/ BeginEviction(Loop, u)
      PROVE  FeedNumbers(s)'
  <2>1. Waits(s, Loop)' => Waits(s, Loop)
    BY <1>9, <1>a DEF FindRoom, DropNew, BeginEviction, Visited, Goto, Waits, TypeInv, TypeOK
  <2> QED
    BY <1>7, <1>9, <2>1 DEF FindRoom, DropNew, BeginEviction, subVars, history, Feed
<1>10. CASE CountDelivered(Loop)
  <2>1. Waits(s, Loop)' => Waits(s, Loop)
    BY <1>10, <1>a DEF CountDelivered, Visited, Goto, Waits, TypeInv, TypeOK
  <2> QED
    BY <1>7, <1>10, <2>1 DEF CountDelivered, history, Feed
<1>11. CASE PutAfterEviction(Loop)
  <2>1. /\ pc[Loop] = "reput" /\ current' = current
        /\ targets'[Loop] \subseteq targets[Loop] /\ pc'[Loop] \in {"append", "deliver"}
    BY <1>11, <1>a DEF PutAfterEviction, Visited, Goto, TypeInv, TypeOK
  <2>2. Waits(s, Loop)' => Waits(s, Loop)
    BY <2>1 DEF Waits
  <2> QED
    BY <1>7, <1>11, <2>2 DEF PutAfterEviction, subVars, history, Feed
<1>12. ASSUME NEW u \in Subs, Subscribe(u) \/ Unsubscribe(u)
       PROVE  FeedNumbers(s)'
  <2>1. Waits(s, Loop)' => Waits(s, Loop)
    BY <1>12 DEF Subscribe, Unsubscribe, threadVars, Waits
  <2> QED
    BY <1>7, <1>12, <2>1 DEF Subscribe, Unsubscribe, threadVars, history, Feed
<1>13. CASE UNCHANGED vars
  <2>1. Waits(s, Loop)' => Waits(s, Loop)
    BY <1>13 DEF vars, threadVars, Waits
  <2> QED
    BY <1>7, <1>13, <2>1 DEF vars, subVars, threadVars, history, Feed
<1> QED
  BY <1>1, <1>2, <1>3, <1>4, <1>5, <1>6, <1>8, <1>9, <1>10, <1>11, <1>12, <1>13
  DEF Next, Publish, Visit

-----------------------------------------------------------------------------
LEMMA InitLoop == Init => RoomMade /\ DropBalance /\ NumberInv
<1> SUFFICES ASSUME Init
             PROVE  RoomMade /\ DropBalance /\ NumberInv
  OBVIOUS
<1>1. /\ pc[Loop] = "idle" /\ targets[Loop] = {}
      /\ \A s \in Subs : /\ received[s] = <<>> /\ queue[s] = <<>>
                          /\ offered[s] = 0 /\ dropped_count[s] = 0
  BY BusAssumption DEF Init
<1>2. RoomMade
  BY <1>1 DEF RoomMade
<1>3. DropBalance
  <2> SUFFICES ASSUME NEW s \in Subs
               PROVE  offered[s] = Len(received[s]) + Len(queue[s]) + dropped_count[s] + Owed(s)
    BY DEF DropBalance
  <2>1. Owed(s) = 0
    BY <1>1 DEF Owed
  <2>2. Len(received[s]) = 0 /\ Len(queue[s]) = 0
    BY <1>1
  <2> QED
    BY <1>1, <2>1, <2>2
<1>4. NumberInv
  <2>1. \A s \in Subs : Feed(s) = <<>> /\ ~Waits(s, Loop)
    BY <1>1 DEF Feed, Waits
  <2> QED
    BY <1>1, <2>1 DEF NumberInv, NumberOK, FeedNumbers, NumberOrder, FeedNumbered, NumberAhead
<1> QED
  BY <1>2, <1>3, <1>4

(* When the event loop alone publishes, as with asynchronous routes, the   *)
(* drop count is the true loss, an eviction always makes room for the      *)
(* event that caused it, and a subscriber sees the numbers of a channel    *)
(* increase (core/events.py:73-77, 154-184).                               *)
THEOREM LoopAlwaysExact ==
  ASSUME OnlyLoop
  PROVE  Spec => []LoopExact
<1>1. Init => RoomMade /\ DropBalance /\ NumberInv
  BY InitLoop
<1>2. TypeInv /\ RoomMade /\ DropBalance /\ NumberInv => LoopExact
  <2> SUFFICES ASSUME TypeInv, RoomMade, DropBalance, NumberInv
               PROVE  LoopExact
    OBVIOUS
  <2>1. DroppedExact
    <3> SUFFICES ASSUME LoopFree, NEW s \in Subs
                 PROVE  offered[s] = Len(received[s]) + Len(queue[s]) + dropped_count[s]
      BY DEF DroppedExact
    <3>1. Owed(s) = 0
      BY BusAssumption DEF LoopFree, Owed, TypeInv, LocalsOK, ThreadOK
    <3>2. /\ Len(received[s]) \in Nat /\ Len(queue[s]) \in Nat /\ dropped_count[s] \in Nat
      BY DEF TypeInv, TypeOK
    <3>3. PICK r \in Nat : r = Len(received[s])
      BY <3>2
    <3>4. PICK q \in Nat : q = Len(queue[s])
      BY <3>2
    <3>5. PICK d \in Nat : d = dropped_count[s]
      BY <3>2
    <3>6. offered[s] = r + q + d + 0
      BY <3>1, <3>3, <3>4, <3>5, Zenon DEF DropBalance
    <3>7. r + q + d + 0 = r + q + d
      OBVIOUS
    <3> QED
      BY <3>3, <3>4, <3>5, <3>6, <3>7, Zenon
  <2>2. EvictionMakesRoom
    BY DEF RoomMade, EvictionMakesRoom, OnlyLoop
  <2>3. StrictlyIncreasing
    BY DEF NumberInv, FeedNumbers, NumberOrder, StrictlyIncreasing
  <2> QED
    BY <2>1, <2>2, <2>3 DEF LoopExact
<1>3. TypeInv /\ TypeInv' /\ QueueBound /\ RoomMade /\ DropBalance /\ NumberInv /\ [Next]_vars
        => RoomMade' /\ DropBalance' /\ NumberInv'
  BY NextRoomMade, NextBalance, NextNumbers
<1> QED
  BY <1>1, <1>2, <1>3, InitType, NextType, QueueStaysBounded, PTL DEF Spec

-----------------------------------------------------------------------------
(* The refinement: the initial state maps to that of the ordered feed, the *)
(* store of a number to Issue, a take to See, any other step to a stutter. *)

Taken(s, ch) ==
  {received[s][i].sequence : i \in {j \in DOMAIN received[s] : received[s][j].channel = ch}}

Top(S) == IF S = {} THEN 0 ELSE CHOOSE n \in S : \A m \in S : m <= n

(* Some number taken is the last one: CHOOSE needs one to choose.          *)
Topped ==
  \A s \in Subs, ch \in Channels :
    Taken(s, ch) # {} => \E n \in Taken(s, ch) : \A m \in Taken(s, ch) : m <= n

(* Numbers start at one, so the first that is taken is above "none".       *)
FromOne ==
  /\ pc[Loop] # "idle" => envelope[Loop].sequence > 0
  /\ \A s \in Subs : \A i \in DOMAIN queue[s] : queue[s][i].sequence > 0

SeenInv == TypeInv /\ NumberInv /\ Topped /\ FromOne

LEMMA LastTakenTop ==
  LastTaken = [s \in Subs |-> [ch \in Channels |-> Top(Taken(s, ch))]]
  BY DEF LastTaken, Top, Taken

LEMMA TopOf ==
  ASSUME NEW S \in SUBSET Nat, NEW n \in S, \A m \in S : m <= n
  PROVE  Top(S) = n
<1> DEFINE P(x) == x \in S /\ \A m \in S : m <= x
           c == CHOOSE x : P(x)
<1>1. P(n)
  OBVIOUS
<1>2. P(c)
  BY <1>1
<1>3. c = n
  <2>1. c \in Nat /\ n \in Nat /\ c <= n /\ n <= c
    BY <1>2
  <2> HIDE DEF c
  <2> QED
    BY <2>1
<1>4. Top(S) = c
  BY DEF Top
<1> QED
  BY <1>3, <1>4

-----------------------------------------------------------------------------
(* What the pump takes from a queue is above all it took of the channel.   *)

LEMMA HeadIsNew ==
  ASSUME SeenInv, NEW s \in Subs, queue[s] # <<>>
  PROVE  LET h == Head(queue[s]) IN
           /\ h \in Envelope /\ h.sequence > 0 /\ h.sequence <= sequences[h.channel]
           /\ \A m \in Taken(s, h.channel) : m < h.sequence
<1> DEFINE h == Head(queue[s])
           r == received[s]
           q == queue[s]
           k == Len(r) + 1
<1>1. /\ r \in Seq(Envelope) /\ q \in Seq(Envelope) /\ q # <<>>
  BY DEF SeenInv, TypeInv, TypeOK
<1>2. /\ Len(r) \in Nat /\ Len(q) \in Nat /\ Len(q) >= 1 /\ h = q[1] /\ h \in Envelope
      /\ DOMAIN r = 1 .. Len(r) /\ DOMAIN q = 1 .. Len(q)
  BY <1>1
<1>3. h.sequence > 0
  BY <1>2 DEF SeenInv, FromOne
<1>4. /\ Len(Feed(s)) = Len(r) + Len(q)
      /\ DOMAIN Feed(s) = 1 .. Len(Feed(s))
      /\ \A i \in 1 .. Len(r) + Len(q) :
           Feed(s)[i] = IF i <= Len(r) THEN r[i] ELSE q[i - Len(r)]
  <2>1. \A x \in Seq(Envelope), y \in Seq(Envelope) :
          /\ Len(x \o y) = Len(x) + Len(y)
          /\ \A i \in 1 .. Len(x) + Len(y) :
               (x \o y)[i] = IF i <= Len(x) THEN x[i] ELSE y[i - Len(x)]
    BY ConcatProperties
  <2>2. DOMAIN Feed(s) = 1 .. Len(Feed(s))
    BY FeedType DEF SeenInv
  <2> QED
    BY <1>1, <2>1, <2>2, Zenon DEF Feed
<1> HIDE DEF r, q, h
<1>a. PICK a \in Nat : a = Len(r)
  BY <1>2
<1>b. PICK b \in Nat : b = Len(q) /\ b >= 1
  BY <1>2
<1>5. /\ DOMAIN Feed(s) = 1 .. a + b
      /\ \A i \in 1 .. a + b : Feed(s)[i] = IF i <= a THEN r[i] ELSE q[i - a]
  BY <1>4, <1>a, <1>b, Zenon
<1>6. a + 1 \in 1 .. a + b /\ Feed(s)[a + 1] = h
  BY <1>2, <1>5, <1>b
<1>7. h.sequence <= sequences[h.channel]
  BY <1>5, <1>6 DEF SeenInv, NumberInv, FeedNumbers, FeedNumbered
<1>8. ASSUME NEW i \in 1 .. a, r[i].channel = h.channel
      PROVE  r[i].sequence < h.sequence
  <2>1. i \in DOMAIN Feed(s) /\ Feed(s)[i] = r[i] /\ a + 1 \in DOMAIN Feed(s) /\ i < a + 1
    BY <1>5, <1>6, <1>b
  <2> QED
    BY <1>6, <1>8, <2>1 DEF SeenInv, NumberInv, FeedNumbers, NumberOrder
<1>9. ASSUME NEW m \in Taken(s, h.channel) PROVE m < h.sequence
  <2>1. PICK i \in DOMAIN r : r[i].channel = h.channel /\ m = r[i].sequence
    BY DEF Taken, r
  <2>2. i \in 1 .. a
    BY <1>2, <1>a, <2>1
  <2> QED
    BY <1>8, <2>1, <2>2
<1> QED
  BY <1>2, <1>3, <1>7, <1>9 DEF h

(* A take adds the number to those taken of its channel, and to no other.  *)
LEMMA TakeAdds ==
  ASSUME SeenInv, NEW u \in Subs, Take(u), NEW s \in Subs, NEW ch \in Channels
  PROVE  Taken(s, ch)' =
           IF s = u /\ ch = Head(queue[u]).channel
           THEN Taken(s, ch) \union {Head(queue[u]).sequence} ELSE Taken(s, ch)
<1> DEFINE h == Head(queue[u])
           r == received[u]
<1>1. /\ received' = [received EXCEPT ![u] = Append(@, h)]
      /\ queue[u] # <<>>
  BY DEF Take, Ready
<1>2. r \in Seq(Envelope) /\ h \in Envelope
  BY <1>1, HeadIsNew DEF SeenInv, TypeInv, TypeOK
<1>3. CASE s # u
  BY <1>1, <1>3 DEF Taken, SeenInv, TypeInv, TypeOK
<1>4. CASE s = u
  <2>1. received'[s] = Append(r, h)
    BY <1>1, <1>4 DEF SeenInv, TypeInv, TypeOK
  <2> HIDE DEF h
  <2>2. PICK n \in Nat : /\ DOMAIN r = 1 .. n /\ DOMAIN Append(r, h) = 1 .. n + 1
                         /\ \A i \in 1 .. n : Append(r, h)[i] = r[i]
                         /\ Append(r, h)[n + 1] = h
    <3>1. Len(r) \in Nat
      BY <1>2
    <3> QED
      BY <1>2, <3>1
  <2> DEFINE R == Append(r, h)
  <2>3. \A i \in 1 .. n + 1 : i \in 1 .. n \/ i = n + 1
    OBVIOUS
  <2>d. /\ DOMAIN R = 1 .. n + 1 /\ \A i \in 1 .. n : i \in DOMAIN R /\ R[i] = r[i]
        /\ n + 1 \in DOMAIN R /\ R[n + 1] = h
    BY <2>2
  <2> HIDE DEF R, r
  <2>4. ASSUME NEW m, m \in {R[i].sequence : i \in {j \in DOMAIN R : R[j].channel = ch}}
        PROVE  \/ m \in {r[i].sequence : i \in {j \in DOMAIN r : r[j].channel = ch}}
               \/ ch = h.channel /\ m = h.sequence
    <3>1. PICK i \in DOMAIN R : R[i].channel = ch /\ m = R[i].sequence
      BY <2>4
    <3> QED
      BY <2>2, <2>3, <2>d, <3>1
  <2>5. ASSUME NEW m, m \in {r[i].sequence : i \in {j \in DOMAIN r : r[j].channel = ch}}
        PROVE  m \in {R[i].sequence : i \in {j \in DOMAIN R : R[j].channel = ch}}
    <3>1. PICK i \in DOMAIN r : r[i].channel = ch /\ m = r[i].sequence
      BY <2>5
    <3> QED
      BY <2>2, <2>d, <3>1
  <2>6. ch = h.channel =>
          h.sequence \in {R[i].sequence : i \in {j \in DOMAIN R : R[j].channel = ch}}
    BY <2>d
  <2>7. {R[i].sequence : i \in {j \in DOMAIN R : R[j].channel = ch}}
          = {r[i].sequence : i \in {j \in DOMAIN r : r[j].channel = ch}}
              \union (IF ch = h.channel THEN {h.sequence} ELSE {})
    BY <2>4, <2>5, <2>6
  <2>8. Taken(s, ch) = {r[i].sequence : i \in {j \in DOMAIN r : r[j].channel = ch}}
    BY <1>4 DEF Taken, r
  <2>9. Taken(s, ch)' = {R[i].sequence : i \in {j \in DOMAIN R : R[j].channel = ch}}
    BY <2>1 DEF Taken, R
  <2> QED
    BY <1>4, <2>7, <2>8, <2>9 DEF h
<1> QED
  BY <1>3, <1>4

-----------------------------------------------------------------------------
LEMMA TakenType ==
  ASSUME TypeInv, NEW s \in Subs, NEW ch \in Channels
  PROVE  Taken(s, ch) \in SUBSET Nat
<1>1. received[s] \in Seq(Envelope)
  BY DEF TypeInv, TypeOK
<1>2. \A i \in DOMAIN received[s] : received[s][i] \in Envelope
  BY <1>1
<1>3. \A i \in DOMAIN received[s] : received[s][i].sequence \in Nat
  BY <1>2 DEF Envelope
<1> QED
  BY <1>3 DEF Taken

LEMMA TakeTops ==
  ASSUME SeenInv, NEW u \in Subs, Take(u), NEW s \in Subs, NEW ch \in Channels
  PROVE  /\ Taken(s, ch)' # {} =>
              \E n \in Taken(s, ch)' : \A m \in Taken(s, ch)' : m <= n
         /\ s = u /\ ch = Head(queue[u]).channel =>
              Top(Taken(s, ch)') = Head(queue[u]).sequence
<1> DEFINE h == Head(queue[u])
           new == Taken(s, ch)'
<1>1. queue[u] # <<>>
  BY DEF Take, Ready
<1>2. h.sequence \in Nat /\ \A m \in Taken(u, h.channel) : m < h.sequence
  BY <1>1, HeadIsNew DEF Envelope
<1>3. Taken(s, ch) \in SUBSET Nat
  BY TakenType DEF SeenInv
<1>4. CASE s = u /\ ch = h.channel
  <2>1. new = Taken(s, ch) \union {h.sequence}
    BY <1>4, TakeAdds
  <2>2. \A m \in Taken(s, ch) : m < h.sequence
    BY <1>2, <1>4
  <2> HIDE DEF h, new
  <2>3. new \in SUBSET Nat /\ h.sequence \in new /\ \A m \in new : m <= h.sequence
    BY <1>2, <1>3, <2>1, <2>2
  <2>4. Top(new) = h.sequence
    BY <2>3, TopOf
  <2> QED
    BY <2>3, <2>4 DEF h, new
<1>5. CASE ~(s = u /\ ch = h.channel)
  BY <1>5, TakeAdds DEF SeenInv, Topped
<1> QED
  BY <1>4, <1>5

(* Other steps take nothing.                                               *)
LEMMA NothingTaken ==
  ASSUME received' = received
  PROVE  LastTaken' = LastTaken /\ (Topped => Topped')
<1>1. LastTaken' = LastTaken
  BY DEF LastTaken
<1>2. ASSUME NEW s \in Subs, NEW ch \in Channels PROVE Taken(s, ch)' = Taken(s, ch)
  BY DEF Taken
<1>3. Topped => Topped'
  BY <1>2 DEF Topped
<1> QED
  BY <1>1, <1>3

-----------------------------------------------------------------------------
(* Which steps touch what the refinement mapping looks at.                 *)

LEMMA StepsOfLoop ==
  ASSUME OnlyLoop, [Next]_vars
  PROVE  \/ StoreNumber(Loop) /\ UNCHANGED received
         \/ \E u \in Subs : Take(u)
         \/ UNCHANGED <<sequences, received>>
<1> USE DEF OnlyLoop
<1>1. ASSUME NEW ch \in Channels, NEW kind \in Kinds \union {Heartbeat},
             ReadSequence(Loop, ch, kind)
      PROVE  UNCHANGED <<sequences, received>>
  BY <1>1 DEF ReadSequence, history
<1>2. ASSUME StoreSequence(Loop) \/ StoreHeartbeat(Loop)
      PROVE  StoreNumber(Loop) /\ UNCHANGED received
  BY <1>2 DEF StoreSequence, StoreHeartbeat, history
<1>3. ASSUME CopyTargets(Loop) \/ Return(Loop) \/ PutEnvelope(Loop) \/ CountDelivered(Loop)
               \/ EvictOldest(Loop) \/ PutAfterEviction(Loop)
      PROVE  UNCHANGED <<sequences, received>>
  BY <1>3 DEF CopyTargets, Return, PutEnvelope, CountDelivered, EvictOldest, PutAfterEviction, history
<1>4. ASSUME NEW s \in Subs, FindRoom(Loop, s) \/ DropNew(Loop, s) \/ BeginEviction(Loop, s)
               \/ Subscribe(s) \/ Unsubscribe(s)
      PROVE  UNCHANGED <<sequences, received>>
  BY <1>4 DEF FindRoom, DropNew, BeginEviction, Subscribe, Unsubscribe, history
<1>5. CASE UNCHANGED vars
  BY <1>5 DEF vars, history
<1> QED
  BY <1>1, <1>2, <1>3, <1>4, <1>5 DEF Next, Publish, Visit

LEMMA NextFromOne ==
  ASSUME OnlyLoop, TypeInv, TypeInv', FromOne, [Next]_vars
  PROVE  FromOne'
<1> DEFINE Positive(s) == \A i \in DOMAIN queue[s] : queue[s][i].sequence > 0
           Carries == pc[Loop] # "idle" => envelope[Loop].sequence > 0
<1> USE DEF OnlyLoop
<1>0. Carries /\ (\A s \in Subs : Positive(s)) /\ Loop \in Threads
  BY BusAssumption DEF FromOne
<1>1. ASSUME queue' = queue, envelope' = envelope, pc'[Loop] # "idle" => pc[Loop] # "idle"
      PROVE  FromOne'
  BY <1>1 DEF FromOne
<1>2. ASSUME NEW ch \in Channels, NEW kind \in Kinds \union {Heartbeat},
             ReadSequence(Loop, ch, kind)
      PROVE  FromOne'
  <2>1. sequences[ch] + 1 > 0
    BY DEF TypeInv, TypeOK
  <2>2. envelope'[Loop].sequence = sequences[ch] + 1 /\ queue' = queue
    BY <1>0, <1>2 DEF ReadSequence, subVars, TypeInv, TypeOK
  <2> QED
    BY <2>1, <2>2 DEF FromOne
<1>3. CASE StoreSequence(Loop)
  <2>1. pc[Loop] # "idle" /\ queue' = queue /\ envelope'[Loop].sequence = envelope[Loop].sequence
    BY <1>0, <1>3 DEF StoreSequence, StoreNumber, Stamped, subVars, TypeInv, TypeOK
  <2> QED
    BY <2>1 DEF FromOne
<1>4. CASE StoreHeartbeat(Loop)
  BY <1>0, <1>1, <1>4 DEF StoreHeartbeat, Goto, subVars, TypeInv, TypeOK
<1>5. CASE CopyTargets(Loop) \/ Return(Loop) \/ CountDelivered(Loop)
  BY <1>1, <1>5 DEF CopyTargets, Return, CountDelivered, subVars
<1>6. CASE PutAfterEviction(Loop)
  BY <1>1, <1>6 DEF PutAfterEviction, subVars
<1>7. ASSUME NEW s \in Subs, FindRoom(Loop, s) \/ DropNew(Loop, s) \/ BeginEviction(Loop, s)
      PROVE  FromOne'
  BY <1>1, <1>7 DEF FindRoom, DropNew, BeginEviction, subVars
<1>8. CASE PutEnvelope(Loop)
  <2>1. /\ pc[Loop] = "append" /\ envelope' = envelope /\ current[Loop] \in Subs
        /\ envelope[Loop] \in Envelope /\ envelope[Loop].sequence > 0
        /\ queue' = [queue EXCEPT ![current[Loop]] = Append(@, envelope[Loop])]
    BY <1>0, <1>8 DEF PutEnvelope, TypeInv, TypeOK, LocalsOK, ThreadOK
  <2>2. ASSUME NEW s \in Subs PROVE Positive(s)'
    <3>1. CASE s = current[Loop]
      <4>1. queue[s] \in Seq(Envelope) /\ queue'[s] = Append(queue[s], envelope[Loop])
        BY <2>1, <3>1 DEF TypeInv, TypeOK
      <4> DEFINE q == queue[s]
                 e == envelope[Loop]
      <4>2. /\ Len(q) \in Nat /\ DOMAIN Append(q, e) = 1 .. Len(q) + 1
            /\ DOMAIN q = 1 .. Len(q)
            /\ Append(q, e)[Len(q) + 1] = e
            /\ \A i \in 1 .. Len(q) : Append(q, e)[i] = q[i]
        BY <2>1, <4>1
      <4>3. \A i \in 1 .. Len(q) + 1 : i \in 1 .. Len(q) \/ i = Len(q) + 1
        BY <4>2
      <4>4. Positive(s)
        BY <1>0
      <4> QED
        BY <2>1, <4>1, <4>2, <4>3, <4>4
    <3>2. CASE s # current[Loop]
      <4>1. queue'[s] = queue[s] /\ Positive(s)
        BY <1>0, <2>1, <3>2 DEF TypeInv, TypeOK
      <4> QED
        BY <4>1
    <3> QED
      BY <3>1, <3>2
  <2> QED
    BY <2>1, <2>2 DEF FromOne
<1>9. ASSUME NEW u \in Subs, queue[u] # <<>>, queue' = [queue EXCEPT ![u] = Tail(@)],
             envelope' = envelope, pc'[Loop] # "idle" => pc[Loop] # "idle"
      PROVE  FromOne'
  <2>1. ASSUME NEW s \in Subs PROVE Positive(s)'
    <3>1. CASE s = u
      <4>1. queue[s] \in Seq(Envelope) /\ queue[s] # <<>> /\ queue'[s] = Tail(queue[s])
        BY <1>9, <3>1 DEF TypeInv, TypeOK
      <4>2. \A i \in DOMAIN Tail(queue[s]) :
               i + 1 \in DOMAIN queue[s] /\ Tail(queue[s])[i] = queue[s][i + 1]
        BY <4>1
      <4>3. Positive(s)
        BY <1>0
      <4> QED
        BY <4>1, <4>2, <4>3
    <3>2. CASE s # u
      <4>1. queue'[s] = queue[s] /\ Positive(s)
        BY <1>0, <1>9, <3>2 DEF TypeInv, TypeOK
      <4> QED
        BY <4>1
    <3> QED
      BY <3>1, <3>2
  <2> QED
    BY <1>0, <1>9, <2>1 DEF FromOne
<1>10. CASE EvictOldest(Loop)
  <2>1. /\ pc[Loop] # "idle" /\ envelope' = envelope /\ current[Loop] \in Subs
        /\ \/ queue' = queue
           \/ /\ queue[current[Loop]] # <<>>
              /\ queue' = [queue EXCEPT ![current[Loop]] = Tail(@)]
    BY <1>0, <1>10 DEF EvictOldest, Evictable, TypeInv, TypeOK, LocalsOK, ThreadOK
  <2> QED
    BY <1>1, <1>9, <2>1
<1>11. ASSUME NEW u \in Subs, Take(u) PROVE FromOne'
  BY <1>9, <1>11 DEF Take, Ready, threadVars
<1>12. ASSUME NEW u \in Subs, Subscribe(u) \/ Unsubscribe(u) PROVE FromOne'
  BY <1>1, <1>12 DEF Subscribe, Unsubscribe, threadVars
<1>13. CASE UNCHANGED vars
  BY <1>1, <1>13 DEF vars, subVars, threadVars
<1> QED
  BY <1>2, <1>3, <1>4, <1>5, <1>6, <1>7, <1>8, <1>10, <1>11, <1>12, <1>13
  DEF Next, Publish, Visit

LEMMA NextFeed == OnlyLoop /\ SeenInv /\ [Next]_vars => SeenInv'
<1> SUFFICES ASSUME OnlyLoop, SeenInv, [Next]_vars PROVE SeenInv'
  OBVIOUS
<1>1. TypeInv'
  BY NextType DEF SeenInv
<1>2. NumberInv'
  BY <1>1, NextNumbers DEF SeenInv
<1>3. FromOne'
  BY <1>1, NextFromOne DEF SeenInv
<1>4. Topped'
  <2>1. ASSUME NEW u \in Subs, Take(u) PROVE Topped'
    BY <2>1, TakeTops DEF Topped
  <2>2. ASSUME UNCHANGED received PROVE Topped'
    BY <2>2, NothingTaken DEF SeenInv
  <2> QED
    BY <2>1, <2>2, StepsOfLoop
<1> QED
  BY <1>1, <1>2, <1>3, <1>4 DEF SeenInv

LEMMA InitFeed == Init => SeenInv /\ Feeds!Init
<1> SUFFICES ASSUME Init PROVE SeenInv /\ Feeds!Init
  OBVIOUS
<1>1. TypeInv /\ NumberInv
  BY InitType, InitLoop
<1>2. \A s \in Subs, ch \in Channels : Taken(s, ch) = {}
  BY DEF Init, Taken
<1>3. Topped
  BY <1>2 DEF Topped
<1>4. FromOne
  BY BusAssumption DEF Init, FromOne
<1>5. LastTaken = [s \in Subs |-> [ch \in Channels |-> 0]]
  BY <1>2, LastTakenTop DEF Top
<1> QED
  BY <1>1, <1>3, <1>4, <1>5 DEF SeenInv, Init, Feeds!Init

LEMMA StoreIssues ==
  ASSUME SeenInv, StoreNumber(Loop), UNCHANGED received
  PROVE  Feeds!Next
<1> DEFINE ch == envelope[Loop].channel
<1>1. /\ ch \in Channels
      /\ sequences' = [sequences EXCEPT ![ch] = sequences[ch] + 1]
  BY BusAssumption DEF StoreNumber, SeenInv, NumberInv, NumberOK, TypeInv, LocalsOK, ThreadOK, Envelope
<1>2. Feeds!Issue(ch)
  BY <1>1, NothingTaken DEF Feeds!Issue
<1> QED
  BY <1>1, <1>2 DEF Feeds!Next

LEMMA TakeSees ==
  ASSUME SeenInv, NEW u \in Subs, Take(u)
  PROVE  Feeds!Next
<1> DEFINE h == Head(queue[u])
           c == h.channel
           n == h.sequence
<1>1. queue[u] # <<>> /\ sequences' = sequences
  BY DEF Take, Ready
<1>2. /\ c \in Channels /\ n \in Nat /\ n > 0 /\ n <= sequences[c]
      /\ \A m \in Taken(u, c) : m < n
  BY <1>1, HeadIsNew DEF Envelope
<1>3. ASSUME NEW s \in Subs, NEW ch \in Channels
      PROVE  Top(Taken(s, ch))' = IF s = u /\ ch = c THEN n ELSE Top(Taken(s, ch))
  <2>0. Top(Taken(s, ch))' = Top(Taken(s, ch)')
    BY DEF Top
  <2>1. CASE s = u /\ ch = c
    BY <2>0, <2>1, TakeTops
  <2>2. CASE ~(s = u /\ ch = c)
    <3>1. Taken(s, ch)' = Taken(s, ch)
      BY <2>2, TakeAdds
    <3> QED
      BY <2>0, <2>2, <3>1
  <2> QED
    BY <2>1, <2>2
<1> HIDE DEF h, c, n
<1>4. LastTaken[u][c] < n /\ LastTaken[u][c] \in Nat
  <2>1. LastTaken[u][c] = Top(Taken(u, c))
    BY <1>2, LastTakenTop
  <2>2. CASE Taken(u, c) = {}
    BY <1>2, <2>1, <2>2 DEF Top
  <2>3. CASE Taken(u, c) # {}
    <3>1. PICK k \in Taken(u, c) : \A m \in Taken(u, c) : m <= k
      BY <1>2, <2>3 DEF SeenInv, Topped
    <3>2. Taken(u, c) \in SUBSET Nat
      BY <1>2, TakenType DEF SeenInv
    <3>3. Top(Taken(u, c)) = k
      BY <3>1, <3>2, TopOf
    <3> QED
      BY <1>2, <2>1, <3>1, <3>2, <3>3
  <2> QED
    BY <2>2, <2>3
<1>5. LastTaken' = [LastTaken EXCEPT ![u][c] = n]
  <2>1. LastTaken' = [s \in Subs |-> [ch \in Channels |-> Top(Taken(s, ch))']]
    BY DEF LastTaken, Top, Taken
  <2>2. [LastTaken EXCEPT ![u][c] = n]
          = [s \in Subs |-> [ch \in Channels |->
               IF s = u /\ ch = c THEN n ELSE Top(Taken(s, ch))]]
    BY <1>2, LastTakenTop
  <2> QED
    BY <1>3, <2>1, <2>2
<1>6. n \in (LastTaken[u][c] + 1) .. sequences[c]
  <2>1. sequences[c] \in Nat
    BY <1>2 DEF SeenInv, TypeInv, TypeOK
  <2> QED
    BY <1>2, <1>4, <2>1
<1>7. Feeds!See(u, c)
  BY <1>1, <1>5, <1>6 DEF Feeds!See
<1> QED
  BY <1>2, <1>7 DEF Feeds!Next

LEMMA StepsFeed ==
  OnlyLoop /\ SeenInv /\ [Next]_vars => [Feeds!Next]_(Feeds!feedVars)
<1> SUFFICES ASSUME OnlyLoop, SeenInv, [Next]_vars
             PROVE  [Feeds!Next]_(Feeds!feedVars)
  OBVIOUS
<1>1. ASSUME UNCHANGED <<sequences, received>> PROVE UNCHANGED Feeds!feedVars
  BY <1>1, NothingTaken DEF Feeds!feedVars
<1> QED
  BY <1>1, StepsOfLoop, StoreIssues, TakeSees

(* When the event loop alone publishes, the bus is an ordered feed: the    *)
(* counter of a channel goes up one by one, heartbeats included, and what  *)
(* a pump takes has a higher number than all it took of the channel, and   *)
(* one that was issued, whatever the queues drop and evict.                *)
THEOREM OrderedFeedImplemented ==
  ASSUME OnlyLoop
  PROVE  Spec => ImplementsOrderedFeed
<1>1. SeenInv /\ [Next]_vars => SeenInv'
  BY NextFeed
<1>2. SeenInv /\ [Next]_vars => [Feeds!Next]_(Feeds!feedVars)
  BY StepsFeed
<1> QED
  BY <1>1, <1>2, InitFeed, PTL DEF ImplementsOrderedFeed, Spec, Feeds!Spec

=============================================================================
