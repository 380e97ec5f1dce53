------------------------------ MODULE EventBus ------------------------------
(***************************************************************************)
(* The in-process realtime event bus, backend/app/core/events.py.          *)
(*                                                                         *)
(* FastAPI runs the synchronous routes (and the after_commit hook of the   *)
(* incident service) on worker threads, and the WebSocket handlers on the  *)
(* event loop; all of them call the one EventBus object.  Its asyncio.Lock *)
(* is never taken, so a thread can be preempted between two bytecodes.     *)
(* CPython 3.12 checks for preemption after each call, so the steps below  *)
(* are cut exactly after the calls of publish that touch shared state:     *)
(*                                                                         *)
(*   dict.get | store the number | copy the list of subscribers |          *)
(*   queue.full() | deque.append | delivered_count += 1 |                  *)
(*   get_nowait() | full() of the second put                               *)
(*                                                                         *)
(* The pump of a WebSocket connection, subscribe, unsubscribe and the      *)
(* heartbeats that take a sequence number run on the thread Loop: they are *)
(* never interleaved with a publish of that thread.                        *)
(***************************************************************************)
EXTENDS Naturals, Sequences, FiniteSets

CONSTANTS
  Threads,        \* threads that publish
  Loop,           \* the one of them that runs the asyncio event loop
  Subs,           \* subscriptions that may be opened (each is opened once)
  Channels,       \* realtime channels
  Wildcard,       \* the channel name "*"
  Kinds,          \* event types, as far as delivery tells them apart
  Critical,       \* CRITICAL_EVENT_TYPES
  Heartbeat,      \* greeting or pong: takes a number, is never dispatched
  ChannelOf,      \* [Subs -> channel or Wildcard]: argument of subscribe
  Admits,         \* [Subs -> SUBSET Kinds]: what filter_func lets through
  Capacity,       \* queue maxsize (the code bounds it to 10..1000)
  None,           \* no envelope, no subscription
  MaxPublished,   \* bound: publishes started
  MaxBeat         \* bound: a channel's numbers up to which heartbeats take one

ASSUME BusAssumption ==
  /\ Loop \in Threads
  /\ IsFiniteSet(Threads)
  /\ Critical \subseteq Kinds
  /\ Heartbeat \notin Kinds
  /\ Wildcard \notin Channels
  /\ ChannelOf \in [Subs -> Channels \union {Wildcard}]
  /\ Admits \in [Subs -> SUBSET Kinds]
  /\ Capacity \in Nat \ {0}
  /\ None \notin Subs

VARIABLES
  sequences,        \* last number stored for each channel
  total_published,
  status,           \* subscription not yet opened, open, or closed
  queue,            \* the asyncio.Queue of each subscription
  delivered_count,
  dropped_count,
  pc,               \* where each thread is inside publish
  envelope,         \* the envelope a thread is publishing
  targets,          \* the subscriptions its dispatch loop has still to visit
  current,          \* the subscription it is putting into
  received,         \* history: what the consumer of each queue has taken
  evicted,          \* history: envelopes removed by _handle_overflow
  offered           \* history: envelopes whose dispatch matched

subVars == <<status, queue, delivered_count, dropped_count>>
threadVars == <<pc, envelope, targets, current>>
history == <<received, evicted, offered>>
vars == <<sequences, total_published, subVars, threadVars, history>>

Envelope == [channel: Channels, kind: Kinds \union {Heartbeat},
             sequence: Nat, id: Nat, by: Threads]

PC == {"idle", "store", "dispatch", "deliver", "append", "count", "evict",
       "reput"}

(* Mutant: a queue is full one envelope too late.                          *)
FullTooLate(s) == Len(queue[s]) > Capacity

(* queue.full(). *)
Full(s) == Len(queue[s]) >= Capacity

(* Mutant: the pump forwards critical events only, the others stay.        *)
CriticalReady(s) == queue[s] # <<>> /\ Head(queue[s]).kind \in Critical

(* The pump's queue.get() has something to return.                         *)
Ready(s) == queue[s] # <<>>

(* The subscriptions an envelope is dispatched to: those of its channel    *)
(* and the wildcard ones whose filter accepts it.                          *)
Matching(e) ==
  {s \in Subs : /\ status[s] = "open"
                /\ ChannelOf[s] \in {e.channel, Wildcard}
                /\ e.kind \in Admits[s]}

Goto(t, label) == pc' = [pc EXCEPT ![t] = label]

Init ==
  /\ sequences = [ch \in Channels |-> 0]
  /\ total_published = 0
  /\ status = [s \in Subs |-> "new"]
  /\ queue = [s \in Subs |-> <<>>]
  /\ delivered_count = [s \in Subs |-> 0]
  /\ dropped_count = [s \in Subs |-> 0]
  /\ pc = [t \in Threads |-> "idle"]
  /\ envelope = [t \in Threads |-> None]
  /\ targets = [t \in Threads |-> {}]
  /\ current = [t \in Threads |-> None]
  /\ received = [s \in Subs |-> <<>>]
  /\ evicted = [s \in Subs |-> 0]
  /\ offered = [s \in Subs |-> 0]

-----------------------------------------------------------------------------
(* get_next_sequence, first half: read the counter of the channel.  Called *)
(* by publish on any thread and by the WebSocket handler for a heartbeat.  *)
ReadSequence(t, ch, kind) ==
  /\ pc[t] = "idle"
  /\ kind = Heartbeat => t = Loop
  /\ total_published < MaxPublished
  /\ kind = Heartbeat => sequences[ch] < MaxBeat
  /\ envelope' = [envelope EXCEPT ![t] =
                    [channel |-> ch, kind |-> kind,
                     sequence |-> sequences[ch] + 1, id |-> 0, by |-> t]]
  /\ Goto(t, "store")
  /\ UNCHANGED <<sequences, total_published, subVars, targets, current, history>>

(* Mutant: the number is not written back.                                 *)
StoreNothing(t) == pc[t] = "store" /\ UNCHANGED sequences

(* get_next_sequence, second half: store the number that was computed.     *)
StoreNumber(t) ==
  /\ pc[t] = "store"
  /\ sequences' = [sequences EXCEPT
                     ![envelope[t].channel] = envelope[t].sequence]

(* The envelope of publish, with a fresh identity (event_id).              *)
Stamped(e, n) == [channel |-> e.channel, kind |-> e.kind,
                  sequence |-> e.sequence, id |-> n, by |-> e.by]

(* In publish the store is followed by the count and the new envelope.     *)
StoreSequence(t) ==
  /\ StoreNumber(t)
  /\ envelope[t].kind # Heartbeat
  /\ total_published' = total_published + 1
  /\ envelope' = [envelope EXCEPT ![t] = Stamped(envelope[t], total_published + 1)]
  /\ Goto(t, "dispatch")
  /\ UNCHANGED <<subVars, targets, current, history>>

(* A greeting or pong is sent to its own socket, past every queue.         *)
StoreHeartbeat(t) ==
  /\ StoreNumber(t)
  /\ envelope[t].kind = Heartbeat
  /\ Goto(t, "idle")
  /\ UNCHANGED <<total_published, envelope, subVars, targets, current, history>>

(* _dispatch copies the lists of subscribers before it visits them.        *)
CopyTargets(t) ==
  /\ pc[t] = "dispatch"
  /\ targets' = [targets EXCEPT ![t] = Matching(envelope[t])]
  /\ offered' = [s \in Subs |-> IF s \in Matching(envelope[t])
                                THEN offered[s] + 1 ELSE offered[s]]
  /\ Goto(t, "deliver")
  /\ UNCHANGED <<sequences, total_published, subVars, envelope, current,
                 received, evicted>>

(* Mutant: the loop over the targets visits one of them again.             *)
VisitAgain(t, s) == UNCHANGED targets

(* The loop over the targets of a publish goes on to the next one.         *)
Visited(t, s) == targets' = [targets EXCEPT ![t] = @ \ {s}]

(* queue.full() is false, here and again inside put_nowait.                *)
FindRoom(t, s) ==
  /\ pc[t] = "deliver"
  /\ s \in targets[t]
  /\ ~Full(s)
  /\ current' = [current EXCEPT ![t] = s]
  /\ Goto(t, "append")
  /\ UNCHANGED <<sequences, total_published, subVars, envelope, targets, history>>

(* The append at the end of put_nowait, which no longer looks at the size. *)
PutEnvelope(t) ==
  /\ pc[t] = "append"
  /\ queue' = [queue EXCEPT ![current[t]] = Append(@, envelope[t])]
  /\ Goto(t, "count")
  /\ UNCHANGED <<sequences, total_published, status, delivered_count,
                 dropped_count, envelope, targets, current, history>>

(* Mutant: what was put is not counted.                                    *)
CountNothing(s) == UNCHANGED delivered_count

(* Mutant: a delivery is taken off the count, as off a remaining budget.   *)
CountDown(s) == delivered_count' = [delivered_count EXCEPT ![s] = @ - 1]

CountOne(s) == delivered_count' = [delivered_count EXCEPT ![s] = @ + 1]

(* put_nowait has returned; its envelope may be gone already.              *)
CountDelivered(t) ==
  /\ pc[t] = "count"
  /\ CountOne(current[t])
  /\ Visited(t, current[t])
  /\ Goto(t, "deliver")
  /\ UNCHANGED <<sequences, total_published, status, queue, dropped_count,
                 envelope, current, history>>

(* Mutant: nobody counts what is dropped.                                  *)
DropUncounted(s) == UNCHANGED dropped_count

(* The first line of _handle_overflow.                                     *)
CountDrop(s) == dropped_count' = [dropped_count EXCEPT ![s] = @ + 1]

(* Mutant: publish waits for room, as the queue's put would.               *)
DropNewWaits(t, s) == FALSE

(* _handle_overflow for a non-critical event: it is counted and forgotten. *)
DropNew(t, s) ==
  /\ pc[t] = "deliver"
  /\ s \in targets[t]
  /\ Full(s)
  /\ envelope[t].kind \notin Critical
  /\ CountDrop(s)
  /\ Visited(t, s)
  /\ UNCHANGED <<sequences, total_published, status, queue, delivered_count,
                 pc, envelope, current, history>>

(* _handle_overflow for a critical event: count, then make room.           *)
BeginEviction(t, s) ==
  /\ pc[t] = "deliver"
  /\ s \in targets[t]
  /\ Full(s)
  /\ envelope[t].kind \in Critical
  /\ CountDrop(s)
  /\ current' = [current EXCEPT ![t] = s]
  /\ Goto(t, "evict")
  /\ UNCHANGED <<sequences, total_published, status, queue, delivered_count,
                 envelope, targets, history>>

(* Mutant: only a head that is not critical can be evicted.                *)
NonCriticalHead(s) == queue[s] # <<>> /\ Head(queue[s]).kind \notin Critical

(* get_nowait finds something to remove.                                   *)
Evictable(s) == queue[s] # <<>>

(* get_nowait removes the oldest envelope whatever its type; QueueEmpty is *)
(* swallowed.                                                              *)
EvictOldest(t) ==
  /\ pc[t] = "evict"
  /\ LET s == current[t] IN
       \/ /\ ~Evictable(s)
          /\ UNCHANGED <<queue, evicted>>
       \/ /\ Evictable(s)
          /\ queue' = [queue EXCEPT ![s] = Tail(@)]
          /\ evicted' = [evicted EXCEPT ![s] = @ + 1]
  /\ Goto(t, "reput")
  /\ UNCHANGED <<sequences, total_published, status, delivered_count,
                 dropped_count, envelope, targets, current, received, offered>>

(* The second put_nowait finds the room made by the eviction, or another   *)
(* thread has taken it: then the event is lost with a log line only.       *)
PutAfterEviction(t) ==
  /\ pc[t] = "reput"
  /\ \/ /\ ~Full(current[t])
        /\ Goto(t, "append")
        /\ UNCHANGED targets
     \/ /\ Full(current[t])
        /\ Goto(t, "deliver")
        /\ Visited(t, current[t])
  /\ UNCHANGED <<sequences, total_published, subVars, envelope, current, history>>

(* publish returns once every target has been visited.                     *)
Return(t) ==
  /\ pc[t] = "deliver"
  /\ targets[t] = {}
  /\ Goto(t, "idle")
  /\ UNCHANGED <<sequences, total_published, subVars, envelope, targets,
                 current, history>>

-----------------------------------------------------------------------------
(* Steps of the event loop's own code.                                     *)
LoopFree == pc[Loop] = "idle"

Subscribe(s) ==
  /\ LoopFree
  /\ status[s] = "new"
  /\ status' = [status EXCEPT ![s] = "open"]
  /\ UNCHANGED <<sequences, total_published, queue, delivered_count,
                 dropped_count, threadVars, history>>

(* A thread that copied the list before this step still puts into the      *)
(* queue afterwards.                                                       *)
Unsubscribe(s) ==
  /\ LoopFree
  /\ status[s] = "open"
  /\ status' = [status EXCEPT ![s] = "closed"]
  /\ UNCHANGED <<sequences, total_published, queue, delivered_count,
                 dropped_count, threadVars, history>>

(* The connection's pump takes the oldest envelope.                        *)
Take(s) ==
  /\ LoopFree
  /\ status[s] = "open"
  /\ Ready(s)
  /\ received' = [received EXCEPT ![s] = Append(@, Head(queue[s]))]
  /\ queue' = [queue EXCEPT ![s] = Tail(@)]
  /\ UNCHANGED <<sequences, total_published, status, delivered_count,
                 dropped_count, threadVars, evicted, offered>>

Visit(t) ==
  \/ \E s \in Subs : FindRoom(t, s) \/ DropNew(t, s) \/ BeginEviction(t, s)
  \/ PutEnvelope(t)
  \/ CountDelivered(t)
  \/ EvictOldest(t)
  \/ PutAfterEviction(t)

Publish(t) ==
  \/ StoreSequence(t)
  \/ StoreHeartbeat(t)
  \/ CopyTargets(t)
  \/ Visit(t)
  \/ Return(t)

Next ==
  \/ \E t \in Threads, ch \in Channels, kind \in Kinds \union {Heartbeat} :
       ReadSequence(t, ch, kind)
  \/ \E t \in Threads : Publish(t)
  \/ \E s \in Subs : Subscribe(s) \/ Unsubscribe(s) \/ Take(s)

(* A publish that began runs to its end, and an open connection's pump     *)
(* keeps taking: the scheduler starves neither a thread nor the loop.      *)
Fairness ==
  /\ \A t \in Threads : WF_vars(Publish(t))
  /\ \A s \in Subs : SF_vars(Take(s))

Spec == Init /\ [][Next]_vars /\ Fairness

-----------------------------------------------------------------------------
(* Properties of any number of threads. *)

TypeOK ==
  /\ sequences \in [Channels -> Nat]
  /\ total_published \in Nat
  /\ status \in [Subs -> {"new", "open", "closed"}]
  /\ queue \in [Subs -> Seq(Envelope)]
  /\ delivered_count \in [Subs -> Nat]
  /\ dropped_count \in [Subs -> Nat]
  /\ pc \in [Threads -> PC]
  /\ envelope \in [Threads -> Envelope \union {None}]
  /\ targets \in [Threads -> SUBSET Subs]
  /\ current \in [Threads -> Subs \union {None}]
  /\ received \in [Subs -> Seq(Envelope)]
  /\ evicted \in [Subs -> Nat]
  /\ offered \in [Subs -> Nat]

(* The threads that have put into the queue of s and not yet counted it.   *)
Counting(s) == {t \in Threads : pc[t] = "count" /\ current[t] = s}

(* The threads that still owe s an outcome that no counter shows yet.      *)
Owing(s) == {t \in Threads :
               s \in targets[t] /\ ~(current[t] = s /\ pc[t] \in {"evict", "reput"})}

(* What went through the queue of s, oldest first.                         *)
Feed(s) == received[s] \o queue[s]

(* put_nowait tests the size and appends in two steps, so the queue of a   *)
(* subscription can exceed its maxsize, but by no more than one envelope   *)
(* for each other publishing thread.                                       *)
QueueBound ==
  \A s \in Subs : Len(queue[s]) + 1 <= Capacity + Cardinality(Threads)

(* delivered_count counts exactly what entered the queue, but for the puts *)
(* being counted: every such envelope was taken, was evicted, or is still  *)
(* there, whatever the interleaving of puts, counts, eviction and pump.    *)
DeliveredExact ==
  \A s \in Subs :
    delivered_count[s] + Cardinality(Counting(s))
      = Len(received[s]) + Len(queue[s]) + evicted[s]

(* An envelope that matched a subscription and never entered its queue is  *)
(* in dropped_count: _handle_overflow counts before it tries anything.     *)
NoSilentLoss ==
  \A s \in Subs :
    offered[s] <= delivered_count[s] + dropped_count[s] + Cardinality(Owing(s))

(* One thread's events reach a subscriber at most once and in the order in *)
(* which that thread published them, even past evictions and drops.        *)
ThreadFifo ==
  \A s \in Subs : \A i, j \in DOMAIN Feed(s) :
    i < j /\ Feed(s)[i].by = Feed(s)[j].by => Feed(s)[i].id < Feed(s)[j].id

(* publish never waits for a subscriber: it returns whatever the queues.   *)
PublishReturns == \A t \in Threads : pc[t] # "idle" ~> pc[t] = "idle"

Queued(s, n) == \E i \in DOMAIN queue[s] : queue[s][i].id = n

(* An envelope does not stay in the queue of an open connection: it is     *)
(* taken or evicted.                                                       *)
QueuedEventuallyLeaves ==
  \A s \in Subs, n \in 1 .. MaxPublished :
    Queued(s, n) ~> (~Queued(s, n) \/ status[s] = "closed")

-----------------------------------------------------------------------------
(* Properties of the event loop alone (Threads = {Loop}).                  *)

(* With one thread dropped_count is exact: what matched a subscription and *)
(* was not lost is taken or queued, so get_stats reports the true loss.    *)
DroppedExact ==
  LoopFree => \A s \in Subs :
    offered[s] = Len(received[s]) + Len(queue[s]) + dropped_count[s]

(* With one thread an eviction always makes room for the critical event    *)
(* that caused it, so the second put cannot fail.                          *)
EvictionMakesRoom ==
  \A t \in Threads : pc[t] = "reput" => ~Full(current[t])

(* The sequence numbers a subscriber sees on a channel strictly increase.  *)
StrictlyIncreasing ==
  \A s \in Subs : \A i, j \in DOMAIN Feed(s) :
    i < j /\ Feed(s)[i].channel = Feed(s)[j].channel
      => Feed(s)[i].sequence < Feed(s)[j].sequence

(* Without other threads the loop loses nothing silently, evicts only to   *)
(* gain room, and numbers what a subscriber receives in increasing order   *)
(* (core/events.py:73-77, 154-184).                                        *)
LoopExact == DroppedExact /\ EvictionMakesRoom /\ StrictlyIncreasing

(* The last sequence number a consumer took on each channel.               *)
LastTaken ==
  [s \in Subs |-> [ch \in Channels |->
     LET nums == {received[s][i].sequence :
                    i \in {j \in DOMAIN received[s] : received[s][j].channel = ch}}
     IN  IF nums = {} THEN 0 ELSE CHOOSE n \in nums : \A m \in nums : m <= n]]

Feeds == INSTANCE OrderedFeed WITH issued <- sequences, seen <- LastTaken

(* With one thread the bus implements the ordered feed: the counter of a   *)
(* channel goes up one by one and what is taken is always a higher number. *)
ImplementsOrderedFeed == Feeds!Spec
=============================================================================
