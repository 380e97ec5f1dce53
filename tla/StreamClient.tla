---------------------------- MODULE StreamClient ----------------------------
(* One realtime stream between the handler of a WebSocket and a hook of    *)
(* the operator interface, with its consumer: the operational view, which  *)
(* fetches again when it sees a gap; the list of incidents, which applies  *)
(* what it hears; or one that shows nothing, under which the hook is       *)
(* looked at alone: its numbers ("numbers") or its sockets ("sockets").    *)
(* What is shown is the version of one incident.                           *)
(*                                                                         *)
(* A socket's record holds both of its ends: the page's readyState         *)
(* ("failing" is a socket closed before it opened), the handler (door),    *)
(* whether the connection is up, the queue of the subscription and the     *)
(* messages on the wire.  Callbacks of a socket run when the browser       *)
(* delivers them, also after the hook has opened another one.              *)
EXTENDS Naturals, Sequences, FiniteSets, FiniteSetsExt

CONSTANTS
    MaxSockets,     \* sockets that exist at once
    Versions,       \* of each consumer: the versions of the incident
    QueueSize,      \* maxsize of a subscription (100 in the code)
    MaxRetries,     \* of the hook (10 in the code)
    Happenings      \* of each consumer: how many effects that run again, heartbeats, lost
                    \* connections, refusals, restarts and failed fetches, altogether

VARIABLES
    socket,     \* the sockets of the page and the server's end of each
    server,     \* the channel's counter, the row's version, what is not yet published
    hook,       \* the refs and the state of useWebSocketStream
    data,       \* the consumer: what it shows, its fetch, its batch
    past,       \* history: see Init
    happened    \* the number of effects, heartbeats and faults so far

vars == <<socket, server, hook, data, past, happened>>

Consumers == {"view", "list", "numbers", "sockets"}
Sockets == 1..MaxSockets
NoSocket == 0

Closed == [page |-> "none", door |-> "none", up |-> FALSE, queue |-> <<>>, wire |-> <<>>]
Subscribed == {"greeting", "streaming"}   \* and "leaked", whose queue nobody reads
Greeting(n) == [number |-> n, kind |-> "greeting", version |-> 0]
Pong(n) == [number |-> n, kind |-> "pong", version |-> 0]
Event(n, v) == [number |-> n, kind |-> "event", version |-> v]

Asked == [Closed EXCEPT !.page = "connecting", !.door = "asked", !.up = TRUE]

Init ==
    /\ socket = [s \in Sockets |-> Closed]
    /\ server = [counter |-> 0, version |-> 1, unpublished |-> {}]
    /\ hook = [mounted |-> FALSE, enabled |-> TRUE, status |-> "DISCONNECTED", ref |-> NoSocket,
               retries |-> 0, timer |-> FALSE, beating |-> FALSE, last |-> 0]
    /\ \E c \in Consumers :
          data = [consumer |-> c, shown |-> 0, fetch |-> "idle", value |-> 0, newest |-> 0,
                  batch |-> 0]
    /\ past = [crossed |-> FALSE,   \* a closed socket's callback met its successor
               first |-> 0,         \* the first number heard of this server process
               heard |-> {}, alarmed |-> {}, events |-> {},   \* numbers of this process
               outlived |-> FALSE,  \* the list's newest number is of an earlier process
               flushed |-> 0,       \* the newest version the list took from the stream
               lost |-> 0]          \* the newest version that did not reach the list
    /\ happened = 0

(* Something from outside happens. *)
Happen == happened < Happenings[data.consumer] /\ happened' = happened + 1

Later(a, b) == IF a < b THEN b ELSE a
Carried(s) == {0} \union {socket[s].queue[i].version : i \in DOMAIN socket[s].queue}
                  \union {socket[s].wire[i].version : i \in DOMAIN socket[s].wire}

(* What a socket still carries is lost with it. *)
Losing(V) == IF data.consumer = "list" THEN [past EXCEPT !.lost = Max({@} \union V)] ELSE past
LostWith(S) == Losing(UNION {Carried(s) : s \in S})

-----------------------------------------------------------------------------
(* The hook *)

(* close() on the socket that the hook refers to. *)
Shut(r) ==
    IF r = NoSocket THEN socket
    ELSE [socket EXCEPT ![r].page = CASE @ = "open" -> "closing"
                                      [] @ = "connecting" -> "failing"
                                      [] OTHER -> @]

(* Mutant: the reconnection timer goes on. *)
TimerKept(h, s) ==
    [h EXCEPT !.ref = s, !.beating = FALSE,
              !.status = IF h.retries > 0 THEN "RECONNECTING" ELSE "CONNECTING"]

(* connect(): timers cleared, the old socket closed, a new one on its way. *)
Connecting(h, s) ==
    [h EXCEPT !.ref = s, !.timer = FALSE, !.beating = FALSE,
              !.status = IF h.retries > 0 THEN "RECONNECTING" ELSE "CONNECTING"]

(* A record that can stand for a new socket; which one does not matter. *)
Free(s) == socket[s].page = "none" /\ socket[s].door \in {"none", "leaked"}

Connect(h) ==
    \E s \in Sockets :
        /\ Free(s) /\ \A t \in 1..(s - 1) : ~Free(t)
        /\ socket' = [Shut(h.ref) EXCEPT ![s] = Asked]
        /\ hook' = Connecting(h, s)
        /\ past' = LostWith({h.ref} \ {NoSocket})

(* disconnect(), and the cleanup that ran before it. *)
Disconnect(h) ==
    /\ socket' = Shut(h.ref)
    /\ hook' = [h EXCEPT !.ref = NoSocket, !.timer = FALSE, !.beating = FALSE,
                         !.retries = MaxRetries, !.status = "DISCONNECTED"]
    /\ past' = LostWith({h.ref} \ {NoSocket})

(* The hook connects, and a consumer that shows something fetches. *)
Mount ==
    /\ ~hook.mounted /\ happened = 0
    /\ Connect([hook EXCEPT !.mounted = TRUE])
    /\ data' = [data EXCEPT !.fetch = IF data.consumer \in {"view", "list"} THEN "sent"
                                      ELSE "idle"]
    /\ UNCHANGED <<server, happened>>

(* The effect runs again, after its cleanup: a change of what it depends   *)
(* on, or the second run of development mode.  (Bound: only where the      *)
(* sockets are looked at.)                                                 *)
RunEffect ==
    /\ hook.mounted /\ data.consumer = "sockets" /\ Happen
    /\ \E on \in BOOLEAN :
          IF on THEN Connect([hook EXCEPT !.enabled = TRUE])
                ELSE hook.enabled /\ Disconnect([hook EXCEPT !.enabled = FALSE])
    /\ UNCHANGED <<server, data>>

Unmount ==
    /\ hook.mounted /\ Happen
    /\ socket' = Shut(hook.ref)
    /\ hook' = [hook EXCEPT !.mounted = FALSE, !.ref = NoSocket, !.timer = FALSE, !.beating = FALSE]
    /\ past' = LostWith({hook.ref} \ {NoSocket})
    /\ UNCHANGED <<server, data>>

ReconnectTimer ==
    /\ hook.timer
    /\ Connect([hook EXCEPT !.timer = FALSE])
    /\ UNCHANGED <<server, data, happened>>

(* The view fetches again each time the stream becomes connected. *)
Reconciled(d, becomes) ==
    IF d.consumer = "view" /\ becomes THEN [d EXCEPT !.fetch = "sent"] ELSE d

OpenArrives(s) ==
    /\ socket[s].page = "connecting" /\ socket[s].up /\ socket[s].door # "asked"
    /\ socket' = [socket EXCEPT ![s].page = "open"]
    /\ IF hook.mounted
       THEN /\ hook' = [hook EXCEPT !.retries = 0, !.status = "CONNECTED", !.beating = TRUE]
            /\ data' = Reconciled(data, hook.status # "CONNECTED")
       ELSE UNCHANGED <<hook, data>>
    /\ UNCHANGED <<server, past, happened>>

(* onclose clears the hook's timers and its reference, whichever socket it *)
(* belongs to; only the code 1000 of a close() after the opening ends the  *)
(* attempts to connect.                                                    *)
AfterClose(h, deliberate) ==
    LET cleared == [h EXCEPT !.ref = NoSocket, !.timer = FALSE, !.beating = FALSE] IN
    CASE deliberate -> [cleared EXCEPT !.status = "DISCONNECTED"]
      [] ~deliberate /\ h.retries < MaxRetries ->
            [cleared EXCEPT !.retries = @ + 1, !.status = "RECONNECTING", !.timer = TRUE]
      [] OTHER -> [cleared EXCEPT !.status = "FAILED"]

CloseArrives(s) ==
    /\ socket[s].page # "none"
    /\ socket[s].page \in {"closing", "failing"} \/ ~socket[s].up
    /\ socket' = [socket EXCEPT ![s].page = "none", ![s].up = FALSE, ![s].wire = <<>>]
    /\ hook' = IF hook.mounted THEN AfterClose(hook, socket[s].page = "closing") ELSE hook
    /\ past' = [past EXCEPT !.crossed = @ \/ (hook.mounted /\ hook.ref \notin {s, NoSocket})]
    /\ UNCHANGED <<server, data, happened>>

-----------------------------------------------------------------------------
(* Messages *)

(* Mutant: one number may be missing. *)
GapOfTwo(m) == IF hook.last > 0 /\ m.kind # "pong" THEN (hook.last + 2)..(m.number - 1) ELSE {}

(* The numbers the continuity check reports as missing; a pong returns     *)
(* before it.                                                              *)
Gap(m) == IF hook.last > 0 /\ m.kind # "pong" THEN (hook.last + 1)..(m.number - 1) ELSE {}

(* The last number the hook has seen. *)
Continued(m) == IF m.kind = "pong" THEN hook.last ELSE m.number

(* Mutant: off by one. *)
FreshAfterOne(n) == n > data.newest + 1

(* The list takes only numbers above the newest it has taken. *)
Fresh(n) == n > data.newest

(* The view applies the event, which starts a fetch, because every change  *)
(* of lastUpdated does; so does a gap.                                     *)
ViewHears(m) ==
    data' = [data EXCEPT !.shown = IF m.kind = "event" /\ @ > 0 THEN m.version ELSE @,
                         !.fetch = IF m.kind = "event" \/ Gap(m) # {} THEN "sent" ELSE @]

(* A message the list takes. *)
Taken(m) == m.kind = "event" /\ Fresh(m.number)

(* The list keeps the last payload of each incident for the next frame. *)
ListHears(m) ==
    data' = IF Taken(m)
            THEN [data EXCEPT !.newest = m.number, !.batch = m.version] ELSE data

(* What the list loses by a message: an older payload over a newer one, or *)
(* a version it refuses because it remembers a number of an earlier        *)
(* process.                                                                *)
ListLoses(m) ==
    IF Taken(m) THEN {v \in {data.batch} : m.version < v}
                ELSE {v \in {m.version} : past.outlived}

Recorded(m) ==
    IF data.consumer # "numbers" \/ m.kind = "pong" THEN past
    ELSE [past EXCEPT !.first = IF @ = 0 THEN m.number ELSE @,
                      !.heard = @ \union {m.number},
                      !.alarmed = @ \union Gap(m)]

DeliverMessage(s) ==
    /\ socket[s].page = "open" /\ socket[s].wire # <<>>
    /\ socket' = [socket EXCEPT ![s].wire = Tail(@)]
    /\ LET m == Head(socket[s].wire) IN
       IF hook.mounted
       THEN /\ hook' = [hook EXCEPT !.last = Continued(m)]
            /\ CASE data.consumer = "view" -> ViewHears(m) /\ UNCHANGED past
                 [] data.consumer = "list" -> /\ ListHears(m)
                                               /\ past' = [Losing(ListLoses(m)) EXCEPT
                                                              !.outlived = @ /\ ~Taken(m)]
                 [] OTHER -> UNCHANGED data /\ past' = Recorded(m)
       ELSE UNCHANGED <<hook, data, past>>
    /\ UNCHANGED <<server, happened>>

(* The next frame: the batch is applied to the incidents that are listed. *)
Flush ==
    /\ data.batch > 0 /\ hook.mounted
    /\ data' = [data EXCEPT !.batch = 0,
                            !.shown = IF @ > 0 THEN data.batch ELSE @]
    /\ past' = [Losing({v \in {past.flushed} : data.batch < v})
                    EXCEPT !.flushed = Later(@, data.batch)]
    /\ UNCHANGED <<socket, server, hook, happened>>

-----------------------------------------------------------------------------
(* Fetches *)

ReadSnapshot ==
    /\ data.fetch = "sent" /\ hook.mounted
    /\ data' = [data EXCEPT !.fetch = "read", !.value = server.version]
    /\ UNCHANGED <<socket, server, hook, past, happened>>

(* The answer of the view sets lastUpdated, and so starts the next fetch. *)
AfterFetch(consumer) == IF consumer = "view" THEN "sent" ELSE "idle"

Respond ==
    /\ data.fetch = "read" /\ hook.mounted
    /\ data' = [data EXCEPT !.fetch = AfterFetch(data.consumer), !.shown = data.value, !.value = 0]
    /\ past' = Losing({v \in {past.flushed} : data.value < v})
    /\ UNCHANGED <<socket, server, hook, happened>>

FetchFails ==
    /\ data.fetch # "idle" /\ hook.mounted
    /\ Happen
    /\ data' = [data EXCEPT !.fetch = "idle", !.value = 0]
    /\ UNCHANGED <<socket, server, hook, past>>

(* The view polls; the interval is taken to be longer than a fetch. *)
Polls(consumer) == consumer = "view"

Poll ==
    /\ Polls(data.consumer) /\ data.fetch = "idle" /\ hook.mounted
    /\ data' = [data EXCEPT !.fetch = "sent"]
    /\ UNCHANGED <<socket, server, hook, past, happened>>

-----------------------------------------------------------------------------
(* The server *)

(* accept() and subscribe() run without a pause. *)
Accept(s) ==
    /\ socket[s].door = "asked" /\ socket[s].up
    /\ socket' = [socket EXCEPT ![s].door = "greeting"]
    /\ UNCHANGED <<server, hook, data, past, happened>>

Refuse(s) ==
    /\ socket[s].door = "asked" /\ Happen
    /\ socket' = [socket EXCEPT ![s].door = "none", ![s].up = FALSE]
    /\ UNCHANGED <<server, hook, data, past>>

Abandon(s) ==
    /\ socket[s].door = "asked" /\ ~socket[s].up
    /\ socket' = [socket EXCEPT ![s].door = "none"]
    /\ UNCHANGED <<server, hook, data, past, happened>>

(* The greeting takes a number after the subscription was registered. *)
Greet(s) ==
    /\ socket[s].door = "greeting"
    /\ server' = [server EXCEPT !.counter = @ + 1]
    /\ socket' = [socket EXCEPT ![s].door = "streaming",
                                ![s].wire = IF socket[s].up
                                            THEN <<Greeting(server.counter + 1)>> ELSE <<>>]
    /\ UNCHANGED <<hook, data, past, happened>>

Gone(s) == ~socket[s].up \/ socket[s].page \in {"closing", "failing"}

(* The send raises before the try block that would unsubscribe. *)
GreetFails(s) ==
    /\ socket[s].door = "greeting" /\ Gone(s)
    /\ server' = [server EXCEPT !.counter = @ + 1]
    /\ socket' = [socket EXCEPT ![s].door = "leaked"]
    /\ UNCHANGED <<hook, data, past, happened>>

Pump(s) ==
    /\ socket[s].door = "streaming" /\ socket[s].up /\ socket[s].queue # <<>>
    /\ socket' = [socket EXCEPT ![s].queue = Tail(@),
                                ![s].wire = Append(@, Head(socket[s].queue))]
    /\ UNCHANGED <<server, hook, data, past, happened>>

(* Mutant: the subscription stays. *)
StillStreaming(door) == door

(* The receiver, or a send of the pump, ends both tasks; then the finally  *)
(* block unsubscribes.                                                     *)
Ended(door) == "none"

EndStream(s) ==
    /\ socket[s].door = "streaming" /\ Gone(s)
    /\ socket' = [socket EXCEPT ![s].door = Ended(@), ![s].up = FALSE, ![s].queue = <<>>,
                                ![s].wire = <<>>]
    /\ UNCHANGED <<server, hook, data, past, happened>>

Commit ==
    /\ server.version < Versions[data.consumer]
    /\ server' = [server EXCEPT !.version = @ + 1,
                                !.unpublished = @ \union {server.version + 1}]
    /\ UNCHANGED <<socket, hook, data, past, happened>>

Full(s) == Len(socket[s].queue) = QueueSize

(* Events of incidents are critical: in a full queue the oldest makes room. *)
Queued(s, e) == Append(IF Full(s) THEN Tail(socket[s].queue) ELSE socket[s].queue, e)

Reached == {s \in Sockets : /\ socket[s].door \in Subscribed /\ socket[s].up
                            /\ socket[s].page \in {"connecting", "open"}}
Evicted == {Head(socket[s].queue).version : s \in {t \in Reached : Full(t)}}

(* Threads publish what they committed in any order. *)
Publish ==
    \E v \in server.unpublished :
        LET n == server.counter + 1 IN
        /\ server' = [server EXCEPT !.counter = n, !.unpublished = @ \ {v}]
        /\ socket' = [s \in Sockets |->
                          IF socket[s].door \in Subscribed
                          THEN [socket[s] EXCEPT !.queue = Queued(s, Event(n, v))]
                          ELSE socket[s]]
        /\ past' = [Losing(Evicted \union {u \in {v} : Reached = {}})
                        EXCEPT !.events = IF data.consumer = "numbers" THEN @ \union {n} ELSE @]
        /\ UNCHANGED <<hook, data, happened>>

(* A ping of this client is answered past the queue; other clients' pongs  *)
(* and greetings take numbers of the same channel.  (Bound: not where the  *)
(* sockets are looked at.)                                                 *)
Heartbeat ==
    /\ data.consumer # "sockets" /\ Happen
    /\ server' = [server EXCEPT !.counter = @ + 1]
    /\ \/ UNCHANGED socket
       \/ \E s \in Sockets :
              /\ hook.beating /\ hook.ref = s /\ socket[s].page = "open"
              /\ socket[s].door = "streaming" /\ socket[s].up
              /\ socket' = [socket EXCEPT ![s].wire = Append(@, Pong(server.counter + 1))]
    /\ UNCHANGED <<hook, data, past>>

Lose(s) ==
    /\ socket[s].up /\ socket[s].page # "none"
    /\ Happen
    /\ socket' = [socket EXCEPT ![s].up = FALSE, ![s].wire = <<>>]
    /\ past' = LostWith({s})
    /\ UNCHANGED <<server, hook, data>>

(* The counter and the queues are in memory. *)
Restart ==
    /\ Happen
    /\ socket' = [s \in Sockets |-> [socket[s] EXCEPT !.door = "none", !.up = FALSE,
                                                      !.queue = <<>>, !.wire = <<>>]]
    /\ past' = [Losing(server.unpublished \union UNION {Carried(s) : s \in Sockets})
                    EXCEPT !.outlived = data.newest > 0,
                           !.first = 0, !.heard = {}, !.alarmed = {}, !.events = {}]
    /\ server' = [server EXCEPT !.counter = 0, !.unpublished = {}]
    /\ UNCHANGED <<hook, data>>

-----------------------------------------------------------------------------
(* What goes on by itself: callbacks and frames of the browser, tasks and  *)
(* threads of the server.                                                  *)
Stream ==
    \/ \E s \in Sockets :
          \/ OpenArrives(s) \/ DeliverMessage(s) \/ CloseArrives(s)
          \/ Accept(s) \/ Abandon(s) \/ Greet(s) \/ Pump(s) \/ EndStream(s)
    \/ ReconnectTimer \/ Flush \/ Publish

Fetching == ReadSnapshot \/ Respond \/ Poll

Next ==
    \/ Mount \/ RunEffect \/ Unmount
    \/ Stream \/ Fetching
    \/ \E s \in Sockets : Refuse(s) \/ GreetFails(s) \/ Lose(s)
    \/ FetchFails \/ Commit \/ Heartbeat \/ Restart

Fairness == WF_vars(Stream) /\ WF_vars(Fetching)

Spec == Init /\ [][Next]_vars /\ Fairness

-----------------------------------------------------------------------------
(* Properties *)

TypeOK ==
    /\ \A s \in Sockets :
          /\ socket[s].page \in {"none", "connecting", "open", "closing", "failing"}
          /\ socket[s].door \in {"none", "asked", "leaked"} \union Subscribed
          /\ Len(socket[s].queue) <= QueueSize
    /\ hook.status \in {"DISCONNECTED", "CONNECTING", "CONNECTED", "RECONNECTING", "FAILED"}
    /\ hook.ref \in Sockets \union {NoSocket} /\ hook.retries \in 0..MaxRetries
    /\ data.fetch \in {"idle", "sent", "read"}
    /\ {data.shown, data.batch, past.flushed, past.lost} \subseteq 0..server.version
    /\ data.consumer \in Consumers

Alive == {s \in Sockets : socket[s].page \in {"connecting", "open"}}

(* Until the close of an old socket meets its successor, the hook has one  *)
(* socket, which it refers to, shows its state, and has no timer that      *)
(* would open another.                                                     *)
OneStream ==
    hook.mounted /\ ~past.crossed =>
        /\ Alive \subseteq {hook.ref}
        /\ hook.timer => Alive = {}
        /\ hook.status = "CONNECTED" => hook.ref # NoSocket /\ socket[hook.ref].page = "open"
        /\ hook.status \in {"DISCONNECTED", "FAILED"} => Alive = {} /\ ~hook.timer

OnTheWay ==
    UNION {{socket[s].queue[i].number : i \in DOMAIN socket[s].queue}
           \union {socket[s].wire[i].number : i \in DOMAIN socket[s].wire} : s \in Alive}

(* No loss is overlooked: an event between two messages that were heard of *)
(* the same server process was heard, is on its way, or was reported.      *)
LossReported ==
    \A n \in past.events :
        hook.mounted /\ past.first # 0 /\ past.first < n /\ (\E k \in past.heard : n < k)
            => n \in past.heard \union past.alarmed \union OnTheWay

Quiet ==
    /\ hook.mounted /\ data.batch = 0 /\ data.fetch = "idle"
    /\ server.unpublished = {} /\ OnTheWay = {}

(* A list that was loaded and has nothing left to hear shows the newest    *)
(* version, unless the event of that version never reached it or something *)
(* older came after it.                                                    *)
ListExplained ==
    data.consumer = "list" /\ Quiet /\ data.shown > 0 =>
        data.shown = server.version \/ past.lost = server.version

(* The stream is at rest again and again: it is not connecting, handlers   *)
(* of closed sockets have unsubscribed (unless their greeting failed), and *)
(* the view shows the newest version.                                      *)
Settled ==
    /\ hook.mounted => hook.status \notin {"CONNECTING", "RECONNECTING"}
    /\ \A s \in Sockets : socket[s].page = "none" => socket[s].door \notin {"greeting", "streaming"}
    /\ hook.mounted /\ data.consumer = "view" => data.shown = server.version

StreamSettles == []<>Settled

=============================================================================
