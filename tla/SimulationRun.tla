--------------------------- MODULE SimulationRun ---------------------------
(* One run of the simulation platform: its row, its session in the         *)
(* orchestrator, the adapter that owns an engine process, the telemetry    *)
(* loop, and the sockets that watch it.                                    *)
(*                                                                         *)
(* Everything runs on the event loop, so a handler is atomic between two   *)
(* awaits.  start suspends while the process is created and settles, stop  *)
(* while the process ends; neither looks at the status of the run, so two  *)
(* of them may overlap.  The n-th start owns process n and loop n.         *)
EXTENDS Naturals, FiniteSets

CONSTANTS
    Slots,       \* bound: requests in flight on the event loop
    Clients,     \* sockets that may watch the run
    Watchers,    \* those that watch it from before its start
    Engines,     \* the adapters: a subset of {"px4", "ardupilot", "gazebo"}
    MaxStarts,   \* bound: start requests
    MaxChanges,  \* bound: connections, disconnections and broken sockets
    MaxArrivals  \* bound: starts and changes of the sockets altogether

VARIABLES
    launch,      \* what a start can do on this host
    runRow,      \* status column of the run's row
    run,         \* SimulationRunSession.status
    adapter,     \* BaseSimulationAdapter.status
    managed,     \* adapter.managed_process: 0 or a process
    process,     \* the engine processes of the host
    loop,        \* the telemetry tasks
    task,        \* session._loop_task: 0 or a loop
    call,        \* the requests
    starts,      \* start requests so far
    gauge,       \* SIMULATION_ACTIVE_RUNS: increments minus decrements
    sockets,     \* session.active_websockets
    broken,      \* sockets whose peer is gone
    served,      \* watchers that got a sample since they connected
    changes,     \* changes of the sockets so far
    misused      \* history: a start or stop that overlapped or was out of turn

vars == <<launch, runRow, run, adapter, managed, process, loop, task, call,
          starts, gauge, sockets, broken, served, changes, misused>>
socketVars == <<sockets, broken, served, changes>>

Starts == 1..MaxStarts
Calls == 1..Slots
Status == {"CREATED", "RUNNING", "PAUSED", "STOPPED", "FAILED"}
Active == {"RUNNING", "PAUSED"}
NoLoop == [pc |-> "none", left |-> {}, dead |-> {}, size |-> 0, cancelled |-> FALSE]
NoCall == [pc |-> "idle", n |-> 0, seen |-> "CREATED"]

(* Without an executable an autopilot runs in a deterministic fallback and *)
(* the physics engine fails.                                               *)
Launch(engine, binary) ==
    IF binary THEN "process" ELSE IF engine = "gazebo" THEN "blocked" ELSE "fallback"

Init ==
    /\ \E engine \in Engines, binary \in BOOLEAN : launch = Launch(engine, binary)
    /\ runRow = "CREATED" /\ run = "CREATED" /\ adapter = "CREATED"
    /\ managed = 0
    /\ process = [n \in Starts |-> "absent"]
    /\ loop = [n \in Starts |-> NoLoop]
    /\ task = 0
    /\ call = [c \in Calls |-> NoCall]
    /\ starts = 0
    /\ gauge = 0
    /\ sockets = Watchers /\ broken = {} /\ served = {}
    /\ changes = 0
    /\ misused = FALSE

(* A request read the row when it came; the commit writes the status only  *)
(* when it differs from what was read.                                     *)
WriteRow(seen, status) == runRow' = IF seen = status THEN runRow ELSE status

(* A request takes the first free slot: which one is of no consequence. *)
Free(c) == call[c].pc = "idle" /\ \A x \in 1..(c - 1) : call[x].pc # "idle"

OthersIdle(c) == \A x \in Calls \ {c} : call[x].pc = "idle"

-----------------------------------------------------------------------------
(* Start *)

(* The end of a start: the session and the row follow the adapter, and the *)
(* telemetry loop begins; an earlier loop is not looked for.               *)
Started(c, n, seen) ==
    /\ adapter' = "RUNNING"
    /\ run' = "RUNNING"
    /\ WriteRow(seen, "RUNNING")
    /\ gauge' = gauge + 1
    /\ task' = n
    /\ loop' = [loop EXCEPT ![n].pc = "asleep"]
    /\ call' = [call EXCEPT ![c] = NoCall]

StartFailed(c, seen) ==
    /\ adapter' = "FAILED"
    /\ run' = "FAILED"
    /\ WriteRow(seen, "FAILED")
    /\ call' = [call EXCEPT ![c] = NoCall]
    /\ UNCHANGED <<gauge, task, loop>>

ArriveStart(c) ==
    /\ Free(c)
    /\ starts < MaxStarts /\ starts + changes < MaxArrivals
    /\ starts' = starts + 1
    /\ misused' = (misused \/ run \in Active \/ ~OthersIdle(c))
    /\ IF launch = "process"
       THEN /\ call' = [call EXCEPT ![c] = [pc |-> "spawning", n |-> starts + 1,
                                                    seen |-> runRow]]
            /\ UNCHANGED <<adapter, run, runRow, gauge, task, loop>>
       ELSE IF launch = "fallback" THEN Started(c, starts + 1, runRow) ELSE StartFailed(c, runRow)
    /\ UNCHANGED <<managed, process>>
    /\ UNCHANGED <<launch, socketVars>>

(* The process was created and the adapter refers to it; whatever the      *)
(* adapter referred to before is forgotten.                                *)
Spawned(c) ==
    /\ call[c].pc = "spawning"
    /\ process' = [process EXCEPT ![call[c].n] = "running"]
    /\ managed' = call[c].n
    /\ call' = [call EXCEPT ![c].pc = "settling"]
    /\ UNCHANGED <<runRow, run, adapter, loop, task, starts, gauge, misused>>
    /\ UNCHANGED <<launch, socketVars>>

SpawnFailed(c) ==
    /\ call[c].pc = "spawning"
    /\ StartFailed(c, call[c].seen)
    /\ UNCHANGED <<managed, process, starts, misused>>
    /\ UNCHANGED <<launch, socketVars>>

(* After the pause for startup the adapter asks the process it refers to   *)
(* by then: its own, another start's, or none, which raises.               *)
Settled(c) ==
    /\ call[c].pc = "settling"
    /\ IF managed # 0 /\ process[managed] # "exited"
       THEN Started(c, call[c].n, call[c].seen)
       ELSE StartFailed(c, call[c].seen)
    /\ UNCHANGED <<managed, process, starts, misused>>
    /\ UNCHANGED <<launch, socketVars>>

-----------------------------------------------------------------------------
(* Pause, resume and stop *)

(* The route writes the row even when the adapter refused. *)
Pause(c) ==
    /\ Free(c)
    /\ runRow' = "PAUSED"
    /\ IF adapter = "RUNNING"
       THEN adapter' = "PAUSED" /\ run' = "PAUSED"
       ELSE UNCHANGED <<adapter, run>>
    /\ UNCHANGED <<managed, process, loop, task, call, starts, gauge, misused>>
    /\ UNCHANGED <<launch, socketVars>>

Resume(c) ==
    /\ Free(c)
    /\ runRow' = "RUNNING"
    /\ IF adapter = "PAUSED"
       THEN adapter' = "RUNNING" /\ run' = "RUNNING"
       ELSE UNCHANGED <<adapter, run>>
    /\ UNCHANGED <<managed, process, loop, task, call, starts, gauge, misused>>
    /\ UNCHANGED <<launch, socketVars>>

(* Mutant: the loop is left to find out for itself. *)
CancelsNothing == loop

Cancelled == IF task # 0 /\ loop[task].pc # "done"
             THEN [loop EXCEPT ![task].cancelled = TRUE] ELSE loop

(* The last part of stop.  The gauge stops at zero here only to bound it:  *)
(* the history already says that the run was misused.                      *)
Stopped(c, seen) ==
    /\ adapter' = "STOPPED"
    /\ run' = "STOPPED"
    /\ WriteRow(seen, "STOPPED")
    /\ gauge' = IF gauge = 0 THEN 0 ELSE gauge - 1
    /\ call' = [call EXCEPT ![c] = NoCall]

ArriveStop(c) ==
    /\ Free(c)
    /\ misused' = (misused \/ run \notin Active \/ ~OthersIdle(c))
    /\ loop' = Cancelled
    /\ IF managed = 0 \/ process[managed] = "exited"
       THEN /\ managed' = 0
            /\ Stopped(c, runRow)
            /\ UNCHANGED process
       ELSE /\ process' = [process EXCEPT ![managed] = "ending"]
            /\ call' = [call EXCEPT ![c] = [pc |-> "stopping", n |-> managed, seen |-> runRow]]
            /\ UNCHANGED <<managed, adapter, run, runRow, gauge>>
    /\ UNCHANGED <<task, starts>>
    /\ UNCHANGED <<launch, socketVars>>

(* The process has ended; the adapter forgets the process it refers to by  *)
(* then, which need not be that one.                                       *)
FinishStop(c) ==
    /\ call[c].pc = "stopping"
    /\ process[call[c].n] = "exited"
    /\ managed' = 0
    /\ Stopped(c, call[c].seen)
    /\ UNCHANGED <<process, loop, task, starts, misused>>
    /\ UNCHANGED <<launch, socketVars>>

(* A signalled process ends, of the first signal or of the second. *)
ProcessEnds(n) ==
    /\ process[n] = "ending"
    /\ process' = [process EXCEPT ![n] = "exited"]
    /\ UNCHANGED <<runRow, run, adapter, managed, loop, task, call, starts, gauge, misused>>
    /\ UNCHANGED <<launch, socketVars>>

(* A process may end by itself; nobody is told. *)
ProcessCrashes(n) ==
    /\ process[n] = "running"
    /\ process' = [process EXCEPT ![n] = "exited"]
    /\ UNCHANGED <<runRow, run, adapter, managed, loop, task, call, starts, gauge, misused>>
    /\ UNCHANGED <<launch, socketVars>>

-----------------------------------------------------------------------------
(* The telemetry loop and its sockets *)

LoopSays(n, rec) ==
    /\ loop' = [loop EXCEPT ![n] = rec]
    /\ UNCHANGED <<runRow, run, adapter, managed, process, task, call, starts, gauge, misused>>
    /\ UNCHANGED launch

(* Mutant: a loop that ends only when it is cancelled. *)
WakesUntilCancelled(n) ==
    /\ loop[n].pc = "asleep"
    /\ run = "PAUSED" => loop[n].cancelled
    /\ LoopSays(n, IF loop[n].cancelled
                   THEN [NoLoop EXCEPT !.pc = "done"]
                   ELSE [loop[n] EXCEPT !.pc = "sending", !.left = sockets, !.dead = {},
                                        !.size = Cardinality(sockets)])
    /\ UNCHANGED socketVars

(* A turn of the loop: it ends when cancelled or when the run is no longer *)
(* active; a running one takes a sample and begins to send it.             *)
Wake(n) ==
    /\ loop[n].pc = "asleep"
    /\ run = "PAUSED" => loop[n].cancelled
    /\ LoopSays(n, IF loop[n].cancelled \/ run \notin Active
                   THEN [NoLoop EXCEPT !.pc = "done"]
                   ELSE [loop[n] EXCEPT !.pc = "sending", !.left = sockets, !.dead = {},
                                        !.size = Cardinality(sockets)])
    /\ UNCHANGED socketVars

(* The set of sockets is iterated over an await: when its size has changed *)
(* the iteration raises, and the sample is lost for the sockets left.      *)
SendNext(n) ==
    /\ loop[n].pc = "sending"
    /\ loop[n].left # {}
    /\ IF loop[n].cancelled
       THEN LoopSays(n, [NoLoop EXCEPT !.pc = "done"]) /\ UNCHANGED served
       ELSE IF Cardinality(sockets) # loop[n].size
       THEN LoopSays(n, [NoLoop EXCEPT !.pc = "asleep"]) /\ UNCHANGED served
       ELSE \E s \in loop[n].left :
                IF s \in sockets \ broken
                THEN /\ LoopSays(n, [loop[n] EXCEPT !.left = @ \ {s}])
                     /\ served' = served \union ({s} \intersect Watchers)
                ELSE /\ LoopSays(n, [loop[n] EXCEPT !.left = @ \ {s}, !.dead = @ \union {s}])
                     /\ UNCHANGED served
    /\ UNCHANGED <<sockets, broken, changes>>

(* The end of a broadcast drops the sockets that could not be sent to. *)
EndBroadcast(n) ==
    /\ loop[n].pc = "sending"
    /\ loop[n].left = {}
    /\ LoopSays(n, [NoLoop EXCEPT !.pc = "asleep", !.cancelled = loop[n].cancelled])
    /\ sockets' = sockets \ loop[n].dead
    /\ UNCHANGED <<broken, served, changes>>

Change ==
    /\ changes < MaxChanges /\ starts + changes < MaxArrivals
    /\ changes' = changes + 1
    /\ UNCHANGED <<runRow, run, adapter, managed, process, loop, task, call, starts, gauge,
                   misused>>
    /\ UNCHANGED launch

Connect(s) ==
    /\ Change
    /\ s \notin sockets \union broken
    /\ sockets' = sockets \union {s}
    /\ served' = served \ {s}
    /\ UNCHANGED broken

Disconnect(s) ==
    /\ Change
    /\ s \in sockets
    /\ sockets' = sockets \ {s}
    /\ UNCHANGED <<broken, served>>

Break(s) ==
    /\ Change
    /\ s \in sockets \ broken
    /\ broken' = broken \union {s}
    /\ UNCHANGED <<sockets, served>>

-----------------------------------------------------------------------------
Handle(c) ==
    \/ ArriveStart(c) \/ Pause(c) \/ Resume(c) \/ ArriveStop(c)

Advance(c) == Spawned(c) \/ SpawnFailed(c) \/ Settled(c) \/ FinishStop(c)

Turn(n) == Wake(n) \/ SendNext(n) \/ EndBroadcast(n)

Next ==
    \/ \E c \in Calls : Handle(c) \/ Advance(c)
    \/ \E n \in Starts : ProcessEnds(n) \/ ProcessCrashes(n) \/ Turn(n)
    \/ \E s \in Clients : Connect(s) \/ Disconnect(s) \/ Break(s)

(* The event loop runs every task that can run, and a signalled process    *)
(* ends; nothing else has to happen.  Without the second a run whose stop  *)
(* never returns would stay RUNNING with its loop already cancelled.       *)
Fairness ==
    /\ WF_vars(\E c \in Calls : Advance(c)) /\ WF_vars(\E n \in Starts : ProcessEnds(n))
    /\ \A n \in Starts : WF_vars(Turn(n))

Spec == Init /\ [][Next]_vars /\ Fairness

-----------------------------------------------------------------------------
(* Properties *)

TypeOK ==
    /\ {runRow, run, adapter} \subseteq Status
    /\ managed \in 0..MaxStarts /\ task \in 0..MaxStarts
    /\ process \in [Starts -> {"absent", "running", "ending", "exited"}]
    /\ \A n \in Starts : loop[n].left \subseteq Clients
    /\ \A c \in Calls : call[c].pc \in {"idle", "spawning", "settling", "stopping"}
    /\ sockets \subseteq Clients /\ broken \subseteq Clients /\ served \subseteq Clients

AllIdle == \A c \in Calls : call[c].pc = "idle"
Live(n) == loop[n].pc \in {"asleep", "sending"} /\ ~loop[n].cancelled

(* As long as a run is started only when it is not active, stopped only    *)
(* when it is, and one request at a time, no engine process escapes the    *)
(* adapter, one loop at most feeds the sockets of an active run, the gauge *)
(* counts the run exactly while it is active, and a row that says the run  *)
(* has ended is right.                                                     *)
OrderlyRun ==
    ~misused =>
        /\ \A n \in Starts : process[n] = "running" => managed = n
        /\ Cardinality({n \in Starts : Live(n) /\ run \in Active}) <= 1
        /\ AllIdle => gauge = IF run \in Active THEN 1 ELSE 0
        /\ AllIdle /\ run = "STOPPED" => \A n \in Starts : process[n] \in {"absent", "exited"}
        /\ AllIdle => adapter = run
        /\ AllIdle /\ runRow \in {"STOPPED", "FAILED"} => run = runRow

(* A loop does not outlive its run: once the run is no longer active, each *)
(* loop ends or the run is started again, even the loops that a later      *)
(* start has dropped the reference to.                                     *)
LoopsEnd ==
    \A n \in Starts : (loop[n].pc # "none" /\ run \notin Active)
                      ~> (loop[n].pc = "done" \/ run \in Active)

(* A socket that watched the run from the start and stays is sent a sample *)
(* while the run is running, though connections made meanwhile abort       *)
(* broadcasts.                                                             *)
SocketsServed ==
    \A s \in Watchers : []<>(s \notin sockets \ broken \/ run # "RUNNING" \/ s \in served)

=============================================================================
