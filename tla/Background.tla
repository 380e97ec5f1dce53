----------------------------- MODULE Background -----------------------------
(* What goes on beside the requests: the telemetry loops and processes of  *)
(* simulation runs, the tasks of exports, and the realtime streams of the  *)
(* operator interface.  They share no state, so a behaviour belongs to one *)
(* of them, chosen at the start, and the others stay in an initial state.  *)
EXTENDS Naturals

CONSTANTS
    Slots, Clients, Watchers, Engines, MaxStarts, MaxChanges, MaxArrivals,  \* runs
    MaxRetries,                                                             \* exports
    Versions, Happenings, MaxSockets, QueueSize, Reconnects                 \* streams

VARIABLES
    part,
    launch, runRow, run, adapter, managed, process, loop, task, call, starts, gauge, sockets,
    broken, served, changes, misused,
    filters, record, worker, pending, database, closed, actor, fresh, exports, audits, torn,
    slipped,
    socket, server, hook, data, past, happened

Run == INSTANCE SimulationRun
Export == INSTANCE ExportTasks
Client == INSTANCE StreamClient WITH MaxRetries <- Reconnects

-----------------------------------------------------------------------------
Init ==
    /\ part \in {"run", "export", "client"}
    /\ Run!Init
    /\ part # "run" => launch = "fallback"
    /\ Export!Init
    /\ part # "export" => filters
    /\ Client!Init
    /\ part # "client" => data.consumer = "view"

runVars == <<launch, runRow, run, adapter, managed, process, loop, task, call, starts, gauge,
             sockets, broken, served, changes, misused>>
exportVars == <<filters, record, worker, pending, database, closed, actor, fresh, exports, audits,
                torn, slipped>>
clientVars == <<socket, server, hook, data, past, happened>>
vars == <<part, runVars, exportVars, clientVars>>

Next ==
    \/ /\ part = "run"
       /\ Run!Next
       /\ UNCHANGED <<part, exportVars, clientVars>>
    \/ /\ part = "export"
       /\ Export!Next
       /\ UNCHANGED <<part, runVars, clientVars>>
    \/ /\ part = "client"
       /\ Client!Next
       /\ UNCHANGED <<part, runVars, exportVars>>

Spec == Init /\ [][Next]_vars /\ Run!Fairness /\ Export!Fairness /\ Client!Fairness

-----------------------------------------------------------------------------
(* Simulation runs that are started and stopped in turn leave nothing      *)
(* behind; exports are stored with their audit events, and every copy of   *)
(* an export has one cause; a hook has one stream, overlooks no loss, and  *)
(* a list that is out of date missed the newest event.                     *)
BackgroundSound ==
    /\ part = "run" => Run!TypeOK /\ Run!OrderlyRun
    /\ part = "export" => Export!ExportsSound
    /\ part = "client" =>
           /\ Client!TypeOK
           /\ Client!OneStream /\ Client!LossReported /\ Client!ListExplained

(* Telemetry loops end with their run, sockets that stay are served, every *)
(* export task ends, and streams come to rest with their view up to date.  *)
BackgroundLive ==
    Run!LoopsEnd /\ Run!SocketsServed /\ Export!TaskEnds /\ Client!StreamSettles

=============================================================================
