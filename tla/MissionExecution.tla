-------------------------- MODULE MissionExecution --------------------------
(* One flight mission: its row and items, the requests that validate,      *)
(* upload, start, pause and abort it, and the progress the telemetry       *)
(* reports.                                                                *)
(*                                                                         *)
(* The routes run in the thread pool, each with a session of its own: a    *)
(* request loads the row, commits a status that depends on what it loaded, *)
(* and then changes the class-level progress, which is in memory only.     *)
EXTENDS Integers, Sequences, FiniteSets

CONSTANTS
    Callers,      \* requests in flight
    Payloads,     \* bound: the item lists a client may post
    MaxRestarts,  \* bound: restarts of the process
    MaxRequests   \* bound: requests after the creation

VARIABLES
    payload,      \* the items the mission was posted with
    mission,      \* status column, or "none" before the first commit
    items,        \* rows of mission_items
    progress,     \* _active_progress: a status, or "none"
    flight,       \* items the vehicle holds: the last upload
    caller,       \* the requests
    served,       \* requests so far
    restarts,     \* restarts so far
    aborted,      \* history: an abort was committed after the last upload
    overtaken,    \* history: a request committed over a status it had not seen
    telemetry     \* history: telemetry reported after the last request

vars == <<payload, mission, items, progress, flight, caller, served, restarts,
          aborted, overtaken, telemetry>>
histories == <<aborted, overtaken, telemetry>>

Commands == {"TAKEOFF", "WAYPOINT", "LOITER", "LAND", "RETURN_TO_HOME"}
MissionStatus == {"none", "CREATED", "VALIDATED", "READY", "RUNNING", "PAUSED",
                  "ABORTED", "COMPLETED"}
NoCaller == [op |-> "none", pc |-> "idle", was |-> "none", stale |-> FALSE]

-----------------------------------------------------------------------------
(* Validation, compilation and translation of the items.  An item has a    *)
(* sequence number, a command, an altitude that is within bounds or not    *)
(* and a position, "none" when it was not given.                           *)

ValidItem(item) ==
    /\ item.inBounds
    /\ item.command \in {"WAYPOINT", "LOITER"} => item.position \notin {"none", "invalid"}

(* validate_mission_payload: item numbers are 1..n in any order. *)
Valid(list) ==
    /\ list # <<>>
    /\ {list[i].sequence : i \in DOMAIN list} = 1..Len(list)
    /\ \A i \in DOMAIN list : ValidItem(list[i])

(* Mutant: the items stay in the order they were posted. *)
CompileAsPosted(list) ==
    [i \in DOMAIN list |-> [list[i] EXCEPT !.position = IF @ = "none" THEN "home" ELSE @]]

(* Where a stable sort by sequence number puts item i. *)
Place(list, i) ==
    Cardinality({j \in DOMAIN list : \/ list[j].sequence < list[i].sequence
                                     \/ list[j].sequence = list[i].sequence /\ j <= i})

(* compile_mission: items by sequence number, home for a missing position. *)
Compile(list) ==
    [k \in DOMAIN list |->
        LET item == list[CHOOSE i \in DOMAIN list : Place(list, i) = k]
        IN [item EXCEPT !.position = IF @ = "none" THEN "home" ELSE @]]

(* translate_to_ardupilot: numbers from 0, the first item is current. *)
Translate(compiled) ==
    [i \in DOMAIN compiled |->
        [seq |-> i - 1, command |-> compiled[i].command,
         current |-> i = 1, at |-> compiled[i].position]]

-----------------------------------------------------------------------------
Init ==
    /\ payload \in Payloads
    /\ mission = "none"
    /\ items = <<>>
    /\ progress = "none"
    /\ flight = <<>>
    /\ caller = [c \in Callers |-> NoCaller]
    /\ served = 0
    /\ restarts = 0
    /\ aborted = FALSE /\ overtaken = FALSE /\ telemetry = FALSE

(* POST creates the mission and its items in two commits; a stop between   *)
(* them leaves a mission without items.                                    *)
CreateRow ==
    /\ mission = "none"
    /\ Valid(payload)
    /\ mission' = "CREATED"
    /\ UNCHANGED <<payload, items, progress, flight, caller, served, restarts, histories>>

CreateItems ==
    /\ mission # "none"
    /\ items = <<>>
    /\ restarts = 0
    /\ items' = payload
    /\ UNCHANGED <<payload, mission, progress, flight, caller, served, restarts, histories>>

(* The list route shows a mission once its row is committed, so a request  *)
(* may come before the items.                                              *)
Permitted(op) ==
    CASE op = "validate" -> Valid(items)
      [] op = "start" -> mission \in {"READY", "PAUSED"}
      [] op = "pause" -> mission = "RUNNING"
      [] OTHER -> TRUE

Load(c, op) ==
    /\ caller[c].pc = "idle"
    /\ mission # "none"
    /\ served < MaxRequests
    /\ Permitted(op)
    /\ served' = served + 1
    /\ caller' = [caller EXCEPT ![c] = [op |-> op, pc |-> "commit", was |-> mission,
                                        stale |-> FALSE]]
    /\ telemetry' = FALSE
    /\ UNCHANGED <<payload, mission, items, progress, flight, restarts, aborted, overtaken>>

StatusOf(op) ==
    CASE op = "validate" -> "VALIDATED"
      [] op = "upload" -> "READY"
      [] op = "start" -> "RUNNING"
      [] op = "pause" -> "PAUSED"
      [] op = "abort" -> "ABORTED"

(* A status equal to the loaded one is not part of the UPDATE. *)
Update(c, status) == IF caller[c].was = status THEN mission ELSE status

(* The commit, and for an upload the translated items. *)
Commit(c) ==
    LET op == caller[c].op
    IN /\ caller[c].pc = "commit"
       /\ mission' = Update(c, StatusOf(op))
       /\ flight' = IF op = "upload" THEN Translate(Compile(items)) ELSE flight
       /\ aborted' = (op = "abort" \/ (aborted /\ op # "upload"))
       /\ overtaken' = (overtaken \/ caller[c].stale)
       /\ caller' = [x \in Callers |->
                        IF x = c
                        THEN IF op = "validate" THEN NoCaller
                             ELSE [caller[x] EXCEPT !.pc = "progress"]
                        ELSE IF caller[x].pc = "idle" THEN NoCaller
                             ELSE [caller[x] EXCEPT !.stale = TRUE]]
       /\ UNCHANGED <<payload, items, progress, served, restarts, telemetry>>

(* The progress follows; start, pause and abort change only one that       *)
(* exists.                                                                 *)
Report(c) ==
    /\ caller[c].pc = "progress"
    /\ progress' = IF caller[c].op = "upload" \/ progress # "none"
                   THEN StatusOf(caller[c].op) ELSE "none"
    /\ overtaken' = (overtaken \/ caller[c].stale)
    /\ caller' = [caller EXCEPT ![c] = NoCaller]
    /\ UNCHANGED <<payload, mission, items, flight, served, restarts, aborted, telemetry>>

(* Telemetry of the vehicle reports progress whatever the row says, and    *)
(* completes the mission at the last item.                                 *)
Telemetry(done) ==
    /\ flight # <<>>
    /\ mission' = IF done THEN "COMPLETED" ELSE mission
    /\ progress' = IF done THEN "COMPLETED" ELSE "RUNNING"
    /\ telemetry' = TRUE
    /\ caller' = [c \in Callers |-> IF caller[c].pc = "idle" THEN NoCaller
                                    ELSE [caller[c] EXCEPT !.stale = TRUE]]
    /\ UNCHANGED <<payload, items, flight, served, restarts, aborted, overtaken>>

(* Requests and progress are gone; a row without items stays as it is. *)
Restart ==
    /\ restarts < MaxRestarts
    /\ restarts' = restarts + 1
    /\ progress' = "none"
    /\ caller' = [c \in Callers |-> NoCaller]
    /\ UNCHANGED <<payload, mission, items, flight, served, histories>>

Ops == {"validate", "upload", "start", "pause", "abort"}

Next ==
    \/ CreateRow \/ CreateItems
    \/ \E c \in Callers : (\E op \in Ops : Load(c, op)) \/ Commit(c) \/ Report(c)
    \/ \E done \in BOOLEAN : Telemetry(done)
    \/ Restart

Spec == Init /\ [][Next]_vars

-----------------------------------------------------------------------------
(* Properties *)

TypeOK ==
    /\ {mission, progress} \subseteq MissionStatus
    /\ items \in {<<>>, payload}
    /\ \A c \in Callers : /\ caller[c].op \in Ops \union {"none"}
                          /\ caller[c].pc \in {"idle", "commit", "progress"}

(* What the vehicle was given is the valid mission the client posted, in   *)
(* the order of its sequence numbers, numbered without gaps, with one      *)
(* current item and a position for each; or nothing, when the upload came  *)
(* between the two commits of the creation.                                *)
FlightMatchesPlan ==
    flight # <<>> =>
        /\ Len(flight) = Len(payload)
        /\ \A i \in DOMAIN flight :
               /\ flight[i].seq = i - 1
               /\ flight[i].current = (i = 1)
               /\ flight[i].at \notin {"none", "invalid"}
               /\ \E k \in DOMAIN payload : /\ payload[k].sequence = i
                                            /\ payload[k].command = flight[i].command

(* An abort is final: unless a request committed over a status it had not  *)
(* seen, an aborted mission does not fly again before the next upload.     *)
AbortSticks ==
    aborted /\ ~overtaken => mission \in {"ABORTED", "VALIDATED", "COMPLETED"}

(* When no request is in flight and none was overtaken, the progress shown *)
(* agrees with the row, but for a validation, which does not touch it, and *)
(* for telemetry that arrived after the last request.                      *)
ProgressAgrees ==
    (progress # "none" /\ ~overtaken /\ ~telemetry /\ mission # "VALIDATED"
     /\ \A c \in Callers : caller[c].pc = "idle")
    => progress = mission

=============================================================================
