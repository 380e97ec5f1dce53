-------------------------- MODULE IncidentWorkflow ---------------------------
(***************************************************************************)
(* What the incident service promises: an incident moves along the edges   *)
(* of VALID_INCIDENT_TRANSITIONS (backend/app/models/incident.py), and its *)
(* timeline is a log, numbered 1, 2, 3, ..., that records each move once,  *)
(* from the status the incident had to the one it has.                     *)
(***************************************************************************)
EXTENDS Naturals, Sequences

CONSTANTS None

VARIABLES state, log

workflowVars == <<state, log>>

Edges ==
  {<<None, "NEW">>, <<"NEW", "ACKNOWLEDGED">>,
   <<"ACKNOWLEDGED", "TRIAGED">>, <<"ACKNOWLEDGED", "RESOLVED">>,
   <<"TRIAGED", "ESCALATED">>, <<"TRIAGED", "RESOLVED">>,
   <<"ESCALATED", "TRIAGED">>, <<"ESCALATED", "ACKNOWLEDGED">>,
   <<"RESOLVED", "TRIAGED">>, <<"RESOLVED", "CLOSED">>}

Init == state = None /\ log = <<>>

(* Entries have a type, which for a note or an assignment is all they say. *)
Record(type, previous, new) ==
  log' = Append(log, [sequence |-> Len(log) + 1, type |-> type,
                      previous |-> previous, new |-> new])

Move ==
  \E edge \in Edges :
    /\ state = edge[1]
    /\ state' = edge[2]
    /\ \E type \in {"CREATED", "DE_ESCALATED", edge[2]} : Record(type, edge[1], edge[2])

Annotate ==
  /\ state # None
  /\ UNCHANGED state
  /\ \E type \in {"ASSIGNED", "REASSIGNED", "NOTE_ADDED"} : Record(type, None, None)

Next == Move \/ Annotate

Spec == Init /\ [][Next]_workflowVars
=============================================================================
