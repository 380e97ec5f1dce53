----------------------------- MODULE MCEventBus -----------------------------
(* Small instances of EventBus for TLC. *)
EXTENDS EventBus, TLC

CONSTANTS t1, t2, op, sim, s1, s2, alert, telemetry, incident

(* One subscription of the operational channel without incidents.read, and *)
(* one of every channel.                                                   *)
MCChannelOf == s1 :> op @@ s2 :> Wildcard
MCAdmits == s1 :> {telemetry} @@ s2 :> {telemetry, incident}

(* Two threads, one subscription. *)
OneChannelOf == s1 :> op
OneAdmits == s1 :> {alert, telemetry}
=============================================================================
