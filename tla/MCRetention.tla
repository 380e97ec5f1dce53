---------------------------- MODULE MCRetention ----------------------------
(* Two incidents, one of them without a timeline, and two requests at a    *)
(* time: one worker archives and verifies, the other purges.               *)
EXTENDS Retention, TLC

CONSTANTS w1, w2

MCAge == [i \in Incident |-> 2]
MCKinds == (w1 :> {"archive", "verify", "orphans"}) @@ (w2 :> {"purge"})
MCUpdates == {<<3, FALSE>>}

=============================================================================
