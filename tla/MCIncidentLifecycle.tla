------------------------- MODULE MCIncidentLifecycle --------------------------
(* Small instances of IncidentLifecycle for TLC. *)
EXTENDS IncidentLifecycle, TLC

CONSTANTS r1, r2, r3, r4, r5, u1, u2

RequestSymmetry == Permutations(Requests)
=============================================================================
