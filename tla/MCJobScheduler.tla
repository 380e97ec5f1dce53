--------------------------- MODULE MCJobScheduler ---------------------------
(* Small instances of JobScheduler for TLC. *)
EXTENDS JobScheduler, TLC

CONSTANTS w1, w2, w3

WorkerSymmetry == Permutations(Workers)
=============================================================================
