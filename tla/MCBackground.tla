---------------------------- MODULE MCBackground ----------------------------
(* A small instance of what goes on beside the requests: one run with two  *)
(* slots and two sockets, the production retries of an export, and a hook  *)
(* with three sockets over each of its consumers.                          *)
EXTENDS Background

MCVersions == [view |-> 2, list |-> 3, numbers |-> 3, sockets |-> 1]
MCHappenings == [view |-> 1, list |-> 1, numbers |-> 1, sockets |-> 2]

=============================================================================
