---------------------------- MODULE OrderedFeed -----------------------------
(***************************************************************************)
(* What the event bus promises a subscriber, whatever its queues drop: a   *)
(* channel numbers its events 1, 2, 3, ... and each subscriber sees a      *)
(* strictly increasing subsequence of the numbers issued so far.  A number *)
(* may never be seen (dropped, filtered, or given to a heartbeat).         *)
(***************************************************************************)
EXTENDS Naturals

CONSTANTS Channels, Subs

VARIABLES
  issued,   \* the last number issued on each channel
  seen      \* the last number each subscriber has seen of each channel

feedVars == <<issued, seen>>

Init ==
  /\ issued = [ch \in Channels |-> 0]
  /\ seen = [s \in Subs |-> [ch \in Channels |-> 0]]

Issue(ch) ==
  /\ issued' = [issued EXCEPT ![ch] = @ + 1]
  /\ UNCHANGED seen

See(s, ch) ==
  /\ \E n \in (seen[s][ch] + 1) .. issued[ch] :
       seen' = [seen EXCEPT ![s][ch] = n]
  /\ UNCHANGED issued

Next == \E ch \in Channels : Issue(ch) \/ \E s \in Subs : See(s, ch)

Spec == Init /\ [][Next]_feedVars
=============================================================================
