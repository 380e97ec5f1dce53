------------------------- MODULE MCSensorPipeline -------------------------
(* Three detections of one object by two sensors, two requests at a time.  *)
EXTENDS SensorPipeline, TLC

CONSTANTS d1, d2, d3, s1, s2

Workers == Permutations(Worker)
MCSensorOf == (d1 :> s1) @@ (d2 :> s2) @@ (d3 :> s1)
MCStamp == (d1 :> 0) @@ (d2 :> 1) @@ (d3 :> 1)
MCPlace == (d1 :> 0) @@ (d2 :> 1) @@ (d3 :> 2)

=============================================================================
