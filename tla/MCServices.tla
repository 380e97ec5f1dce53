----------------------------- MODULE MCServices -----------------------------
(* Small instances of the services: two requests, clients, vehicles and    *)
(* users, and for every service bounds of its own.                         *)
EXTENDS Services, TLC

CONSTANTS r1, r2, c1, c2, v1, v2, u1, u2

(* One request steps the scenario, the other does anything. *)
MCOpsOf == (r1 :> {"step"})
           @@ (r2 :> {"prepare", "start", "pause", "resume", "stop", "reset", "step"})

Item(n, c, p) == [sequence |-> n, command |-> c, inBounds |-> TRUE, position |-> p]
MCPayloads == {<<Item(1, "TAKEOFF", "none"), Item(2, "WAYPOINT", "north")>>,
               <<Item(2, "LAND", "none"), Item(1, "TAKEOFF", "none")>>,
               <<Item(1, "TAKEOFF", "none"), Item(1, "WAYPOINT", "north")>>,
               <<Item(1, "WAYPOINT", "none")>>, <<>>}

MCSeparation == [min |-> 2, warning |-> 3, critical |-> 2]
MCRosters == {<<>>, <<v1, v2>>}
MCRoutes == {<<>>, <<1, 3>>}

At(n, way) == [at |-> n, way |-> way]
Line(a, b, c, d) == <<At(a, "east"), At(b, "east"), At(c, "east"), At(d, "east")>>
MCTracks == 1..4
MCLayouts == {<<>>, Line(0, 2, 5, 7), Line(1, 2, 4, 6),
              <<At(2, "east"), At(3, "unknown"), At(4, "west")>>}
MCMoves == {At(0, "east"), At(5, "east"), At(3, "unknown")}

(* The scenario's target is seen in every tick. *)
SeenInit == Init /\ seen = Scenario!Ticks
SeenSpec == SeenInit /\ [][Next]_vars

(* The behaviours of one part. *)
StoreInit == SeenInit /\ part = "store"
StoreSpec == StoreInit /\ [][Next]_vars

(* The two clients of missions, swarms, decisions and flushes do the same. *)
ClientSymmetry == Permutations(Clients)

=============================================================================
