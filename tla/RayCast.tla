------------------------------- MODULE RayCast -------------------------------
(***************************************************************************)
(* inside_geofence as the loop it is, one iteration per step, for points   *)
(* around the fence, and the geometry it is meant to compute.              *)
(***************************************************************************)
EXTENDS Geofence

CONSTANT Points     \* the targets that are tested

ASSUME PointsAssumption == Points \subseteq [x : Int, y : Int]

VARIABLES
    p,      \* the target
    i, j,   \* the loop's indices into polygon, from 0
    c       \* toggled at each crossing

vars == <<p, i, j, c>>

n == Len(GEOFENCE_POLYGON)

Init ==
    /\ p \in Points
    /\ i = 0
    /\ j = n - 1
    /\ c = FALSE

\* Variant of Iteration without the edge that closes the polygon.
IterationFromFirst ==
    /\ i < n
    /\ c' = (c # Crosses(GEOFENCE_POLYGON[i + 1], GEOFENCE_POLYGON[IF i = 0 THEN 1 ELSE j + 1], p))
    /\ j' = i
    /\ i' = i + 1
    /\ UNCHANGED p

Iteration ==
    /\ i < n
    /\ c' = (c # Crosses(GEOFENCE_POLYGON[i + 1], GEOFENCE_POLYGON[j + 1], p))
    /\ j' = i
    /\ i' = i + 1
    /\ UNCHANGED p

Spec == Init /\ [][Iteration]_vars

-----------------------------------------------------------------------------
(* Properties                                                              *)

\* Twice the signed area of the triangle a, b, q.
Side(a, b, q) == (b.x - a.x) * (q.y - a.y) - (b.y - a.y) * (q.x - a.x)

Edges == {<<GEOFENCE_POLYGON[k], GEOFENCE_POLYGON[Previous(GEOFENCE_POLYGON, k)]>> : k \in 1..n}

\* The fence is convex: its interior lies on one side of every edge.
InsideFence(q) ==
    \/ \A e \in Edges : Side(e[1], e[2], q) > 0
    \/ \A e \in Edges : Side(e[1], e[2], q) < 0

\* At most one float step of latitude away from where an edge crosses the
\* parallel of q.
NearEdge(q) ==
    \E e \in Edges :
        LET step == IF e[2].y > e[1].y THEN e[2].y - e[1].y ELSE e[1].y - e[2].y
        IN  /\ (e[1].y > q.y) # (e[2].y > q.y)
            /\ Side(e[1], e[2], q) \in -step..step

\* When the loop is done it has decided whether the target is inside the
\* fence: rounding to floats, a target at the latitude or longitude of a
\* vertex, or an edge left out makes no difference farther than one float
\* step (4 * 10^-6 degrees) from the border (geofence.c:15-29).
RayCastCorrect == i = n /\ ~NearEdge(p) => (c <=> InsideFence(p))

\* Module MavlinkFilter uses the closed form: the parity of the crossings.
ParityIsTheLoop == i = n => (c <=> inside_geofence(p))
=============================================================================
