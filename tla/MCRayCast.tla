------------------------------ MODULE MCRayCast ------------------------------
(* Instances of RayCast for TLC: a grid over the fence and its surroundings *)
(* and every point around each vertex.                                      *)
EXTENDS RayCast

Grid == {[x |-> 12597050 + 3 * a, y |-> 12217150 + 23 * b] : a \in 0..172, b \in 0..160}

Around(v) == {[x |-> v.x + dx, y |-> v.y + dy] : dx, dy \in -4..4}

MCPoints ==
    Grid \cup UNION {Around(GEOFENCE_POLYGON[k]) : k \in 1..n} \cup Around(HOME_POSITION)
=============================================================================
