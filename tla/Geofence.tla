------------------------------ MODULE Geofence ------------------------------
(***************************************************************************)
(* The fence test of components/SerialFilter/mavlink_filter/geofence.c.    *)
(*                                                                         *)
(* The code computes on C floats.  Around the fence a latitude (32..64     *)
(* degrees) is a multiple of 2^-18 and a longitude (8..16 degrees) one of  *)
(* 2^-20, so a float is an integer number of these steps.  In these units  *)
(* the differences and the product of an edge are below 2^24 and exact;    *)
(* what rounds is the final sum, to the nearest step, ties to even.        *)
(***************************************************************************)
EXTENDS Integers, Sequences, FiniteSets

\* GEOFENCE_POLYGON and HOME_POSITION of system_config.h as float steps.
GEOFENCE_POLYGON ==
    <<[x |-> 12597463, y |-> 12217205], [x |-> 12597541, y |-> 12219773],
      [x |-> 12597250, y |-> 12220691], [x |-> 12597080, y |-> 12218776]>>

HOME_POSITION == [x |-> 12597337, y |-> 12218224]

\* The vertex before vertex i: j = n - 1 for the first, else i - 1.
Previous(polygon, i) == IF i = 1 THEN Len(polygon) ELSE i - 1

\* base + num / den rounded to the nearest integer, ties to even; den > 0.
RoundedSum(base, num, den) ==
    LET sum  == base + num \div den
        left == num % den
    IN  IF 2 * left < den \/ (2 * left = den /\ sum % 2 = 0) THEN sum ELSE sum + 1

\* Where the line through vertices i and j crosses the parallel of p.
CrossingX(a, b, p) ==
    LET num == (b.x - a.x) * (p.y - a.y)
        den == b.y - a.y
    IN  IF den > 0 THEN RoundedSum(a.x, num, den) ELSE RoundedSum(a.x, -num, -den)

\* Variant of Crosses without the test that the edge spans the parallel of p.
CrossesWithoutSpan(a, b, p) == b.y # a.y /\ p.x < CrossingX(a, b, p)

\* The condition of the loop body: the ray from p towards larger x crosses
\* the edge from a = polygon[i] to b = polygon[j].
Crosses(a, b, p) == (a.y > p.y) # (b.y > p.y) /\ p.x < CrossingX(a, b, p)

\* The edges, named by their vertex i, that toggle c.
Crossings(polygon, p) ==
    {i \in 1..Len(polygon) : Crosses(polygon[i], polygon[Previous(polygon, i)], p)}

InsidePolygon(polygon, p) == Cardinality(Crossings(polygon, p)) % 2 = 1

inside_geofence(p) == InsidePolygon(GEOFENCE_POLYGON, p)
=============================================================================
