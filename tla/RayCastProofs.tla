---------------------------- MODULE RayCastProofs ----------------------------
(***************************************************************************)
(* The fence test is right for every target, not only the points TLC tries:*)
(* the loop computes the parity of the crossings, and off the border that  *)
(* parity says on which side of the fence the target is.                   *)
(***************************************************************************)
EXTENDS RayCast, FiniteSetTheorems, TLAPS

Plane == [x : Int, y : Int]

\* Edge k toggles c.
Toggles(k, q) == Crosses(GEOFENCE_POLYGON[k], GEOFENCE_POLYGON[Previous(GEOFENCE_POLYGON, k)], q)

\* An odd number of the first m edges do.
Odd(m, q) == Cardinality({k \in 1..m : Toggles(k, q)}) % 2 = 1

-----------------------------------------------------------------------------
(* The loop                                                                *)

\* One more edge changes the parity if and only if it toggles.
LEMMA NextEdge ==
    ASSUME NEW q, NEW m \in Nat
    PROVE  Odd(m + 1, q) <=> ~(Odd(m, q) <=> Toggles(m + 1, q))
<1> DEFINE S == {k \in 1..m : Toggles(k, q)}
           T == {k \in 1..(m + 1) : Toggles(k, q)}
<1>1. IsFiniteSet(S) /\ Cardinality(S) \in Nat /\ m + 1 \notin S
  <2>1. IsFiniteSet(1..m)
    BY FS_Interval
  <2> QED BY <2>1, FS_Subset, FS_CardinalityType
<1>2. T = IF Toggles(m + 1, q) THEN S \cup {m + 1} ELSE S
  <2>1. 1..(m + 1) = (1..m) \cup {m + 1}
    OBVIOUS
  <2> QED BY <2>1
<1> HIDE DEF S, T
<1>3. Cardinality(T) = IF Toggles(m + 1, q) THEN Cardinality(S) + 1 ELSE Cardinality(S)
  BY <1>1, <1>2, FS_AddElement
<1>4. (Odd(m, q) <=> Cardinality(S) % 2 = 1) /\ (Odd(m + 1, q) <=> Cardinality(T) % 2 = 1)
  BY DEF Odd, S, T
<1>5. ASSUME NEW a \in Nat PROVE (a + 1) % 2 = 1 <=> a % 2 # 1
  OBVIOUS
<1>6. CASE Toggles(m + 1, q)
  BY <1>1, <1>3, <1>4, <1>5, <1>6
<1>7. CASE ~Toggles(m + 1, q)
  BY <1>3, <1>4, <1>7
<1> QED BY <1>6, <1>7

\* Without edges nothing toggles.
LEMMA NoEdge == \A q : ~Odd(0, q)
<1> SUFFICES ASSUME NEW q PROVE ~Odd(0, q)
  OBVIOUS
<1>1. {k \in 1..0 : Toggles(k, q)} = {}
  OBVIOUS
<1> QED BY <1>1, FS_EmptySet DEF Odd

\* The loop's invariant: c is the parity of the edges it has gone through, and j
\* the vertex before i.
SoFar ==
    /\ p \in Plane
    /\ i \in 0..n
    /\ j = IF i = 0 THEN n - 1 ELSE i - 1
    /\ c \in BOOLEAN /\ (c <=> Odd(i, p))

\* Every behaviour of the loop keeps it.
LEMMA SoFarHolds == Spec => []SoFar
<1> USE DEF SoFar
<1>0. n \in Nat
  BY SMT DEF n, GEOFENCE_POLYGON
<1>1. Init => SoFar
  <2> SUFFICES ASSUME Init PROVE SoFar
    OBVIOUS
  <2>1. p \in Plane /\ i = 0 /\ j = n - 1 /\ c = FALSE
    BY PointsAssumption DEF Init, Plane
  <2>2. ~Odd(i, p)
    BY <2>1, NoEdge
  <2>3. p \in Plane /\ i \in 0..n /\ j = IF i = 0 THEN n - 1 ELSE i - 1
    BY <1>0, <2>1
  <2>4. c \in BOOLEAN /\ (c <=> Odd(i, p))
    BY <2>1, <2>2, Zenon
  <2> QED BY <2>3, <2>4
<1>2. SoFar /\ [Iteration]_vars => SoFar'
  <2> SUFFICES ASSUME SoFar, [Iteration]_vars PROVE SoFar'
    OBVIOUS
  <2>1. CASE Iteration
    <3>1. i \in Nat /\ i' = i + 1 /\ i' \in 1..n /\ j' = i /\ p' = p
      BY <1>0, <2>1 DEF Iteration
    <3>2. j + 1 = Previous(GEOFENCE_POLYGON, i + 1)
      BY <1>0, <3>1 DEF Previous, n
    <3>3. c' \in BOOLEAN /\ (c' <=> ~(c <=> Toggles(i + 1, p)))
      <4> DEFINE x == Crosses(GEOFENCE_POLYGON[i + 1], GEOFENCE_POLYGON[j + 1], p)
      <4>1. x \in BOOLEAN
        BY DEF Crosses
      <4>2. c' = (c # x) /\ c \in BOOLEAN
        BY <2>1 DEF Iteration
      <4>3. x <=> Toggles(i + 1, p)
        BY <3>2 DEF Toggles
      <4> HIDE DEF x
      <4> QED BY <4>1, <4>2, <4>3
    <3>4. c' <=> Odd(i + 1, p)
      BY <3>1, <3>3, NextEdge
    <3>5. (p \in Plane /\ i \in 0..n /\ j = IF i = 0 THEN n - 1 ELSE i - 1)'
      BY <1>0, <3>1 DEF n
    <3>6. (c \in BOOLEAN /\ (c <=> Odd(i, p)))'
      BY <3>1, <3>3, <3>4, Zenon DEF Odd, Toggles
    <3> QED BY <3>5, <3>6
  <2>2. CASE UNCHANGED vars
    BY <2>2 DEF vars
  <2> QED BY <2>1, <2>2
<1> QED BY <1>1, <1>2, PTL DEF Spec

\* The closed form that the filter's model uses is what the loop computes.
THEOREM ParityIsTheLoopHolds == Spec => []ParityIsTheLoop
<1>1. SoFar => ParityIsTheLoop
  BY DEF SoFar, ParityIsTheLoop, Odd, Toggles, n, inside_geofence, InsidePolygon, Crossings
<1> QED BY <1>1, SoFarHolds, PTL

-----------------------------------------------------------------------------
(* The geometry                                                            *)

\* The rounded sum is the integer nearest to base + num / den.
LEMMA Rounded ==
    ASSUME NEW base \in Int, NEW num \in Int, NEW den \in Int, den > 0
    PROVE  /\ RoundedSum(base, num, den) \in Int
           /\ 2 * (den * (RoundedSum(base, num, den) - base) - num) \in (-den)..den
<1> DEFINE k == num \div den
           l == num % den
           r == RoundedSum(base, num, den)
<1>1. k \in Int /\ l \in Int /\ 0 <= l /\ l < den /\ num = den * k + l
  OBVIOUS
<1>2. r = base + k \/ r = base + k + 1
  BY <1>1 DEF RoundedSum
<1>3. /\ r = base + k => 2 * l <= den
      /\ r = base + k + 1 => 2 * l >= den
  BY <1>1 DEF RoundedSum
<1> HIDE DEF k, l, r
<1>4. CASE r = base + k
  BY <1>1, <1>3, <1>4 DEF r
<1>5. CASE r = base + k + 1
  <2>1. den * (r - base) = den * k + den
    BY <1>1, <1>5
  <2> QED BY <1>1, <1>3, <1>5, <2>1 DEF r
<1> QED BY <1>2, <1>4, <1>5

\* Comparing a target with the rounded crossing says on which side of the line
\* it is, if it is more than a step away from it.
LEMMA SideOfCrossing ==
    ASSUME NEW base \in Int, NEW num \in Int, NEW den \in Int, den > 0, NEW at \in Int,
           num - den * (at - base) \notin (-den)..den
    PROVE  at < RoundedSum(base, num, den) <=> num - den * (at - base) > 0
<1> DEFINE r == RoundedSum(base, num, den)
           d == den * (r - at)
           s == num - den * (at - base)
<1>1. r \in Int /\ 2 * (den * (r - base) - num) \in (-den)..den
  BY Rounded
<1> HIDE DEF r
<1>2. den * (r - base) - num = d - s
  BY <1>1
<1>3. d \in Int /\ s \in Int /\ 2 * (d - s) \in (-den)..den /\ s \notin (-den)..den
  BY <1>1, <1>2
<1>4. d > 0 <=> r - at > 0
  BY <1>1
<1> HIDE DEF d, s
<1>5. d > 0 <=> s > 0
  BY <1>3
<1> QED BY <1>1, <1>4, <1>5 DEF r, s

\* Off the border an edge that spans the target's parallel toggles c if and only
\* if the target lies on the smaller side of it.
LEMMA EdgeToggles ==
    ASSUME NEW a \in Plane, NEW b \in Plane, NEW q \in Plane,
           (a.y > q.y) # (b.y > q.y) =>
              Side(a, b, q) \notin -(IF b.y > a.y THEN b.y - a.y ELSE a.y - b.y)
                                      ..(IF b.y > a.y THEN b.y - a.y ELSE a.y - b.y)
    PROVE  Crosses(a, b, q) <=>
              /\ (a.y > q.y) # (b.y > q.y)
              /\ IF b.y > a.y THEN Side(a, b, q) > 0 ELSE Side(a, b, q) < 0
<1> DEFINE num == (b.x - a.x) * (q.y - a.y)
           den == b.y - a.y
<1>1. num \in Int /\ den \in Int /\ a.x \in Int /\ q.x \in Int /\ a.y \in Int /\ b.y \in Int /\ q.y \in Int
  BY DEF Plane
<1>2. Side(a, b, q) = num - den * (q.x - a.x)
  BY DEF Side
<1>3. CrossingX(a, b, q) = IF den > 0 THEN RoundedSum(a.x, num, den) ELSE RoundedSum(a.x, -num, -den)
  BY DEF CrossingX
<1>0. CASE ~((a.y > q.y) # (b.y > q.y))
  BY <1>0 DEF Crosses
<1> HIDE DEF num
<1>4. CASE den > 0 /\ ((a.y > q.y) # (b.y > q.y))
  <2>1. q.x < RoundedSum(a.x, num, den) <=> num - den * (q.x - a.x) > 0
    <3> HIDE DEF den
    <3>1. num - den * (q.x - a.x) \notin (-den)..den
      BY <1>1, <1>2, <1>4 DEF den
    <3> QED BY <1>1, <1>4, <3>1, SideOfCrossing
  <2> QED BY <1>1, <1>2, <1>3, <1>4, <2>1 DEF Crosses
<1>5. CASE den < 0 /\ ((a.y > q.y) # (b.y > q.y))
  <2> DEFINE back == -den
             far  == -num
  <2>1. far \in Int /\ back \in Int /\ back > 0
    BY <1>1, <1>5
  <2>2. far - back * (q.x - a.x) = -Side(a, b, q) /\ Side(a, b, q) \in Int
    BY <1>1, <1>2
  <2>3. far - back * (q.x - a.x) \notin (-back)..back
    BY <1>1, <1>5, <2>1, <2>2
  <2> HIDE DEF back, far
  <2>4. q.x < RoundedSum(a.x, far, back) <=> far - back * (q.x - a.x) > 0
    BY <1>1, <2>1, <2>3, SideOfCrossing
  <2>5. q.x < RoundedSum(a.x, far, back) <=> Side(a, b, q) < 0
    BY <2>2, <2>4
  <2> QED BY <1>1, <1>3, <1>5, <2>5 DEF Crosses, back, far
<1> QED BY <1>0, <1>1, <1>4, <1>5

\* How far each edge goes in latitude: what one float step is on the scale of Left.
Step == <<1571, 2568, 918, 1915>>

\* The four vertices, and the edges of the polygon.
LEMMA Fence ==
    /\ n = 4
    /\ \A k \in 1..4 : GEOFENCE_POLYGON[k] \in Plane
    /\ Previous(GEOFENCE_POLYGON, 1) = 4
    /\ \A k \in 2..4 : Previous(GEOFENCE_POLYGON, k) = k - 1
    /\ \A k \in 1..4 : LET a == GEOFENCE_POLYGON[k]
                           b == GEOFENCE_POLYGON[Previous(GEOFENCE_POLYGON, k)]
                       IN  Step[k] \in Nat /\ Step[k] = IF b.y > a.y THEN b.y - a.y ELSE a.y - b.y
<1>1. n = 4 /\ Len(GEOFENCE_POLYGON) = 4
  BY SMT DEF n, GEOFENCE_POLYGON
<1>2. \A k \in 1..4 : GEOFENCE_POLYGON[k] \in Plane
  BY SMT DEF GEOFENCE_POLYGON, Plane
<1>3. /\ Previous(GEOFENCE_POLYGON, 1) = 4
      /\ \A k \in 2..4 : Previous(GEOFENCE_POLYGON, k) = k - 1
  BY <1>1 DEF Previous
<1>4. \A k \in 1..4 : LET a == GEOFENCE_POLYGON[k]
                          b == GEOFENCE_POLYGON[Previous(GEOFENCE_POLYGON, k)]
                      IN  Step[k] \in Nat /\ Step[k] = IF b.y > a.y THEN b.y - a.y ELSE a.y - b.y
  BY SMT, <1>1, <1>3 DEF GEOFENCE_POLYGON, Step
<1> QED BY <1>1, <1>2, <1>3, <1>4

\* On which side of edge k a target is, as a number.
Left(k, q) == Side(GEOFENCE_POLYGON[k], GEOFENCE_POLYGON[Previous(GEOFENCE_POLYGON, k)], q)

\* A target in coordinates that begin at the first vertex.
Over(q) == q.x - GEOFENCE_POLYGON[1].x
Up(q)   == q.y - GEOFENCE_POLYGON[1].y

\* Edge k has one end on each side of the target's parallel.
Spans(k, q) == (GEOFENCE_POLYGON[k].y > q.y) # (GEOFENCE_POLYGON[Previous(GEOFENCE_POLYGON, k)].y > q.y)

\* Off the border a target is more than one step from all edges it lies beside.
LEMMA FarFromFence ==
    ASSUME NEW q, ~NearEdge(q), NEW k \in 1..4
    PROVE  Spans(k, q) => Left(k, q) \notin -Step[k]..Step[k]
<1> DEFINE a == GEOFENCE_POLYGON[k]
           b == GEOFENCE_POLYGON[Previous(GEOFENCE_POLYGON, k)]
           step == IF b.y > a.y THEN b.y - a.y ELSE a.y - b.y
<1>1. <<a, b>> \in Edges
  BY Fence DEF Edges
<1>2. Spans(k, q) => Left(k, q) \notin -step..step
  BY <1>1 DEF NearEdge, Left, Spans
<1>3. step = Step[k]
  BY Fence
<1> HIDE DEF step
<1> QED BY <1>2, <1>3

\* The fence's four edges: where each toggles c, and which side is inside.
LEMMA FenceToggles ==
    ASSUME NEW q \in Plane, ~NearEdge(q)
    PROVE  /\ Toggles(1, q) <=> 0 <= Up(q) /\ Up(q) < 1571 /\ Left(1, q) > 0
           /\ Toggles(2, q) <=> 0 <= Up(q) /\ Up(q) < 2568 /\ Left(2, q) < 0
           /\ Toggles(3, q) <=> 2568 <= Up(q) /\ Up(q) < 3486 /\ Left(3, q) < 0
           /\ Toggles(4, q) <=> 1571 <= Up(q) /\ Up(q) < 3486 /\ Left(4, q) > 0
<1> DEFINE a(k) == GEOFENCE_POLYGON[k]
           b(k) == GEOFENCE_POLYGON[Previous(GEOFENCE_POLYGON, k)]
<1>1. \A k \in 1..4 : a(k) \in Plane /\ b(k) \in Plane
  BY Fence
<1>2. ASSUME NEW k \in 1..4
      PROVE  Spans(k, q) => Left(k, q) \notin -Step[k]..Step[k]
  BY FarFromFence
<1>3. ASSUME NEW k \in 1..4
      PROVE  Toggles(k, q) <=> /\ (a(k).y > q.y) # (b(k).y > q.y)
                               /\ IF b(k).y > a(k).y THEN Left(k, q) > 0 ELSE Left(k, q) < 0
  BY <1>1, <1>2, Fence, EdgeToggles DEF Toggles, Left, Spans
<1>4. /\ (a(1).y > q.y) # (b(1).y > q.y) <=> 0 <= Up(q) /\ Up(q) < 1571
      /\ (a(2).y > q.y) # (b(2).y > q.y) <=> 0 <= Up(q) /\ Up(q) < 2568
      /\ (a(3).y > q.y) # (b(3).y > q.y) <=> 2568 <= Up(q) /\ Up(q) < 3486
      /\ (a(4).y > q.y) # (b(4).y > q.y) <=> 1571 <= Up(q) /\ Up(q) < 3486
  BY SMT, Fence DEF GEOFENCE_POLYGON, Plane, Up
<1>5. b(1).y > a(1).y /\ ~(b(2).y > a(2).y) /\ ~(b(3).y > a(3).y) /\ b(4).y > a(4).y
  BY SMT, Fence DEF GEOFENCE_POLYGON
<1> HIDE DEF a, b
<1>6. Toggles(1, q) <=> 0 <= Up(q) /\ Up(q) < 1571 /\ Left(1, q) > 0
  BY <1>3, <1>4, <1>5
<1>7. Toggles(2, q) <=> 0 <= Up(q) /\ Up(q) < 2568 /\ Left(2, q) < 0
  BY <1>3, <1>4, <1>5
<1>8. Toggles(3, q) <=> 2568 <= Up(q) /\ Up(q) < 3486 /\ Left(3, q) < 0
  BY <1>3, <1>4, <1>5
<1>9. Toggles(4, q) <=> 1571 <= Up(q) /\ Up(q) < 3486 /\ Left(4, q) > 0
  BY <1>3, <1>4, <1>5
<1> QED BY <1>6, <1>7, <1>8, <1>9

\* Left in coordinates that begin at the first vertex.
Left1(u, v) == (-383) * v - 1571 * u
Left2(u, v) == 2568 * u - 78 * v
Left3(u, v) == 291 * (v - 3486) + 918 * (u + 213)
Left4(u, v) == 170 * (v - 1571) - 1915 * (u + 383)

\* The polygon is convex.  Beside no edge a target is outside; between two edges
\* it is inside if it lies between them, and it never lies beyond both.
LEMMA BesideNone ==
    ASSUME NEW u \in Int, NEW v \in Int, v < 0 \/ 3486 <= v
    PROVE  ~(Left1(u, v) < 0 /\ Left2(u, v) < 0 /\ Left3(u, v) < 0 /\ Left4(u, v) < 0)
BY SMT DEF Left1, Left2, Left3, Left4

\* Between the first edge and the second.
LEMMA BetweenLower ==
    ASSUME NEW u \in Int, NEW v \in Int, 0 <= v, v < 1571
    PROVE  /\ Left1(u, v) > 0 => Left2(u, v) < 0
           /\ Left1(u, v) < 0 /\ Left2(u, v) < 0 => Left3(u, v) < 0 /\ Left4(u, v) < 0
BY SMT DEF Left1, Left2, Left3, Left4

\* Between the fourth edge and the second.
LEMMA BetweenMiddle ==
    ASSUME NEW u \in Int, NEW v \in Int, 1571 <= v, v < 2568
    PROVE  /\ Left4(u, v) > 0 => Left2(u, v) < 0
           /\ Left4(u, v) < 0 /\ Left2(u, v) < 0 => Left1(u, v) < 0 /\ Left3(u, v) < 0
BY SMT DEF Left1, Left2, Left3, Left4

\* Between the fourth edge and the third.
LEMMA BetweenUpper ==
    ASSUME NEW u \in Int, NEW v \in Int, 2568 <= v, v < 3486
    PROVE  /\ Left4(u, v) > 0 => Left3(u, v) < 0
           /\ Left4(u, v) < 0 /\ Left3(u, v) < 0 => Left1(u, v) < 0 /\ Left2(u, v) < 0
BY SMT DEF Left1, Left2, Left3, Left4

\* No target is on the larger side of all edges.
LEMMA BeyondNone ==
    ASSUME NEW u \in Int, NEW v \in Int
    PROVE  ~(Left1(u, v) > 0 /\ Left2(u, v) > 0 /\ Left3(u, v) > 0 /\ Left4(u, v) > 0)
BY SMT DEF Left1, Left2, Left3, Left4

\* Off the border an odd number of edges toggle if and only if the target is inside.
LEMMA OddInside ==
    ASSUME NEW q \in Plane, ~NearEdge(q)
    PROVE  Odd(n, q) <=> InsideFence(q)
<1> DEFINE t(k) == Toggles(k, q)
           s(k) == Left(k, q)
           u == Over(q)
           v == Up(q)
           inside == s(1) < 0 /\ s(2) < 0 /\ s(3) < 0 /\ s(4) < 0
<1>1. Odd(n, q) <=> ~(t(4) <=> ~(t(3) <=> ~(t(2) <=> t(1))))
  <2>1. ~Odd(0, q)
    BY NoEdge
  <2>2. Odd(1, q) <=> t(1)
    BY <2>1, NextEdge
  <2>3. Odd(2, q) <=> ~(t(2) <=> t(1))
    BY <2>2, NextEdge
  <2>4. Odd(3, q) <=> ~(t(3) <=> ~(t(2) <=> t(1)))
    BY <2>3, NextEdge
  <2>5. Odd(4, q) <=> ~(t(4) <=> ~(t(3) <=> ~(t(2) <=> t(1))))
    BY <2>4, NextEdge
  <2> QED BY <2>5, Fence
<1>2. InsideFence(q) <=> inside \/ (s(1) > 0 /\ s(2) > 0 /\ s(3) > 0 /\ s(4) > 0)
  <2> DEFINE edge(k) == <<GEOFENCE_POLYGON[k], GEOFENCE_POLYGON[Previous(GEOFENCE_POLYGON, k)]>>
  <2>1. Edges = {edge(1), edge(2), edge(3), edge(4)}
    BY Fence DEF Edges
  <2> QED BY <2>1 DEF InsideFence, Left
<1>3. q.x \in Int /\ q.y \in Int /\ u \in Int /\ v \in Int
  BY SMT DEF Plane, Over, Up, GEOFENCE_POLYGON
<1>4. s(1) = Left1(u, v) /\ s(2) = Left2(u, v) /\ s(3) = Left3(u, v) /\ s(4) = Left4(u, v)
  <2>1. s(1) = Left1(u, v)
    BY SMT, <1>3, Fence DEF Left, Side, GEOFENCE_POLYGON, Left1, Over, Up
  <2>2. s(2) = Left2(u, v)
    BY SMT, <1>3, Fence DEF Left, Side, GEOFENCE_POLYGON, Left2, Over, Up
  <2>3. s(3) = Left3(u, v)
    BY SMT, <1>3, Fence DEF Left, Side, GEOFENCE_POLYGON, Left3, Over, Up
  <2>4. s(4) = Left4(u, v)
    BY SMT, <1>3, Fence DEF Left, Side, GEOFENCE_POLYGON, Left4, Over, Up
  <2> QED BY SMT, <2>1, <2>2, <2>3, <2>4
<1>5. s(1) \in Int /\ s(2) \in Int /\ s(3) \in Int /\ s(4) \in Int
  BY SMT, <1>3, <1>4 DEF Left1, Left2, Left3, Left4
<1>6. /\ t(1) <=> 0 <= v /\ v < 1571 /\ s(1) > 0
      /\ t(2) <=> 0 <= v /\ v < 2568 /\ s(2) < 0
      /\ t(3) <=> 2568 <= v /\ v < 3486 /\ s(3) < 0
      /\ t(4) <=> 1571 <= v /\ v < 3486 /\ s(4) > 0
  BY FenceToggles
<1>7. /\ 0 <= v /\ v < 1571 => s(1) # 0
      /\ 0 <= v /\ v < 2568 => s(2) # 0
      /\ 2568 <= v /\ v < 3486 => s(3) # 0
      /\ 1571 <= v /\ v < 3486 => s(4) # 0
  <2>1. \A k \in 1..4 : Spans(k, q) => s(k) # 0
    <3> SUFFICES ASSUME NEW k \in 1..4, Spans(k, q) PROVE s(k) # 0
      OBVIOUS
    <3>1. s(k) \notin -Step[k]..Step[k] /\ Step[k] \in Nat
      BY FarFromFence, Fence
    <3> QED BY SMT, <3>1
  <2>2. /\ Spans(1, q) <=> 0 <= v /\ v < 1571
        /\ Spans(2, q) <=> 0 <= v /\ v < 2568
        /\ Spans(3, q) <=> 2568 <= v /\ v < 3486
        /\ Spans(4, q) <=> 1571 <= v /\ v < 3486
    BY SMT, <1>3, Fence DEF Spans, GEOFENCE_POLYGON, Up
  <2> HIDE DEF s, v
  <2> QED BY SMT, <2>1, <2>2
<1> HIDE DEF s, t, u, v
<1>8. ~(s(1) > 0 /\ s(2) > 0 /\ s(3) > 0 /\ s(4) > 0)
  BY <1>3, <1>4, BeyondNone
<1>9. CASE v < 0 \/ 3486 <= v
  <2>1. ~inside
    BY <1>3, <1>4, <1>9, BesideNone
  <2>2. ~t(1) /\ ~t(2) /\ ~t(3) /\ ~t(4)
    BY SMT, <1>3, <1>6, <1>9
  <2> QED BY <1>1, <1>2, <1>8, <2>1, <2>2
<1>10. CASE 0 <= v /\ v < 1571
  <2>1. ~t(3) /\ ~t(4) /\ (t(1) <=> s(1) > 0) /\ (t(2) <=> s(2) < 0)
    BY SMT, <1>3, <1>6, <1>10
  <2>2. /\ s(1) > 0 => s(2) < 0
        /\ s(1) < 0 /\ s(2) < 0 => inside
    BY <1>3, <1>4, <1>10, BetweenLower
  <2>3. ~(s(1) > 0) <=> s(1) < 0
    BY SMT, <1>3, <1>5, <1>7, <1>10
  <2> QED BY <1>1, <1>2, <1>8, <2>1, <2>2, <2>3
<1>11. CASE 1571 <= v /\ v < 2568
  <2>1. ~t(1) /\ ~t(3) /\ (t(4) <=> s(4) > 0) /\ (t(2) <=> s(2) < 0)
    BY SMT, <1>3, <1>6, <1>11
  <2>2. /\ s(4) > 0 => s(2) < 0
        /\ s(4) < 0 /\ s(2) < 0 => inside
    BY <1>3, <1>4, <1>11, BetweenMiddle
  <2>3. ~(s(4) > 0) <=> s(4) < 0
    BY SMT, <1>3, <1>5, <1>7, <1>11
  <2> QED BY <1>1, <1>2, <1>8, <2>1, <2>2, <2>3
<1>12. CASE 2568 <= v /\ v < 3486
  <2>1. ~t(1) /\ ~t(2) /\ (t(4) <=> s(4) > 0) /\ (t(3) <=> s(3) < 0)
    BY SMT, <1>3, <1>6, <1>12
  <2>2. /\ s(4) > 0 => s(3) < 0
        /\ s(4) < 0 /\ s(3) < 0 => inside
    BY <1>3, <1>4, <1>12, BetweenUpper
  <2>3. ~(s(4) > 0) <=> s(4) < 0
    BY SMT, <1>3, <1>5, <1>7, <1>12
  <2> QED BY <1>1, <1>2, <1>8, <2>1, <2>2, <2>3
<1> QED BY SMT, <1>3, <1>9, <1>10, <1>11, <1>12

\* The test accepts a target if and only if it is inside the fence, for every
\* target farther from the border than one float step (geofence.c:15-29).
THEOREM RayCastCorrectHolds == Spec => []RayCastCorrect
<1>1. SoFar => RayCastCorrect
  BY OddInside, Zenon DEF SoFar, RayCastCorrect
<1> QED BY <1>1, SoFarHolds, PTL
=============================================================================
