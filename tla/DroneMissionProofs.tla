------------------------- MODULE DroneMissionProofs -------------------------
(***************************************************************************)
(* What the mission program does with the sensor stream, for every stream  *)
(* and every size of its buffer.                                           *)
(***************************************************************************)
EXTENDS DroneMission, SequenceTheorems, WellFoundedInduction, TLAPS

-----------------------------------------------------------------------------
(* The stream                                                              *)

\* Every set of naturals has a least element.
LEMMA LeastNatural ==
    ASSUME NEW S \in SUBSET Nat, S # {}
    PROVE  Min(S) \in S /\ \A n \in S : Min(S) <= n
<1>1. PICK m \in S : \A n \in S : ~(<<n, m>> \in OpToRel(<, Nat))
  BY NatLessThanWellFounded, WFMin, Zenon
<1>2. \A n \in S : m <= n
  <2> SUFFICES ASSUME NEW n \in S PROVE m <= n
    OBVIOUS
  <2>1. ~(n < m)
    BY <1>1 DEF OpToRel
  <2> QED BY <2>1
<1> QED BY <1>1, <1>2 DEF Min

\* The first place where an end mark stands, if there is one.
LEMMA FirstMark ==
    ASSUME NEW n \in Nat, NEW input, Len(input) = n, DOMAIN input = 1..n,
           check_if_json(input)
    PROVE  LET m == eof_pos(input)
           IN  /\ m \in 1..n /\ IsMark(input[m])
               /\ \A k \in 1..(m - 1) : ~IsMark(input[k])
<1> DEFINE I == {i \in 1..Len(input) : IsMark(input[i])}
<1>1. I \in SUBSET Nat /\ I # {}
  BY DEF check_if_json
<1>2. Min(I) \in I /\ \A k \in I : Min(I) <= k
  BY <1>1, LeastNatural
<1>3. eof_pos(input) = Min(I)
  BY <1>1 DEF eof_pos, SelectInSeq
<1>4. ASSUME NEW m, m \in I, \A k \in I : m <= k
      PROVE  /\ m \in 1..n /\ IsMark(input[m])
             /\ \A k \in 1..(m - 1) : ~IsMark(input[k])
  BY <1>4
<1> HIDE DEF I
<1> QED BY <1>2, <1>3, <1>4

\* The messages follow each other without a gap and have a character each.
LEMMA Marks ==
    /\ Len(Mark) \in Nat /\ Messages = 1..Len(Mark)
    /\ \A i \in Messages : Mark[i] \in Nat /\ Begin(i) \in Nat
    /\ \A i \in Messages : 1 <= Begin(i) /\ Begin(i) < Mark[i]
    /\ \A i, j \in Messages : i < j => Mark[i] < Begin(j)
    /\ \A i \in Messages : Mark[i] <= Mark[Len(Mark)]
<1>1. /\ Len(Mark) \in Nat /\ Messages = 1..Len(Mark)
      /\ \A i \in Messages : Mark[i] \in Nat /\ 1 < Mark[i]
      /\ \A i, j \in Messages : i < j => Mark[i] + 1 < Mark[j]
  BY MissionAssumption DEF Messages
<1>2. \A i \in Messages : i # 1 => i - 1 \in Messages
  BY <1>1
<1>3. \A i \in Messages : Begin(i) \in Nat /\ 1 <= Begin(i) /\ Begin(i) < Mark[i]
  <2> SUFFICES ASSUME NEW i \in Messages
               PROVE  Begin(i) \in Nat /\ 1 <= Begin(i) /\ Begin(i) < Mark[i]
    OBVIOUS
  <2>1. CASE i = 1
    BY <2>1, <1>1 DEF Begin
  <2>2. CASE i # 1
    <3>1. i - 1 \in Messages /\ i - 1 < i
      BY <1>1, <2>2
    <3>2. Mark[i - 1] \in Nat /\ Mark[i] \in Nat /\ Mark[i - 1] + 1 < Mark[i]
      BY <3>1, <1>1
    <3> QED BY <3>2, <2>2 DEF Begin
  <2> QED BY <2>1, <2>2
<1>4. ASSUME NEW i \in Messages, NEW j \in Messages, i < j
      PROVE  Mark[i] < Begin(j)
  <2>1. j # 1 /\ j - 1 \in Messages /\ i <= j - 1
    BY <1>1, <1>4
  <2>2. Begin(j) = Mark[j - 1] + 1
    BY <2>1 DEF Begin
  <2>3. Mark[i] \in Nat /\ Mark[j - 1] \in Nat
    BY <1>1, <2>1
  <2>4. CASE i = j - 1
    BY <2>2, <2>3, <2>4
  <2>5. CASE i < j - 1
    <3>1. Mark[i] + 1 < Mark[j - 1]
      BY <1>1, <2>1, <2>5
    <3> QED BY <3>1, <2>2, <2>3
  <2> QED BY <2>1, <2>4, <2>5, <1>1
<1>5. ASSUME NEW i \in Messages PROVE Mark[i] <= Mark[Len(Mark)]
  <2>1. Len(Mark) \in Messages /\ i <= Len(Mark)
    BY <1>1
  <2>2. CASE i = Len(Mark)
    BY <2>1, <2>2, <1>1
  <2>3. CASE i < Len(Mark)
    <3>1. Mark[i] + 1 < Mark[Len(Mark)]
      BY <1>1, <2>1, <2>3
    <3> QED BY <3>1, <2>1, <1>1
  <2> QED BY <2>1, <2>2, <2>3, <1>1
<1> QED BY <1>1, <1>3, <1>4, <1>5

\* Every place of the stream belongs to one message.
LEMMA Places ==
    /\ Size \in Nat /\ \A i \in Messages : Mark[i] <= Size
    /\ \A p \in 1..Size : /\ MessageAt(p) \in Messages
                          /\ Begin(MessageAt(p)) <= p /\ p <= Mark[MessageAt(p)]
    /\ \A p \in 1..Size : \A i \in Messages :
            Begin(i) <= p /\ p <= Mark[i] => MessageAt(p) = i
<1>1. ASSUME Mark = <<>> PROVE Size = 0 /\ Messages = {}
  BY <1>1 DEF Size, Messages
<1>2. ASSUME Mark # <<>>
      PROVE  Len(Mark) \in Messages /\ Size = Mark[Len(Mark)]
  <2>1. Len(Mark) # 0
    BY <1>2, MissionAssumption, EmptySeq
  <2> QED BY <1>2, <2>1, Marks DEF Size
<1>3. Size \in Nat /\ \A i \in Messages : Mark[i] <= Size
  BY <1>1, <1>2, Marks
<1>4. ASSUME NEW p \in 1..Size
      PROVE  \E i \in Messages : Begin(i) <= p /\ p <= Mark[i]
  <2> DEFINE A == {i \in Messages : p <= Mark[i]}
  <2>0. p \in Nat /\ 1 <= p /\ p <= Size /\ Mark # <<>>
    BY <1>1, <1>3
  <2>1. Len(Mark) \in A
    BY <1>2, <2>0
  <2>2. A \in SUBSET Nat /\ A # {}
    BY <2>1, Marks
  <2>3. Min(A) \in A /\ \A n \in A : Min(A) <= n
    BY <2>2, LeastNatural
  <2>4. Begin(Min(A)) <= p
    <3>1. CASE Min(A) = 1
      BY <3>1, <2>0 DEF Begin
    <3>2. CASE Min(A) # 1
      <4>1. Min(A) - 1 \in Messages /\ Min(A) \in Nat
        BY <3>2, <2>3, Marks
      <4>2. Min(A) - 1 \notin A
        BY <4>1, <2>3
      <4>3. p > Mark[Min(A) - 1] /\ Mark[Min(A) - 1] \in Nat
        BY <4>1, <4>2, <2>0, Marks
      <4> HIDE DEF A
      <4> QED BY <4>3, <3>2, <2>0 DEF Begin
    <3> QED BY <3>1, <3>2
  <2> QED BY <2>3, <2>4
<1>5. ASSUME NEW p \in 1..Size, NEW i \in Messages, NEW j \in Messages,
             Begin(i) <= p, p <= Mark[i], Begin(j) <= p, p <= Mark[j]
      PROVE  i = j
  <2>1. ~(i < j) /\ ~(j < i)
    BY <1>5, <1>3, Marks
  <2> QED BY <2>1, Marks
<1>6. ASSUME NEW p \in 1..Size
      PROVE  /\ MessageAt(p) \in Messages
             /\ Begin(MessageAt(p)) <= p /\ p <= Mark[MessageAt(p)]
  <2>1. PICK i \in Messages : Begin(i) <= p /\ p <= Mark[i]
    BY <1>4
  <2>2. p \in Begin(i)..Mark[i]
    BY <2>1, <1>3, Marks
  <2>3. MessageAt(p) \in Messages /\ p \in Begin(MessageAt(p))..Mark[MessageAt(p)]
    BY <2>2 DEF MessageAt
  <2> QED BY <2>3, Marks
<1> QED BY <1>3, <1>5, <1>6

\* Where two messages lie in the stream.
LEMMA TwoMessages ==
    ASSUME NEW i \in Messages, NEW j \in Messages
    PROVE  /\ i \in Nat /\ 1 <= i /\ Begin(i) \in Nat /\ Mark[i] \in Nat
           /\ 1 <= Begin(i) /\ Begin(i) < Mark[i] /\ Mark[i] <= Size
           /\ i < j => Mark[i] < Begin(j) /\ Mark[i] < Mark[j]
           /\ i = j \/ i < j \/ j < i
<1>1. Messages = 1..Len(Mark) /\ Len(Mark) \in Nat
  BY Marks
<1>2. i \in Nat /\ 1 <= i /\ (i = j \/ i < j \/ j < i)
  BY <1>1
<1>3. /\ Begin(i) \in Nat /\ Mark[i] \in Nat /\ 1 <= Begin(i) /\ Begin(i) < Mark[i]
      /\ Begin(j) \in Nat /\ Mark[j] \in Nat /\ Begin(j) < Mark[j] /\ Mark[i] <= Size
  BY Marks, Places
<1>4. i < j => Mark[i] < Begin(j)
  BY Marks
<1> QED BY <1>2, <1>3, <1>4

\* What stands at each place of the stream.
LEMMA StreamCells ==
    /\ Len(Stream) = Size /\ DOMAIN Stream = 1..Size
    /\ \A p \in 1..Size : /\ Stream[p][1] = MessageAt(p)
                          /\ IsMark(Stream[p]) <=> p = Mark[MessageAt(p)]
                          /\ p = Mark[MessageAt(p)] => Stream[p] = <<MessageAt(p), 0>>
    /\ Stream \in Seq(Cells)
<1>1. Stream = [p \in 1..Size |->
                  <<MessageAt(p), IF p = Mark[MessageAt(p)] THEN 0 ELSE p - Begin(MessageAt(p)) + 1>>]
  BY DEF Stream
<1>2. Size \in Nat
  BY Places
<1>3. Len(Stream) = Size /\ DOMAIN Stream = 1..Size
  BY <1>1, <1>2
<1>4. \A p \in 1..Size : Stream[p] \in Cells
  BY <1>3 DEF Cells
<1>5. Stream \in Seq(Cells)
  <2>1. Stream \in [1..Size -> Cells]
    BY <1>1, <1>4
  <2> QED BY <2>1, <1>2
<1>6. ASSUME NEW p \in 1..Size
      PROVE  /\ Stream[p][1] = MessageAt(p)
             /\ IsMark(Stream[p]) <=> p = Mark[MessageAt(p)]
             /\ p = Mark[MessageAt(p)] => Stream[p] = <<MessageAt(p), 0>>
  <2>1. Stream[p] = <<MessageAt(p), IF p = Mark[MessageAt(p)] THEN 0 ELSE p - Begin(MessageAt(p)) + 1>>
    BY <1>1
  <2>2. p \in Nat /\ Begin(MessageAt(p)) \in Nat /\ Begin(MessageAt(p)) <= p
    BY <1>2, Places, Marks
  <2> QED BY <2>1, <2>2 DEF IsMark
<1> QED BY <1>3, <1>5, <1>6

\* Between two end marks there is one message only.
LEMMA Unmarked ==
    ASSUME NEW p \in 1..Size, NEW q \in 1..Size, p <= q,
           \A k \in p..(q - 1) : ~IsMark(Stream[k])
    PROVE  MessageAt(p) = MessageAt(q)
<1> DEFINE a == MessageAt(p)
           b == MessageAt(q)
<1>1. /\ Size \in Nat /\ a \in Messages /\ b \in Messages
      /\ Begin(a) <= p /\ p <= Mark[a] /\ Begin(b) <= q /\ q <= Mark[b]
  BY Places
<1>2. /\ Begin(a) \in Nat /\ Begin(b) \in Nat /\ Mark[a] \in Nat /\ Mark[b] \in Nat
      /\ a \in Nat /\ b \in Nat /\ Begin(a) < Mark[a] /\ Mark[a] <= Size
      /\ a < b => Mark[a] < Begin(b)
      /\ b < a => Mark[b] < Begin(a)
  <2> HIDE DEF a, b
  <2> QED BY <1>1, TwoMessages
<1> HIDE DEF a, b
<1>3. ~(b < a)
  BY <1>1, <1>2
<1>4. ASSUME a < b PROVE FALSE
  <2>1. Mark[a] \in p..(q - 1) /\ Mark[a] \in 1..Size
    BY <1>1, <1>2, <1>4
  <2>2. MessageAt(Mark[a]) = a
    BY <1>1, <1>2, <2>1, Places
  <2>3. IsMark(Stream[Mark[a]])
    BY <2>1, <2>2, StreamCells
  <2> QED BY <2>1, <2>3
<1> QED BY <1>2, <1>3, <1>4 DEF a, b

\* The piece of the stream between two places, and its pieces.
LEMMA Pieces ==
    ASSUME NEW d \in Nat, NEW t \in Nat, d <= t, t <= Size
    PROVE  LET s == SubSeq(Stream, d + 1, t)
           IN  /\ s \in Seq(Cells) /\ Len(s) = t - d /\ DOMAIN s = 1..(t - d)
               /\ \A k \in 1..(t - d) : s[k] = Stream[d + k]
               /\ \A m \in 1..(t - d) :
                     /\ SubSeq(s, m + 1, Len(s)) = SubSeq(Stream, d + m + 1, t)
                     /\ SubSeq(s, 1, m - 1) = SubSeq(Stream, d + 1, d + m - 1)
               /\ \A u \in t..Size : s \o SubSeq(Stream, t + 1, u) = SubSeq(Stream, d + 1, u)
<1> DEFINE s == SubSeq(Stream, d + 1, t)
<1>1. Stream \in Seq(Cells) /\ Len(Stream) = Size /\ Size \in Nat
  BY StreamCells, Places
<1>2. ASSUME NEW x \in Nat, NEW y \in Nat, x <= y, y <= Size
      PROVE  /\ SubSeq(Stream, x + 1, y) \in Seq(Cells)
             /\ Len(SubSeq(Stream, x + 1, y)) = y - x
             /\ \A k \in 1..(y - x) : SubSeq(Stream, x + 1, y)[k] = Stream[x + k]
  <2>1. \A k \in (x + 1)..y : k \in 1..Len(Stream)
    BY <1>1, <1>2
  <2>2. SubSeq(Stream, x + 1, y) \in Seq(Cells)
    BY <1>1, <2>1, SubSeqProperties
  <2>3. Len(SubSeq(Stream, x + 1, y)) = y - x
    BY <1>1, <1>2, SubSeqProperties
  <2>4. ASSUME NEW k \in 1..(y - x) PROVE SubSeq(Stream, x + 1, y)[k] = Stream[x + k]
    <3>1. SubSeq(Stream, x + 1, y)[k] = Stream[x + 1 + k - 1]
      BY <1>1, <1>2, SubSeqProperties
    <3> QED BY <3>1
  <2> QED BY <2>2, <2>3, <2>4
<1>3. s \in Seq(Cells) /\ Len(s) = t - d /\ \A k \in 1..(t - d) : s[k] = Stream[d + k]
  BY <1>2
<1> HIDE DEF s
<1>4. DOMAIN s = 1..(t - d)
  BY <1>3
<1>5. ASSUME NEW m \in 1..(t - d)
      PROVE  /\ SubSeq(s, m + 1, Len(s)) = SubSeq(Stream, d + m + 1, t)
             /\ SubSeq(s, 1, m - 1) = SubSeq(Stream, d + 1, d + m - 1)
  <2>1. /\ d + m \in Nat /\ d + m <= t /\ d + m - 1 \in Nat /\ d <= d + m - 1
        /\ d + m - 1 <= Size
    BY <1>1
  <2> DEFINE a == SubSeq(s, m + 1, Len(s))
             b == SubSeq(Stream, d + m + 1, t)
             e == SubSeq(s, 1, m - 1)
             f == SubSeq(Stream, d + 1, d + m - 1)
  <2>2. b \in Seq(Cells) /\ Len(b) = t - (d + m)
        /\ \A k \in 1..(t - (d + m)) : b[k] = Stream[d + m + k]
    BY <1>2, <2>1
  <2>3. f \in Seq(Cells) /\ Len(f) = m - 1
        /\ \A k \in 1..(m - 1) : f[k] = Stream[d + k]
    BY <1>2, <2>1
  <2>4. a \in Seq(Cells) /\ Len(a) = t - (d + m)
        /\ \A k \in 1..(t - (d + m)) : a[k] = s[m + k]
    BY <1>3, SubSeqProperties
  <2>5. e \in Seq(Cells) /\ Len(e) = m - 1 /\ \A k \in 1..(m - 1) : e[k] = s[k]
    BY <1>3, SubSeqProperties
  <2> HIDE DEF a, b, e, f
  <2>6. \A k \in 1..(t - (d + m)) : a[k] = b[k]
    <3> SUFFICES ASSUME NEW k \in 1..(t - (d + m)) PROVE a[k] = b[k]
      OBVIOUS
    <3>1. m + k \in 1..(t - d)
      OBVIOUS
    <3>2. s[m + k] = Stream[d + (m + k)]
      BY <3>1, <1>3
    <3> QED BY <3>2, <2>2, <2>4
  <2>7. \A k \in 1..(m - 1) : e[k] = f[k]
    BY <2>3, <2>5, <1>3
  <2>8. a = b
    BY <2>2, <2>4, <2>6, SeqEqual
  <2>9. e = f
    BY <2>3, <2>5, <2>7, SeqEqual
  <2> QED BY <2>8, <2>9 DEF a, b, e, f
<1>6. ASSUME NEW u \in t..Size
      PROVE  s \o SubSeq(Stream, t + 1, u) = SubSeq(Stream, d + 1, u)
  <2> DEFINE r == SubSeq(Stream, t + 1, u)
             w == SubSeq(Stream, d + 1, u)
  <2>1. r \in Seq(Cells) /\ Len(r) = u - t /\ \A k \in 1..(u - t) : r[k] = Stream[t + k]
    BY <1>1, <1>2
  <2>2. w \in Seq(Cells) /\ Len(w) = u - d /\ \A k \in 1..(u - d) : w[k] = Stream[d + k]
    BY <1>1, <1>2
  <2> HIDE DEF r, w
  <2>3. s \o r \in Seq(Cells) /\ Len(s \o r) = u - d
    BY <1>3, <2>1, ConcatProperties
  <2>4. \A k \in 1..(u - d) : (s \o r)[k] = w[k]
    <3> SUFFICES ASSUME NEW k \in 1..(u - d) PROVE (s \o r)[k] = w[k]
      OBVIOUS
    <3>1. CASE k <= t - d
      <4>1. (s \o r)[k] = s[k]
        BY <1>3, <2>1, <3>1, ConcatProperties
      <4> QED BY <4>1, <3>1, <1>3, <2>2
    <3>2. CASE k > t - d
      <4>1. (s \o r)[k] = r[k - (t - d)]
        BY <1>3, <2>1, <3>2, ConcatProperties
      <4>2. r[k - (t - d)] = Stream[t + (k - (t - d))] /\ t + (k - (t - d)) = d + k
        BY <2>1, <3>2
      <4> QED BY <4>1, <4>2, <2>2
    <3>3. k <= t - d \/ k > t - d
      OBVIOUS
    <3> QED BY <3>1, <3>2, <3>3
  <2>5. s \o r = w
    BY <2>2, <2>3, <2>4, SeqEqual
  <2> QED BY <2>5 DEF r, w
<1> QED BY <1>3, <1>4, <1>5, <1>6 DEF s

\* Place d is one at which a position of the stream can begin for the mission:
\* where its first receive ended, or behind an end mark.
Boundary(d) == d = cut \/ \E i \in Messages : d = Mark[i]

\* What main cuts off the front of a piece of the stream: the rest of one
\* message, which is the whole of it unless the first receive has cut it.
LEMMA CutOff ==
    ASSUME cut \in Nat, NEW d \in Nat, NEW t \in Nat, cut <= d, d <= t, t <= Size,
           Boundary(d), NEW input, input = SubSeq(Stream, d + 1, t), check_if_json(input)
    PROVE  LET m == eof_pos(input)
               e == d + m
               i == MessageAt(e)
           IN  /\ m \in 1..(t - d)
               /\ i \in Messages /\ Mark[i] = e /\ d < Mark[i]
               /\ \A j \in Messages : d < Mark[j] /\ Mark[j] <= e => j = i
               /\ Parsed(SubSeq(input, 1, m - 1)) =
                     IF cut < Begin(i) THEN {[kind |-> "object", msg |-> i]}
                                       ELSE {[kind |-> "error", msg |-> 0]}
<1> DEFINE m == eof_pos(input)
           i == MessageAt(d + m)
           text == SubSeq(input, 1, m - 1)
<1>1. /\ input \in Seq(Cells) /\ Len(input) = t - d /\ DOMAIN input = 1..(t - d)
      /\ \A k \in 1..(t - d) : input[k] = Stream[d + k]
      /\ \A k \in 1..(t - d) : SubSeq(input, 1, k - 1) = SubSeq(Stream, d + 1, d + k - 1)
  BY Pieces
<1>2. m \in 1..(t - d) /\ IsMark(input[m]) /\ \A k \in 1..(m - 1) : ~IsMark(input[k])
  <2>1. t - d \in Nat
    OBVIOUS
  <2> QED BY <1>1, <2>1, FirstMark
<1>3. text = SubSeq(Stream, d + 1, d + m - 1)
  BY <1>1, <1>2
<1> HIDE DEF m, text
<1>4. Size \in Nat /\ d + m \in 1..Size /\ d + m <= t
  BY <1>2, Places
<1>5. IsMark(Stream[d + m]) /\ \A p \in (d + 1)..(d + m - 1) : ~IsMark(Stream[p])
  <2>1. ASSUME NEW p \in (d + 1)..(d + m - 1) PROVE ~IsMark(Stream[p])
    <3>1. p - d \in 1..(m - 1) /\ p - d \in 1..(t - d) /\ d + (p - d) = p
      BY <1>2
    <3>2. input[p - d] = Stream[d + (p - d)]
      BY <3>1, <1>1
    <3> QED BY <3>1, <3>2, <1>2
  <2> QED BY <2>1, <1>1, <1>2
<1>6. /\ i \in Messages /\ Mark[i] = d + m /\ d < Mark[i] /\ i \in Nat
      /\ Begin(i) \in Nat /\ 1 <= Begin(i) /\ Begin(i) < Mark[i]
  <2>1. i \in Messages /\ Mark[i] = d + m
    BY <1>4, <1>5, Places, StreamCells
  <2> HIDE DEF i
  <2> QED BY <2>1, <1>2, Marks
<1> HIDE DEF i
<1>7. ASSUME NEW j \in Messages, d < Mark[j], Mark[j] <= d + m PROVE j = i
  <2>1. /\ Mark[j] \in Nat /\ Mark[j] \in 1..Size /\ Begin(j) <= Mark[j]
    BY <1>7, <1>4, Marks
  <2>2. MessageAt(Mark[j]) = j
    BY <2>1, <1>7, Marks, Places
  <2>3. IsMark(Stream[Mark[j]])
    BY <2>1, <2>2, StreamCells
  <2>4. Mark[j] = d + m
    <3> DEFINE x == Mark[j]
    <3>1. x \notin (d + 1)..(d + m - 1)
      BY <1>5, <2>3
    <3>2. x \in Nat /\ d < x /\ x <= d + m
      BY <2>1, <1>7
    <3> HIDE DEF x
    <3>3. x = d + m
      BY <3>1, <3>2, <1>2
    <3> QED BY <3>3 DEF x
  <2> QED BY <2>2, <2>4 DEF i
<1>8. \A p \in (d + 1)..(d + m) : p \in 1..Size /\ MessageAt(p) = i
  <2> SUFFICES ASSUME NEW p \in (d + 1)..(d + m) PROVE p \in 1..Size /\ MessageAt(p) = i
    OBVIOUS
  <2>1. p \in 1..Size /\ p <= d + m
    BY <1>4, <1>2
  <2>2. \A k \in p..(d + m - 1) : ~IsMark(Stream[k])
    BY <1>5
  <2>3. MessageAt(p) = MessageAt(d + m)
    <3> DEFINE q == d + m
    <3>1. q \in 1..Size /\ p <= q
      BY <1>4, <2>1
    <3>2. \A k \in p..(q - 1) : ~IsMark(Stream[k])
      BY <2>2, <1>2
    <3> HIDE DEF q
    <3>3. MessageAt(p) = MessageAt(q)
      BY <2>1, <3>1, <3>2, Unmarked
    <3> QED BY <3>3 DEF q
  <2> QED BY <2>1, <2>3 DEF i
<1>9. /\ text \in Seq(Cells) /\ Len(text) = m - 1 /\ DOMAIN text = 1..(m - 1)
      /\ \A k \in 1..(m - 1) : text[k] = Stream[d + k] /\ text[k][1] = i
  <2> DEFINE x == d + m - 1
  <2>1. x \in Nat /\ d <= x /\ x <= Size /\ x - d = m - 1 /\ text = SubSeq(Stream, d + 1, x)
    BY <1>2, <1>3, <1>4
  <2> HIDE DEF x
  <2>2. /\ text \in Seq(Cells) /\ Len(text) = x - d /\ DOMAIN text = 1..(x - d)
        /\ \A k \in 1..(x - d) : text[k] = Stream[d + k]
    BY <2>1, Pieces
  <2>3. ASSUME NEW k \in 1..(m - 1) PROVE text[k][1] = i
    <3> DEFINE y == d + k
    <3>1. y \in (d + 1)..(d + m)
      BY <1>2
    <3>2. text[k] = Stream[y]
      BY <2>1, <2>2
    <3> HIDE DEF y
    <3>3. y \in 1..Size /\ MessageAt(y) = i
      BY <3>1, <1>8
    <3>4. Stream[y][1] = i
      BY <3>3, StreamCells
    <3> QED BY <3>2, <3>4
  <2> QED BY <2>1, <2>2, <2>3
\* Which messages the text can be: only i, and it only if it is not cut.
<1>10. ASSUME NEW j \in Messages, Append(text, <<j, 0>>) = Text(j)
       PROVE  j = i /\ d + 1 = Begin(i)
  <2>1. /\ Begin(j) - 1 \in Nat /\ Mark[j] \in Nat /\ Begin(j) - 1 <= Mark[j]
        /\ Begin(j) < Mark[j] /\ Mark[j] <= Size /\ (Begin(j) - 1) + 1 = Begin(j)
    BY Marks, Places
  <2>2. /\ Len(Text(j)) = Mark[j] - (Begin(j) - 1)
        /\ \A k \in 1..(Mark[j] - (Begin(j) - 1)) : Text(j)[k] = Stream[Begin(j) - 1 + k]
    <3> DEFINE x == Begin(j) - 1
    <3>1. Text(j) = SubSeq(Stream, x + 1, Mark[j])
      BY <2>1 DEF Text
    <3>2. x \in Nat /\ x <= Mark[j]
      BY <2>1
    <3> HIDE DEF x
    <3>3. /\ Len(Text(j)) = Mark[j] - x
          /\ \A k \in 1..(Mark[j] - x) : Text(j)[k] = Stream[x + k]
      BY <3>1, <3>2, <2>1, Pieces
    <3> QED BY <3>3 DEF x
  <2>3. Len(Append(text, <<j, 0>>)) = m
    BY <1>9, <1>2
  <2>4. m = Mark[j] - (Begin(j) - 1) /\ m > 1
    BY <1>10, <2>1, <2>2, <2>3
  <2>5. Append(text, <<j, 0>>)[1] = text[1]
    BY <1>9, <2>4
  <2>6. text[1][1] = i
    BY <1>9, <2>4
  <2>7. Text(j)[1][1] = j
    <3>1. Text(j)[1] = Stream[Begin(j)] /\ Begin(j) \in 1..Size
      BY <2>1, <2>2, Places
    <3>2. MessageAt(Begin(j)) = j
      BY <3>1, <2>1, Places
    <3> QED BY <3>1, <3>2, StreamCells
  <2>8. j = i
    BY <1>10, <2>5, <2>6, <2>7
  <2> QED BY <2>8, <2>4, <1>6
<1>11. ASSUME d + 1 = Begin(i) PROVE Append(text, <<i, 0>>) = Text(i)
  <2>1. d \in Nat /\ d <= Mark[i] /\ Mark[i] \in Nat /\ Mark[i] <= Size /\ Mark[i] - d = m
    BY <1>6, <1>4, Places, <1>2
  <2>2. Text(i) \in Seq(Cells) /\ Len(Text(i)) = m
        /\ \A k \in 1..m : Text(i)[k] = Stream[d + k]
    <3> DEFINE x == Mark[i]
    <3>1. Text(i) = SubSeq(Stream, d + 1, x)
      BY <1>11 DEF Text
    <3>2. x \in Nat /\ d <= x /\ x <= Size /\ x - d = m
      BY <2>1
    <3> HIDE DEF x
    <3> DEFINE y == SubSeq(Stream, d + 1, x)
    <3>3. y \in Seq(Cells) /\ Len(y) = x - d /\ \A k \in 1..(x - d) : y[k] = Stream[d + k]
      BY <3>2, <2>1, Pieces
    <3> HIDE DEF y
    <3>4. Text(i) = y
      BY <3>1 DEF y
    <3> QED BY <3>2, <3>3, <3>4
  <2>3. Stream[d + m] = <<i, 0>>
    BY <1>4, <1>6, StreamCells DEF i
  <2>4. <<i, 0>> \in Cells
    BY <1>6 DEF Cells
  <2>5. /\ Append(text, <<i, 0>>) \in Seq(Cells) /\ Len(Append(text, <<i, 0>>)) = m
        /\ \A k \in 1..(m - 1) : Append(text, <<i, 0>>)[k] = text[k]
        /\ Append(text, <<i, 0>>)[m] = <<i, 0>>
    BY <1>9, <2>4, <1>2, AppendProperties
  <2>6. ASSUME NEW k \in 1..m PROVE Append(text, <<i, 0>>)[k] = Text(i)[k]
    <3>1. CASE k = m
      BY <3>1, <2>2, <2>3, <2>5
    <3>2. CASE k \in 1..(m - 1)
      BY <3>2, <2>2, <2>5, <1>9
    <3>3. k = m \/ k \in 1..(m - 1)
      BY <1>2
    <3> QED BY <3>1, <3>2, <3>3
  <2> QED BY <2>2, <2>5, <2>6, SeqEqual
<1>12. cut < Begin(i) <=> d + 1 = Begin(i)
  <2>1. ASSUME cut < Begin(i) PROVE d + 1 = Begin(i)
    <3>1. d < Begin(i)
      <4>1. CASE d = cut
        BY <4>1, <2>1
      <4>2. ASSUME NEW j \in Messages, d = Mark[j] PROVE d < Begin(i)
        <5>1. /\ i < j => Mark[i] < Mark[j]
              /\ j < i => Mark[j] < Begin(i)
              /\ i = j \/ i < j \/ j < i
              /\ Mark[i] \in Nat /\ Mark[j] \in Nat
          BY <1>6, TwoMessages
        <5> QED BY <5>1, <4>2, <1>6
      <4> QED BY <4>1, <4>2 DEF Boundary
    <3>2. ASSUME d + 1 < Begin(i) PROVE FALSE
      <4>1. i # 1 /\ Begin(i) = Mark[i - 1] + 1
        BY <3>2 DEF Begin
      <4>2. i - 1 \in Messages /\ Mark[i - 1] \in Nat
        BY <4>1, <1>6, Marks
      <4>3. d < Mark[i - 1] /\ Mark[i - 1] <= d + m
        BY <4>1, <4>2, <3>2, <1>6, <1>2
      <4>4. i - 1 = i
        BY <4>2, <4>3, <1>7
      <4> QED BY <4>4, <1>6
    <3> QED BY <3>1, <3>2, <1>6
  <2> QED BY <2>1, <1>6
<1>13. Parsed(text) = IF cut < Begin(i) THEN {[kind |-> "object", msg |-> i]}
                                        ELSE {[kind |-> "error", msg |-> 0]}
  <2>1. CASE cut < Begin(i)
    <3>1. Whole(text) = {i}
      BY <2>1, <1>6, <1>10, <1>11, <1>12 DEF Whole
    <3>2. Parsed(text) = [kind : {"object"}, msg : {i}]
      BY <3>1 DEF Parsed
    <3>3. ASSUME NEW v \in [kind : {"object"}, msg : {i}]
          PROVE  v = [kind |-> "object", msg |-> i]
      OBVIOUS
    <3>4. [kind |-> "object", msg |-> i] \in [kind : {"object"}, msg : {i}]
      OBVIOUS
    <3> QED BY <3>2, <3>3, <3>4, <2>1
  <2>2. CASE ~(cut < Begin(i))
    <3>1. Whole(text) = {}
      BY <2>2, <1>10, <1>12 DEF Whole
    <3>2. i # 0
      BY <1>6, Marks
    <3>3. \A j, k \in DOMAIN text : text[j][1] = text[k][1] /\ text[j][1] # 0
      BY <1>9, <3>2
    <3> QED BY <3>1, <3>3, <2>2 DEF Parsed
  <2> QED BY <2>1, <2>2
<1> QED BY <1>2, <1>3, <1>6, <1>7, <1>13 DEF m, i, text

-----------------------------------------------------------------------------
(* The steps of the mission                                                *)

\* How far the stream has been printed or thrown away.
Done == taken - Len(raw)

\* Of the stream up to place d every message was printed that the first
\* receive has left whole, once and in order.
PrintedTo(d) ==
    /\ Range(printed) = {i \in Messages : cut < Begin(i) /\ Mark[i] <= d}
    /\ \A j, k \in DOMAIN printed : j < k => printed[j] < printed[k]

\* While no receive has filled the buffer: what is in hand is the last piece of
\* the stream received, it begins where a position can, and what is before it
\* is printed.  A piece that has come with one receive is shorter than the
\* buffer; to have received it, no position was in hand.
InHand ==
    /\ cut <= Done /\ Done <= taken
    /\ raw = SubSeq(Stream, Done + 1, taken)
    /\ Boundary(Done)
    /\ PrintedTo(Done)
    /\ Len(raw) < BUF \/ ~check_if_json(raw)

\* Nothing is printed before the first receive.
PrintsLater == Doing("connect") \/ Doing("first_read") => printed = <<>>

\* The inductive invariant of the mission.
KeepsUp == TypeOK /\ PrintsLater /\ (overrun \/ (InHand /\ step # Aborted))

\* A step of the plan that has a next one goes on to it.
LEMMA PlanSteps ==
    /\ DOMAIN Plan \in SUBSET (Nat \ {0}) /\ 1 \in DOMAIN Plan
    /\ \A s \in DOMAIN Plan : Plan[s] # "finished" => s + 1 \in DOMAIN Plan
    /\ \A s \in DOMAIN Plan : Plan[s] = "in_air" => s + 2 \in DOMAIN Plan
    /\ \A s \in DOMAIN Plan : Plan[s] = "print_landing" => s - 1 \in DOMAIN Plan
    /\ \A s \in DOMAIN Plan : Plan[s] \in {"connect", "first_read"} <=> s \in {1, 2}
    /\ Plan[1] = "connect" /\ Plan[2] = "first_read"
    /\ \A s \in DOMAIN Plan : Plan[s] = "print_landing" => s > 3
BY DEF Plan

\* What a receive gives: any characters, and unless it fills the buffer the
\* next ones of the stream, less than the buffer holds.
LEMMA Receiving ==
    ASSUME TypeOK, NEW text, recv(text)
    PROVE  /\ text \in Seq(Cells)
           /\ taken' \in Nat /\ taken <= taken' /\ taken' <= arrived
           /\ overrun' \in BOOLEAN
           /\ ~overrun' => /\ ~overrun
                           /\ text = SubSeq(Stream, taken + 1, taken')
                           /\ Len(text) = taken' - taken /\ Len(text) < BUF
<1> DEFINE n == IF arrived - taken > BUF THEN taken + BUF ELSE arrived
<1>1. /\ Size \in Nat /\ BUF \in Nat \ {0} /\ arrived \in Nat /\ taken \in Nat
      /\ taken <= arrived /\ arrived <= Size /\ overrun \in BOOLEAN
  BY Places, StreamCells, MissionAssumption DEF TypeOK
<1>2. n \in Nat /\ taken <= n /\ n <= arrived /\ n <= Size /\ n - taken <= BUF
  BY <1>1
<1>3. Received = SubSeq(Stream, taken + 1, n)
  BY DEF Received
<1> HIDE DEF n
<1>4. Received \in Seq(Cells) /\ Len(Received) = n - taken
  BY <1>1, <1>2, <1>3, Pieces
<1>5. taken' = taken + Len(Received) /\ overrun' = (overrun \/ Len(Received) = BUF)
      /\ text \in Appended
  BY DEF recv
<1>6. taken' = n
  BY <1>1, <1>2, <1>4, <1>5
<1>7. text \in Seq(Cells)
  <2>1. \A k \in 0..1 : <<0, k>> \in Cells
    BY DEF Cells
  <2>2. << <<0, 0>> >> \in Seq(Cells) /\ << <<0, 1>> >> \in Seq(Cells) /\ <<>> \in Seq(Cells)
    BY <2>1
  <2>3. \A junk \in Behind : junk \in Seq(Cells)
    BY <2>2 DEF Behind
  <2>4. \A junk \in Behind : Received \o junk \in Seq(Cells)
    BY <2>3, <1>4, ConcatProperties
  <2> QED BY <2>4, <1>4, <1>5 DEF Appended
<1>8. ASSUME ~overrun'
      PROVE  ~overrun /\ text = Received /\ Len(Received) < BUF
  <2>1. ~overrun /\ Len(Received) # BUF
    BY <1>5, <1>8
  <2>2. text = Received
    BY <1>5, <2>1 DEF Appended
  <2> QED BY <2>1, <2>2, <1>1, <1>2, <1>4
<1>9. overrun' \in BOOLEAN
  BY <1>5
<1> QED BY <1>1, <1>2, <1>3, <1>4, <1>6, <1>7, <1>8, <1>9

\* Printing keeps the types, whatever is in hand.
LEMMA PrintingType ==
    ASSUME TypeOK, NEW input \in Seq(Cells), NEW next, SliceAndPrint(input, next)
    PROVE  /\ step' \in {next, Aborted}
           /\ raw' \in Seq(Cells)
           /\ printed' \in Seq(Messages \cup {0})
<1>1. printed \in Seq(Messages \cup {0})
  BY DEF TypeOK
<1>2. CASE ~check_if_json(input)
  BY <1>1, <1>2 DEF SliceAndPrint
<1>3. CASE check_if_json(input)
  <2> DEFINE m == eof_pos(input)
  <2>1. Len(input) \in Nat /\ DOMAIN input = 1..Len(input)
        /\ \A k \in 1..Len(input) : input[k] \in Cells
    BY LenProperties
  <2>2. m \in 1..Len(input)
    BY <2>1, <1>3, FirstMark
  <2>3. /\ raw' = SubSeq(input, m + 1, Len(input))
        /\ \E value \in Parsed(SubSeq(input, 1, m - 1)) :
              /\ step' = IF value.kind = "other" THEN Aborted ELSE next
              /\ printed' = IF value.kind = "object" THEN Append(printed, value.msg) ELSE printed
    BY <1>3 DEF SliceAndPrint
  <2> HIDE DEF m
  <2>4. raw' \in Seq(Cells)
    <3>1. \A k \in (m + 1)..Len(input) : input[k] \in Cells
      BY <2>1, <2>2
    <3> QED BY <3>1, <2>1, <2>2, <2>3, SubSeqProperties
  <2>5. ASSUME NEW text, NEW value \in Parsed(text)
        PROVE  value.kind = "object" => value.msg \in Messages \cup {0}
    BY <2>5 DEF Parsed, Whole
  <2>6. step' \in {next, Aborted} /\ printed' \in Seq(Messages \cup {0})
    BY <2>3, <2>5, <1>1, AppendProperties
  <2> QED BY <2>4, <2>6
<1> QED BY <1>2, <1>3

\* What is printed once the mission has d behind it is printed once and in
\* order, too, after the next message or the cut rest of one.
LEMMA PrintingOne ==
    ASSUME TypeOK, NEW d \in Nat, NEW i \in Messages, PrintedTo(d), cut' = cut,
           d < Mark[i], NEW e \in Nat, e = Mark[i],
           \A j \in Messages : d < Mark[j] /\ Mark[j] <= e => j = i,
           printed' = IF cut < Begin(i) THEN Append(printed, i) ELSE printed
    PROVE  PrintedTo(e)'
<1>1. /\ printed \in Seq(Messages \cup {0}) /\ cut \in Nat
      /\ Len(printed) \in Nat /\ DOMAIN printed = 1..Len(printed)
  BY Places, StreamCells, LenProperties DEF TypeOK
<1>2. /\ Range(printed) = {j \in Messages : cut < Begin(j) /\ Mark[j] <= d}
      /\ \A j, k \in DOMAIN printed : j < k => printed[j] < printed[k]
  BY DEF PrintedTo
<1>3. \A k \in 1..Len(printed) : printed[k] \in Range(printed)
  BY <1>1 DEF Range
<1>4. ASSUME NEW j \in Messages
      PROVE  Mark[j] <= e <=> (Mark[j] <= d \/ j = i)
  <2>1. Mark[j] \in Nat /\ Mark[i] \in Nat
    BY TwoMessages
  <2> QED BY <2>1
<1>5. CASE cut < Begin(i)
  <2>1. /\ printed' \in Seq(Messages \cup {0})
        /\ Len(printed') = Len(printed) + 1
        /\ \A k \in 1..Len(printed) : printed'[k] = printed[k]
        /\ printed'[Len(printed) + 1] = i
    BY <1>1, <1>5, AppendProperties
  <2>2. DOMAIN printed' = 1..(Len(printed) + 1)
    BY <2>1, LenProperties
  <2>3. Range(printed') = Range(printed) \cup {i}
    <3>1. ASSUME NEW k \in 1..(Len(printed) + 1)
          PROVE  printed'[k] \in Range(printed) \cup {i}
      BY <1>1, <1>3, <2>1
    <3>2. ASSUME NEW v \in Range(printed) PROVE v \in Range(printed')
      <4>1. PICK k \in 1..Len(printed) : printed[k] = v
        BY <1>1 DEF Range
      <4>2. k \in 1..(Len(printed) + 1) /\ printed'[k] = v
        BY <4>1, <2>1, <1>1
      <4> QED BY <4>2, <2>2 DEF Range
    <3>3. i \in Range(printed')
      <4>1. Len(printed) + 1 \in 1..(Len(printed) + 1)
        BY <1>1
      <4> QED BY <4>1, <2>1, <2>2 DEF Range
    <3>4. \A v \in Range(printed') : \E k \in 1..(Len(printed) + 1) : v = printed'[k]
      BY <2>2 DEF Range
    <3> QED BY <3>1, <3>2, <3>3, <3>4
  <2>4. Range(printed') = {j \in Messages : cut < Begin(j) /\ Mark[j] <= e}
    BY <1>2, <1>4, <1>5, <2>3
  <2>5. \A v \in Range(printed) : v < i
    <3> SUFFICES ASSUME NEW v \in Messages, Mark[v] <= d PROVE v < i
      BY <1>2
    <3>1. /\ Mark[v] \in Nat /\ Mark[i] \in Nat /\ v \in Nat /\ i \in Nat
          /\ i < v => Mark[i] < Mark[v]
          /\ i = v \/ i < v \/ v < i
      BY TwoMessages
    <3> QED BY <3>1
  <2>6. ASSUME NEW j \in 1..(Len(printed) + 1), NEW k \in 1..(Len(printed) + 1), j < k
        PROVE  printed'[j] < printed'[k]
    <3>1. j \in 1..Len(printed) /\ printed'[j] = printed[j]
      BY <1>1, <2>1, <2>6
    <3>2. CASE k \in 1..Len(printed)
      BY <3>1, <3>2, <1>1, <1>2, <2>1, <2>6
    <3>3. CASE k = Len(printed) + 1
      BY <3>1, <3>3, <1>3, <2>1, <2>5
    <3>4. k \in 1..Len(printed) \/ k = Len(printed) + 1
      BY <1>1
    <3> QED BY <3>2, <3>3, <3>4
  <2> QED BY <2>2, <2>4, <2>6 DEF PrintedTo
<1>6. CASE ~(cut < Begin(i))
  <2>1. {j \in Messages : cut < Begin(j) /\ Mark[j] <= e}
          = {j \in Messages : cut < Begin(j) /\ Mark[j] <= d}
    BY <1>4, <1>6
  <2> QED BY <2>1, <1>2, <1>6 DEF PrintedTo
<1> QED BY <1>5, <1>6

\* Printing from a piece of the stream leaves the rest of the piece in hand,
\* and does not abort.  What the piece has up to place b is unmarked.
LEMMA PrintingPiece ==
    ASSUME TypeOK, NEW d \in Nat, NEW t \in Nat, cut <= d, d <= t, t <= Size,
           Boundary(d), PrintedTo(d), cut' = cut, taken' = t,
           NEW input, input = SubSeq(Stream, d + 1, t),
           NEW b \in d..t, t - b < BUF, \A p \in (d + 1)..b : ~IsMark(Stream[p]),
           NEW next \in DOMAIN Plan, SliceAndPrint(input, next)
    PROVE  InHand' /\ step' = next
<1>1. /\ cut \in Nat /\ Size \in Nat /\ BUF \in Nat
      /\ input \in Seq(Cells) /\ Len(input) = t - d
  BY Places, StreamCells, Pieces, MissionAssumption DEF TypeOK
<1>2. CASE ~check_if_json(input)
  <2>1. raw' = input /\ step' = next /\ printed' = printed
    BY <1>2 DEF SliceAndPrint
  <2>2. Done' = d
    BY <2>1, <1>1 DEF Done
  <2>3. PrintedTo(d)'
    BY <2>1 DEF PrintedTo
  <2>4. Boundary(d)'
    BY DEF Boundary
  <2>5. ~check_if_json(raw)'
    BY <2>1, <1>2 DEF check_if_json
  <2> QED BY <2>1, <2>2, <2>3, <2>4, <2>5 DEF InHand
<1>3. CASE check_if_json(input)
  <2> DEFINE m == eof_pos(input)
             i == MessageAt(d + m)
             text == SubSeq(input, 1, m - 1)
             e == d + m
  <2>1. /\ m \in 1..(t - d)
        /\ i \in Messages /\ Mark[i] = e /\ d < Mark[i]
        /\ \A j \in Messages : d < Mark[j] /\ Mark[j] <= e => j = i
        /\ SubSeq(input, m + 1, Len(input)) = SubSeq(Stream, e + 1, t)
        /\ Parsed(text) = IF cut < Begin(i) THEN {[kind |-> "object", msg |-> i]}
                                            ELSE {[kind |-> "error", msg |-> 0]}
    <3>0. cut \in Nat
      BY <1>1
    <3>1. m \in 1..(t - d)
      BY <1>1, <1>3, CutOff
    <3>2. i \in Messages /\ Mark[i] = e /\ d < Mark[i]
      BY <1>1, <1>3, CutOff
    <3>3. \A j \in Messages : d < Mark[j] /\ Mark[j] <= e => j = i
      BY <1>1, <1>3, CutOff
    <3>4. SubSeq(input, m + 1, Len(input)) = SubSeq(Stream, e + 1, t)
      <4>1. \A k \in 1..(t - d) :
               SubSeq(input, k + 1, Len(input)) = SubSeq(Stream, d + k + 1, t)
        BY Pieces
      <4> QED BY <4>1, <3>1
    <3>5. Parsed(text) = IF cut < Begin(i) THEN {[kind |-> "object", msg |-> i]}
                                           ELSE {[kind |-> "error", msg |-> 0]}
      BY <3>0, <1>3, CutOff, Zenon
    <3> QED BY <3>1, <3>2, <3>3, <3>4, <3>5
  <2>2. PICK value \in Parsed(text) :
              /\ raw' = SubSeq(input, m + 1, Len(input))
              /\ step' = IF value.kind = "other" THEN Aborted ELSE next
              /\ printed' = IF value.kind = "object" THEN Append(printed, value.msg) ELSE printed
    BY <1>3 DEF SliceAndPrint
  <2> HIDE DEF m, text
  <2>3. /\ step' = next
        /\ printed' = IF cut < Begin(i) THEN Append(printed, i) ELSE printed
    <3> HIDE DEF i
    <3>1. CASE cut < Begin(i)
      BY <2>1, <2>2, <3>1
    <3>2. CASE ~(cut < Begin(i))
      BY <2>1, <2>2, <3>2
    <3> QED BY <3>1, <3>2
  <2>4. e \in Nat /\ d < e /\ e <= t
    BY <2>1
  <2> HIDE DEF i, e
  <2>5. PrintedTo(e)'
    BY <2>1, <2>3, <2>4, PrintingOne
  <2>6. raw' = SubSeq(Stream, e + 1, t) /\ Len(raw') = t - e
    <3>1. raw' = SubSeq(Stream, e + 1, t)
      BY <2>1, <2>2
    <3> QED BY <3>1, <2>4, Pieces
  <2>7. Done' = e
    BY <2>4, <2>6 DEF Done
  <2>8. Boundary(e)'
    BY <2>1 DEF Boundary
  <2>9. Len(raw') < BUF
    <3>1. e \in 1..Size /\ e = Mark[i] /\ Begin(i) <= e
      <4>1. Begin(i) \in Nat /\ Begin(i) < Mark[i]
        BY <2>1, TwoMessages
      <4> QED BY <4>1, <2>1, <2>4, <1>1
    <3>2. MessageAt(e) = i
      BY <3>1, <2>1, Places
    <3>3. IsMark(Stream[e])
      BY <3>1, <3>2, StreamCells
    <3>4. e \notin (d + 1)..b
      BY <3>3
    <3> QED BY <3>4, <2>4, <2>6, <1>1
  <2> QED BY <2>3, <2>4, <2>5, <2>6, <2>7, <2>8, <2>9, <1>1 DEF InHand
<1> QED BY <1>2, <1>3

\* print_current_output keeps the invariant.
LEMMA Printing ==
    ASSUME KeepsUp, NEW next \in DOMAIN Plan, next > 2, print_current_output(next),
           UNCHANGED <<arrived, closed, cut, airborne, tookOff>>
    PROVE  KeepsUp'
<1>1. /\ TypeOK /\ next \in Nat
      /\ arrived \in Nat /\ arrived <= Size /\ taken \in Nat /\ taken <= arrived
      /\ cut \in Nat /\ cut <= taken /\ raw \in Seq(Cells) /\ overrun \in BOOLEAN
      /\ BUF \in Nat \ {0} /\ Size \in Nat
  BY PlanSteps, StreamCells, Places, MissionAssumption DEF KeepsUp, TypeOK
<1>2. ASSUME NEW input \in Seq(Cells), SliceAndPrint(input, next),
             taken' \in Nat, taken <= taken', taken' <= arrived, overrun' \in BOOLEAN,
             ~overrun' => InHand' /\ step' = next
      PROVE  KeepsUp'
  <2>1. step' \in {next, Aborted} /\ raw' \in Seq(Cells) /\ printed' \in Seq(Messages \cup {0})
    BY <1>1, <1>2, PrintingType
  <2>2. PrintsLater'
    <3>1. step' \notin {1, 2}
      BY <1>1, <2>1 DEF Aborted
    <3> QED BY <3>1, PlanSteps DEF PrintsLater, Doing
  <2>3. TypeOK'
    <3>1. step' \in DOMAIN Plan \cup {Failed, Aborted}
      BY <2>1
    <3>2. /\ (arrived \in 0..Len(Stream))' /\ (taken \in 0..arrived)' /\ (cut \in 0..taken)'
      BY <1>1, <1>2, StreamCells
    <3>3. {closed, overrun, airborne, tookOff}' \subseteq BOOLEAN
      BY <1>1, <1>2 DEF TypeOK
    <3> QED BY <3>1, <3>2, <3>3, <2>1 DEF TypeOK
  <2>4. next # Aborted
    BY <1>1 DEF Aborted
  <2>5. overrun' \/ (InHand' /\ step' # Aborted)
    BY <2>4, <1>2
  <2> QED BY <2>2, <2>3, <2>5 DEF KeepsUp
<1>3. CASE check_if_json(raw)
  <2>1. SliceAndPrint(raw, next) /\ taken' = taken /\ overrun' = overrun
    BY <1>3 DEF print_current_output
  <2>2. ASSUME ~overrun PROVE InHand' /\ step' = next
    <3> DEFINE d == Done
    <3>1. InHand
      BY <2>2 DEF KeepsUp
    <3>2. d \in Nat /\ cut <= d /\ d <= taken /\ taken <= Size
      BY <3>1, <1>1 DEF InHand, Done
    <3>3. Boundary(d) /\ PrintedTo(d) /\ raw = SubSeq(Stream, d + 1, taken)
      BY <3>1 DEF InHand
    <3>4. taken - d < BUF
      BY <3>1, <1>1, <1>3 DEF InHand, Done
    <3> HIDE DEF d
    <3>5. d \in d..taken /\ \A p \in (d + 1)..d : ~IsMark(Stream[p])
      BY <3>2
    <3> QED BY <3>2, <3>3, <3>4, <3>5, <2>1, <1>1, PrintingPiece
  <2> QED BY <2>1, <2>2, <1>1, <1>2
<1>4. CASE ~check_if_json(raw)
  <2>1. PICK text \in Appended : recv(text) /\ SliceAndPrint(raw \o text, next)
    BY <1>4 DEF print_current_output
  <2>2. /\ text \in Seq(Cells)
        /\ taken' \in Nat /\ taken <= taken' /\ taken' <= arrived
        /\ overrun' \in BOOLEAN
        /\ ~overrun' => /\ ~overrun
                        /\ text = SubSeq(Stream, taken + 1, taken')
                        /\ Len(text) = taken' - taken /\ Len(text) < BUF
    BY <1>1, <2>1, Receiving
  <2>3. raw \o text \in Seq(Cells)
    BY <1>1, <2>2, ConcatProperties
  <2>4. ASSUME ~overrun' PROVE InHand' /\ step' = next
    <3> DEFINE d == Done
               t == taken'
    <3>1. InHand
      BY <2>2, <2>4 DEF KeepsUp
    <3>2. /\ d \in Nat /\ cut <= d /\ d <= taken /\ taken - d = Len(raw)
          /\ t \in Nat /\ taken <= t /\ d <= t /\ t <= Size /\ t - taken < BUF
      <4>1. cut <= d /\ d <= taken /\ d = taken - Len(raw) /\ Len(raw) \in Nat
        BY <3>1, <1>1, LenProperties DEF InHand, Done
      <4>2. t \in Nat /\ taken <= t /\ t <= Size /\ t - taken < BUF
        <5>1. Len(text) = taken' - taken /\ Len(text) < BUF
          BY <2>2, <2>4
        <5>2. taken' \in Nat /\ taken <= taken' /\ taken' <= arrived
          BY <2>2
        <5>3. taken' - taken < BUF
          BY <5>1
        <5>4. taken' <= Size
          BY <5>2, <1>1
        <5> QED BY <5>2, <5>3, <5>4
      <4> HIDE DEF d, t
      <4> QED BY <4>1, <4>2, <1>1
    <3>3. Boundary(d) /\ PrintedTo(d) /\ raw = SubSeq(Stream, d + 1, taken)
      BY <3>1 DEF InHand
    <3>4. text = SubSeq(Stream, taken + 1, t)
      BY <2>2, <2>4
    <3>5. taken' = t
      OBVIOUS
    <3> HIDE DEF d, t
    <3>6. /\ raw \o text = SubSeq(Stream, d + 1, t)
          /\ DOMAIN raw = 1..(taken - d)
          /\ \A k \in 1..(taken - d) : raw[k] = Stream[d + k]
      <4>1. taken \in Nat /\ taken <= Size /\ t \in taken..Size
        BY <1>1, <3>2
      <4> QED BY <4>1, <3>2, <3>3, <3>4, Pieces
    <3>7. ASSUME NEW p \in (d + 1)..taken PROVE ~IsMark(Stream[p])
      <4>1. p - d \in 1..(taken - d) /\ d + (p - d) = p
        BY <1>1, <3>2
      <4>2. raw[p - d] = Stream[p] /\ p - d \in DOMAIN raw
        BY <4>1, <3>6
      <4> QED BY <4>2, <1>4 DEF check_if_json
    <3>8. taken \in d..t
      BY <1>1, <3>2
    <3>9. SliceAndPrint(raw \o text, next) /\ cut' = cut
      BY <2>1
    <3> QED BY <3>2, <3>3, <3>5, <3>6, <3>7, <3>8, <3>9, <1>1, PrintingPiece
  <2> QED BY <2>1, <2>2, <2>3, <2>4, <1>2
<1> QED BY <1>3, <1>4

\* A step that leaves the stream and what was made of it alone.
LEMMA Elsewhere ==
    ASSUME KeepsUp, UNCHANGED <<taken, cut, raw, overrun, printed>>,
           step' \in DOMAIN Plan \cup {Failed, step},
           step' \in {1, 2} => step \in {1, 2},
           arrived' \in arrived..Size, {closed', airborne', tookOff'} \subseteq BOOLEAN
    PROVE  KeepsUp'
<1>1. TypeOK /\ Len(Stream) = Size /\ Size \in Nat
  BY StreamCells, Places DEF KeepsUp
<1>2. TypeOK'
  <2>1. arrived \in Nat /\ taken \in 0..arrived /\ cut \in 0..taken
    BY <1>1 DEF TypeOK
  <2>2. (arrived \in 0..Len(Stream))' /\ (taken \in 0..arrived)' /\ (cut \in 0..taken)'
    BY <1>1, <2>1
  <2>3. {closed, overrun, airborne, tookOff}' \subseteq BOOLEAN
    BY <1>1 DEF TypeOK
  <2>4. step' \in DOMAIN Plan \cup {Failed, Aborted}
    BY <1>1 DEF TypeOK
  <2> QED BY <1>1, <2>2, <2>3, <2>4 DEF TypeOK
<1>3. PrintsLater'
  <2>1. step' \in {1, 2} => printed = <<>>
    BY PlanSteps DEF KeepsUp, PrintsLater, Doing
  <2>2. (Doing("connect") \/ Doing("first_read"))' => step' \in {1, 2}
    BY PlanSteps DEF Doing
  <2> QED BY <2>1, <2>2 DEF PrintsLater
<1>4. step' = Aborted => step = Aborted
  BY PlanSteps DEF Failed, Aborted
<1>5. InHand => InHand'
  BY DEF InHand, Done, Boundary, PrintedTo, check_if_json
<1> QED BY <1>2, <1>3, <1>4, <1>5 DEF KeepsUp

\* At first nothing was received, and nothing printed.
LEMMA InitKeepsUp == Init => KeepsUp
<1> SUFFICES ASSUME Init PROVE KeepsUp
  OBVIOUS
<1>1. /\ step = 1 /\ arrived = 0 /\ taken = 0 /\ cut = 0 /\ raw = <<>> /\ printed = <<>>
      /\ {closed, overrun, airborne, tookOff} \subseteq BOOLEAN
  BY DEF Init
<1>2. Size \in Nat /\ Len(Stream) = Size
  BY Places, StreamCells
<1>3. TypeOK
  BY <1>1, <1>2, PlanSteps DEF TypeOK
<1>4. Done = 0 /\ Boundary(0) /\ ~check_if_json(raw)
  <2>1. Len(raw) = 0 /\ DOMAIN raw = {}
    BY <1>1
  <2>2. Done = 0
    <3>1. taken = 0
      BY <1>1
    <3> QED BY <2>1, <3>1 DEF Done
  <2> QED BY <1>1, <2>1, <2>2 DEF Boundary, check_if_json
<1>5. raw = SubSeq(Stream, 1, 0)
  BY <1>1, SubSeqEmpty
<1>6. PrintedTo(0)
  <2>1. \A i \in Messages : ~(Mark[i] <= 0)
    BY TwoMessages
  <2> QED BY <1>1, <2>1 DEF PrintedTo, Range
<1>7. InHand
  BY <1>1, <1>4, <1>5, <1>6 DEF InHand
<1> QED BY <1>1, <1>3, <1>7 DEF KeepsUp, PrintsLater, Aborted

\* The first receive is thrown away; what follows begins a text of its own.
LEMMA FirstRead == KeepsUp /\ first_read => KeepsUp'
<1> SUFFICES ASSUME KeepsUp, first_read PROVE KeepsUp'
  OBVIOUS
<1>1. PICK text \in Appended : recv(text) /\ raw' = clean_input(raw \o text)
  BY DEF first_read
<1>2. /\ raw' = <<>> /\ cut' = taken' /\ step' = step + 1 /\ step \in DOMAIN Plan
      /\ Plan[step] = "first_read" /\ printed' = printed
      /\ UNCHANGED <<arrived, closed, airborne, tookOff>>
  BY <1>1 DEF first_read, clean_input, streamVars, vehicleVars, Doing
<1>3. TypeOK /\ printed = <<>>
  BY <1>2 DEF KeepsUp, PrintsLater, Doing
<1>4. taken' \in Nat /\ taken' <= arrived /\ arrived <= Size /\ Size \in Nat
      /\ overrun' \in BOOLEAN /\ arrived \in Nat /\ Len(Stream) = Size
  BY <1>1, <1>3, Receiving, Places, StreamCells DEF TypeOK
<1>5. step' \in DOMAIN Plan /\ step' \notin {1, 2} /\ step' # Aborted
  <2>1. step = 2
    BY <1>2, PlanSteps
  <2> QED BY <1>2, <2>1, PlanSteps DEF Aborted
<1>6. TypeOK'
  <2>1. (arrived \in 0..Len(Stream))' /\ (taken \in 0..arrived)' /\ (cut \in 0..taken)'
    BY <1>2, <1>4
  <2>2. {closed, overrun, airborne, tookOff}' \subseteq BOOLEAN
    BY <1>2, <1>3, <1>4 DEF TypeOK
  <2> QED BY <1>2, <1>3, <1>5, <2>1, <2>2 DEF TypeOK
<1>7. PrintsLater'
  BY <1>2, <1>3 DEF PrintsLater
<1>8. InHand'
  <2>0. taken' \in Nat
    BY <1>4
  <2>1. Done' = taken' /\ Boundary(taken)'
    <3>1. Len(raw') = 0
      BY <1>2
    <3>2. Done' = taken'
      <4>1. \A t \in Nat : t - 0 = t
        OBVIOUS
      <4>2. Done' = taken' - 0
        BY <3>1 DEF Done
      <4> QED BY <2>0, <4>1, <4>2
    <3>3. Boundary(taken)'
      BY <1>2 DEF Boundary
    <3> QED BY <3>2, <3>3
  <2>2. raw' = SubSeq(Stream, taken' + 1, taken')
    <3>1. \A t \in Nat : SubSeq(Stream, t + 1, t) = <<>>
      BY SubSeqEmpty
    <3> QED BY <2>0, <3>1, <1>2
  <2>3. PrintedTo(taken)'
    <3>1. \A i \in Messages : ~(cut' < Begin(i) /\ Mark[i] <= taken')
      <4> SUFFICES ASSUME NEW i \in Messages, taken' < Begin(i), Mark[i] <= taken' PROVE FALSE
        BY <1>2
      <4>1. Begin(i) \in Nat /\ Mark[i] \in Nat /\ Begin(i) < Mark[i]
        BY TwoMessages
      <4> QED BY <4>1, <1>4
    <3>2. Range(printed') = {} /\ DOMAIN printed' = {}
      BY <1>2, <1>3 DEF Range
    <3> QED BY <3>1, <3>2 DEF PrintedTo
  <2>4. ~check_if_json(raw)'
    BY <1>2 DEF check_if_json
  <2>5. (cut <= Done /\ Done <= taken)'
    BY <1>2, <1>4, <2>1
  <2>6. (raw = SubSeq(Stream, Done + 1, taken))'
    BY <2>1, <2>2
  <2>7. Boundary(Done)' /\ PrintedTo(Done)'
    BY <2>1, <2>3 DEF Boundary, PrintedTo
  <2> QED BY <2>4, <2>5, <2>6, <2>7 DEF InHand
<1> QED BY <1>5, <1>6, <1>7, <1>8 DEF KeepsUp

\* Every step keeps the invariant.
LEMMA NextKeepsUp == KeepsUp /\ [Next]_vars => KeepsUp'
<1> SUFFICES ASSUME KeepsUp, [Next]_vars PROVE KeepsUp'
  OBVIOUS
<1>1. /\ TypeOK /\ arrived \in Nat /\ arrived <= Size /\ Size \in Nat /\ Len(Stream) = Size
      /\ {closed, airborne, tookOff} \subseteq BOOLEAN
      /\ step \in DOMAIN Plan \cup {Failed, Aborted}
  BY Places, StreamCells DEF KeepsUp, TypeOK
<1>2. arrived \in arrived..Size
  BY <1>1
<1>3. CASE get_socket
  <2>1. step \in DOMAIN Plan /\ Plan[step] = "connect" /\ step' = step + 1
    BY <1>3 DEF get_socket, Doing
  <2>2. step' \in DOMAIN Plan /\ step \in {1, 2}
    BY <2>1, PlanSteps
  <2>3. UNCHANGED <<streamVars, taken, cut, raw, overrun, printed, vehicleVars>>
    BY <1>3 DEF get_socket
  <2> QED BY <2>2, <2>3, <1>1, <1>2, Elsewhere DEF streamVars, vehicleVars
<1>4. CASE first_read
  BY <1>4, FirstRead
<1>5. CASE PrintPosition
  <2>1. /\ step \in DOMAIN Plan /\ Plan[step] = "print" /\ print_current_output(step + 1)
        /\ UNCHANGED <<arrived, closed, cut, airborne, tookOff>>
    BY <1>5 DEF PrintPosition, Doing, streamVars, vehicleVars
  <2>2. step + 1 \in DOMAIN Plan /\ step + 1 > 2
    BY <2>1, PlanSteps
  <2> QED BY <2>1, <2>2, Printing
<1>6. CASE Call
  <2>1. step \in DOMAIN Plan /\ Plan[step] \in MustSucceed /\ step' \in {step + 1, Failed}
    BY <1>6 DEF Call, Doing
  <2>2. step' \in DOMAIN Plan \cup {Failed} /\ (step' \in {1, 2} => step \in {1, 2})
    BY <2>1, PlanSteps DEF MustSucceed, Failed
  <2>3. UNCHANGED <<streamVars, taken, cut, raw, overrun, printed, vehicleVars>>
    BY <1>6 DEF Call
  <2> QED BY <2>2, <2>3, <1>1, <1>2, Elsewhere DEF streamVars, vehicleVars
<1>7. CASE Takeoff
  <2>1. /\ step \in DOMAIN Plan /\ Plan[step] = "takeoff" /\ step' \in {step + 1, Failed}
        /\ {airborne', tookOff'} \subseteq BOOLEAN
        /\ UNCHANGED <<streamVars, taken, cut, raw, overrun, printed>>
    BY <1>1, <1>7 DEF Takeoff, Doing
  <2>2. step' \in DOMAIN Plan \cup {Failed} /\ (step' \in {1, 2} => step \in {1, 2})
    BY <2>1, PlanSteps DEF Failed
  <2> QED BY <2>1, <2>2, <1>1, <1>2, Elsewhere DEF streamVars
<1>8. CASE GoOn
  <2>1. /\ step \in DOMAIN Plan /\ step' = step + 1
        /\ Plan[step] \in {"health", "goto_valid", "goto_invalid", "return_to_launch"}
    BY <1>8 DEF GoOn, Doing
  <2>2. step' \in DOMAIN Plan /\ (step' \in {1, 2} => step \in {1, 2})
    BY <2>1, PlanSteps
  <2>3. UNCHANGED <<streamVars, taken, cut, raw, overrun, printed, vehicleVars>>
    BY <1>8 DEF GoOn
  <2> QED BY <2>2, <2>3, <1>1, <1>2, Elsewhere DEF streamVars, vehicleVars
<1>9. CASE InAir
  <2>1. step \in DOMAIN Plan /\ Plan[step] = "in_air" /\ step' \in {step + 1, step + 2}
    BY <1>9 DEF InAir, Doing
  <2>2. step' \in DOMAIN Plan /\ (step' \in {1, 2} => step \in {1, 2})
    BY <2>1, PlanSteps
  <2>3. UNCHANGED <<streamVars, taken, cut, raw, overrun, printed, vehicleVars>>
    BY <1>9 DEF InAir
  <2> QED BY <2>2, <2>3, <1>1, <1>2, Elsewhere DEF streamVars, vehicleVars
<1>10. CASE PrintLanding
  <2>1. /\ step \in DOMAIN Plan /\ Plan[step] = "print_landing" /\ print_current_output(step - 1)
        /\ UNCHANGED <<arrived, closed, cut, airborne, tookOff>>
    BY <1>10 DEF PrintLanding, Doing, streamVars, vehicleVars
  <2>2. step - 1 \in DOMAIN Plan /\ step - 1 > 2
    BY <2>1, PlanSteps
  <2> QED BY <2>1, <2>2, Printing
<1>11. CASE Arrive
  <2>1. PICK n \in 1..(Len(Stream) - arrived) : arrived' = arrived + n
    BY <1>11 DEF Arrive
  <2>2. arrived' \in arrived..Size
    BY <2>1, <1>1
  <2>3. UNCHANGED <<step, taken, cut, closed, raw, overrun, printed, vehicleVars>>
    BY <1>11 DEF Arrive
  <2> QED BY <2>2, <2>3, <1>1, Elsewhere DEF vehicleVars
<1>12. CASE Close
  BY <1>12, <1>1, <1>2, Elsewhere DEF Close, vehicleVars
<1>13. CASE Land
  BY <1>13, <1>1, <1>2, Elsewhere DEF Land, streamVars
<1>14. CASE UNCHANGED vars
  BY <1>14, <1>1, <1>2, Elsewhere DEF vars, streamVars, vehicleVars
<1> QED BY <1>3, <1>4, <1>5, <1>6, <1>7, <1>8, <1>9, <1>10, <1>11, <1>12, <1>13, <1>14
        DEF Next, Mission

\* The mission keeps up with its stream in every behaviour.
THEOREM KeepsUpHolds == Spec => []KeepsUp
<1>1. Init => KeepsUp
  BY InitKeepsUp
<1>2. KeepsUp /\ [Next]_vars => KeepsUp'
  BY NextKeepsUp
<1> QED BY <1>1, <1>2, PTL DEF Spec

-----------------------------------------------------------------------------
(* What this means                                                         *)

\* Every variable has its type; in particular the mission never takes more of
\* the stream than has arrived (drone_mission.cpp:105-145).
THEOREM TypeCorrect == Spec => []TypeOK
<1>1. KeepsUp => TypeOK
  BY DEF KeepsUp
<1> QED BY <1>1, KeepsUpHolds, PTL

\* Each position that the first receive leaves whole is printed once, whole and
\* in order, wherever the reads cut the stream, until a receive fills the buffer
\* (drone_mission.cpp:49-66, 105-126, 139-145).
THEOREM PrintsEachMessageHolds == Spec => []PrintsEachMessage
<1>1. KeepsUp => PrintsEachMessage
  BY DEF KeepsUp, InHand, Done, PrintedTo, PrintsEachMessage
<1> QED BY <1>1, KeepsUpHolds, PTL

\* No exception leaves main, until a receive fills the buffer
\* (drone_mission.cpp:115-124).
THEOREM NeverAbortsHolds == Spec => []NeverAborts
<1>1. KeepsUp => NeverAborts
  BY DEF KeepsUp, NeverAborts
<1> QED BY <1>1, KeepsUpHolds, PTL

\* raw_json_buf never holds more than one message or the characters of one
\* receive, until a receive fills the buffer (drone_mission.cpp:105-113).
THEOREM BufferBoundedHolds == Spec => []BufferBounded
<1>1. KeepsUp => BufferBounded
  <2> SUFFICES ASSUME KeepsUp, ~overrun, ~(Len(raw) < BUF)
               PROVE  \E i \in Messages : Len(raw) <= Mark[i] - Begin(i)
    BY DEF BufferBounded
  <2> DEFINE d == Done
             i == MessageAt(taken)
  <2>1. /\ TypeOK /\ InHand
        /\ Size \in Nat /\ taken \in Nat /\ taken <= Size /\ cut \in Nat /\ BUF \in Nat \ {0}
        /\ Len(raw) \in Nat
    BY Places, StreamCells, MissionAssumption, LenProperties DEF KeepsUp, TypeOK
  <2>2. cut <= d /\ d <= taken /\ d = taken - Len(raw) /\ d \in Nat
    BY <2>1 DEF InHand, Done
  <2>3. raw = SubSeq(Stream, d + 1, taken) /\ ~check_if_json(raw)
    BY <2>1 DEF InHand
  <2> HIDE DEF d, i
  <2>4. d + 1 <= taken /\ d + 1 \in 1..Size /\ taken \in 1..Size
    BY <2>1, <2>2
  <2>5. \A p \in (d + 1)..taken : ~IsMark(Stream[p])
    <3> SUFFICES ASSUME NEW p \in (d + 1)..taken PROVE ~IsMark(Stream[p])
      OBVIOUS
    <3>1. DOMAIN raw = 1..(taken - d) /\ \A k \in 1..(taken - d) : raw[k] = Stream[d + k]
      <4>1. taken \in Nat /\ taken <= Size
        BY <2>1
      <4>2. d \in Nat /\ d <= taken
        BY <2>2
      <4>3. raw = SubSeq(Stream, d + 1, taken)
        BY <2>3
      <4> QED BY <4>1, <4>2, <4>3, Pieces
    <3>2. p - d \in 1..(taken - d) /\ d + (p - d) = p
      BY <2>1, <2>2
    <3>3. raw[p - d] = Stream[p] /\ p - d \in DOMAIN raw
      BY <3>1, <3>2
    <3> QED BY <3>3, <2>3 DEF check_if_json
  <2>6. MessageAt(d + 1) = i
    <3>1. \A k \in (d + 1)..(taken - 1) : ~IsMark(Stream[k])
      BY <2>1, <2>2, <2>5
    <3> QED BY <2>4, <3>1, Unmarked DEF i
  <2>7. i \in Messages /\ Begin(i) <= d + 1 /\ taken <= Mark[i]
    BY <2>4, <2>6, Places DEF i
  <2>8. taken # Mark[i]
    BY <2>4, <2>5, <2>2, StreamCells DEF i
  <2>9. Begin(i) \in Nat /\ Mark[i] \in Nat
    BY <2>7, TwoMessages
  <2>10. Len(raw) <= Mark[i] - Begin(i)
    BY <2>1, <2>2, <2>7, <2>8, <2>9
  <2> QED BY <2>7, <2>10
<1> QED BY <1>1, KeepsUpHolds, PTL
=============================================================================
