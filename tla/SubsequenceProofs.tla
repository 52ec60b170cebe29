------------------------- MODULE SubsequenceProofs -------------------------
(***************************************************************************)
(* Facts about parts of sequences, for every sequence and every set of     *)
(* indices.                                                                *)
(***************************************************************************)
EXTENDS Subsequence, FiniteSetTheorems, SequenceTheorems, TLAPS

\* The elements of part are found in whole, one behind the other.
Embedded(part, whole) ==
    \E f \in [1..Len(part) -> 1..Len(whole)] :
        /\ \A j, k \in 1..Len(part) : j < k => f[j] < f[k]
        /\ \A k \in 1..Len(part) : part[k] = whole[f[k]]

\* How many indices of a set are not above i.
RankIn(indices, i) == Cardinality({j \in indices : j <= i})

\* Every index of a set has a rank of its own, from 1 to the size of the set,
\* and a greater index a greater rank.
LEMMA Ranks ==
    ASSUME NEW n \in Nat, NEW K \in SUBSET (1..n)
    PROVE  /\ IsFiniteSet(K) /\ Cardinality(K) \in Nat
           /\ \A i \in K : RankIn(K, i) \in 1..Cardinality(K)
           /\ \A i, j \in K : i < j => RankIn(K, i) < RankIn(K, j)
           /\ \A k \in 1..Cardinality(K) : \E i \in K : RankIn(K, i) = k
<1>0. \A i \in K : i \in Nat
  OBVIOUS
<1>1. IsFiniteSet(K) /\ Cardinality(K) \in Nat
  <2>1. IsFiniteSet(1..n)
    BY FS_Interval
  <2> QED BY <2>1, FS_Subset, FS_CardinalityType
<1>2. \A i : /\ IsFiniteSet({j \in K : j <= i})
             /\ RankIn(K, i) \in Nat /\ RankIn(K, i) <= Cardinality(K)
  <2> SUFFICES ASSUME NEW i
               PROVE  /\ IsFiniteSet({j \in K : j <= i})
                      /\ RankIn(K, i) \in Nat /\ RankIn(K, i) <= Cardinality(K)
    OBVIOUS
  <2>1. {j \in K : j <= i} \in SUBSET K
    OBVIOUS
  <2> QED BY <1>1, <2>1, FS_Subset, FS_CardinalityType DEF RankIn
<1>3. \A i \in K : RankIn(K, i) \in 1..Cardinality(K)
  <2> SUFFICES ASSUME NEW i \in K PROVE RankIn(K, i) \in 1..Cardinality(K)
    OBVIOUS
  <2>1. i \in {j \in K : j <= i}
    BY <1>0
  <2>2. RankIn(K, i) # 0
    BY <1>2, <2>1, FS_EmptySet DEF RankIn
  <2>3. RankIn(K, i) \in Nat /\ RankIn(K, i) <= Cardinality(K)
    BY <1>2
  <2> QED BY <1>1, <2>2, <2>3
<1>4. \A i, j \in K : i < j => RankIn(K, i) < RankIn(K, j)
  <2> SUFFICES ASSUME NEW i \in K, NEW j \in K, i < j PROVE RankIn(K, i) < RankIn(K, j)
    OBVIOUS
  <2>0. i \in Nat /\ j \in Nat
    BY <1>0
  <2>1. /\ {k \in K : k <= i} \in SUBSET {k \in K : k <= j}
        /\ {k \in K : k <= i} # {k \in K : k <= j}
    <3>1. \A k \in K : k <= i => k <= j
      BY <1>0, <2>0
    <3>2. j \in {k \in K : k <= j} /\ j \notin {k \in K : k <= i}
      BY <2>0
    <3> QED BY <3>1, <3>2
  <2>2. /\ Cardinality({k \in K : k <= i}) <= Cardinality({k \in K : k <= j})
        /\ Cardinality({k \in K : k <= i}) # Cardinality({k \in K : k <= j})
    BY <1>2, <2>1, FS_Subset
  <2> QED BY <1>2, <2>2 DEF RankIn
<1>5. \A k \in 1..Cardinality(K) : \E i \in K : RankIn(K, i) = k
  <2> DEFINE rank == [i \in K |-> RankIn(K, i)]
  <2>1. rank \in [K -> 1..Cardinality(K)]
    BY <1>3
  <2>2. \A i, j \in K : rank[i] = rank[j] => i = j
    <3>1. \A i, j \in K : RankIn(K, i) = RankIn(K, j) => i = j
      <4> SUFFICES ASSUME NEW i \in K, NEW j \in K, i # j PROVE RankIn(K, i) # RankIn(K, j)
        OBVIOUS
      <4>1. i < j \/ j < i
        BY <1>0
      <4>2. RankIn(K, i) \in Nat /\ RankIn(K, j) \in Nat
        BY <1>2
      <4> QED BY <1>4, <4>1, <4>2
    <3> QED BY <3>1
  <2>3. rank \in Injection(K, 1..Cardinality(K))
    BY <2>1, <2>2 DEF Injection, IsInjective
  <2>4. IsFiniteSet(1..Cardinality(K)) /\ Cardinality(1..Cardinality(K)) = Cardinality(K)
    BY <1>1, FS_Interval
  <2>5. rank \in Surjection(K, 1..Cardinality(K))
    BY <2>3, <2>4, FS_Injection
  <2> QED BY <2>5 DEF Surjection
<1> QED BY <1>1, <1>3, <1>4, <1>5

\* What is kept of a sequence: element k is the one whose index has rank k.
LEMMA KeepElements ==
    ASSUME NEW S, NEW seq \in Seq(S), NEW K \in SUBSET (1..Len(seq))
    PROVE  /\ Keep(seq, K) \in Seq(S)
           /\ Len(Keep(seq, K)) = Cardinality(K)
           /\ \A i \in K : /\ RankIn(K, i) \in 1..Cardinality(K)
                           /\ Keep(seq, K)[RankIn(K, i)] = seq[i]
<1> DEFINE at(k) == CHOOSE i \in K : RankIn(K, i) = k
<1>1. Len(seq) \in Nat /\ \A i \in 1..Len(seq) : seq[i] \in S
  BY LenProperties
<1>2. /\ Cardinality(K) \in Nat
      /\ \A i \in K : RankIn(K, i) \in 1..Cardinality(K)
      /\ \A i, j \in K : i < j => RankIn(K, i) < RankIn(K, j)
      /\ \A k \in 1..Cardinality(K) : \E i \in K : RankIn(K, i) = k
  BY <1>1, Ranks
<1>3. \A k \in 1..Cardinality(K) : at(k) \in K /\ RankIn(K, at(k)) = k
  BY <1>2
<1>4. Keep(seq, K) = [k \in 1..Cardinality(K) |-> seq[at(k)]]
  BY DEF Keep, RankIn
<1>5. \A k \in 1..Cardinality(K) : seq[at(k)] \in S
  BY <1>1, <1>3
<1>6. \A i \in K : at(RankIn(K, i)) = i
  <2> SUFFICES ASSUME NEW i \in K PROVE at(RankIn(K, i)) = i
    OBVIOUS
  <2>1. at(RankIn(K, i)) \in K /\ RankIn(K, at(RankIn(K, i))) = RankIn(K, i)
    BY <1>2, <1>3
  <2> HIDE DEF at
  <2>2. \A x \in K : x \in Nat
    BY <1>1
  <2>3. RankIn(K, i) \in Nat
    BY <1>2
  <2>4. ASSUME NEW j \in K, RankIn(K, j) = RankIn(K, i)  PROVE j = i
    <3>1. ~(j < i) /\ ~(i < j)
      BY <1>2, <2>3, <2>4
    <3> QED BY <2>2, <3>1
  <2> QED BY <2>1, <2>4
<1> HIDE DEF at
<1>7. Keep(seq, K) \in Seq(S) /\ Len(Keep(seq, K)) = Cardinality(K)
  <2>1. Keep(seq, K) \in [1..Cardinality(K) -> S]
    BY <1>4, <1>5
  <2> QED BY <1>2, <2>1
<1> QED BY <1>2, <1>4, <1>6, <1>7

\* To keep a stretch of a sequence is to take the subsequence.
LEMMA KeepStretch ==
    ASSUME NEW S, NEW seq \in Seq(S), NEW a \in 0..Len(seq), NEW b \in 0..Len(seq), a <= b
    PROVE  Keep(seq, (a + 1)..b) = SubSeq(seq, a + 1, b)
<1> DEFINE K == (a + 1)..b
<1>1. Len(seq) \in Nat /\ a \in Nat /\ b \in Nat /\ \A i \in 1..Len(seq) : seq[i] \in S
  BY LenProperties
<1>2. K \in SUBSET (1..Len(seq)) /\ Cardinality(K) = b - a
  <2>1. K \in SUBSET (1..Len(seq))
    BY <1>1
  <2>2. Cardinality(K) = IF a + 1 > b THEN 0 ELSE b - (a + 1) + 1
    BY <1>1, FS_Interval
  <2> QED BY <1>1, <2>1, <2>2
<1>3. \A i \in K : RankIn(K, i) = i - a
  <2> SUFFICES ASSUME NEW i \in K PROVE RankIn(K, i) = i - a
    OBVIOUS
  <2>1. i \in Nat /\ a + 1 <= i /\ i <= b
    BY <1>1
  <2>2. {j \in K : j <= i} = (a + 1)..i
    BY <1>1, <2>1
  <2>3. Cardinality((a + 1)..i) = IF a + 1 > i THEN 0 ELSE i - (a + 1) + 1
    BY <1>1, <2>1, FS_Interval
  <2>4. Cardinality((a + 1)..i) = i - a
    BY <1>1, <2>1, <2>3
  <2>5. RankIn(K, i) = Cardinality((a + 1)..i)
    BY <2>2 DEF RankIn
  <2> QED BY <2>4, <2>5
<1>4. /\ SubSeq(seq, a + 1, b) \in Seq(S)
      /\ Len(SubSeq(seq, a + 1, b)) = b - a
      /\ \A i \in 1..(b - a) : SubSeq(seq, a + 1, b)[i] = seq[a + i]
  <2>1. \A i \in (a + 1)..b : seq[i] \in S
    BY <1>1
  <2>2. /\ SubSeq(seq, a + 1, b) \in Seq(S)
        /\ Len(SubSeq(seq, a + 1, b)) = IF a + 1 <= b THEN b - (a + 1) + 1 ELSE 0
        /\ \A i \in 1..(b - (a + 1) + 1) : SubSeq(seq, a + 1, b)[i] = seq[a + 1 + i - 1]
    BY <1>1, <2>1, SubSeqProperties
  <2> QED BY <1>1, <2>2
<1>5. /\ Keep(seq, K) \in Seq(S) /\ Len(Keep(seq, K)) = b - a
      /\ \A i \in K : Keep(seq, K)[RankIn(K, i)] = seq[i]
  BY <1>2, KeepElements
<1>6. \A k \in 1..(b - a) : Keep(seq, K)[k] = seq[a + k]
  <2> SUFFICES ASSUME NEW k \in 1..(b - a) PROVE Keep(seq, K)[k] = seq[a + k]
    OBVIOUS
  <2>1. a + k \in K /\ (a + k) - a = k
    BY <1>1
  <2>2. RankIn(K, a + k) = k
    BY <1>3, <2>1
  <2> QED BY <1>5, <2>1, <2>2
<1> HIDE DEF K
<1>7. Keep(seq, K) = SubSeq(seq, a + 1, b)
  BY <1>1, <1>4, <1>5, <1>6, SeqEqual
<1> QED BY <1>7 DEF K

\* To keep all indices but one is to take that element out.
LEMMA KeepAllBut ==
    ASSUME NEW S, NEW seq \in Seq(S), NEW d \in 1..Len(seq)
    PROVE  Keep(seq, (1..Len(seq)) \ {d}) = SubSeq(seq, 1, d - 1) \o SubSeq(seq, d + 1, Len(seq))
<1> DEFINE n == Len(seq)
           K == (1..n) \ {d}
           front == SubSeq(seq, 1, d - 1)
           back  == SubSeq(seq, d + 1, n)
<1>1. n \in Nat /\ d \in Nat /\ 1 <= d /\ d <= n /\ \A i \in 1..n : seq[i] \in S
  BY LenProperties
<1>2. \A i \in 1..n : Cardinality(1..i) = i /\ IsFiniteSet(1..i)
  <2> SUFFICES ASSUME NEW i \in 1..n PROVE Cardinality(1..i) = i /\ IsFiniteSet(1..i)
    OBVIOUS
  <2>1. /\ IsFiniteSet(1..i) /\ i \in Nat /\ 1 <= i
        /\ Cardinality(1..i) = IF 1 > i THEN 0 ELSE i - 1 + 1
    BY <1>1, FS_Interval
  <2> QED BY <2>1
<1>3. Cardinality(K) = n - 1
  <2>1. n \in 1..n /\ d \in 1..n
    BY <1>1
  <2>2. IsFiniteSet(1..n) /\ Cardinality(1..n) = n
    BY <1>2, <2>1
  <2>3. Cardinality((1..n) \ {d}) = Cardinality(1..n) - 1
    BY <2>1, <2>2, FS_RemoveElement
  <2> QED BY <2>2, <2>3
<1>4. \A i \in K : RankIn(K, i) = IF i < d THEN i ELSE i - 1
  <2> SUFFICES ASSUME NEW i \in K PROVE RankIn(K, i) = IF i < d THEN i ELSE i - 1
    OBVIOUS
  <2>1. i \in 1..n /\ i \in Nat /\ i # d
    BY <1>1
  <2>2. {j \in K : j <= i} = (1..i) \ {d}
    BY <1>1, <2>1
  <2>3. Cardinality((1..i) \ {d}) = IF d \in 1..i THEN Cardinality(1..i) - 1 ELSE Cardinality(1..i)
    BY <1>2, <2>1, FS_RemoveElement
  <2>4. d \in 1..i <=> ~(i < d)
    BY <1>1, <2>1
  <2> QED BY <1>2, <2>1, <2>2, <2>3, <2>4 DEF RankIn
<1>5. /\ front \in Seq(S) /\ Len(front) = d - 1
      /\ \A i \in 1..(d - 1) : front[i] = seq[i]
  <2>1. \A i \in 1..(d - 1) : seq[i] \in S
    BY <1>1
  <2>2. /\ front \in Seq(S) /\ Len(front) = IF 1 <= d - 1 THEN d - 1 - 1 + 1 ELSE 0
        /\ \A i \in 1..(d - 1 - 1 + 1) : front[i] = seq[1 + i - 1]
    BY <1>1, <2>1, SubSeqProperties
  <2> QED BY <1>1, <2>2
<1>6. /\ back \in Seq(S) /\ Len(back) = n - d
      /\ \A i \in 1..(n - d) : back[i] = seq[d + i]
  <2>1. \A i \in (d + 1)..n : seq[i] \in S
    BY <1>1
  <2>2. /\ back \in Seq(S) /\ Len(back) = IF d + 1 <= n THEN n - (d + 1) + 1 ELSE 0
        /\ \A i \in 1..(n - (d + 1) + 1) : back[i] = seq[d + 1 + i - 1]
    BY <1>1, <2>1, SubSeqProperties
  <2> QED BY <1>1, <2>2
<1>7. /\ Keep(seq, K) \in Seq(S) /\ Len(Keep(seq, K)) = n - 1
      /\ \A i \in K : Keep(seq, K)[RankIn(K, i)] = seq[i]
  BY <1>3, KeepElements
<1> HIDE DEF front, back
<1>8. /\ front \o back \in Seq(S) /\ Len(front \o back) = n - 1
      /\ \A k \in 1..(n - 1) : (front \o back)[k] = IF k < d THEN seq[k] ELSE seq[k + 1]
  <2>1. /\ front \o back \in Seq(S) /\ Len(front \o back) = Len(front) + Len(back)
        /\ \A k \in 1..(Len(front) + Len(back)) :
              (front \o back)[k] = IF k <= Len(front) THEN front[k] ELSE back[k - Len(front)]
    BY <1>5, <1>6, ConcatProperties
  <2>2. Len(front) + Len(back) = n - 1
    BY <1>1, <1>5, <1>6
  <2>3. ASSUME NEW k \in 1..(n - 1)
        PROVE  (front \o back)[k] = IF k < d THEN seq[k] ELSE seq[k + 1]
    <3>1. CASE k < d
      BY <1>1, <1>5, <2>1, <2>2, <3>1
    <3>2. CASE ~(k < d)
      <4>1. k - (d - 1) \in 1..(n - d) /\ d + (k - (d - 1)) = k + 1 /\ ~(k <= d - 1)
        BY <1>1, <3>2
      <4>2. k \in 1..(Len(front) + Len(back)) /\ ~(k <= Len(front)) /\ Len(front) = d - 1
        BY <1>5, <2>2, <4>1
      <4>3. (front \o back)[k] = back[k - (d - 1)]
        BY <2>1, <4>2
      <4>4. back[k - (d - 1)] = seq[k + 1]
        BY <1>6, <4>1
      <4> QED BY <3>2, <4>3, <4>4
    <3> QED BY <3>1, <3>2
  <2> QED BY <2>1, <2>2, <2>3
<1>9. \A k \in 1..(n - 1) : Keep(seq, K)[k] = IF k < d THEN seq[k] ELSE seq[k + 1]
  <2> SUFFICES ASSUME NEW k \in 1..(n - 1)
               PROVE  Keep(seq, K)[k] = IF k < d THEN seq[k] ELSE seq[k + 1]
    OBVIOUS
  <2>1. CASE k < d
    <3>1. k \in K
      BY <1>1, <2>1
    <3>2. RankIn(K, k) = k
      BY <1>4, <2>1, <3>1
    <3> QED BY <1>7, <2>1, <3>1, <3>2
  <2>2. CASE ~(k < d)
    <3>1. k + 1 \in K /\ ~(k + 1 < d) /\ (k + 1) - 1 = k
      BY <1>1, <2>2
    <3>2. RankIn(K, k + 1) = k
      BY <1>4, <3>1
    <3> QED BY <1>7, <2>2, <3>1, <3>2
  <2> QED BY <2>1, <2>2
<1> HIDE DEF K
<1>10. Keep(seq, K) = front \o back
  <2>1. \A k \in 1..Len(Keep(seq, K)) : Keep(seq, K)[k] = (front \o back)[k]
    BY <1>7, <1>8, <1>9
  <2> QED BY <1>7, <1>8, <2>1, SeqEqual
<1> QED BY <1>10 DEF K, front, back

-----------------------------------------------------------------------------
(* Embeddings.                                                             *)

\* A part of a part is a part.
LEMMA EmbeddedTransitive ==
    ASSUME NEW p, NEW q, NEW w, Embedded(p, q), Embedded(q, w)
    PROVE  Embedded(p, w)
<1>1. PICK f \in [1..Len(p) -> 1..Len(q)] :
        /\ \A j, k \in 1..Len(p) : j < k => f[j] < f[k]
        /\ \A k \in 1..Len(p) : p[k] = q[f[k]]
  BY DEF Embedded
<1>2. PICK g \in [1..Len(q) -> 1..Len(w)] :
        /\ \A j, k \in 1..Len(q) : j < k => g[j] < g[k]
        /\ \A k \in 1..Len(q) : q[k] = w[g[k]]
  BY DEF Embedded
<1> DEFINE c == [k \in 1..Len(p) |-> g[f[k]]]
<1>3. \A k \in 1..Len(p) : f[k] \in 1..Len(q)
  OBVIOUS
<1>4. c \in [1..Len(p) -> 1..Len(w)]
  BY <1>3
<1>5. \A j, k \in 1..Len(p) : j < k => c[j] < c[k]
  BY <1>1, <1>2, <1>3
<1>6. \A k \in 1..Len(p) : p[k] = w[c[k]]
  BY <1>1, <1>2, <1>3
<1> HIDE DEF c
<1> QED BY <1>4, <1>5, <1>6 DEF Embedded

\* The empty sequence is a part of every sequence.
LEMMA EmbeddedEmpty == \A w : Embedded(<<>>, w)
<1> SUFFICES ASSUME NEW w PROVE Embedded(<<>>, w)
  OBVIOUS
<1> DEFINE f == [k \in 1..0 |-> 1]
<1>1. 1..Len(<<>>) = {}
  OBVIOUS
<1>2. f \in [1..Len(<<>>) -> 1..Len(w)]
  BY <1>1
<1> QED BY <1>1, <1>2 DEF Embedded

\* Something is sent, and it is held or lost: what was and will be delivered
\* remains a part of what was sent.
LEMMA SendEmbedded ==
    ASSUME NEW S, NEW w \in Seq(S), NEW p \in Seq(S), NEW m \in S, Embedded(p, w)
    PROVE  Embedded(p, Append(w, m)) /\ Embedded(Append(p, m), Append(w, m))
<1>1. PICK f \in [1..Len(p) -> 1..Len(w)] :
        /\ \A j, k \in 1..Len(p) : j < k => f[j] < f[k]
        /\ \A k \in 1..Len(p) : p[k] = w[f[k]]
  BY DEF Embedded
<1>2. /\ Len(w) \in Nat /\ Len(p) \in Nat
      /\ Len(Append(w, m)) = Len(w) + 1
      /\ \A i \in 1..Len(w) : Append(w, m)[i] = w[i]
      /\ Append(w, m)[Len(w) + 1] = m
      /\ Len(Append(p, m)) = Len(p) + 1
      /\ \A i \in 1..Len(p) : Append(p, m)[i] = p[i]
      /\ Append(p, m)[Len(p) + 1] = m
  BY LenProperties, AppendProperties
<1>3. \A k \in 1..Len(p) : f[k] \in 1..Len(w)
  OBVIOUS
<1>4. Embedded(p, Append(w, m))
  <2>1. f \in [1..Len(p) -> 1..Len(Append(w, m))]
    BY <1>2, <1>3
  <2>2. \A k \in 1..Len(p) : p[k] = Append(w, m)[f[k]]
    BY <1>1, <1>2, <1>3
  <2> QED BY <1>1, <2>1, <2>2 DEF Embedded
<1>5. Embedded(Append(p, m), Append(w, m))
  <2> DEFINE g == [k \in 1..(Len(p) + 1) |-> IF k <= Len(p) THEN f[k] ELSE Len(w) + 1]
  <2>1. g \in [1..Len(Append(p, m)) -> 1..Len(Append(w, m))]
    BY <1>2, <1>3
  <2>2. \A j, k \in 1..Len(Append(p, m)) : j < k => g[j] < g[k]
    <3> SUFFICES ASSUME NEW j \in 1..(Len(p) + 1), NEW k \in 1..(Len(p) + 1), j < k
                 PROVE  g[j] < g[k]
      BY <1>2
    <3>1. j \in 1..Len(p)
      BY <1>2
    <3>2. CASE k \in 1..Len(p)
      BY <1>1, <3>1, <3>2
    <3>3. CASE k \notin 1..Len(p)
      <4>1. g[k] = Len(w) + 1 /\ g[j] = f[j] /\ f[j] \in 1..Len(w)
        BY <1>2, <1>3, <3>1, <3>3
      <4> QED BY <1>2, <4>1
    <3> QED BY <3>2, <3>3
  <2>3. \A k \in 1..Len(Append(p, m)) : Append(p, m)[k] = Append(w, m)[g[k]]
    <3> SUFFICES ASSUME NEW k \in 1..(Len(p) + 1) PROVE Append(p, m)[k] = Append(w, m)[g[k]]
      BY <1>2
    <3>1. CASE k \in 1..Len(p)
      BY <1>1, <1>2, <1>3, <3>1
    <3>2. CASE k \notin 1..Len(p)
      <4>1. k = Len(p) + 1 /\ g[k] = Len(w) + 1
        BY <1>2, <3>2
      <4> QED BY <1>2, <4>1
    <3> QED BY <3>1, <3>2
  <2> HIDE DEF g
  <2> QED BY <2>1, <2>2, <2>3 DEF Embedded
<1> QED BY <1>4, <1>5

\* Where the elements that are kept of a sequence come from.
LEMMA KeepPlaces ==
    ASSUME NEW S, NEW seq \in Seq(S), NEW K \in SUBSET (1..Len(seq))
    PROVE  \E f \in [1..Cardinality(K) -> K] :
              /\ \A j, k \in 1..Cardinality(K) : j < k => f[j] < f[k]
              /\ \A k \in 1..Cardinality(K) : Keep(seq, K)[k] = seq[f[k]]
<1>1. Len(seq) \in Nat
  BY LenProperties
<1>2. /\ Cardinality(K) \in Nat
      /\ \A i \in K : RankIn(K, i) \in 1..Cardinality(K)
      /\ \A i, j \in K : i < j => RankIn(K, i) < RankIn(K, j)
      /\ \A k \in 1..Cardinality(K) : \E i \in K : RankIn(K, i) = k
  BY <1>1, Ranks
<1>3. /\ Len(Keep(seq, K)) = Cardinality(K)
      /\ \A i \in K : Keep(seq, K)[RankIn(K, i)] = seq[i]
  BY KeepElements
<1> DEFINE f == [k \in 1..Cardinality(K) |-> CHOOSE i \in K : RankIn(K, i) = k]
<1>4. \A k \in 1..Cardinality(K) : f[k] \in K /\ RankIn(K, f[k]) = k
  BY <1>2
<1>5. f \in [1..Cardinality(K) -> K]
  BY <1>4
<1> HIDE DEF f
<1>6. \A j, k \in 1..Cardinality(K) : j < k => f[j] < f[k]
  <2> SUFFICES ASSUME NEW j \in 1..Cardinality(K), NEW k \in 1..Cardinality(K), j < k
               PROVE  f[j] < f[k]
    OBVIOUS
  <2>1. f[j] \in K /\ f[k] \in K /\ RankIn(K, f[j]) = j /\ RankIn(K, f[k]) = k
    BY <1>4
  <2>2. f[j] \in Nat /\ f[k] \in Nat /\ j \in Nat /\ k \in Nat
    <3>1. \A i \in K : i \in Nat
      BY <1>1
    <3>2. j \in Nat /\ k \in Nat
      BY <1>2
    <3> QED BY <2>1, <3>1, <3>2
  <2>3. f[j] # f[k] /\ ~(f[k] < f[j])
    BY <1>2, <2>1, <2>2
  <2> QED BY <2>2, <2>3
<1>7. \A k \in 1..Cardinality(K) : Keep(seq, K)[k] = seq[f[k]]
  BY <1>3, <1>4
<1> QED BY <1>5, <1>6, <1>7

\* Messages 1 to n of the queue are delivered, and of the others some are kept:
\* what was and will be delivered is a part of what it was before.
LEMMA RelayEmbedded ==
    ASSUME NEW S, NEW d \in Seq(S), NEW q \in Seq(S), NEW n \in 0..Len(q),
           NEW K \in SUBSET ((n + 1)..Len(q))
    PROVE  Embedded((d \o SubSeq(q, 1, n)) \o Keep(q, K), d \o q)
<1> DEFINE head == SubSeq(q, 1, n)
           kept == Keep(q, K)
           p    == (d \o head) \o kept
<1>1. /\ Len(d) \in Nat /\ Len(q) \in Nat /\ n \in Nat /\ n <= Len(q)
      /\ \A i \in 1..Len(q) : q[i] \in S
  BY LenProperties
<1>2. /\ head \in Seq(S) /\ Len(head) = n
      /\ \A i \in 1..n : head[i] = q[i]
  <2>1. \A i \in 1..n : q[i] \in S
    BY <1>1
  <2>2. /\ head \in Seq(S) /\ Len(head) = IF 1 <= n THEN n - 1 + 1 ELSE 0
        /\ \A i \in 1..(n - 1 + 1) : head[i] = q[1 + i - 1]
    BY <1>1, <2>1, SubSeqProperties
  <2> QED BY <1>1, <2>2
<1>3. K \in SUBSET (1..Len(q))
  BY <1>1
<1>4. kept \in Seq(S) /\ Len(kept) = Cardinality(K)
  BY <1>3, KeepElements
<1> DEFINE c == Cardinality(K)
<1>5. c \in Nat
  BY <1>1, <1>3, Ranks
<1>6. PICK g \in [1..c -> K] : /\ \A j, k \in 1..c : j < k => g[j] < g[k]
                               /\ \A k \in 1..c : kept[k] = q[g[k]]
  BY <1>3, KeepPlaces
<1> HIDE DEF head, kept
<1>7. /\ d \o head \in Seq(S) /\ Len(d \o head) = Len(d) + n
      /\ \A i \in 1..(Len(d) + n) : (d \o head)[i] = IF i <= Len(d) THEN d[i] ELSE head[i - Len(d)]
  BY <1>2, ConcatProperties
<1>8. /\ Len(p) = Len(d) + n + c
      /\ \A i \in 1..(Len(d) + n + c) :
            p[i] = IF i <= Len(d) + n THEN (d \o head)[i] ELSE kept[i - (Len(d) + n)]
  BY <1>4, <1>7, ConcatProperties
<1>9. /\ Len(d \o q) = Len(d) + Len(q)
      /\ \A i \in 1..(Len(d) + Len(q)) : (d \o q)[i] = IF i <= Len(d) THEN d[i] ELSE q[i - Len(d)]
  BY ConcatProperties
<1> DEFINE f == [k \in 1..(Len(d) + n + c) |-> IF k <= Len(d) + n THEN k
                                               ELSE Len(d) + g[k - (Len(d) + n)]]
<1>10. ASSUME NEW k \in 1..(Len(d) + n + c), ~(k <= Len(d) + n)
       PROVE  /\ k - (Len(d) + n) \in 1..c
              /\ g[k - (Len(d) + n)] \in (n + 1)..Len(q)
  <2>1. k - (Len(d) + n) \in 1..c
    BY <1>1, <1>5, <1>10
  <2> QED BY <2>1
<1> HIDE DEF c, p
<1>11. f \in [1..Len(p) -> 1..Len(d \o q)]
  <2> SUFFICES ASSUME NEW k \in 1..(Len(d) + n + c) PROVE f[k] \in 1..(Len(d) + Len(q))
    BY <1>8, <1>9
  <2>1. CASE k <= Len(d) + n
    BY <1>1, <2>1
  <2>2. CASE ~(k <= Len(d) + n)
    BY <1>1, <1>10, <2>2
  <2> QED BY <2>1, <2>2
<1>12. \A j, k \in 1..Len(p) : j < k => f[j] < f[k]
  <2> SUFFICES ASSUME NEW j \in 1..(Len(d) + n + c), NEW k \in 1..(Len(d) + n + c), j < k
               PROVE  f[j] < f[k]
    BY <1>8
  <2>1. CASE k <= Len(d) + n
    BY <1>1, <1>5, <2>1
  <2>2. CASE j <= Len(d) + n /\ ~(k <= Len(d) + n)
    <3>1. f[j] = j /\ f[k] = Len(d) + g[k - (Len(d) + n)]
      BY <2>2
    <3> QED BY <1>1, <1>10, <2>2, <3>1
  <2>3. CASE ~(j <= Len(d) + n)
    <3>1. ~(k <= Len(d) + n) /\ j - (Len(d) + n) < k - (Len(d) + n)
      BY <1>1, <1>5, <2>3
    <3>2. g[j - (Len(d) + n)] < g[k - (Len(d) + n)]
      BY <1>6, <1>10, <2>3, <3>1
    <3>3. f[j] = Len(d) + g[j - (Len(d) + n)] /\ f[k] = Len(d) + g[k - (Len(d) + n)]
      BY <2>3, <3>1
    <3> QED BY <1>1, <1>10, <2>3, <3>1, <3>2, <3>3
  <2> QED BY <2>1, <2>2, <2>3
<1>13. \A k \in 1..Len(p) : p[k] = (d \o q)[f[k]]
  <2> SUFFICES ASSUME NEW k \in 1..(Len(d) + n + c) PROVE p[k] = (d \o q)[f[k]]
    BY <1>8
  <2>1. CASE k <= Len(d)
    <3>1. p[k] = d[k] /\ f[k] = k
      BY <1>1, <1>5, <1>7, <1>8, <2>1
    <3> QED BY <1>1, <1>9, <2>1, <3>1
  <2>2. CASE ~(k <= Len(d)) /\ k <= Len(d) + n
    <3>1. k \in 1..(Len(d) + n) /\ k - Len(d) \in 1..n /\ f[k] = k
      BY <1>1, <1>5, <2>2
    <3>2. p[k] = q[k - Len(d)]
      BY <1>2, <1>7, <1>8, <2>2, <3>1
    <3>3. k \in 1..(Len(d) + Len(q))
      BY <1>1, <3>1
    <3> QED BY <1>9, <2>2, <3>1, <3>2, <3>3
  <2>3. CASE ~(k <= Len(d) + n)
    <3>1. p[k] = q[g[k - (Len(d) + n)]]
      BY <1>6, <1>8, <1>10, <2>3
    <3>2. g[k - (Len(d) + n)] \in (n + 1)..Len(q)
      BY <1>10, <2>3
    <3> DEFINE i == g[k - (Len(d) + n)]
    <3>3. f[k] = Len(d) + i
      BY <2>3
    <3> HIDE DEF i
    <3>4. Len(d) + i \in 1..(Len(d) + Len(q)) /\ ~(Len(d) + i <= Len(d)) /\ (Len(d) + i) - Len(d) = i
      BY <1>1, <3>2 DEF i
    <3>5. (d \o q)[Len(d) + i] = q[i]
      BY <1>9, <3>4
    <3> QED BY <3>1, <3>3, <3>5 DEF i
  <2> QED BY <2>1, <2>2, <2>3
<1> HIDE DEF f
<1> QED BY <1>11, <1>12, <1>13 DEF Embedded, p, head, kept

\* A part is found in order, and so is any beginning of it.
LEMMA EmbeddedInOrder ==
    ASSUME NEW S, NEW T, NEW w \in Seq(S), NEW d \in Seq(T), NEW q \in Seq(T), Embedded(d \o q, w)
    PROVE  InOrder(d, w)
<1> DEFINE n == Len(d)
<1>1. /\ n \in Nat /\ Len(w) \in Nat /\ DOMAIN w = 1..Len(w) /\ Len(q) \in Nat
      /\ Len(d \o q) = n + Len(q)
      /\ \A i \in 1..n : i \in 1..Len(d \o q) /\ (d \o q)[i] = d[i]
  <2>1. /\ Len(d \o q) = n + Len(q)
        /\ \A i \in 1..(n + Len(q)) : (d \o q)[i] = IF i <= n THEN d[i] ELSE q[i - n]
    BY ConcatProperties
  <2>2. n \in Nat /\ Len(q) \in Nat /\ Len(w) \in Nat /\ DOMAIN w = 1..Len(w)
    BY LenProperties
  <2> QED BY <2>1, <2>2
<1>2. PICK f \in [1..Len(d \o q) -> 1..Len(w)] :
        /\ \A j, k \in 1..Len(d \o q) : j < k => f[j] < f[k]
        /\ \A k \in 1..Len(d \o q) : (d \o q)[k] = w[f[k]]
  BY DEF Embedded
<1>3. \A k \in 1..n : k \in Nat /\ f[k] \in 1..Len(w) /\ d[k] = w[f[k]]
  <2> SUFFICES ASSUME NEW k \in 1..n PROVE k \in Nat /\ f[k] \in 1..Len(w) /\ d[k] = w[f[k]]
    OBVIOUS
  <2>1. k \in 1..Len(d \o q) /\ (d \o q)[k] = d[k]
    BY <1>1
  <2>2. k \in Nat
    BY <1>1
  <2>3. f[k] \in 1..Len(w)
    BY <1>2, <2>1
  <2>4. (d \o q)[k] = w[f[k]]
    BY <1>2, <2>1
  <2> QED BY <2>1, <2>2, <2>3, <2>4
<1>4. \A j, k \in 1..n : j <= k <=> f[j] <= f[k]
  <2> SUFFICES ASSUME NEW j \in 1..n, NEW k \in 1..n PROVE j <= k <=> f[j] <= f[k]
    OBVIOUS
  <2>1. j \in 1..Len(d \o q) /\ k \in 1..Len(d \o q) /\ f[j] \in Nat /\ f[k] \in Nat
    BY <1>1, <1>3
  <2>2. (j < k => f[j] < f[k]) /\ (k < j => f[k] < f[j])
    BY <1>2, <2>1
  <2> QED BY <1>1, <2>1, <2>2
<1> DEFINE first(k) == {f[m] : m \in 1..k}
           kept     == first(n)
<1>5. \A k \in 0..n : Cardinality(first(k)) = k
  <2> SUFFICES ASSUME NEW k \in 0..n PROVE Cardinality(first(k)) = k
    OBVIOUS
  <2> DEFINE g == [m \in 1..k |-> f[m]]
  <2>1. \A m \in 1..k : m \in 1..n
    BY <1>1
  <2>2. g \in [1..k -> first(k)] /\ \A y \in first(k) : \E m \in 1..k : g[m] = y
    OBVIOUS
  <2>3. \A m, l \in 1..k : g[m] = g[l] => m = l
    <3> SUFFICES ASSUME NEW m \in 1..k, NEW l \in 1..k, f[m] = f[l] PROVE m = l
      OBVIOUS
    <3>1. f[m] \in Nat
      BY <1>3, <2>1
    <3>2. m <= l /\ l <= m
      BY <1>4, <2>1, <3>1
    <3> QED BY <1>1, <3>2
  <2>4. g \in Bijection(1..k, first(k))
    BY <2>2, <2>3 DEF Bijection, Injection, Surjection, IsInjective
  <2> HIDE DEF g, first
  <2>5. ExistsBijection(1..k, first(k))
    BY <2>4 DEF ExistsBijection
  <2>6. k \in Nat
    BY <1>1
  <2> QED BY <2>5, <2>6, FS_CountingElements
<1>6. kept \in SUBSET DOMAIN w
  BY <1>1, <1>3
<1>7. Cardinality(kept) = Len(d)
  <2>1. n \in 0..n
    BY <1>1
  <2>2. Cardinality(first(n)) = n
    BY <1>5, <2>1
  <2> QED BY <2>2
<1>8. \A i \in kept : d[Cardinality({j \in kept : j <= i})] = w[i]
  <2> SUFFICES ASSUME NEW i \in kept PROVE d[Cardinality({j \in kept : j <= i})] = w[i]
    OBVIOUS
  <2>1. PICK k \in 1..n : i = f[k]
    OBVIOUS
  <2>2. \A m \in 1..k : m \in 1..n
    BY <1>1
  <2>3. {j \in kept : j <= i} = first(k)
    <3>1. \A m \in 1..n : m <= k <=> f[m] <= i
      BY <1>4, <2>1
    <3>2. \A m \in 1..n : m <= k <=> m \in 1..k
      BY <1>1
    <3> QED BY <2>2, <3>1, <3>2
  <2>4. Cardinality(first(k)) = k
    BY <1>1, <1>5
  <2> QED BY <1>3, <2>1, <2>3, <2>4
<1> HIDE DEF first
<1> QED BY <1>6, <1>7, <1>8 DEF InOrder

\* An element more at the end, left out or kept.
LEMMA KeepOfAppend ==
    ASSUME NEW S, NEW seq \in Seq(S), NEW e \in S, NEW K \in SUBSET (1..Len(seq))
    PROVE  /\ Keep(Append(seq, e), K) = Keep(seq, K)
           /\ Keep(Append(seq, e), K \cup {Len(seq) + 1}) = Append(Keep(seq, K), e)
<1> DEFINE n    == Len(seq)
           more == Append(seq, e)
           L    == K \cup {n + 1}
           c    == Cardinality(K)
<1>1. /\ n \in Nat /\ more \in Seq(S) /\ Len(more) = n + 1
      /\ \A i \in 1..n : more[i] = seq[i]
      /\ more[n + 1] = e
  BY LenProperties, AppendProperties
<1>2. K \in SUBSET (1..n) /\ K \in SUBSET (1..Len(more)) /\ L \in SUBSET (1..Len(more)) /\ n + 1 \notin K
  <2> HIDE DEF n, more
  <2>1. K \in SUBSET (1..n)
    BY DEF n
  <2> QED BY <1>1, <2>1
<1>3. IsFiniteSet(K) /\ c \in Nat /\ Cardinality(L) = c + 1
  BY <1>1, <1>2, Ranks, FS_AddElement
<1>4. \A i \in K : RankIn(L, i) = RankIn(K, i)
  <2> SUFFICES ASSUME NEW i \in K PROVE {j \in L : j <= i} = {j \in K : j <= i}
    BY DEF RankIn
  <2> QED BY <1>1, <1>2
<1>5. RankIn(L, n + 1) = c + 1
  <2>1. {j \in L : j <= n + 1} = L
    BY <1>1, <1>2
  <2> QED BY <1>3, <2>1 DEF RankIn
<1> HIDE DEF n, more, L, c
<1>6. \A k \in 1..c : \E i \in K : RankIn(K, i) = k
  BY <1>1, <1>2, Ranks DEF c
<1>7. /\ Keep(seq, K) \in Seq(S) /\ Len(Keep(seq, K)) = c
      /\ \A i \in K : RankIn(K, i) \in 1..c /\ Keep(seq, K)[RankIn(K, i)] = seq[i]
  BY <1>2, KeepElements DEF n, c
<1>8. /\ Keep(more, K) \in Seq(S) /\ Len(Keep(more, K)) = c
      /\ \A i \in K : Keep(more, K)[RankIn(K, i)] = more[i]
  BY <1>1, <1>2, KeepElements DEF c
<1>9. /\ Keep(more, L) \in Seq(S) /\ Len(Keep(more, L)) = c + 1
      /\ \A i \in L : Keep(more, L)[RankIn(L, i)] = more[i]
  BY <1>1, <1>2, <1>3, KeepElements
<1>10. Keep(more, K) = Keep(seq, K)
  <2>1. \A k \in 1..c : Keep(more, K)[k] = Keep(seq, K)[k]
    BY <1>1, <1>2, <1>6, <1>7, <1>8
  <2> QED BY <1>7, <1>8, <2>1, SeqEqual
<1>11. Keep(more, L) = Append(Keep(seq, K), e)
  <2>1. /\ Append(Keep(seq, K), e) \in Seq(S) /\ Len(Append(Keep(seq, K), e)) = c + 1
        /\ \A k \in 1..c : Append(Keep(seq, K), e)[k] = Keep(seq, K)[k]
        /\ Append(Keep(seq, K), e)[c + 1] = e
    BY <1>7, AppendProperties
  <2>2. \A k \in 1..c : Keep(more, L)[k] = Keep(seq, K)[k]
    <3> SUFFICES ASSUME NEW k \in 1..c PROVE Keep(more, L)[k] = Keep(seq, K)[k]
      OBVIOUS
    <3>1. PICK i \in K : RankIn(K, i) = k
      BY <1>6
    <3>2. i \in L /\ RankIn(L, i) = k /\ more[i] = seq[i]
      BY <1>1, <1>2, <1>4, <3>1 DEF L
    <3> QED BY <1>7, <1>9, <3>1, <3>2
  <2>3. Keep(more, L)[c + 1] = e
    <3>1. n + 1 \in L
      BY DEF L
    <3> QED BY <1>1, <1>5, <1>9, <3>1
  <2>4. \A k \in 1..(c + 1) : Keep(more, L)[k] = Append(Keep(seq, K), e)[k]
    BY <1>3, <2>1, <2>2, <2>3
  <2> QED BY <1>9, <2>1, <2>4, SeqEqual
<1> QED BY <1>10, <1>11 DEF more, L, n

\* Leaving out one element everywhere: of a sequence more at the end, which has
\* that element only behind its first m, these m come in addition.
LEMMA WithoutOfConcat ==
    ASSUME NEW S, NEW e, NEW seq \in Seq(S), NEW d \in Seq(S), NEW m \in 0..Len(d)
    PROVE  (\A i \in 1..Len(d) : d[i] # e <=> i <= m)
               => Without(seq \o d, e) = Without(seq, e) \o SubSeq(d, 1, m)
<1> DEFINE n    == Len(seq)
           K    == {i \in 1..n : seq[i] # e}
           more == seq \o d
           L    == K \cup ((n + 1)..(n + m))
           c    == Cardinality(K)
           head == SubSeq(d, 1, m)
<1>1. /\ n \in Nat /\ m \in Nat /\ Len(d) \in Nat /\ m <= Len(d)
      /\ more \in Seq(S) /\ Len(more) = n + Len(d)
      /\ \A i \in 1..(n + Len(d)) : more[i] = IF i <= n THEN seq[i] ELSE d[i - n]
  BY LenProperties, ConcatProperties
<1>2. K \in SUBSET (1..n) /\ \A i \in K : i \in Nat /\ 1 <= i /\ i <= n
  BY <1>1
<1> HIDE DEF K
<1>3. IsFiniteSet(K) /\ c \in Nat /\ \A k \in 1..c : \E i \in K : RankIn(K, i) = k
  BY <1>1, <1>2, Ranks
<1>4. head \in Seq(S) /\ Len(head) = m /\ \A i \in 1..m : head[i] = d[i]
  <2>1. \A i \in 1..m : d[i] \in S
    BY <1>1, LenProperties
  <2>2. /\ head \in Seq(S) /\ Len(head) = IF 1 <= m THEN m - 1 + 1 ELSE 0
        /\ \A i \in 1..(m - 1 + 1) : head[i] = d[1 + i - 1]
    BY <1>1, <2>1, SubSeqProperties
  <2> QED BY <1>1, <2>2
<1> HIDE DEF n, more, c, head
<1>5. L \in SUBSET (1..Len(more))
  BY <1>1, <1>2
<1>6. \A k \in 0..m : Cardinality(K \cup ((n + 1)..(n + k))) = c + k
  <2> SUFFICES ASSUME NEW k \in 0..m PROVE Cardinality(K \cup ((n + 1)..(n + k))) = c + k
    OBVIOUS
  <2> DEFINE J == (n + 1)..(n + k)
  <2>1. IsFiniteSet(J) /\ Cardinality(J) = k
    <3>1. n + 1 \in Int /\ n + k \in Int
      BY <1>1
    <3>2. IsFiniteSet(J) /\ Cardinality(J) = IF n + 1 > n + k THEN 0 ELSE (n + k) - (n + 1) + 1
      BY <3>1, FS_Interval
    <3> QED BY <1>1, <3>2
  <2>2. K \cap J = {}
    BY <1>1, <1>2
  <2> HIDE DEF J
  <2>3. Cardinality(K \cup J) = Cardinality(K) + Cardinality(J) - Cardinality(K \cap J)
    BY <1>3, <2>1, FS_Union
  <2>4. Cardinality(K \cap J) = 0
    BY <2>2, FS_EmptySet
  <2>5. Cardinality(K \cup J) = c + k
    BY <1>1, <1>3, <2>1, <2>3, <2>4 DEF c
  <2> QED BY <2>5 DEF J
<1>7. Cardinality(L) = c + m
  BY <1>1, <1>6
<1>8. \A i \in K : RankIn(L, i) = RankIn(K, i)
  <2> SUFFICES ASSUME NEW i \in K PROVE {j \in L : j <= i} = {j \in K : j <= i}
    BY DEF RankIn
  <2> QED BY <1>1, <1>2
<1>9. \A k \in 1..m : n + k \in L /\ RankIn(L, n + k) = c + k
  <2> SUFFICES ASSUME NEW k \in 1..m PROVE n + k \in L /\ RankIn(L, n + k) = c + k
    OBVIOUS
  <2>1. n + k \in L
    BY <1>1
  <2>2. {j \in L : j <= n + k} = K \cup ((n + 1)..(n + k))
    <3>1. \A j \in K : j <= n + k
      BY <1>1, <1>2
    <3>2. \A j : j \in (n + 1)..(n + k) <=> j \in (n + 1)..(n + m) /\ j <= n + k
      BY <1>1
    <3> QED BY <3>1, <3>2
  <2>3. k \in 0..m
    BY <1>1
  <2>4. Cardinality(K \cup ((n + 1)..(n + k))) = c + k
    BY <1>6, <2>3
  <2>5. RankIn(L, n + k) = Cardinality(K \cup ((n + 1)..(n + k)))
    BY <2>2 DEF RankIn
  <2> QED BY <2>1, <2>4, <2>5
<1>10. /\ Keep(seq, K) \in Seq(S) /\ Len(Keep(seq, K)) = c
       /\ \A i \in K : Keep(seq, K)[RankIn(K, i)] = seq[i]
  <2>1. K \in SUBSET (1..Len(seq))
    BY <1>2 DEF n
  <2> QED BY <2>1, KeepElements DEF c
<1> HIDE DEF L
<1>11. /\ Keep(more, L) \in Seq(S) /\ Len(Keep(more, L)) = c + m
       /\ \A i \in L : Keep(more, L)[RankIn(L, i)] = more[i]
  BY <1>1, <1>5, <1>7, KeepElements
<1>12. /\ Keep(seq, K) \o head \in Seq(S) /\ Len(Keep(seq, K) \o head) = c + m
       /\ \A k \in 1..(c + m) : (Keep(seq, K) \o head)[k] =
                                   IF k <= c THEN Keep(seq, K)[k] ELSE head[k - c]
  <2> DEFINE kept == Keep(seq, K)
  <2>1. kept \in Seq(S) /\ Len(kept) = c
    BY <1>10
  <2> HIDE DEF kept
  <2> SUFFICES /\ kept \o head \in Seq(S) /\ Len(kept \o head) = c + m
               /\ \A k \in 1..(c + m) : (kept \o head)[k] = IF k <= c THEN kept[k] ELSE head[k - c]
    BY DEF kept
  <2> QED BY <1>4, <2>1, ConcatProperties
<1>13. \A k \in 1..(c + m) : Keep(more, L)[k] = (Keep(seq, K) \o head)[k]
  <2> SUFFICES ASSUME NEW k \in 1..(c + m) PROVE Keep(more, L)[k] = (Keep(seq, K) \o head)[k]
    OBVIOUS
  <2>1. CASE k <= c
    <3>1. PICK i \in K : RankIn(K, i) = k
      BY <1>3, <2>1
    <3>2. i \in L /\ RankIn(L, i) = k
      BY <1>8, <3>1 DEF L
    <3>3. more[i] = seq[i]
      BY <1>1, <1>2
    <3> QED BY <1>10, <1>11, <1>12, <2>1, <3>1, <3>2, <3>3
  <2>2. CASE ~(k <= c)
    <3> DEFINE i == k - c
    <3>1. i \in 1..m /\ k = c + i
      BY <1>1, <1>3, <2>2
    <3> HIDE DEF i
    <3>2. n + i \in L /\ RankIn(L, n + i) = k
      BY <1>9, <3>1
    <3>3. n + i \in 1..(n + Len(d)) /\ ~(n + i <= n) /\ (n + i) - n = i
      BY <1>1, <3>1
    <3>4. more[n + i] = d[i]
      BY <1>1, <3>3
    <3>5. (Keep(seq, K) \o head)[k] = head[i]
      BY <1>12, <2>2 DEF i
    <3> QED BY <1>4, <1>11, <3>1, <3>2, <3>4, <3>5
  <2> QED BY <2>1, <2>2
<1>14. Keep(more, L) = Keep(seq, K) \o head
  BY <1>11, <1>12, <1>13, SeqEqual
<1> SUFFICES ASSUME \A i \in 1..Len(d) : d[i] # e <=> i <= m
             PROVE  Without(more, e) = Without(seq, e) \o head
  BY DEF more, head
<1>15. {i \in DOMAIN seq : seq[i] # e} = K
  BY <1>1, LenProperties DEF K, n
<1>16. {i \in DOMAIN more : more[i] # e} = L
  <2>1. DOMAIN more = 1..(n + Len(d))
    BY <1>1, LenProperties
  <2>2. \A i \in 1..(n + Len(d)) : i <= n => (more[i] # e <=> i \in L)
    <3> SUFFICES ASSUME NEW i \in 1..(n + Len(d)), i <= n PROVE more[i] # e <=> i \in L
      OBVIOUS
    <3>1. i \in 1..n /\ more[i] = seq[i] /\ i \notin (n + 1)..(n + m)
      BY <1>1
    <3>2. i \in K <=> seq[i] # e
      BY <3>1 DEF K
    <3> HIDE DEF K
    <3> QED BY <3>1, <3>2 DEF L
  <2>3. ASSUME NEW i \in 1..(n + Len(d)), ~(i <= n) PROVE more[i] # e <=> i \in L
    <3>1. i - n \in 1..Len(d) /\ more[i] = d[i - n] /\ i \notin K
      BY <1>1, <1>2, <2>3
    <3>3. d[i - n] # e <=> i - n <= m
      BY <3>1
    <3>2. i - n <= m <=> i \in (n + 1)..(n + m)
      BY <1>1, <2>3
    <3> HIDE DEF K
    <3>4. i \in L <=> i \in (n + 1)..(n + m)
      BY <3>1 DEF L
    <3> QED BY <3>1, <3>2, <3>3, <3>4
  <2>4. L \subseteq 1..(n + Len(d))
    BY <1>1, <1>5
  <2> HIDE DEF L
  <2> QED BY <2>1, <2>2, <2>3, <2>4
<1> HIDE DEF L
<1> QED BY <1>14, <1>15, <1>16 DEF Without

\* The indices of no element keep nothing.
LEMMA KeepNothing == \A seq : Keep(seq, {}) = <<>>
<1>1. Cardinality({}) = 0
  BY FS_EmptySet
<1> QED BY <1>1 DEF Keep
=============================================================================
