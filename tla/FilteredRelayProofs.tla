------------------------- MODULE FilteredRelayProofs -------------------------
(***************************************************************************)
(* What the promise of module FilteredRelay amounts to, for every set of   *)
(* messages and however much is sent: whatever implements the relay        *)
(* delivers in order, and allowed messages only.                           *)
(***************************************************************************)
EXTENDS FilteredRelay, SubsequenceProofs

TypeOK ==
    /\ sent \in Seq(Messages)
    /\ queue \in Seq(Messages)
    /\ delivered \in Seq(Messages)

\* The inductive invariant: what was delivered, with what may still be, is
\* part of what was sent.  That delivered alone is part of it says too
\* little: a relay could hold messages twice, or hold them in another order.
NothingMadeUp == TypeOK /\ Embedded(delivered \o queue, sent)

\* Delivered messages are allowed ones.
AllowedOnly == delivered \in Seq(Messages \cap Allowed)

-----------------------------------------------------------------------------
\* Sending keeps the invariant, whether the message is held or lost.
LEMMA SendKeeps ==
    ASSUME NothingMadeUp, NEW m \in Messages, Send(m)
    PROVE  NothingMadeUp'
<1>1. TypeOK'
  BY AppendProperties DEF NothingMadeUp, TypeOK, Send
<1>2. delivered \o queue \in Seq(Messages)
  BY ConcatProperties DEF NothingMadeUp, TypeOK
<1>3. /\ Embedded(delivered \o queue, Append(sent, m))
      /\ Embedded(Append(delivered \o queue, m), Append(sent, m))
  BY <1>2, SendEmbedded DEF NothingMadeUp, TypeOK
<1>4. delivered \o Append(queue, m) = Append(delivered \o queue, m)
  <2>1. delivered \in Seq(Messages) /\ queue \in Seq(Messages)
    BY DEF NothingMadeUp, TypeOK
  <2> QED BY <2>1
<1>5. Embedded(delivered \o queue, sent)'
  <2>1. sent' = Append(sent, m) /\ delivered' = delivered
        /\ (queue' = queue \/ queue' = Append(queue, m))
    BY DEF Send
  <2> QED BY <1>3, <1>4, <2>1
<1> QED BY <1>1, <1>5 DEF NothingMadeUp

\* Delivering a beginning of the queue and losing some of the rest keeps it.
LEMMA RelayKeeps ==
    ASSUME NothingMadeUp, NEW n \in 0..Len(queue), Relay(n)
    PROVE  NothingMadeUp' /\ SubSeq(queue, 1, n) \in Seq(Messages \cap Allowed)
<1>1. delivered \in Seq(Messages) /\ queue \in Seq(Messages) /\ sent \in Seq(Messages)
  BY DEF NothingMadeUp, TypeOK
<1>2. PICK kept \in SUBSET ((n + 1)..Len(queue)) : queue' = Keep(queue, kept)
  BY DEF Relay
<1>3. kept \in SUBSET (1..Len(queue)) /\ n \in Nat /\ n <= Len(queue)
  BY <1>1, LenProperties
<1>4. queue' \in Seq(Messages)
  BY <1>1, <1>2, <1>3, KeepElements
<1>5. /\ SubSeq(queue, 1, n) \in Seq(Messages)
      /\ Len(SubSeq(queue, 1, n)) = n
      /\ \A i \in 1..n : SubSeq(queue, 1, n)[i] = queue[i] /\ queue[i] \in Allowed
  <2>1. \A i \in 1..n : queue[i] \in Allowed
    BY DEF Relay
  <2> QED BY <1>1, <1>3, <2>1
<1>6. SubSeq(queue, 1, n) \in Seq(Messages \cap Allowed)
  <2> DEFINE head == SubSeq(queue, 1, n)
  <2>1. \A i \in 1..Len(head) : head[i] \in Messages \cap Allowed
    BY <1>5, ElementOfSeq
  <2> QED BY <1>5, <2>1, SeqDef
<1>7. TypeOK'
  <2>1. delivered' = delivered \o SubSeq(queue, 1, n) /\ sent' = sent
    BY DEF Relay
  <2> QED BY <1>1, <1>4, <1>5, <2>1, ConcatProperties DEF TypeOK
<1>8. Embedded(delivered \o queue, sent)'
  <2>1. delivered' = delivered \o SubSeq(queue, 1, n) /\ sent' = sent
    BY DEF Relay
  <2>2. Embedded((delivered \o SubSeq(queue, 1, n)) \o Keep(queue, kept), delivered \o queue)
    BY <1>1, RelayEmbedded
  <2>3. Embedded(delivered \o queue, sent)
    BY DEF NothingMadeUp
  <2> QED BY <1>2, <2>1, <2>2, <2>3, EmbeddedTransitive
<1> QED BY <1>6, <1>7, <1>8 DEF NothingMadeUp

\* The invariant holds at first and every step keeps it.
LEMMA NothingMadeUpHolds == Spec => []NothingMadeUp
<1>1. Init => NothingMadeUp
  <2> SUFFICES ASSUME Init PROVE NothingMadeUp
    OBVIOUS
  <2>1. delivered \o queue = <<>> /\ TypeOK
    BY EmptySeq DEF Init, TypeOK
  <2> QED BY <2>1, EmbeddedEmpty DEF NothingMadeUp
<1>2. NothingMadeUp /\ [Next]_vars => NothingMadeUp'
  <2>1. ASSUME NothingMadeUp, UNCHANGED vars PROVE NothingMadeUp'
    BY <2>1 DEF NothingMadeUp, TypeOK, vars
  <2> QED BY <2>1, SendKeeps, RelayKeeps DEF Next
<1> QED BY <1>1, <1>2, PTL DEF Spec

\* Whatever is lost on the way, what was delivered is part of what was sent:
\* in the order sent, nothing twice and nothing made up.
THEOREM DeliversInOrder == Spec => []InOrder(delivered, sent)
<1>1. NothingMadeUp => InOrder(delivered, sent)
  BY EmbeddedInOrder DEF NothingMadeUp, TypeOK
<1> QED BY <1>1, NothingMadeUpHolds, PTL

\* Only allowed messages are delivered.
THEOREM DeliversAllowed == Spec => []AllowedOnly
<1>1. Init => AllowedOnly
  BY EmptySeq DEF Init, AllowedOnly
<1>2. NothingMadeUp /\ AllowedOnly /\ [Next]_vars => AllowedOnly'
  <2>1. ASSUME NEW n \in 0..Len(queue), NothingMadeUp, AllowedOnly, Relay(n)
        PROVE  AllowedOnly'
    <3>1. SubSeq(queue, 1, n) \in Seq(Messages \cap Allowed)
      BY <2>1, RelayKeeps
    <3>2. delivered' = delivered \o SubSeq(queue, 1, n)
      BY <2>1 DEF Relay
    <3> QED BY <2>1, <3>1, <3>2, ConcatProperties DEF AllowedOnly
  <2>2. ASSUME NEW m \in Messages, AllowedOnly, Send(m)
        PROVE  AllowedOnly'
    BY <2>2 DEF AllowedOnly, Send
  <2>3. ASSUME AllowedOnly, UNCHANGED vars PROVE AllowedOnly'
    BY <2>3 DEF AllowedOnly, vars
  <2> QED BY <2>1, <2>2, <2>3 DEF Next
<1> QED BY <1>1, <1>2, NothingMadeUpHolds, PTL DEF Spec

-----------------------------------------------------------------------------
(* The steps of an implementation, as steps of the relay.                  *)

\* The queue in two parts: what the ends of either part are.
LEMMA Parts ==
    ASSUME NEW S, NEW a \in Seq(S), NEW b \in Seq(S), queue = a \o b
    PROVE  /\ queue \in Seq(S)
           /\ Len(a) \in 0..Len(queue) /\ Len(queue) = Len(a) + Len(b)
           /\ \A i \in 1..Len(a) : queue[i] = a[i]
           /\ SubSeq(queue, 1, Len(a)) = a
           /\ SubSeq(queue, Len(a) + 1, Len(queue)) = b
<1>1. queue \in Seq(S) /\ Len(queue) = Len(a) + Len(b)
  BY ConcatProperties
<1>2. Len(a) \in Nat /\ Len(b) \in Nat
  BY LenProperties
<1>3. \A i \in 1..Len(a) : queue[i] = a[i]
  BY <1>2, ConcatProperties
<1>4. SubSeq(queue, 1, Len(a)) = a
  BY <1>1, <1>2, <1>3
<1>5. SubSeq(queue, Len(a) + 1, Len(queue)) = b
  BY <1>1, <1>2
<1> QED BY <1>1, <1>2, <1>3, <1>4, <1>5

\* The first n messages of a are delivered and the others of a are lost: a
\* write that is whole, cut or failed.
LEMMA Delivering ==
    ASSUME NEW S, NEW a \in Seq(S), NEW b \in Seq(S), NEW n \in 0..Len(a),
           queue = a \o b, queue' = b,
           \A i \in 1..n : a[i] \in Allowed,
           delivered' = delivered \o SubSeq(a, 1, n), UNCHANGED sent
    PROVE  Next
<1>1. /\ queue \in Seq(S)
      /\ Len(a) \in 0..Len(queue) /\ Len(queue) = Len(a) + Len(b)
      /\ \A i \in 1..Len(a) : queue[i] = a[i]
      /\ SubSeq(queue, Len(a) + 1, Len(queue)) = b
  BY Parts
<1>2. Len(a) \in Nat /\ Len(queue) \in Nat /\ n \in 0..Len(queue) /\ Len(a) <= Len(queue)
  BY <1>1, LenProperties
<1>3. \A i \in 1..n : i \in 1..Len(a) /\ queue[i] \in Allowed
  BY <1>1, <1>2
<1>4. SubSeq(a, 1, n) = SubSeq(queue, 1, n)
  BY <1>1, <1>2, <1>3
<1>5. queue' = Keep(queue, (Len(a) + 1)..Len(queue))
  <2>1. Len(queue) \in 0..Len(queue)
    BY <1>2
  <2> QED BY <1>1, <1>2, <2>1, KeepStretch
<1>6. (Len(a) + 1)..Len(queue) \in SUBSET ((n + 1)..Len(queue))
  BY <1>2
<1>7. Relay(n)
  BY <1>3, <1>4, <1>5, <1>6 DEF Relay
<1> QED BY <1>2, <1>7 DEF Next

\* Some messages of the queue are lost, and none is delivered.
LEMMA Losing ==
    ASSUME NEW S, NEW T, queue \in Seq(S), delivered \in Seq(T),
           NEW K \in SUBSET (1..Len(queue)), queue' = Keep(queue, K),
           UNCHANGED <<sent, delivered>>
    PROVE  Next
<1>1. delivered' = delivered \o SubSeq(queue, 1, 0)
  OBVIOUS
<1>2. K \in SUBSET ((0 + 1)..Len(queue)) /\ 0 \in 0..Len(queue)
  BY LenProperties
<1>3. \A i \in 1..0 : queue[i] \in Allowed
  OBVIOUS
<1>4. Relay(0)
  BY <1>1, <1>2, <1>3 DEF Relay
<1> QED BY <1>2, <1>4 DEF Next

\* The messages of the first part are lost, or those of the second.
LEMMA LosingPart ==
    ASSUME NEW S, NEW a \in Seq(S), NEW b \in Seq(S), queue = a \o b, queue' \in {a, b},
           NEW T, delivered \in Seq(T), UNCHANGED <<sent, delivered>>
    PROVE  Next
<1>1. /\ queue \in Seq(S)
      /\ Len(a) \in 0..Len(queue) /\ Len(queue) = Len(a) + Len(b)
      /\ SubSeq(queue, 1, Len(a)) = a
      /\ SubSeq(queue, Len(a) + 1, Len(queue)) = b
  BY Parts
<1>2. Len(a) \in Nat /\ Len(queue) \in Nat /\ 0 \in 0..Len(queue) /\ Len(queue) \in 0..Len(queue)
      /\ Len(a) <= Len(queue) /\ 0 <= Len(a) /\ 0 + 1 = 1
  BY <1>1, LenProperties
<1>3. Keep(queue, 1..Len(a)) = a
  BY <1>1, <1>2, KeepStretch
<1>4. Keep(queue, (Len(a) + 1)..Len(queue)) = b
  BY <1>1, <1>2, KeepStretch
<1>5. 1..Len(a) \in SUBSET (1..Len(queue)) /\ (Len(a) + 1)..Len(queue) \in SUBSET (1..Len(queue))
  BY <1>2
<1> QED BY <1>1, <1>3, <1>4, <1>5, Losing

\* One message is lost, wherever it is held.
LEMMA LosingOne ==
    ASSUME NEW S, NEW a \in Seq(S), NEW m \in S, NEW b \in Seq(S),
           queue = (a \o <<m>>) \o b, queue' = a \o b,
           NEW T, delivered \in Seq(T), UNCHANGED <<sent, delivered>>
    PROVE  Next
<1> DEFINE d == Len(a) + 1
<1>1. Len(a) \in Nat /\ Len(b) \in Nat
  BY LenProperties
<1>2. a \o <<m>> \in Seq(S) /\ Len(a \o <<m>>) = d
  <2>1. <<m>> \in Seq(S) /\ Len(<<m>>) = 1
    OBVIOUS
  <2> QED BY <2>1, ConcatProperties
<1>3. /\ queue \in Seq(S)
      /\ d \in 0..Len(queue) /\ Len(queue) = d + Len(b)
      /\ SubSeq(queue, d + 1, Len(queue)) = b
  <2> HIDE DEF d
  <2> QED BY <1>2, Parts
<1>4. SubSeq(queue, 1, d - 1) = a
  BY <1>1, <1>3
<1>5. d \in 1..Len(queue)
  BY <1>1, <1>3
<1> HIDE DEF d
<1>6. Keep(queue, (1..Len(queue)) \ {d}) = a \o b
  BY <1>3, <1>4, <1>5, KeepAllBut
<1> QED BY <1>3, <1>6, Losing
=============================================================================
