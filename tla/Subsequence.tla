---------------------------- MODULE Subsequence ----------------------------
(***************************************************************************)
(* Parts of a sequence: what a relay keeps of its queue, and what it may   *)
(* deliver of all that was sent.                                           *)
(***************************************************************************)
EXTENDS Integers, Sequences, FiniteSets

\* The elements of seq at the indices of a set, in order.
Keep(seq, indices) ==
    [k \in 1..Cardinality(indices) |->
        seq[CHOOSE i \in indices : Cardinality({j \in indices : j <= i}) = k]]

\* What is left of seq without the elements e.
Without(seq, e) == Keep(seq, {i \in DOMAIN seq : seq[i] # e})

\* part is what remains of whole when some of its elements are left out: in
\* the same order, none twice and none made up.
InOrder(part, whole) ==
    \E kept \in SUBSET DOMAIN whole :
        /\ Cardinality(kept) = Len(part)
        /\ \A i \in kept : part[Cardinality({j \in kept : j <= i})] = whole[i]
=============================================================================
