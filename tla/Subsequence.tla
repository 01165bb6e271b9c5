----------------------------- MODULE Subsequence -----------------------------
(* What is left of a deque or a vector when some of its elements are removed. *)
EXTENDS Naturals, Sequences, FiniteSets

\* The subsequence of seq outside V.
Without(seq, V) ==
  LET kept == {i \in DOMAIN seq : seq[i] \notin V}
      upTo(i) == {j \in kept : j <= i}
  IN  [n \in 1..Cardinality(kept) |->
         seq[CHOOSE i \in kept : Cardinality(upTo(i)) = n]]
==============================================================================
