------------------------------ MODULE Pooling -------------------------------
(***************************************************************************)
(* Pooling one question's reads over several contexts (src/lfm2d/src/pool.rs *)
(* and opinion_api.rs's pool_reads).  A read is its field, its options, the  *)
(* raw weight of each (a natural; 0 is ruled out) and its mass, which is     *)
(* their sum unless it underflowed to 0.  A distribution is its numerators:  *)
(* only their ratios mean anything, and <<>> stands for no distribution.     *)
(***************************************************************************)
EXTENDS Integers, Sequences, SequencesExt

\* The weights a request gives must fit its contexts.
PoolAccepted(weights, n) ==
  weights.kind = "given" =>
    /\ Len(weights.given) = n
    /\ \A c \in DOMAIN weights.given : weights.given[c] >= 0
    /\ SumFunction(weights.given) > 0

ArgMax(ns) == CHOOSE i \in DOMAIN ns : /\ \A j \in DOMAIN ns : ns[i] >= ns[j]
                                       /\ \A j \in 1..(i - 1) : ns[j] < ns[i]

\* What each context adds: over a common denominator, its share of a sum, or
\* its factor of a product.  A context of weight 0 adds nothing, not even an
\* option it rules out.
ProductOf(ns) == FoldFunction(LAMBDA n, p : n * p, 1, ns)
Linear(rows, g) ==
  LET total(c) == SumFunction(rows[c])
      others(c) == ProductOf([d \in DOMAIN rows |-> IF d = c THEN 1 ELSE total(d)])
  IN [o \in DOMAIN rows[1] |->
       SumFunction([c \in DOMAIN rows |-> g[c] * rows[c][o] * others(c)])]
LogLinearRuledOut(rows, g) ==
  [o \in DOMAIN rows[1] |-> ProductOf([c \in DOMAIN rows |->
     IF rows[c][o] = 0 THEN 0 ELSE rows[c][o] ^ g[c]])]
LogLinear(rows, g) ==
  [o \in DOMAIN rows[1] |-> ProductOf([c \in DOMAIN rows |->
     IF g[c] = 0 THEN 1 ELSE rows[c][o] ^ g[c]])]
Combine(method, rows, g) ==
  LET acc == IF method = "linear" THEN Linear(rows, g) ELSE LogLinear(rows, g)
  IN IF SumFunction(g) = 0 \/ SumFunction(acc) = 0 THEN <<>> ELSE acc

Weights(weights, mass) ==
  CASE weights.kind = "uniform" -> [c \in DOMAIN mass |-> 1]
    [] weights.kind = "mass" -> mass
    [] OTHER -> weights.given

\* The largest gap any option has between two contexts, as a fraction.
Spread(rows) ==
  LET share(c, o, d) == rows[c][o] * SumFunction(rows[d])
      gap(c, d, o) == <<share(c, o, d) - share(d, o, c), SumFunction(rows[c]) * SumFunction(rows[d])>>
      gaps == {gap(c, d, o) : c \in DOMAIN rows, d \in DOMAIN rows, o \in DOMAIN rows[1]}
  IN CHOOSE g \in gaps : \A h \in gaps : g[1] * h[2] >= h[1] * g[2]

Refused == [refused |-> TRUE]
Pool(rows, mass, method, weights) ==
  LET n == Len(rows)
      g == Weights(weights, mass)
      probs == Combine(method, rows, g)
      keep(c) == [i \in 1..(n - 1) |-> IF i < c THEN i ELSE i + 1]
      without(c) == Combine(method, [i \in 1..(n - 1) |-> rows[keep(c)[i]]],
                                    [i \in 1..(n - 1) |-> g[keep(c)[i]]])
  IN IF \/ n = 0
        \/ ~PoolAccepted(weights, n)
        \/ \E c \in 1..n : Len(rows[c]) # Len(rows[1]) \/ SumFunction(rows[c]) = 0
        \/ probs = <<>>
     THEN Refused
     ELSE [refused |-> FALSE, probs |-> probs, weights |-> g,
           agree |-> \A c \in 1..n : ArgMax(rows[c]) = ArgMax(rows[1]),
           spread |-> Spread(rows),
           leaveOneOut |-> IF n < 2 THEN <<>> ELSE [c \in 1..n |-> without(c)]]

\* Every read must have answered the same question over the same options.
PoolReads(reads, method, weights) ==
  IF \A c \in DOMAIN reads : /\ reads[c].field = reads[1].field
                             /\ reads[c].options = reads[1].options
  THEN Pool([c \in DOMAIN reads |-> reads[c].row], [c \in DOMAIN reads |-> reads[c].mass],
            method, weights)
  ELSE Refused
=============================================================================
