--------------------------- MODULE MCAdjudicator ---------------------------
(* A chat of two turns beside a context and a longer one built on it, read  *)
(* with one spec, over budget together; a turn from a context is refused.   *)
EXTENDS Adjudicator, TLC, FiniteSetsExt

CONSTANTS u1, a1, u2, a2, c1, c2, s1

MCCheckpoints == {u1, a1, u2, a2, c1, c2}
MCContexts == {c1, c2}
MCPrefixes == (c1 :> {}) @@ (c2 :> {c1})
MCTurns == {[from |-> None, user |-> u1, reply |-> a1],
            [from |-> a1, user |-> u2, reply |-> a2],
            [from |-> c1, user |-> u1, reply |-> a1]}
MCSpecOrder == <<s1>>
MCCheckpointSize ==
  [c \in MCCheckpoints |-> IF c \in {u1, c1} THEN 1 ELSE 2]
MCChatBytes(S) == MapThenSumSet(LAMBDA c : MCCheckpointSize[c], S)
MCKeySize == [k \in Keys |-> 1]
MCStateBytes(S) == Cardinality(S)
=============================================================================
