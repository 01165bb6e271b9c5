------------------------- MODULE MCAdjudicatorSpecs -------------------------
(* Two uploads where one fits, beside one chat: what specs leave.          *)
EXTENDS Adjudicator, TLC

CONSTANTS u, a, p, q, s1, s2

MCPrefixes == [x \in {} |-> {}]
MCTurns == {[from |-> None, user |-> u, reply |-> a]}
MCSpecOrder == <<s1, s2>>
MCCheckpointSize == (u :> 1) @@ (a :> 1)
MCKeySize == [k \in Keys |-> 1]
MCBytes(S) == Cardinality(S)
=============================================================================
