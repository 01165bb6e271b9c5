----------------------------- MODULE MCSchedules -----------------------------
(* A spec that asks two questions and one that lists tools, chats and      *)
(* contexts over two turns, a reply of two tokens.                         *)
EXTENDS Schedules

Both == <<"b", "u">>
Schemas == {"b"}
Blocks == ("b" :> <<"block">>) @@ ("u" :> <<"block", "tools">>)
Labels == ("b" :> <<"label">>) @@ ("u" :> <<"other">>)
NoSystem == {<<>>}
User(c) == [role |-> "user", content |-> <<c>>]
Assistant(c) == [role |-> "assistant", content |-> <<c>>]
SomeTurns == {<<User("x")>>, <<User("x"), Assistant("r")>>, <<User("x"), User("x")>>}
SomeInputs == {<<"i">>}
TwoSlots == <<<<"d1", "d2">>, <<"d3">>>>
Close == <<"d4", "end">>
Replied == <<"r", "end">>
SomeWords == {"block", "tools", "label", "other", "x", "r", "i", "d1", "d2", "d3", "d4"}

ASSUME InputsQuoteNothing == NothingQuoted
=============================================================================
