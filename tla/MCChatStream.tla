---------------------------- MODULE MCChatStream ----------------------------
(* A turn of at most three tokens: half a character, its other half with     *)
(* what follows, the reasoning tags; the client leaving, the deadline and    *)
(* the stop each at any point or never.                                      *)
EXTENDS ChatStream

MCVocabulary ==
  {Eos, <<"lead">>, <<"tail", "x">>, <<"tail", "lead">>, <<"<think>">>, <<"</think>">>}
=============================================================================
