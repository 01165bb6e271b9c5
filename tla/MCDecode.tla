------------------------------ MODULE MCDecode -------------------------------
(* Every byte has a token; a few merges span keys, quotes and values, so a   *)
(* generation can leave the canonical path.  Schemas: a free string alone,   *)
(* one before a choice, three fields asked out of order, and one schema per  *)
(* refusal.  The picked tokens reach every lead byte's edge, the multi-byte  *)
(* white space, the escapes, and tokens that write past a slot.              *)
EXTENDS Documents

a == <<97>>
b == <<98>>
v == <<118>>
w == <<119>>
x == Text(<<120>>)
xy == Text(<<120, 121>>)
q == Text(<<113, Quote>>)
xb == <<120, Quote, 98>>

Field(type, enum) == [type |-> type, enum |-> enum, constrained |-> FALSE]
Free == Field("string", None)
Bool == Field("boolean", None)
Object(required, properties) ==
  [keywords |-> {"type", "additionalProperties", "required", "properties"},
   closed |-> TRUE, required |-> required, properties |-> properties]
One(n, p) == Object(<<n>>, n :> p)

Note == One(a, Free)
Verdict == Object(<<a, v>>, (a :> Free) @@ (v :> Field("string", <<x, xy, x>>)))
Three == Object(<<b, v, w>>, (b :> Bool) @@ (v :> Field("string", <<x, q, xy>>))
                               @@ (w :> Field("string", <<x, xy>>)))
LastIsBool == Object(<<v, b>>, (v :> Field("string", <<x, xy>>)) @@ (b :> Field("boolean", <<Truth(True)>>)))
Lookalike == Object(<<xb, b>>, (xb :> Field("string", <<x, xy>>)) @@ (b :> Field("string", <<x, xy>>)))
Refusable ==
  {[Note EXCEPT !.closed = FALSE], [Note EXCEPT !.keywords = @ \cup {"minProperties"}],
   Object(<<a, a>>, a :> Free), Object(<<a>>, (a :> Free) @@ (b :> Free)),
   Object(<<>>, <<>>), One(a, Field("number", None)), One(a, Field("string", <<>>)),
   One(a, Field("string", <<Truth(True)>>)), One(a, Field("string", <<x, Text(<<226, 128, 130>>)>>)),
   One(a, [Free EXCEPT !.constrained = TRUE])}
MCSchemas == {Note, Verdict, Three, LastIsBool, Lookalike} \cup Refusable

Ask(f, options) == [field |-> f, options |-> options]
MCAsked ==
  {<<Ask(v, None)>>, <<Ask(w, None), Ask(v, <<xy, x>>)>>, <<Ask(b, None)>>,
   <<Ask(v, <<x>>)>>, <<Ask(w, None), Ask(w, None)>>, <<>>}

\* GPT-2's bytes_to_unicode (external): the char a token file writes for a byte.
Shown == (33..126) \cup (161..172) \cup (174..255)
Hidden == SelectSeq([i \in 1..256 |-> i - 1], LAMBDA c : c \notin Shown)
ByteChar == [c \in 0..255 |-> IF c \in Shown THEN c ELSE 255 + SelectInSeq(Hidden, LAMBDA d : d = c)]
Chars(bytes) == [i \in DOMAIN bytes |-> ByteChar[bytes[i]]]
Key(n) == Encoded(n) \o <<58, 32>>
Merges ==
  <<<<123>> \o Key(a) \o <<Quote>>, <<Quote, 44, 32>> \o Key(v) \o <<Quote>>,
    <<123>> \o Key(b) \o True \o <<44, 32>> \o Key(v) \o <<Quote>>,
    <<120, Quote, 44, 32>> \o Key(w) \o <<Quote>>, <<44, 32>> \o Key(w) \o <<Quote, 120>>,
    <<123>> \o Key(xb) \o <<Quote>>, <<120, Quote, 44, 32>> \o Key(b) \o <<Quote>>,
    <<113, Backslash, Quote, Quote>>, <<Quote, 125>>, <<226, 128>>, <<168, Quote>>,
    <<123>> \o Key(v) \o <<Quote>>, <<44, 32>> \o Key(b) \o True \o <<125>>,
    <<120, Quote, 125>>, <<120, 121>>, <<120>>>>
MergeIds == 256..(255 + Len(Merges))
Control == 255 + Len(Merges) + 1
MCRows ==
  [id \in 0..(Control + 1) |->
     CASE id < 256 -> <<ByteChar[id]>>
       [] id \in MergeIds -> Chars(Merges[id - 255])
       [] id = Control -> <<9601>>
       [] OTHER -> <<>>]
MCEos == Control + 2
MCWidth == Control + 5
MCSampled ==
  {32, Quote, Backslash, 110, 128, 133, 143, 144, 159, 160,
   194, 224, 226, 237, 240, 244} \cup MergeIds \cup {Control, MCEos}
MCProbeBytes ==
  {0, 31, 32, Quote, 35, 47, Backslash, 97, 98, 102, 110, 116, 117, 120, 121, 123, 125, 127, 128,
   133, 143, 144, 154, 159, 160, 168, 191, 192, 193, 194, 223, 224, 225, 226, 236, 237, 238,
   239, 240, 241, 243, 244, 245, 255}

\* The proofs' antecedent, met by this instance.
ASSUME EndWritesNothing == EndIsUnwritten
=============================================================================
