----------------------------- MODULE MCRequests ------------------------------
(* Texts of up to three characters, among them both halves of a marker, a    *)
(* character of two bytes and the tokenizer's merges; pools of three          *)
(* contexts; labelled texts of three tokens; scores and weights of 0 to 2;   *)
(* budgets on both sides of what they must hold.                             *)
EXTENDS Requests

Words(chars, most) == UNION {[1..n -> chars] : n \in 0..most}
Plain == <<"a">>
Marked1 == {<<>>, Plain, <<"<">>, <<"|", "a">>, <<"t">>, <<"a", "<">>, <<"<", "|">>, <<" ">>}
Text2 == {Plain, <<"<">>, <<"|", "a">>, <<"<", "t">>}

\* Values, tools, calls and messages.
Nested(v) == {v, List(<<v>>), Map(<<Plain>>, <<List(<<v>>)>>)}
Args(vs) == {Map(<<>>, <<>>)} \cup {Map(<<k>>, <<v>>) : k \in {Plain, <<"<", "|">>}, v \in vs}
           \cup {Map(<<Plain, <<"<">>>>, <<v, v>>) : v \in vs}
ArgValues == UNION {Nested(Str(t)) : t \in Text2} \cup {Map(<<<<"<", "t">>>>, <<Str(Plain)>>), List(<<Str(<<Symbol>>)>>)}
MCCalls == {[name |-> n, arguments |-> a] : n \in {Plain, <<"<">>, <<>>},
             a \in Args(ArgValues) \cup {Str(Plain), Map(<<Plain, Plain>>, <<Str(Plain), Str(Plain)>>)}}
Message(role, content) == [role |-> role, content |-> content, thinking |-> None, calls |-> None]
Said == {Message(r, t) : r \in {"U", "O"}, t \in Marked1}
Thought == {[Message("A", c) EXCEPT !.thinking = t] : c \in {None, Plain, <<"T">>, <<"<">>}, t \in {None, <<"a", "<">>, <<"<", "t">>}}
Called == {[Message("A", c) EXCEPT !.calls = <<call>>] : c \in {None, <<"<">>}, call \in MCCalls}
Tool(t) == Map(<<<<"type">>, <<"function">>>>, <<Str(<<"function">>), Map(<<<<"name">>>>, <<Str(t)>>)>>)
Tools == {<<>>} \cup {<<Tool(t)>> : t \in Text2} \cup {<<Tool(Plain), Tool(<<"<">>)>>, <<Str(Plain)>>}
Build(system, tools, messages) ==
  [system |-> system, tools |-> tools, messages |-> messages, timeout_ms |-> 1]
MCContextBuilds ==
  {Build(None, None, <<m>>) : m \in Said \cup Thought \cup Called}
    \cup {Build(s, t, <<Message("U", Plain)>>) : s \in {None} \cup Marked1, t \in {None} \cup Tools}
    \cup {Build(None, None, <<m, n>>) : m \in Said, n \in Thought}
    \cup {Build(None, None, <<>>), [Build(Plain, None, <<>>) EXCEPT !.timeout_ms = 600001]}
Continue(from, b, tokens) ==
  [from |-> from, max_tokens |-> tokens] @@ b
MCChats ==
  {Continue(f, b, 1) : f \in {None, "id", "ID"},
                       b \in {Build(s, t, <<m>>) : s \in {None, <<>>, Plain}, t \in {None, <<Tool(Plain)>>}, m \in Said}}
    \cup {Continue("id", Build(None, None, ms), n) : ms \in {<<>>, <<Message("A", Plain)>>}, n \in {0, 1, 32769}}

\* Specs, and what a read is asked about.
Question(options, close) == [options |-> options, close |-> close, prefill |-> <<>>]
Questions == {None, [Question(<<<<"b">>, Plain>>, <<"c">>) EXCEPT !.prefill = Plain], Question(<<Plain, <<"b">>>>, <<".">>), Question(<<Plain, <<"a", "b">>>>, <<"c">>),
              Question(<<Plain, Plain>>, <<".">>), Question(<<Plain>>, <<".">>)}
Base == [label |-> Plain, system |-> Plain, tools |-> <<>>, schema |-> None, reasoning |-> "closed",
         opinion |-> None, choices |-> {}]
MCSpecs ==
  {[Base EXCEPT !.label = l, !.system = s] : l \in {Plain, <<"|">>, <<"t">>, <<"a", ":">>, <<"<", "|">>},
                                             s \in {Plain, <<"a", "<">>, <<"<", "t">>, <<" ">>}}
    \cup {[Base EXCEPT !.opinion = q, !.reasoning = r] : q \in Questions, r \in {"closed", "open"}}
    \cup {[Base EXCEPT !.tools = t, !.schema = s, !.reasoning = r] :
            t \in Tools, s \in {None, Plain, <<"<">>, <<"<", "|">>}, r \in {"closed", "open"}}
    \cup {[Base EXCEPT !.choices = c] : c \in {{Plain}, {<<"b">>}, {<<"b">>, <<"a">>}}}
    \cup {[Base EXCEPT !.system = [i \in 1..n |-> "a"], !.opinion = o] :
            n \in {9, 60} \cup 16..24, o \in {None, Question(<<Plain, <<"b">>>>, <<".">>)}}
MCStates == {[facts |-> f, input |-> i] : f \in {None, <<NL, "a">>} \cup Marked1, i \in Marked1 \cup {<<"a", "a", "a">>}}
MCTurns == {p \o t : p \in {<<>>, <<"<", "t">>}, t \in Words({"a", "<", "t", "/"}, 4)}

MCSpelled == Words({"a", SQ, DQ, BS, NL, Control, Symbol}, 3)
DigitRuns == {ds \in UNION {[1..n -> {0, 1, 9}] : n \in 1..3} : ds[1] # 0 /\ ds[Len(ds)] # 0}
MCFloats ==
  {[negative |-> n, digits |-> ds, exponent |-> e] : n \in BOOLEAN, e \in -7..21,
     ds \in DigitRuns \cup {TwoTo64.digits, TwoTo63.digits}}
  \cup {[negative |-> n, digits |-> <<0>>, exponent |-> 0] : n \in BOOLEAN}

\* Pools.
Read1(row, mass) == [field |-> "f", options |-> "o", row |-> row, mass |-> mass]
RawRows == [1..2 -> 0..2]
Read2 == {Read1(row, m) : row \in RawRows, m \in {0, 2}}
MCReadSets == {<<>>, <<[Read1(<<1, 2>>, 3) EXCEPT !.field = "g"], Read1(<<1, 2>>, 3)>>}
              \cup [1..1 -> Read2] \cup [1..2 -> Read2]
              \cup [1..3 -> {Read1(row, 1) : row \in RawRows}]
Weighted(kind, given) == [kind |-> kind, given |-> given]
MCPoolWeights == {Weighted("uniform", <<>>), Weighted("mass", <<>>)}
                 \cup {Weighted("given", g) : g \in {<<1>>, <<0, 1>>, <<2, 1>>, <<0, 0>>, <<1, 0, 2>>, <<1, 1, -1>>}}

\* Probes, and what is tokenized.
MCMerges == {<<"a", "b">>, <<"b", "c">>}
MCTokenizeTexts == Words({"a", "b", "c"}, 3)
MCTokenizeContexts == {None} \cup Words({"a", "b", Wide}, 2)
Probe1 == [text |-> None, messages |-> None, ids |-> None, prefill |-> None, decode_from |-> None,
           decode_from_token |-> None, top_k |-> 0, continuations |-> <<>>, generate |-> 0, timeout_ms |-> 1]
ProbeTexts == Words({"a", "b", Wide}, 3)
Conts == {<<>>, <<<<"b">>>>, <<<<"b", "a">>, <<"a", "b", Wide>>>>, <<<<>>>>}
MCProbes ==
  {[Probe1 EXCEPT !.text = t, !.decode_from = d, !.continuations = c] :
     t \in ProbeTexts, d \in {None} \cup 0..5, c \in Conts}
  \cup {[Probe1 EXCEPT !.text = t, !.generate = g, !.top_k = k] :
          t \in {Plain, <<"a", "a">>, <<"a", "a", "a">>}, g \in {0, 1, 3, 60, 257}, k \in {0, 2, 21}}
  \cup {[Probe1 EXCEPT !.ids = i, !.decode_from_token = d] :
          i \in {<<>>, <<Plain>>, <<Plain, <<"b">>>>}, d \in {None, 0, 1, 3}}
  \cup {[Probe1 EXCEPT !.messages = <<Message(r, c)>>, !.prefill = p] :
          r \in {"S", "O"}, c \in {Plain, <<"<", "|">>}, p \in {None, Plain}}
  \cup {[Probe1 EXCEPT !.ids = [i \in 1..61 |-> Plain], !.continuations = <<c>>] : c \in {<<"b">>, <<"b", "a">>}}
  \cup {Probe1, [Probe1 EXCEPT !.text = Plain, !.ids = <<Plain>>], [Probe1 EXCEPT !.text = Plain, !.prefill = Plain]}
MCPicks == {[i \in 1..61 |-> IF i = e THEN Eos ELSE "x"] : e \in {0, 1, 2, 3, 60}}
MCOptionSets ==
  {[rendered |-> r, options |-> o, close |-> c] : r \in Words({"a", "b"}, 1),
     o \in {<<p, q>> : p \in Words({"a", "b", "c"}, 2), q \in Words({"a", "b", "c"}, 2)}
           \cup {<<<<"a">>, <<"a", "b">>, p>> : p \in Words({"a", "b", "c"}, 2)},
     c \in {<<".">>, <<"b">>, <<"c">>}}
MCRows == [1..3 -> 0..2]
MCMasks == {None} \cup SUBSET (1..3)
MCTokenSets == {{}, {<<1>>}, {<<1, 2>>, <<3>>}, {<<>>}, {<<2, 2>>}, {<<4>>}}

\* The encoder.
Labelled1 == {[prefix |-> p, entity |-> e, score |-> s] : p \in {"B", "I", "S"}, e \in {"login", "f"}, s \in {1, 2}}
               \cup {[prefix |-> "O", entity |-> "O", score |-> 1]}
Placed(label, start, end) == [start |-> start, end |-> end] @@ label
MCLabellings ==
  {<<Placed(p, 0, 1), Placed(q, 1, 2), Placed(r, 2, 3)>> : p \in Labelled1, q \in Labelled1, r \in Labelled1}
  \cup {<<Placed(p, 0, 1), Placed(q, 0, 0), Placed(r, 1, 3)>> : p \in Labelled1, q \in Labelled1, r \in Labelled1}
MCSpanTexts == {<<"a", " ", "a">>, <<" ", "a", " ">>, <<"a", "wide">>}
MCRouteLists == UNION {[1..n -> {<<"a">>, <<"wide", "b">>, <<"wide">>, <<>>}] : n \in 0..2}
MCTokenizations == {t \in [run : {1, 2, 3, 5}, first : 0..5, lap : 0..1] : t.first < t.run \/ (t.run = 5 /\ t.lap = 0)}
MCRoutedTexts == {<<"a", "b">>, <<"wide", "a">>, <<"a">>}
MCHistories == UNION {[1..n -> {<<>>, <<"a">>, <<"wide">>, <<"a", "\n">>}] : n \in 0..3}
MCClauseSets == UNION {[1..n -> [1..2 -> 0..2]] : n \in 0..3}
MCLabelMaps == UNION {[1..n -> [key : -1..3, label : {"x", "y"}]] : n \in 0..3}
MCQueryIds == UNION {[1..n -> {"a", "b", "p"}] : n \in 0..4}
MCRetrievers == [query_length : {1, 3}, document_length : {2, 4}, do_query_expansion : BOOLEAN,
                 attend_to_expansion_tokens : BOOLEAN, expansion_id : {"m"}, skiplist : {{}, {"p"}}]

\* The process, and its bodies.
Cli1 == [socket |-> TRUE, bind |-> FALSE, embedder |-> <<"d", "e">>, router |-> None, classifiers |-> <<>>,
         model |-> None, tokenizer |-> None, dtype |-> "f32", context |-> 130, penalty |-> 105,
         specs |-> <<>>, capacity |-> 1, device |-> "cpu", chatMiB |-> 300, stateMiB |-> 150]
Adjudicating == [Cli1 EXCEPT !.model = "q", !.tokenizer = "q"]
Dirs == {<<"d", "e">>, <<"f", "e">>, <<"d", "q">>, <<>>}
MCClis ==
  {[Cli1 EXCEPT !.embedder = e, !.router = r, !.classifiers = c, !.model = m, !.tokenizer = m] :
     e \in {None, <<"d", "e">>}, r \in {None, <<"f", "e">>},
     c \in {<<>>} \cup {<<d>> : d \in Dirs} \cup {<<<<"d", "x">>, d>> : d \in Dirs}, m \in {None, "q"}}
  \cup {[Adjudicating EXCEPT !.context = c, !.chatMiB = b, !.stateMiB = s] :
          c \in {127, 130, 200}, b \in {237, 238, 265, 266, 287, 288, 300, 999}, s \in {119, 120, 133, 134, 144, 145}}
  \cup {[Adjudicating EXCEPT !.device = d, !.specs = s] :
          d \in {"cpu", "auto", "rocm", "cuda"}, s \in {<<>>, <<"s", "t">>, <<"s", "s">>}}
  \cup {[Cli1 EXCEPT !.socket = FALSE], [Cli1 EXCEPT !.embedder = None], [Cli1 EXCEPT !.penalty = -1],
        [Cli1 EXCEPT !.tokenizer = "q"], [Adjudicating EXCEPT !.dtype = "bf16"], [Cli1 EXCEPT !.specs = <<"s">>],
        [Cli1 EXCEPT !.capacity = 0], [Cli1 EXCEPT !.classifiers = <<<<"a">>, <<"b", "a">>>>]}
Size(context) == [kv |-> 2, conv |-> 7, context |-> context, logits |-> 5, tokenBytes |-> 3]
MCHosts ==
  {[env |-> {}, compiled |-> c, works |-> w, size |-> Size(n)] :
     c \in {<<>>, <<"rocm", "cuda">>}, w \in {{}, {"cuda"}, {"rocm", "cuda"}}, n \in {130, 200, 1000}}
  \cup {[env |-> {"CLASSIFIER_DIR"}, compiled |-> <<>>, works |-> {}, size |-> Size(200)]}
MCEncoderBodies == [inputs : {<<>>, <<"i">>}, routes : {<<>>, <<"r">>}, model : {None, "e", "x"}]
MCAdjudications ==
  {[spec |-> s, input |-> i, max_tokens |-> n, timeout_ms |-> 1, opinion |-> o, distributions |-> d] :
     s \in {None, "spec"}, i \in {Plain, <<"<", "|">>, <<" ">>}, n \in {0, 1, 2049}, o \in BOOLEAN,
     d \in {None} \cup {[top_k |-> k, token_sets |-> t] : k \in {1, 21},
                         t \in {<<>>, <<[name |-> Plain, ids |-> <<1, 1>>]>>, <<[name |-> Plain, ids |-> <<1>>]>>}}}
Pooled == {None, Weighted("uniform", <<>>), Weighted("given", <<1, 1>>)}
MCOpinions ==
  {[spec |-> s, state |-> [facts |-> None, input |-> i], context |-> c, contexts |-> cs, pool |-> p,
    questions |-> <<"q">>, timeout_ms |-> 1] :
     s \in {"spec", "gone"}, i \in {Plain, <<" ">>}, c \in {None, "id", "ID"},
     cs \in {None, <<>>, <<"id">>, <<"id", "id2">>, <<"id", "id">>}, p \in Pooled}
MCIds64 == {[id |-> i] : i \in {"id", "ID"}}
=============================================================================
