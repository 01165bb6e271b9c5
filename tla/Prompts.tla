------------------------------ MODULE Prompts -------------------------------
(***************************************************************************)
(* What a request may put into a prompt, and the prompt it becomes: the     *)
(* chat template's turns (chat.rs), a prompt spec's prefix and user turn    *)
(* (adjudicator.rs), the probe's messages (probe_api.rs), and the checks    *)
(* every request passes before it is work.  A prompt is a sequence of       *)
(* pieces: the renderer's own text, or text it was given.                   *)
(***************************************************************************)
EXTENDS Values, Pooling

CONSTANTS
  None,
  CheckpointIds,          \* the well-formed ones: 64 lowercase hex digits
  MAX_STATE_BYTES,        \* an opinion's facts and input
  MAX_INPUT_LABEL_BYTES,  \* a spec's label
  MAX_INPUT_BYTES         \* an adjudication's input, a probe's text

ASSUME LimitsAssumption ==
  /\ {MAX_STATE_BYTES, MAX_INPUT_LABEL_BYTES, MAX_INPUT_BYTES} \subseteq Nat
  /\ MAX_STATE_BYTES + MAX_INPUT_LABEL_BYTES + 2 <= MAX_INPUT_BYTES

\* "<|", and the angle tags ("<think>" and the like) by their first two.
Markers == {<<"<", "|">>, <<"<", "t">>}
Carries(text, markers) == \E i \in 1..(Len(text) - 1) : SubSeq(text, i, i + 1) \in markers
Marked(text) == Carries(text, Markers)
Whitespace == {" ", NL}
Blank(text) == Range(text) \subseteq Whitespace
TextAccepted(text) == ~Blank(text) /\ ~Marked(text)

Own(text) == [own |-> TRUE, text |-> text]
Given(text) == [own |-> FALSE, text |-> text]
Whole(prompt) == FlattenSeq([i \in DOMAIN prompt |-> prompt[i].text])

Opening(role) == Own(<<"<", "|", "s", role, NL>>)
Bos == Own(<<"<", "|", "b">>)
Closing == Own(<<"<", "|", "e", NL>>)
Thinking == Own(<<"<", "t">>)
ThoughtEnd == Own(<<"<", "t", "/">>)
Turn(role, body) == <<Opening(role)>> \o body \o <<Closing>>

----------------------------------------------------------------------------
(* The chat template's turns                                               *)

ToolAccepted(tool) ==
  /\ tool.kind = "map" /\ Deserializes(tool)
  /\ ~Marked(ToJson(tool))
HeadAccepted(system, tools) ==
  /\ \A i \in DOMAIN tools : ToolAccepted(tools[i])
  /\ ~Marked(system)
RenderHead(system, tools) ==
  LET listed == <<Own(<<"L", "[">>), Given(Joined([i \in DOMAIN tools |-> ToJson(tools[i])])), Own(<<"]">>)>>
      between == IF system = <<>> THEN <<>> ELSE <<Own(<<NL>>)>>
  IN IF system = <<>> /\ tools = <<>> THEN <<Bos>>
     ELSE <<Bos>> \o Turn("S", <<Given(system)>> \o (IF tools = <<>> THEN <<>> ELSE between \o listed))

\* Every string and key inside a value, before any escape.
RECURSIVE MarkedWithin(_)
MarkedOutside(v) == Marked(v.text) \/ \E i \in DOMAIN v.items : Marked(v.items[i].text)
MarkedWithin(v) ==
  \/ v.kind = "str" /\ Marked(v.text)
  \/ \E i \in DOMAIN v.keys : Marked(v.keys[i])
  \/ \E i \in DOMAIN v.items : MarkedWithin(v.items[i])

CallAccepted(call) ==
  /\ call.arguments.kind = "map" /\ Deserializes(call.arguments)
  /\ call.name # <<>>
  /\ ~Marked(call.name)
  /\ \A i \in DOMAIN call.arguments.keys :
       /\ ~Marked(call.arguments.keys[i])
       /\ ~MarkedWithin(call.arguments.items[i])
       /\ ~ArgumentRefused(call.arguments.items[i])
RenderCall(call) ==
  LET args == call.arguments
      one(i) == args.keys[i] \o <<"=">> \o Argument(args.items[i])
  IN call.name \o <<"(">> \o Joined([i \in DOMAIN args.keys |-> one(i)]) \o <<")">>

Tag == <<"T">>   \* CONTINUE_FINAL_MESSAGE_TAG
CarriesTag(text) == \E i \in DOMAIN text : text[i] = Tag[1]
MessageAccepted(m) ==
  CASE m.role = "U" -> TextAccepted(m.content)
    [] m.role = "O" -> ~Marked(m.content)
    [] OTHER ->
       /\ ~(m.thinking = None /\ m.content = None /\ m.calls = None)
       /\ m.thinking # None => ~Marked(m.thinking)
       /\ m.content # None => ~Marked(m.content) /\ ~CarriesTag(m.content)
       /\ m.calls # None => m.calls # <<>> /\ \A i \in DOMAIN m.calls : CallAccepted(m.calls[i])
RenderMessage(m) ==
  LET thought == IF m.thinking = None THEN <<>>
                 ELSE <<Thinking, Given(m.thinking), ThoughtEnd>>
      said == IF m.content = None THEN <<>> ELSE <<Given(m.content)>>
      called == IF m.calls = None THEN <<>>
                ELSE <<Own(<<"<", "|", "c", "[">>),
                       Given(Joined([i \in DOMAIN m.calls |-> RenderCall(m.calls[i])])),
                       Own(<<"]", "<", "|", "d">>)>>
  IN Turn(m.role, IF m.role = "A" THEN thought \o said \o called ELSE <<Given(m.content)>>)
RenderMessages(messages) == FlattenSeq([i \in DOMAIN messages |-> RenderMessage(messages[i])])
RenderChat(system, tools, messages) == RenderHead(system, tools) \o RenderMessages(messages)

----------------------------------------------------------------------------
(* A prompt spec's prefix and turns                                        *)

LabelAccepted(label) ==
  /\ ~Blank(label)
  /\ NL \notin Range(label) /\ ":" \notin Range(label)
  /\ ~Marked(label)
  /\ Len(label) <= MAX_INPUT_LABEL_BYTES

\* A named function schema: what get() finds under "type" and "function".
Under(map, key) ==
  LET at == {i \in DOMAIN map.keys : map.keys[i] = key}
  IN IF map.kind # "map" \/ at = {} THEN None
     ELSE map.items[CHOOSE i \in at : \A j \in at : i <= j]
NamedFunction(tool) ==
  LET type == Under(tool, <<"type">>)
      function == Under(tool, <<"function">>)
  IN /\ type # None /\ type = Str(<<"function">>)
     /\ function # None
     /\ LET name == Under(function, <<"name">>) IN name # None /\ name.kind = "str"

SystemOf(spec) ==
  IF spec.schema = None THEN spec.system ELSE spec.system \o <<NL, "R", ":", " ">> \o spec.schema
PrefixAccepted(spec) ==
  /\ LabelAccepted(spec.label)
  /\ TextAccepted(spec.system)
  /\ ~(spec.reasoning = "open" /\ spec.schema # None)
  /\ spec.schema # None => spec.tools = <<>> /\ TextAccepted(spec.schema)
  /\ \A i \in DOMAIN spec.tools : NamedFunction(spec.tools[i])
  /\ HeadAccepted(SystemOf(spec), spec.tools)
RenderPrefix(spec) == RenderHead(SystemOf(spec), spec.tools)

ReasoningOpening(reasoning) ==
  IF reasoning = "closed" THEN <<Thinking, Own(<<NL, NL>>), ThoughtEnd, Own(<<NL>>)>> ELSE <<>>
RenderUserTurn(spec, input) ==
  Turn("U", input) \o <<Opening("A")>> \o ReasoningOpening(spec.reasoning)

\* The fixed question: its options, their close, and the prefill before them.
PrefillAccepted(spec, prefill) == spec.reasoning = "closed" => ~Carries(prefill, {<<"<", "t">>})
OpinionSpecAccepted(o) ==
  /\ Len(o.options) >= 2
  /\ \A i \in DOMAIN o.options : o.options[i] # <<>>
  /\ IsInjective(o.options)
  /\ o.close # <<>>
  /\ ~Marked(o.prefill) /\ ~Marked(o.close)
  /\ \A i \in DOMAIN o.options : ~Marked(o.options[i])

\* The state an opinion is asked about: facts, then the spec's label, then the
\* input; and the tail read's turn, which carries the spec's own system text.
RenderState(state, label) ==
  <<Given(IF state.facts = None THEN <<>> ELSE state.facts), Given(label),
    Own(<<":", NL>>), Given(state.input)>>
RenderRead(spec, state) ==
  RenderPrefix(spec) \o RenderUserTurn(spec, RenderState(state, spec.label))
\* A state that begins with a newline would merge with the blank line before it.
TailAccepted(spec, state) ==
  /\ spec.tools = <<>>
  /\ Head(Whole(RenderState(state, spec.label))) # NL
RenderTail(spec, state) ==
  RenderUserTurn(spec, <<Given(SystemOf(spec)), Own(<<NL, NL>>)>> \o RenderState(state, spec.label))

----------------------------------------------------------------------------
(* What each request must pass before it is work                           *)

MAX_NEW == 2048
MAX_CHAT_TOKENS == 32768
MAX_CONTEXTS == 8
MAX_DISTRIBUTION_TOP_K == 20
Within(n, most) == n \in 1..most
Bytes(text) == IF text = None THEN 0 ELSE Len(text)
OrEmpty(x) == IF x = None THEN <<>> ELSE x

\* Per-token distributions: named sets of token ids.
DistributionAccepted(d) ==
  /\ d.top_k <= MAX_DISTRIBUTION_TOP_K
  /\ \A i \in DOMAIN d.token_sets :
       LET set == d.token_sets[i] IN ~Blank(set.name) /\ set.ids # <<>> /\ IsInjective(set.ids)
AdjudicateAccepted(r) ==
  /\ r.spec \notin {None, ""}
  /\ TextAccepted(r.input)
  /\ Len(r.input) <= MAX_INPUT_BYTES
  /\ Within(r.max_tokens, MAX_NEW)
  /\ Within(r.timeout_ms, 120000)
  /\ r.distributions # None => DistributionAccepted(r.distributions) /\ ~r.opinion

StateAccepted(state) ==
  /\ TextAccepted(state.input)
  /\ state.facts # None => ~Marked(state.facts)
  /\ Bytes(state.facts) + Len(state.input) <= MAX_STATE_BYTES

ContextsAccepted(r) ==
  /\ r.context # None => r.context \in CheckpointIds
  /\ r.contexts = None => r.pool = None
  /\ r.contexts # None =>
       /\ r.context = None
       /\ Len(r.contexts) \in 1..MAX_CONTEXTS
       /\ Range(r.contexts) \subseteq CheckpointIds
       /\ IsInjective(r.contexts)
       /\ r.pool # None => PoolAccepted(r.pool, Len(r.contexts))
OpinionAccepted(r) ==
  /\ r.spec # ""
  /\ StateAccepted(r.state)
  /\ ContextsAccepted(r)
  /\ r.questions # <<>>
  /\ Within(r.timeout_ms, 120000)

ChatAccepted(r) ==
  /\ r.from # None => r.system = None /\ r.tools = None /\ r.from \in CheckpointIds
  /\ r.messages # <<>>
  /\ \A i \in DOMAIN r.messages : r.messages[i].role # "A"
  /\ r.from = None => HeadAccepted(OrEmpty(r.system), OrEmpty(r.tools))
  /\ \A i \in DOMAIN r.messages : MessageAccepted(r.messages[i])
  /\ Within(r.max_tokens, MAX_CHAT_TOKENS)
  /\ Within(r.timeout_ms, 600000)

ContextAccepted(r) ==
  /\ ~(r.messages = <<>> /\ r.system = None /\ r.tools = None)
  /\ HeadAccepted(OrEmpty(r.system), OrEmpty(r.tools))
  /\ \A i \in DOMAIN r.messages : MessageAccepted(r.messages[i])
  /\ Within(r.timeout_ms, 600000)

\* The probe: exactly one of text, messages and ids; its messages are turns of
\* three roles, its text and its ids anything at all.
MAX_CONTINUATIONS == 32
MAX_GENERATE == 256
ProbeFormAccepted(r) ==
  /\ \E form \in {"text", "messages", "ids"} :
       \A other \in {"text", "messages", "ids"} : (r[other] # None) <=> (other = form)
  /\ r.text # None => r.text # <<>> /\ Len(r.text) <= MAX_INPUT_BYTES
  /\ r.messages # None =>
       /\ r.messages # <<>>
       /\ \A i \in DOMAIN r.messages :
            r.messages[i].role \in {"S", "U", "A"} /\ TextAccepted(r.messages[i].content)
       /\ r.prefill # None => TextAccepted(r.prefill)
  /\ r.messages = None => r.prefill = None
  /\ r.ids # None =>
       /\ r.ids # <<>> /\ r.decode_from = None
       /\ r.decode_from_token # None => r.decode_from_token <= Len(r.ids)
  /\ r.ids = None => r.decode_from_token = None
ProbeAccepted(r) ==
  /\ ProbeFormAccepted(r)
  /\ r.top_k <= MAX_DISTRIBUTION_TOP_K
  /\ Len(r.continuations) <= MAX_CONTINUATIONS
  /\ \A i \in DOMAIN r.continuations : r.continuations[i] # <<>>
  /\ r.generate <= MAX_GENERATE
  /\ Within(r.timeout_ms, 120000)
RenderProbe(r) ==
  IF r.text # None THEN <<Own(r.text)>>
  ELSE <<Bos>> \o FlattenSeq([i \in DOMAIN r.messages |-> Turn(r.messages[i].role, <<Given(r.messages[i].content)>>)])
       \o <<Opening("A")>> \o (IF r.prefill = None THEN <<>> ELSE <<Given(r.prefill)>>)
=============================================================================
