------------------------------ MODULE Requests ------------------------------
(***************************************************************************)
(* One request at a time, of every kind the process answers: what it is     *)
(* asked and what the code would say.  The answers are the operators of     *)
(* Values, Prompts, Pooling, Probing, Serving and Encoder; the inputs are    *)
(* the sets below.                                                          *)
(***************************************************************************)
EXTENDS Serving, Encoder

CONSTANTS
  Chats, ContextBuilds, Adjudications, Opinions, Ids64,  \* bodies, and ids in a path
  Turns,                                                 \* an assistant's turns, decoded
  Specs, States,                                         \* prompt specs, what a read is asked about
  Spelled, Floats,                                       \* a value's texts, and its floats
  ReadSets, PoolMethods, PoolWeights,                    \* reads of one question, by context
  Probes, Picks,                                         \* probes, and what the model would pick
  OptionSets, VocabularySize,                            \* options under one rendered text
  Rows, TopKs, TokenSets, Masks,                         \* one step's distribution
  TokenizeTexts, TokenizeContexts,
  Labellings, SpanTexts,                                 \* labelled tokens of a text
  RouteLists, RoutedTexts, Tokenizations, Histories, ClauseSets, LabelMaps,
  QueryIds, Retrievers,
  Clis, Hosts, EncoderBodies

VARIABLES
  request,  \* what is being answered, or None
  answer
vars == <<request, answer>>

Idle == request = None
Ask(op, in, said) ==
  /\ request' = [op |-> op, in |-> in]
  /\ answer' = said
Finish ==
  /\ request # None
  /\ request' = None
  /\ answer' = None

Prompted(accepted, prompt) == IF accepted THEN [kind |-> "prompt", prompt |-> prompt] ELSE Failed("bad_request")
Chat == Idle /\ \E r \in Chats :
  Ask("chat", r, Prompted(ChatAccepted(r),
    (IF r.from = None THEN RenderChat(OrEmpty(r.system), OrEmpty(r.tools), r.messages)
     ELSE RenderMessages(r.messages)) \o <<Opening("A")>>))
BuildContext == Idle /\ \E r \in ContextBuilds :
  Ask("context", r, Prompted(ContextAccepted(r), RenderChat(OrEmpty(r.system), OrEmpty(r.tools), r.messages)))
RegisterSpec == Idle /\ \E spec \in Specs :
  Ask("spec", spec, Prompted(SpecLoads(spec, ContextLimit), RenderPrefix(spec)))
ReadState == Idle /\ \E spec \in Specs, state \in States :
  Ask("read", [spec |-> spec, state |-> state],
      Prompted(SpecLoads(spec, ContextLimit) /\ StateAccepted(state), RenderRead(spec, state)))
ReadAtTail == Idle /\ \E spec \in Specs, state \in States :
  Ask("tail", [spec |-> spec, state |-> state],
      Prompted(SpecLoads(spec, ContextLimit) /\ StateAccepted(state) /\ TailAccepted(spec, state),
               RenderTail(spec, state)))
SplitTurn == Idle /\ \E text \in Turns : Ask("turn", text, SplitReasoning(text))
SpellText == Idle /\ \E text \in Spelled :
  Ask("text", text, [json |-> ToJson(Str(text)),
                     repr |-> IF PyRefused(Str(text)) THEN None ELSE PyRepr(Str(text))])
SpellFloat == Idle /\ \E f \in Floats :
  Ask("float", f, IF FloatRefused(f) THEN None ELSE PyFloat(f))

PoolOne == Idle /\ \E reads \in ReadSets, method \in PoolMethods, weights \in PoolWeights :
  Ask("pool", [reads |-> reads, method |-> method, weights |-> weights], PoolReads(reads, method, weights))
AskProbe == Idle /\ \E r \in Probes, picks \in Picks : Ask("probe", r, Probe(r, picks))
SplitRead == Idle /\ \E r \in OptionSets : Ask("options", r, SplitOptions(r.rendered, r.options, r.close))
ReadSlot == Idle /\ \E r \in OptionSets : Ask("slot", r, SlotRead(r.rendered, r.options, r.close))
ReadFixed == Idle /\ \E spec \in {s \in Specs : SpecLoads(s, ContextLimit)}, state \in States :
  /\ TextAccepted(state.input)
  /\ Ask("fixed", [spec |-> spec, input |-> state.input], FixedRead(spec, state.input))
ReportStep == Idle /\ \E row \in Rows, sampled \in 1..4, k \in TopKs, sets \in TokenSets, mask \in Masks :
  LET r == [top_k |-> k, token_sets |-> sets]
  IN Ask("step", [row |-> row, mask |-> mask, r |-> r],
         IF VocabularyAccepted(r, DOMAIN row) THEN StepDistribution(row, sampled, r, mask)
         ELSE Failed("bad_request"))
AskTokenize == Idle /\ \E text \in TokenizeTexts, context \in TokenizeContexts, model \in {None, "m", "gone"} :
  LET r == [model |-> model, text |-> text, context |-> context]
  IN Ask("tokenize", r, Tokenize({"m"}, r))

LabelText == Idle /\ \E text \in SpanTexts : \E tokens \in Labellings :
  Ask("spans", [text |-> text, tokens |-> tokens],
      [spans |-> Predict(tokens, text), credentials |-> Credentials(tokens, text)])
\* Where a tokenizer may cut a prompt of n bytes: into tokens of t.run bytes from
\* byte t.first on, wherever routes and text begin and end; t.lap bytes into the
\* next, as tokens do that share a character; and a special token, of no bytes,
\* before each.
TokenSpans(n, t) ==
  LET cuts == {0} \cup {b \in 1..(n - 1) : b % t.run = t.first}
      end(start) == Min({n} \cup {b + t.lap : b \in {c \in cuts : c > start}})
  IN FlattenSeq([b \in 1..n |-> IF b - 1 \in cuts THEN <<<<b - 1, b - 1>>, <<b - 1, end(b - 1)>>>> ELSE <<>>])
RouteText == Idle /\ \E routes \in RouteLists, text \in RoutedTexts, focus \in (0..4) \X (0..4), t \in Tokenizations :
  LET tokens == TokenSpans(ByteLen(BuildPrefix(routes) \o text), t)
  IN Ask("focus", [routes |-> routes, text |-> text, focus |-> focus, tokens |-> tokens],
         ComputeFocused(text, focus, routes, tokens))
RouteHistory == Idle /\ \E history \in Histories : Ask("history", history, WindowedFocus(history))
RouteClauseSet == Idle /\ \E clauses \in ClauseSets, threshold \in {-1, 1} :
  LET routing == RouteClauses(clauses, 2)
  IN Ask("clauses", clauses,
         IF routing = Invalid THEN Invalid
         ELSE [ok |-> TRUE, union |-> routing.union, above |-> BestFirst(routing.union, threshold),
               firing |-> [lane \in 1..2 |-> FiringClause(routing, lane)],
               label |-> PredictLabel(routing.union)])
LoadLabels == Idle /\ \E map \in LabelMaps : Ask("labels", map, OrderLabels(map))
Retrieve == Idle /\ \E ids \in QueryIds, s \in Retrievers :
  LET query == EncodeQuery(ids, s)
      doc == EncodeDocument(ids, s)
      same == [i \in Range(query.ids) |-> [j \in Range(doc) |-> IF i = j THEN 1 ELSE 0]]
  IN Ask("retrieve", [ids |-> ids, s |-> s],
         [query |-> query, doc |-> doc, score |-> MaxSim(query.ids, doc, same)])

Start == Idle /\ \E cli \in Clis, host \in Hosts :
  Ask("start", [cli |-> cli, size |-> host.size], StartUp(cli, host))
CompareSpecs ==
  LET loaded == {spec \in Specs : SpecLoads(spec, ContextLimit)}
  IN Idle /\ \E one \in loaded, other \in loaded :
       Ask("compare", [one |-> one, other |-> other],
           [same |-> SnapshotId(one, "build") = SnapshotId(other, "build")])
AskEncoder == Idle /\ \E cli \in {c \in Clis : c.model = None}, r \in EncoderBodies, route \in {"embed", "route", "spans"} :
  LET engine == LoadEngine(cli)
  IN /\ engine.kind = "engine"
     /\ Ask("encoder", [engine |-> engine, route |-> route, r |-> r], [status |-> Encoded(engine, route, r)])
Outcomes == {"ok", "loaded", "not_found", "forbidden", "unprocessable", "insufficient_storage",
             "internal", "cancelled", "deadline"}
Posted(route, rs) == Idle /\
  \E r \in rs, probe \in (IF route = "probe" THEN BOOLEAN ELSE {TRUE}) :
  \E outcome \in (IF Accepts(route, r) THEN Outcomes ELSE {"ok"}) :
  Ask("post", [route |-> route, r |-> r, outcome |-> outcome], Handle(route, r, outcome, {"spec"}, probe))
Post ==
  \/ Posted("adjudicate", Adjudications)
  \/ Posted("opinion", Opinions)
  \/ Posted("chat", Chats)
  \/ Posted("contexts", ContextBuilds)
  \/ Posted("probe", Probes)
  \/ \E route \in {"context", "specs", "spec"} : Posted(route, Ids64)

Init == request = None /\ answer = None
Next ==
  \/ Chat \/ BuildContext \/ RegisterSpec \/ ReadState \/ ReadAtTail \/ SplitTurn \/ SpellText \/ SpellFloat
  \/ PoolOne \/ AskProbe \/ SplitRead \/ ReadSlot \/ ReadFixed \/ ReportStep \/ AskTokenize
  \/ LabelText \/ RouteText \/ RouteHistory \/ RouteClauseSet \/ LoadLabels \/ Retrieve
  \/ Start \/ CompareSpecs \/ AskEncoder \/ Post
  \/ Finish
Spec == Init /\ [][Next]_vars

----------------------------------------------------------------------------
(* What must hold of the answers                                           *)

Op(name) == request # None /\ request.op = name

\* A prompt's markers are those of the renderer's own pieces.
MarkerCount(text) == Cardinality({i \in 1..(Len(text) - 1) : SubSeq(text, i, i + 1) \in Markers})
MarkersAreOurs(prompt) ==
  MarkerCount(Whole(prompt)) =
    SumFunction([i \in DOMAIN prompt |-> IF prompt[i].own THEN MarkerCount(prompt[i].text) ELSE 0])
\* Facts that end in a marker's first character right before a label that
\* begins with its second: each is checked alone, so this one passes.
Meets(spec, state) ==
  /\ state.facts # None /\ state.facts # <<>>
  /\ <<Last(state.facts), spec.label[1]>> \in Markers
\* A rendered state is an input the generation a read escalates to accepts.
StateFits(text) == TextAccepted(text) /\ Len(text) <= MAX_INPUT_BYTES

\* A prompt the code accepts holds no control token its caller wrote, in any
\* of the texts, tools, calls and values it was given (chat.rs, adjudicator.rs,
\* opinion_api.rs).  Two junctions of texts that are each checked alone are left
\* out: where the facts of a state meet its label (Meets), and where a fixed
\* question's prefill, an option and its close meet, which these prompts do not
\* hold: FixedRead encodes them joined.  An accepted state fits the
\* generation it may escalate to; a head without tools is one system turn,
\* which a tail read relies on; a turn whose thinking ends splits into what
\* renders back as it; and strings and floats, however quoted, escaped or
\* scaled, are read back by Python and JSON as themselves.
PromptsKeepTheirTurns ==
  /\ request # None /\ request.op \in {"chat", "context", "spec"} /\ answer.kind = "prompt"
       => MarkersAreOurs(answer.prompt)
  /\ request # None /\ request.op \in {"read", "tail"} /\ answer.kind = "prompt"
       /\ ~Meets(request.in.spec, request.in.state)
       => /\ MarkersAreOurs(answer.prompt)
          /\ StateFits(Whole(RenderState(request.in.state, request.in.spec.label)))
  /\ Op("spec") /\ answer.kind = "prompt" /\ request.in.tools = <<>>
       => answer.prompt = <<Bos>> \o Turn("S", <<Given(SystemOf(request.in))>>)
  /\ Op("turn") /\ answer.thinking # None /\ answer.content # None
       => Thinking.text \o answer.thinking \o ThoughtEnd.text \o answer.content = request.in
  /\ Op("text") => /\ ReadsAs(answer.json, request.in)
                   /\ answer.repr # None => ReadsAs(answer.repr, request.in)
  /\ Op("float") /\ answer # None => ReadsAsFloat(answer, request.in)

\* A probe feeds its ids exactly once, split at the byte it was told; scores
\* each token of a continuation after exactly the tokens before it; and never
\* generates past the context (probe_impl, opinion.rs).
ProbeSplits ==
  Op("probe") /\ answer.kind = "probe" =>
    LET ids == answer.input.ids
        offset == request.in.decode_from
    IN /\ answer.bulk \o answer.stepwise = ids
       /\ offset # None /\ answer.bulk # <<>> =>
            Encode(answer.input.rendered)[Len(answer.bulk)].end = offset
       /\ \A i \in DOMAIN answer.scores : \A j \in DOMAIN answer.scores[i] :
            LET scored == answer.scores[i]
                before == ids \o [k \in 1..(j - 1) |-> scored[k].token]
            IN scored[j].after = before
       /\ Len(ids) + Len(answer.steps.forwarded) <= ContextLimit
       /\ Eos \notin Range(answer.steps.forwarded)
       /\ IsPrefix(answer.steps.generated, Append(answer.steps.forwarded, Eos))
            \/ IsPrefix(answer.steps.forwarded, answer.steps.generated)

\* Options leave what they share at their first difference, so no option is
\* scored on nothing, and the mass of the sequences is at most the mass of
\* the tokens they begin with, where none continues another (split_options,
\* read_options).
OptionsSplit ==
  Op("options") /\ answer # None =>
    LET whole(i) == Ids(Encode(request.in.rendered \o request.in.options[i] \o request.in.close))
        conts == answer.continuations
        longest == Max({Len(conts[i]) : i \in DOMAIN conts})
        each(n) == VocabularySize ^ n
        read == ReadOptions([i \in DOMAIN conts |-> each(longest - Len(conts[i]))], conts,
                            [id \in UNION {Range(conts[i]) : i \in DOMAIN conts} |-> each(longest - 1)])
    IN /\ \A i \in DOMAIN conts : answer.shared \o conts[i] = whole(i)
       /\ Cardinality({conts[i][1] : i \in DOMAIN conts}) > 1
       /\ (\A i, j \in DOMAIN conts : i # j => ~IsPrefix(conts[i], conts[j])) => read.mass <= read.first

\* A step reports the highest probabilities, lowest id first among equals; a
\* step is forced exactly when the mask excludes the first of them; and what
\* the mask keeps of the report ranks the same under it (types.rs).
StepsRank ==
  Op("step") /\ answer.kind = "step" =>
    LET row == request.in.row
        best == CHOOSE i \in DOMAIN row : \A j \in DOMAIN row \ {i} : FirstOfTies(row, i, j)
    IN /\ request.in.r.top_k > 0 => answer.top[1] = best
       /\ \A set \in DOMAIN answer.masses : answer.masses[set] <= SumFunction(row)
       /\ request.in.mask # None =>
            LET said == answer.constrained[1]
            IN /\ said.forced <=> best \notin request.in.mask
               /\ said.legal = 0 => said.mass = 0
               /\ IsPrefix(SelectSeq(answer.top, LAMBDA i : i \in request.in.mask), said.top)

\* The text's tokens under a context: with what they share, the whole's
\* tokens; and when they are the text's own and the context keeps its own,
\* the two ways to read the text agree (tokenize_api.rs).
TokensAdd ==
  Op("tokenize") /\ answer.kind = "tokens" /\ answer.context # <<>> =>
    LET text == request.in.text
        context == request.in.context
        said == answer.context[1]
        whole == Ids(Encode(context \o text))
        own == Ids(Encode(context))
    IN /\ IsSuffix(Ids(said.tokens), whole)
       /\ IsPrefix(SubSeq(whole, 1, Len(whole) - Len(said.tokens)), own)
       /\ said.stable /\ IsPrefix(own, whole) => Ids(said.tokens) = Ids(answer.tokens)

\* A loaded spec's fixed question splits under every input as it did under the
\* probe input its load tried; and what is scored there, or after a slot, is
\* what the text with the option has beyond the text without it, each token
\* after those before it and within the context (opinion, describe_then_read).
ReadsFit ==
  /\ Op("fixed") => answer.kind # "internal"
  /\ request # None /\ request.op \in {"fixed", "slot"} /\ answer.kind \in {"fixed", "slot"} =>
       LET fixed == request.op = "fixed"
           o == IF fixed THEN request.in.spec.opinion ELSE request.in
           text == IF ~fixed THEN request.in.rendered
                   ELSE Whole(RenderPrefix(request.in.spec)
                              \o RenderUserTurn(request.in.spec, <<Given(request.in.input)>>)) \o o.prefill
           shared == IF fixed THEN answer.shared ELSE Ids(Encode(text))
       IN \A i \in DOMAIN answer.scores :
            LET scored == answer.scores[i]
                whole == Ids(Encode(text \o o.options[i] \o o.close))
            IN /\ Len(whole) = Len(shared) + Len(scored)
               /\ fixed => Len(whole) <= ContextLimit
               /\ \A j \in DOMAIN scored : Append(scored[j].after, scored[j].token) = SubSeq(whole, 1, Len(shared) + j)

ReadsScoreTheirTokens == ProbeSplits /\ OptionsSplit /\ ReadsFit /\ StepsRank /\ TokensAdd

\* A pool is fair to its contexts (pool.rs): contexts of any weight that agree
\* carry the answer; a context of weight 0 changes nothing, so the pool is its
\* own leave-one-out; of two contexts or more each has a leave-one-out, and it
\* is empty exactly when that context alone had weight;
\* and the order of the contexts does not matter.
Proportional(p, q) ==
  /\ p # <<>> /\ q # <<>>
  /\ \A i, j \in DOMAIN p : p[i] * q[j] = p[j] * q[i]
PoolsAreFair ==
  Op("pool") /\ ~answer.refused =>
    LET reads == request.in.reads
        rows == [c \in DOMAIN reads |-> reads[c].row]
        counted == {c \in DOMAIN rows : answer.weights[c] > 0}
    IN /\ Cardinality({ArgMax(rows[c]) : c \in counted}) = 1 =>
            \A c \in counted : ArgMax(answer.probs) = ArgMax(rows[c])
       /\ Len(rows) > 1 => DOMAIN answer.leaveOneOut = DOMAIN rows
       /\ \A c \in DOMAIN answer.leaveOneOut :
            /\ answer.weights[c] = 0 => Proportional(answer.probs, answer.leaveOneOut[c])
            /\ answer.leaveOneOut[c] = <<>> <=> counted = {c}
       /\ Combine(request.in.method, Reverse(rows), Reverse(answer.weights)) = answer.probs
       /\ answer.spread[1] = 0 <=> \A c, d \in DOMAIN rows : Proportional(rows[c], rows[d])

\* Spans are the labelled text and nothing else (token_classification.rs):
\* apart and in order, without the white space around them, of one entity, as
\* sure as their least sure token; every labelled token with something in it
\* is in exactly one, which its neighbour shares unless one begins.
SpansAreTheText ==
  Op("spans") =>
    LET spans == answer.spans
        bytes == BytesOf(request.in.text)
        tokens == request.in.tokens
        solid(t) == {b \in (t.start + 1)..t.end : bytes[b][1] # " "}
        within(t, p) == solid(t) \subseteq (p.start + 1)..p.end
        kept == {i \in DOMAIN tokens : Live(tokens[i]) /\ solid(tokens[i]) # {}}
        of(i) == {k \in DOMAIN spans : within(tokens[i], spans[k])}
    IN /\ \A k \in 2..Len(spans) : spans[k - 1].end <= spans[k].start
       /\ \A k \in DOMAIN spans :
            /\ bytes[spans[k].start + 1][1] # " " /\ bytes[spans[k].end][1] # " "
            /\ \E i \in DOMAIN tokens : tokens[i].score = spans[k].score /\ tokens[i].entity = spans[k].entity
       /\ \A i \in kept : /\ Cardinality(of(i)) = 1
                          /\ \A k \in of(i) : /\ spans[k].entity = tokens[i].entity
                                              /\ spans[k].score <= tokens[i].score
       /\ \A i \in kept : i + 1 \in kept /\ tokens[i].entity = tokens[i + 1].entity =>
            (of(i) = of(i + 1) <=> tokens[i + 1].prefix \notin {"B", "S"})

\* However the tokens lie across the borders of a prompt (routing.rs), a route
\* or a focus is pooled over the tokens that hold a byte of it and no other: a
\* token across its border counts, a neighbour that only touches it and a
\* special token do not.  A route's range is that of its own bytes; a focus on
\* the whole text takes what ends after its start; an empty route takes nothing
\* but a token that holds what is written on both sides of it.  A history's
\* focus is its last entry.
Holding(tokens, range) ==
  {i \in DOMAIN tokens : \E b \in (range[1] + 1)..range[2] : b \in (tokens[i][1] + 1)..tokens[i][2]}
RoutesReadTheirBytes ==
  /\ Op("focus") /\ answer.ok =>
       LET in == request.in
           bytes == BytesOf(BuildPrefix(in.routes) \o in.text)
           ranges == CategoryRanges(in.routes)
           at == ByteLen(BuildPrefix(in.routes))
       IN /\ \A i \in DOMAIN in.routes :
               /\ SubSeq(bytes, ranges[i][1] + 1, ranges[i][2]) = BytesOf(in.routes[i])
               /\ answer.categories[i] =
                    IF in.routes[i] # <<>> THEN Holding(in.tokens, ranges[i])
                    ELSE Holding(in.tokens, <<ranges[i][1] - 1, ranges[i][1]>>)
                           \cap Holding(in.tokens, <<ranges[i][1], ranges[i][1] + 1>>)
          /\ answer.query = Holding(in.tokens, <<at + in.focus[1], at + in.focus[2]>>)
          /\ in.focus = <<0, ByteLen(in.text)>> =>
               answer.query = {i \in DOMAIN in.tokens : in.tokens[i][1] # in.tokens[i][2] /\ in.tokens[i][2] > at}
  /\ Op("history") /\ answer.ok =>
       /\ SubSeq(BytesOf(answer.text), answer.focus[1] + 1, answer.focus[2]) = BytesOf(Last(request.in))
       /\ FocusAccepted(answer.text, answer.focus) <=> Last(request.in) # <<>>
\* A united lane's score is that of the clause it names, and no clause beats
\* it; labels are dense; a query with expansion has the length it was given
\* (routing.rs, labels.rs, colbert.rs).
HeadsAnswerInOrder ==
  /\ Op("clauses") /\ answer.ok =>
       \A lane \in DOMAIN answer.union :
         /\ answer.union[lane] = request.in[answer.firing[lane]][lane]
         /\ \A c \in DOMAIN request.in : request.in[c][lane] <= answer.union[lane]
         /\ answer.union[lane] <= answer.union[answer.label.at]
  /\ Op("labels") /\ answer.ok =>
       \A i \in DOMAIN request.in : answer.labels[request.in[i].key + 1] = request.in[i].label
  /\ Op("retrieve") =>
       /\ request.in.s.do_query_expansion => Len(answer.query.ids) = request.in.s.query_length
       /\ Len(answer.query.ids) = Len(answer.query.mask)
       /\ Range(answer.doc) \cap request.in.s.skiplist = {}
       /\ answer.score <= Len(answer.query.ids)
EncodersReadTheirText == SpansAreTheText /\ RoutesReadTheirBytes /\ HeadsAnswerInOrder

\* A process that starts can hold what it serves (main.rs, Adjudicator::load,
\* engine_real.rs): a turn's two checkpoints and a cached state, at every
\* length and text the context admits, within their budgets; the adjudicator
\* on a device somebody chose; a classifier's id, and the adjudicator's, naming
\* one tokenizer, their own.  Specs of one snapshot put the same prompt and
\* ask the same question.  Nothing but work answers with success.
ServesWhatItLoaded ==
  /\ Op("start") /\ answer.kind = "started" /\ request.in.cli.model # None =>
       LET size == request.in.size
           cli == request.in.cli
       IN /\ \A len \in 0..cli.context :
               LET most == CheckpointBytes(size, len, len * size.tokenBytes)
               IN /\ 2 * most <= cli.chatMiB * MiB
                  /\ most + size.logits <= cli.stateMiB * MiB
          /\ cli.device = "cpu" \/ answer.backend # "cpu"
          /\ answer.registry[cli.model].kind = "adjudicator"
  /\ Op("start") /\ answer.kind = "started" =>
       \A i \in DOMAIN answer.engine.classifiers :
         answer.registry[answer.engine.classifiers[i].id] = answer.engine.classifiers[i]
  /\ Op("compare") /\ answer.same =>
       LET in == request.in
       IN /\ \A state \in States : StateAccepted(state) =>
               Whole(RenderRead(in.one, state)) = Whole(RenderRead(in.other, state))
          /\ in.one.opinion = in.other.opinion
  /\ Op("encoder") /\ answer.status = 200 /\ request.in.route = "spans" /\ request.in.r.model # None =>
       request.in.r.model \in {request.in.engine.classifiers[i].id : i \in DOMAIN request.in.engine.classifiers}
  /\ Op("post") => (answer.status < 300 <=> answer.work /\ request.in.outcome \in {"ok", "loaded"})
=============================================================================
