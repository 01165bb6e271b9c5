------------------------------ MODULE Serving -------------------------------
(***************************************************************************)
(* What the process serves: the flags it accepts (config.rs), the device    *)
(* they select (device.rs), the models it lists and the tokenizer each id   *)
(* finds (engine_real.rs, tokenize_api.rs, main.rs), what loading the        *)
(* adjudicator and a prompt spec refuses and what its snapshot names         *)
(* (adjudicator.rs), and the status a handler answers with (server.rs).      *)
(* Files, weights and kernels are external.                                 *)
(***************************************************************************)
EXTENDS Probing

CONSTANTS
  MiB,         \* bytes of one MiB, scaled down
  WordMax,     \* the largest usize, scaled down
  MinCapacity, \* the smallest KV allocation
  Slack        \* STATE_SLACK_BYTES

ASSUME ScaleAssumption ==
  /\ {MiB, MinCapacity} \subseteq Nat \ {0}
  /\ {WordMax, Slack} \subseteq Nat
EOS_CONTEXT == 128..32768

\* Cli::validate.  A penalty is in hundredths, NaN below every one.
Validate(cli) ==
  /\ cli.socket \/ cli.bind
  /\ cli.embedder # None \/ cli.router # None \/ cli.classifiers # <<>> \/ cli.model # None
  /\ cli.penalty \in 100..200
  /\ (cli.model # None) <=> (cli.tokenizer # None)
  /\ cli.model # None => cli.dtype = "f32" /\ cli.context \in EOS_CONTEXT
  /\ cli.specs # <<>> => cli.model # None
  /\ cli.capacity # 0
RETIRED_ENV == {"ADJUDICATOR_PROMPT", "CASCADE_ROUTES", "CASCADE_SEVERE_LABELS",
                "CLASSIFIER_DIR", "CANDIDATE_CLASSIFIER_DIR"}
RefuseRetiredEnv(env) == env \cap RETIRED_ENV # {}

\* select_with: "auto" takes the first compiled backend that initialises and
\* the CPU after all of them, which the adjudicator refuses.
SelectWith(requested, compiled, works) ==
  LET able == {i \in DOMAIN compiled : compiled[i] \in works}
  IN CASE requested = "cpu" -> "cpu"
       [] requested = "auto" -> IF able = {} THEN "cpu" ELSE compiled[Min(able)]
       [] OTHER -> IF requested \in Range(compiled) \cap works THEN requested ELSE "refused"
RefuseImplicitCpu(requested, selected) == requested = "auto" /\ selected = "cpu"

----------------------------------------------------------------------------
(* The models and their ids                                                *)

\* A directory is its path's components; its last one names the model.
ModelIdFromDir(dir) == IF dir = <<>> THEN "/" ELSE Last(dir)
Head1(dir, kind) == [id |-> ModelIdFromDir(dir), kind |-> kind, dir |-> dir]
Optional(dir, kind) == IF dir = None THEN <<>> ELSE <<Head1(dir, kind)>>
LoadEngine(cli) ==
  LET classifiers == [i \in DOMAIN cli.classifiers |-> Head1(cli.classifiers[i], "token_classifier")]
  IN IF ~IsInjective([i \in DOMAIN classifiers |-> classifiers[i].id]) THEN Failed("duplicate")
     ELSE [kind |-> "engine", embedder |-> Optional(cli.embedder, "embedder"),
           router |-> Optional(cli.router, "router"), classifiers |-> classifiers,
           adjudicator |-> <<>>]
ListModels(engine) == engine.embedder \o engine.router \o engine.classifiers \o engine.adjudicator
RegisterAdjudicator(engine, meta) ==
  IF \E i \in DOMAIN ListModels(engine) : ListModels(engine)[i].id = meta.id THEN Failed("duplicate")
  ELSE [engine EXCEPT !.adjudicator = <<meta>>]

\* Every head's tokenizer, by the id of its model; a later one replaces an
\* earlier one of the same id.
Registry(engine) ==
  LET heads == ListModels(engine)
      named(id) == {i \in DOMAIN heads : heads[i].id = id}
  IN [id \in {heads[i].id : i \in DOMAIN heads} |-> heads[Max(named(id))]]

\* resolve_token_classifier, and what /v1/spans answers.
ResolveTokenClassifier(engine, model) ==
  LET named == {i \in DOMAIN engine.classifiers : engine.classifiers[i].id = model}
  IN CASE model # None /\ named # {} -> engine.classifiers[Min(named)]
       [] model = None /\ Len(engine.classifiers) = 1 -> engine.classifiers[1]
       [] OTHER -> Failed("bad_request")

----------------------------------------------------------------------------
(* The memory a state is charged, and the budgets that must hold it        *)

RECURSIVE NextPowerOfTwo(_, _)
NextPowerOfTwo(n, p) == IF p >= n THEN p ELSE NextPowerOfTwo(n, 2 * p)
Capacity(size, len) == Min({NextPowerOfTwo(Max({len, MinCapacity}), 1), size.context})
StateBytes(size, len) == size.kv * Capacity(size, len) + size.conv + Slack
\* What a checkpoint of len tokens is charged with its ids and text, and the
\* most one may be: at the full context, every token the longest.
CheckpointBytes(size, len, text) == StateBytes(size, len) + len * 4 + text
Full(size, context) == CheckpointBytes(size, context, context * size.tokenBytes)
LargestEntry(size, context) == Full(size, context) + size.logits
BudgetsHold(cli, size) ==
  /\ cli.chatMiB * MiB <= WordMax /\ cli.stateMiB * MiB <= WordMax
  /\ cli.stateMiB * MiB >= LargestEntry(size, cli.context)
  /\ cli.chatMiB * MiB >= 2 * Full(size, cli.context)

\* Adjudicator::load: what it refuses, besides a spec of its own.
AdjudicatorLoads(cli, size) ==
  /\ cli.context <= size.context
  /\ IsInjective(cli.specs)
  /\ BudgetsHold(cli, size)

\* main: the flags, then the encoder's heads, then the adjudicator beside
\* them.  host says what the machine has; an exit carries its code.
Exit(code) == [kind |-> "exit", code |-> code]
StartUp(cli, host) ==
  LET engine == LoadEngine(cli)
      backend == SelectWith(cli.device, host.compiled, host.works)
      whole == IF cli.model = None THEN engine
               ELSE RegisterAdjudicator(engine, [id |-> cli.model, kind |-> "adjudicator", dir |-> <<>>])
  IN CASE ~Validate(cli) \/ RefuseRetiredEnv(host.env) -> Exit(2)
       [] OTHER ->
         IF \/ backend = "refused" \/ engine.kind = "duplicate"
            \/ /\ cli.model # None
               /\ \/ RefuseImplicitCpu(cli.device, backend)
                  \/ ~AdjudicatorLoads(cli, host.size)
                  \/ whole.kind = "duplicate"
         THEN Exit(1)
         ELSE [kind |-> "started", engine |-> whole, registry |-> Registry(whole), backend |-> backend]

----------------------------------------------------------------------------
(* A prompt spec: what loading it refuses, and what its snapshot names     *)

ProbeTurn(spec, prefill) == RenderUserTurn(spec, <<Given(<<"p">>)>>) \o <<Given(prefill)>>
OpinionReads(spec) ==
  LET o == spec.opinion
      rendered == Whole(RenderPrefix(spec) \o ProbeTurn(spec, o.prefill))
  IN SplitOptions(rendered, o.options, o.close) # None
\* Each option of a choice must be read on its own tokens after the slot.
Slot == <<"{", DQ, ":", DQ>>
ChoiceReads(spec, option) ==
  \A close \in {<<DQ, ",">>, <<DQ, "}">>} :
    SuffixStable(Whole(RenderPrefix(spec)) \o Slot, option \o close).stable
BoundaryHolds(spec) ==
  LET prefix == RenderPrefix(spec)
  IN IsPrefix(Ids(Encode(Whole(prefix))), Ids(Encode(Whole(Append(prefix, Opening("U"))))))
SpecLoads(spec, limit) ==
  LET ids == Ids(Encode(Whole(RenderPrefix(spec))))
  IN /\ PrefixAccepted(spec)
     /\ spec.opinion # None => OpinionSpecAccepted(spec.opinion) /\ PrefillAccepted(spec, spec.opinion.prefill)
     /\ BoundaryHolds(spec)
     /\ Len(ids) \in 1..(limit - 2)
     /\ spec.opinion # None => OpinionReads(spec)
     /\ \A option \in spec.choices : ChoiceReads(spec, option)

TemplateVersion(spec) == <<IF spec.tools = <<>> THEN "v2" ELSE "v3", spec.reasoning>>
SnapshotIdUnlabelled(spec, build) ==
  <<TemplateVersion(spec), build, Ids(Encode(Whole(RenderPrefix(spec)))), spec.opinion>>
SnapshotId(spec, build) ==
  <<TemplateVersion(spec), build, Ids(Encode(Whole(RenderPrefix(spec)))), spec.opinion, spec.label>>

----------------------------------------------------------------------------
(* What a handler answers                                                  *)

\* split_reasoning: thinking, then content, of a decoded turn.
SplitReasoning(text) ==
  LET opens == IsPrefix(Thinking.text, text)
      rest == SubSeq(text, 3, Len(text))
      closes == {i \in 1..(Len(rest) - 2) : SubSeq(rest, i, i + 2) = ThoughtEnd.text}
  IN CASE ~opens -> [thinking |-> None, content |-> text]
       [] opens /\ closes # {} -> [thinking |-> SubSeq(rest, 1, Min(closes) - 1),
                                   content |-> SubSeq(rest, Min(closes) + 3, Len(rest))]
       [] OTHER -> [thinking |-> rest, content |-> None]

Parts(kind) ==
  CASE kind = "bad_request" -> 400 [] kind = "not_found" -> 404 [] kind = "unprocessable" -> 422
    [] kind = "forbidden" -> 403 [] kind = "insufficient_storage" -> 507
    [] kind = "internal" -> 500 [] kind = "cancelled" -> 408 [] kind = "deadline" -> 504
\* The encoder's handlers.
MapWorkerError(kind) == IF kind = "bad_request" THEN 400 ELSE 500
EngineRefuses(engine, route, model) ==
  CASE route = "route" -> engine.router = <<>>
    [] route = "embed" -> engine.embedder = <<>>
    [] OTHER -> ResolveTokenClassifier(engine, model).kind = "bad_request"
Encoded(engine, route, r) ==
  CASE r.inputs = <<>> \/ (route = "route" /\ r.routes = <<>>) -> 400
    [] EngineRefuses(engine, route, r.model) -> MapWorkerError("bad_request")
    [] OTHER -> 200

\* The adjudicator's: outcome is what the worker would answer.  What is
\* refused before it is never work.
Routes(probe) ==
  {"adjudicate", "opinion", "chat", "contexts", "context", "specs", "spec"}
    \cup (IF probe THEN {"probe"} ELSE {})
Accepts(route, r) ==
  CASE route = "adjudicate" -> AdjudicateAccepted(r)
    [] route = "opinion" -> OpinionAccepted(r)
    [] route = "chat" -> ChatAccepted(r)
    [] route = "contexts" -> ContextAccepted(r)
    [] route = "probe" -> ProbeAccepted(r)
    [] OTHER -> TRUE
Success(route, outcome) ==
  CASE route = "specs" /\ outcome = "loaded" -> 201
    [] route = "spec" -> 204
    [] OTHER -> 200
Handle(route, r, outcome, menu, probe) ==
  LET turned == [work |-> FALSE, status |-> Parts("not_found")]
  IN CASE route \notin Routes(probe) -> turned
       [] route = "context" /\ r.id \notin CheckpointIds -> turned
       [] OTHER ->
         IF ~Accepts(route, r) THEN [work |-> FALSE, status |-> Parts("bad_request")]
         ELSE IF route = "opinion" /\ r.spec \notin menu THEN turned
         ELSE [work |-> TRUE,
               status |-> IF outcome \in {"ok", "loaded"} THEN Success(route, outcome)
                          ELSE Parts(outcome)]
=============================================================================
