------------------------------ MODULE Probing -------------------------------
(***************************************************************************)
(* Reading exact tokens (src/lfm2d/src/adjudicator.rs, opinion.rs,          *)
(* tokenize_api.rs, types.rs): where a probe's input is split between bulk  *)
(* and stepwise forwards, where options leave what they share, how a        *)
(* continuation is scored, and what a step reports of its distribution.     *)
(* Schedules says in which chunks the forwards run.  The tokenizer and the  *)
(* model are external: one merges pairs of characters from the left and     *)
(* spells a wide character as two tokens, the other is its weights.         *)
(***************************************************************************)
EXTENDS Prompts, FiniteSets

CONSTANTS
  Merges,         \* the pairs of characters the tokenizer merges
  Wide,           \* a character of two bytes
  ContextLimit,   \* the adjudicator's context
  Eos             \* the end of a generation

ASSUME ContextLimitAssumption == ContextLimit \in Nat

Token(piece, start, end) == [id |-> piece, start |-> start, end |-> end]
RECURSIVE EncodeFrom(_, _)
EncodeFrom(text, byte) ==
  LET piece == SubSeq(text, 1, IF Len(text) > 1 /\ SubSeq(text, 1, 2) \in Merges THEN 2 ELSE 1)
      next == byte + Len(piece)
      rest(at) == EncodeFrom(SubSeq(text, Len(piece) + 1, Len(text)), at)
  IN CASE text = <<>> -> <<>>
       [] text # <<>> /\ piece = <<Wide>> ->
            <<Token(<<Wide, "1">>, byte, byte + 2), Token(<<Wide, "2">>, byte, byte + 2)>> \o rest(byte + 2)
       [] OTHER -> <<Token(piece, byte, next)>> \o rest(next)
Encode(text) == EncodeFrom(text, 0)
Ids(tokens) == [i \in DOMAIN tokens |-> tokens[i].id]
DecodeIds(ids) ==
  FlattenSeq([i \in DOMAIN ids |-> CASE ids[i] = <<Wide, "1">> -> <<Wide>>
                                     [] ids[i] = <<Wide, "2">> -> <<>>
                                     [] OTHER -> ids[i]])

\* common_prefix_len: of every sequence, the shortest included.
CommonPrefix(seqs) ==
  LET shared == {n \in 0..Len(seqs[1]) : \A i \in DOMAIN seqs : IsPrefix(SubSeq(seqs[1], 1, n), seqs[i])}
  IN Max(shared)

\* suffix_is_stable: the suffix's own encoding, and whether the whole ends with it.
SuffixStable(prefix, suffix) ==
  LET alone == Ids(Encode(suffix))
  IN [alone |-> alone,
      stable |-> alone # <<>> /\ IsSuffix(alone, Ids(Encode(prefix \o suffix)))]

\* split_options: None when an option would have nothing left to score.
SplitOptions(rendered, options, close) ==
  LET encodings == [i \in DOMAIN options |-> Ids(Encode(rendered \o options[i] \o close))]
      shared == CommonPrefix(encodings)
      continuations == [i \in DOMAIN encodings |-> SubSeq(encodings[i], shared + 1, Len(encodings[i]))]
  IN IF <<>> \in Range(continuations) THEN None
     ELSE [shared |-> SubSeq(encodings[1], 1, shared), continuations |-> continuations]

----------------------------------------------------------------------------
(* The probe                                                               *)

Failed(kind) == [kind |-> kind]
\* resolve_decode_from: the first token that ends there; -1 when none does.
ResolveDecodeFrom(tokens, offset) ==
  LET at == {i \in DOMAIN tokens : tokens[i].end = offset}
  IN CASE offset = None -> Len(tokens)
       [] offset = 0 -> 0
       [] at = {} -> -1
       [] OTHER -> Min(at)

ProbeInput(r) ==
  IF r.ids # None
  THEN [ids |-> r.ids, rendered |-> DecodeIds(r.ids),
        split |-> IF r.decode_from_token = None THEN Len(r.ids) ELSE r.decode_from_token]
  ELSE LET rendered == Whole(RenderProbe(r))
           tokens == Encode(rendered)
       IN [ids |-> Ids(tokens), rendered |-> rendered, split |-> ResolveDecodeFrom(tokens, r.decode_from)]

\* score_continuations_verbose: the first token is read from the input's own
\* logits, the others from one forward of all but the last.
ScoredPast(state, cont) ==
  [i \in DOMAIN cont |-> [after |-> state \o SubSeq(cont, 1, i), token |-> cont[i]]]
Scored(state, cont) ==
  LET fed == SubSeq(cont, 1, Len(cont) - 1)
      row(j) == state \o SubSeq(fed, 1, j)
  IN [i \in DOMAIN cont |-> [after |-> IF i = 1 THEN state ELSE row(i - 1), token |-> cont[i]]]

\* Greedy steps from the end of the input.  picks is what the model would pick.
Steps(r) == IF r.top_k > 0 \/ r.generate > 0 THEN Max({1, r.generate}) ELSE 0
Generation(r, picks) ==
  LET ended == {i \in 1..Steps(r) : picks[i] = Eos}
      taken == IF ended = {} THEN Steps(r) ELSE Min(ended)
  IN [generated |-> SubSeq(picks, 1, Min({taken, r.generate})),
      forwarded |-> IF taken = 0 THEN <<>> ELSE SubSeq(picks, 1, taken - 1)]

Probe(r, picks) ==
  LET input == ProbeInput(r)
      n == Len(input.ids)
      suffixes == [i \in DOMAIN r.continuations |-> SuffixStable(input.rendered, r.continuations[i])]
  IN IF \/ ~ProbeAccepted(r)
        \/ input.split = -1 \/ n = 0 \/ n + r.generate > ContextLimit
        \/ \E i \in DOMAIN suffixes : suffixes[i].alone = <<>> \/ n + Len(suffixes[i].alone) > ContextLimit
     THEN Failed("bad_request")
     ELSE [kind |-> "probe", input |-> input,
           bulk |-> SubSeq(input.ids, 1, input.split),
           stepwise |-> SubSeq(input.ids, input.split + 1, n),
           scores |-> [i \in DOMAIN suffixes |-> Scored(input.ids, suffixes[i].alone)],
           canonical |-> [i \in DOMAIN suffixes |-> suffixes[i].stable],
           steps |-> Generation(r, picks)]

----------------------------------------------------------------------------
(* What a step reports.  A row's weight is its raw share of the vocabulary. *)

Share(weights, ids) == SumFunctionOnSet(weights, ids)
FirstOfTies(weights, i, j) ==
  \/ weights[i] > weights[j]
  \/ weights[i] = weights[j] /\ i < j
TopK(weights, among, k) ==
  LET ranked == SetToSortSeq(among, LAMBDA i, j : FirstOfTies(weights, i, j))
  IN SubSeq(ranked, 1, Min({k, Len(ranked)}))
\* validate_vocab: every id a request names is a row.
VocabularyAccepted(r, rows) == \A set \in r.token_sets : Range(set) \subseteq rows
StepDistribution(weights, sampled, r, permitted) ==
  IF \/ sampled \notin DOMAIN weights
     \/ \E set \in r.token_sets : set = <<>> \/ ~IsInjective(set) \/ ~(Range(set) \subseteq DOMAIN weights)
     \/ permitted # None /\ sampled \notin permitted
  THEN Failed("internal")
  ELSE [kind |-> "step", token |-> sampled,
        top |-> TopK(weights, DOMAIN weights, r.top_k),
        masses |-> [set \in r.token_sets |-> Share(weights, Range(set))],
        constrained |-> IF permitted = None THEN <<>>
          ELSE <<[legal |-> Cardinality(permitted), mass |-> Share(weights, permitted),
                  forced |-> TopK(weights, DOMAIN weights, 1)[1] \notin permitted,
                  top |-> TopK(weights, permitted, r.top_k)]>>]

\* read_options: an option's share of the options' mass, and the raw mass of
\* the distinct tokens they begin with.
ReadOptions(scores, continuations, weights) ==
  [mass |-> SumFunction(scores),
   first |-> Share(weights, {continuations[i][1] : i \in DOMAIN continuations}),
   probs |-> scores]
\* opinion: a spec's fixed question, every option scored from what they all share.
FixedRead(spec, input) ==
  LET o == spec.opinion
      rendered == Whole(RenderPrefix(spec) \o RenderUserTurn(spec, <<Given(input)>>)) \o o.prefill
      split == SplitOptions(rendered, o.options, o.close)
      conts == split.continuations
  IN CASE o = None -> Failed("bad_request")
       [] o # None /\ ~PrefillAccepted(spec, o.prefill) -> Failed("bad_request")
       [] o # None /\ split = None -> Failed("internal")
       [] \E i \in DOMAIN conts : Len(split.shared) + Len(conts[i]) > ContextLimit -> Failed("bad_request")
       [] OTHER -> [kind |-> "fixed", shared |-> split.shared,
                    scores |-> [i \in DOMAIN conts |-> Scored(split.shared, conts[i])]]
\* A question's options after its slot: each with its close on its own tokens.
SlotRead(written, options, close) ==
  LET suffixes == [i \in DOMAIN options |-> SuffixStable(written, options[i] \o close)]
  IN IF \E i \in DOMAIN suffixes : ~suffixes[i].stable THEN Failed("internal")
     ELSE [kind |-> "slot",
           scores |-> [i \in DOMAIN suffixes |-> Scored(Ids(Encode(written)), suffixes[i].alone)]]

----------------------------------------------------------------------------
(* POST /v1/tokenize                                                       *)

TokenizeContext(context, text) ==
  LET whole == Encode(context \o text)
      split == CommonPrefix(<<Ids(Encode(context)), Ids(whole)>>)
  IN [tokens |-> SubSeq(whole, split + 1, Len(whole)),
      stable |-> SuffixStable(context, text).stable]
MAX_TEXT_BYTES == 65536
MAX_CONTEXT_BYTES == 65536
TokenizeAccepted(r) ==
  /\ r.model # None
  /\ r.text # <<>> /\ Bytes(r.text) <= MAX_TEXT_BYTES
  /\ Bytes(r.context) <= MAX_CONTEXT_BYTES
Tokenize(registry, r) ==
  CASE ~TokenizeAccepted(r) -> Failed("bad_request")
    [] TokenizeAccepted(r) /\ r.model \notin registry -> Failed("not_found")
    [] OTHER -> [kind |-> "tokens", tokens |-> Encode(r.text),
                 context |-> IF r.context = None THEN <<>> ELSE <<TokenizeContext(r.context, r.text)>>]
=============================================================================
