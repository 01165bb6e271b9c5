------------------------------ MODULE Schedules ------------------------------
(***************************************************************************)
(* Which chunks a held state was forwarded in (src/lfm2d/src/              *)
(* adjudicator.rs, chat_session.rs).  The numbers of a forward depend on   *)
(* the size of its block, so two ways to the same token ids are the same   *)
(* computation only when they forward the same chunks.  A model state is   *)
(* therefore the sequence of chunks forwarded to reach it (its path), and  *)
(* every cache of the adjudicator maps a key to a path: the checkpoint     *)
(* store, the ready prompts, the described states and the tail prefixes.   *)
(*                                                                         *)
(* Which entry a store evicts is chosen freely here, and any held prefix   *)
(* may be filled in the background: ByteStore and Adjudicator say when,    *)
(* and what uploading and deleting specs does.                             *)
(***************************************************************************)
EXTENDS Naturals, Sequences, FiniteSets, SequencesExt

CONSTANTS
  CHUNK,          \* tokens of one forward of a prefill
  ContextLimit,   \* the longest prompt
  Loaded,         \* the loaded specs, in the store's order
  Described,      \* the specs with an output schema; the others list tools
  Block,          \* a spec's system turn, as tokens
  Label,          \* a spec's input label, as tokens
  Systems,        \* the system turns of chats and contexts, <<>> for none
  Turns,          \* the sequences of appended turns, [role, content] each
  Inputs,         \* the states and inputs of reads and generations
  Slots,          \* fields in emission order, and what each slot's text adds
  Closing,        \* what a report adds after the last slot, its eos last
  Reply,          \* what the model generates in a chat, its eos last
  MaxChats,       \* how many checkpoints fit
  MaxStates,      \* how many cached states fit
  Words           \* the tokens of what callers, specs and the model write

ASSUME SchedulesAssumption ==
  /\ CHUNK \in Nat \ {0}
  /\ ContextLimit \in Nat
  /\ {MaxChats, MaxStates} \subseteq Nat \ {0}
  /\ Reply # <<>> /\ Last(Reply) = "end"

Specs == Range(Loaded)
Fields == 1 .. Len(Slots)
Nowhere == <<"none", <<>>>>

\* A text carries no control token (refuse_control, validate_text), a reply
\* ends at its first eos, the token that ends a turn, and a report may too.
ASSUME WordsAssumption ==
  /\ "end" \notin Words
  /\ {Block, Label} \subseteq [Specs -> Seq(Words)]
  /\ Systems \cup Inputs \cup {Front(Reply)} \subseteq Seq(Words)
  /\ Reply \in Seq(Words \cup {"end"})
  /\ Turns \subseteq Seq([role : {"user", "tool", "assistant"}, content : Seq(Words)]) \ {<<>>}
  /\ Slots \in Seq(Seq(Words))
  /\ Closing \in Seq(Words \cup {"end"})
  /\ Loaded \in Seq(Specs)

VARIABLES chats, states, job
vars == <<chats, states, job>>

-----------------------------------------------------------------------------
(* Rendering, as tokens.                                                   *)

RenderHead(system) == IF system = <<>> THEN <<"bos">>
                ELSE <<"bos", "start", "system">> \o system \o <<"end", "nl">>
Rendered(turn) == <<"start", turn.role>> \o turn.content \o <<"end", "nl">>
Opening == <<"start", "assistant">>
AfterEos == <<"nl">>
Prefix(spec) == RenderHead(Block[spec])
UserTurn(input) ==
  Rendered([role |-> "user", content |-> input]) \o Opening
State(spec, input) == Label[spec] \o input
TailHead(spec) == <<"start", "user">> \o Block[spec] \o <<"gap">>
TailTurn(spec, input) == UserTurn(Block[spec] \o <<"gap">> \o State(spec, input))

-----------------------------------------------------------------------------
(* Forwarding.                                                             *)

Chunks(ids, size) ==
  [i \in 1 .. (Len(ids) + size - 1) \div size |->
     SubSeq(ids, (i - 1) * size + 1, IF i * size < Len(ids) THEN i * size ELSE Len(ids))]

ForwardSegments_Joined(segments) == Chunks(FlattenSeq(segments), CHUNK)
ForwardSegments(segments) ==
  FlattenSeq([i \in 1 .. Len(segments) |-> Chunks(segments[i], CHUNK)])

Decoded(ids) == Chunks(ids, 1)

-----------------------------------------------------------------------------
(* The stores.                                                             *)

IdOf(kind, ids) == <<kind, ids>>
ReadyKey(spec, ids) == <<"ready", spec, ids>>
DescribedKey_AnyPrompt(spec, ids, field) == <<"described", spec, <<>>, field>>
DescribedKey(spec, ids, field) == <<"described", spec, ids, field>>
TailKey(spec, checkpoint) == <<"tail", spec, checkpoint>>

\* What a store may be left with: as much as fits.
Fitting(store, cap) ==
  LET size == IF Cardinality(DOMAIN store) < cap THEN Cardinality(DOMAIN store) ELSE cap
  IN  {[k \in keep |-> store[k]] : keep \in {s \in SUBSET DOMAIN store : Cardinality(s) = size}}

Forgotten(gone) == [k \in {k \in DOMAIN states : ~(k[1] = "tail" /\ k[3] \in gone)} |-> states[k]]

\* The one ready prompt of a spec is the last put.
Put(store, new) ==
  LET replaced == {k \in DOMAIN store :
                     k[1] = "ready" /\ \E n \in DOMAIN new : n[1] = "ready" /\ n[2] = k[2] /\ n # k}
  IN  [k \in (DOMAIN store \ replaced) \cup DOMAIN new |->
         IF k \in DOMAIN new THEN new[k] ELSE store[k]]

\* A held checkpoint takes with it the tails of those it evicts.
HoldCheckpoint(id, path) ==
  \E kept \in Fitting([k \in DOMAIN chats \cup {id} |-> IF k = id THEN path ELSE chats[k]], MaxChats) :
     /\ id \in DOMAIN kept
     /\ chats' = kept
     /\ states' = Forgotten(DOMAIN chats \ DOMAIN kept)

-----------------------------------------------------------------------------
(* What a read, a generation and a probe compute, from what is held.       *)

\* The ready prompt if it is held, else the prefill it would become.
Prepared(spec, ids, warm) ==
  LET pre == Prefix(spec)
  IN  IF ~warm THEN Chunks(ids, CHUNK)
      ELSE IF ReadyKey(spec, ids) \in DOMAIN states THEN states[ReadyKey(spec, ids)]
      ELSE Chunks(pre, CHUNK) \o Chunks(SubSeq(ids, Len(pre) + 1, Len(ids)), CHUNK)

ReadIds(r) == IF r.context = Nowhere
              THEN Prefix(r.spec) \o UserTurn(State(r.spec, r.input))
              ELSE r.context[2] \o TailTurn(r.spec, r.input)

TailOf(r) ==
  IF TailKey(r.spec, r.context) \in DOMAIN states THEN states[TailKey(r.spec, r.context)]
  ELSE chats[r.context] \o ForwardSegments(<<TailHead(r.spec)>>)

\* The read's prompt: the spec's prepared prompt, a forked checkpoint's
\* two segments, or the same ids cold.
PromptPath(r) ==
  IF r.context = Nowhere THEN Prepared(r.spec, ReadIds(r), r.warm)
  ELSE IF ~r.warm THEN Chunks(ReadIds(r), CHUNK)
  ELSE LET rest == SubSeq(TailTurn(r.spec, r.input), Len(TailHead(r.spec)) + 1,
                          Len(TailTurn(r.spec, r.input)))
       IN  TailOf(r) \o ForwardSegments(<<rest>>)

Description(field) == FlattenSeq(SubSeq(Slots, 1, field))

DescribedHit(r) ==
  r.warm /\ \A f \in r.asked : DescribedKey(r.spec, ReadIds(r), f) \in DOMAIN states

\* The state each asked slot is read at.
SlotPaths(r) ==
  LET hit == DescribedHit(r)
      ids == ReadIds(r)
      prompt == PromptPath(r)
  IN  [f \in r.asked |-> IF hit THEN states[DescribedKey(r.spec, ids, f)]
                         ELSE prompt \o Decoded(Description(f))]

\* What a warm read leaves in the state cache when it is not a hit.
ReadPuts(r) ==
  LET ids == ReadIds(r)
      paths == SlotPaths(r)
      prompt == IF r.context = Nowhere THEN ReadyKey(r.spec, ids) ELSE TailKey(r.spec, r.context)
  IN  [k \in {prompt} \cup {DescribedKey(r.spec, ids, f) : f \in r.asked} |->
         IF k # prompt THEN paths[k[4]]
         ELSE IF r.context = Nowhere THEN PromptPath(r) ELSE TailOf(r)]

Reads ==
  [spec : Specs \cap Described, input : Inputs, context : DOMAIN chats \cup {Nowhere},
   asked : (SUBSET Fields) \ {{}}, warm : BOOLEAN]
AdmittedReads == {r \in Reads : Len(ReadIds(r)) + 2 < ContextLimit}

Report == FlattenSeq(Slots) \o Closing
FullIds(g) == Prefix(g.spec) \o UserTurn(g.input)

\* The deepest description held for these prompt ids, if it is short enough.
Resumed_AnyLength(g) ==
  LET held == {f \in Fields : DescribedKey(g.spec, FullIds(g), f) \in DOMAIN states}
      deepest == CHOOSE f \in held : \A e \in held : e <= f
  IN  IF ~g.warm \/ held = {} THEN 0 ELSE deepest
Resumed(g) ==
  LET held == {f \in Fields : DescribedKey(g.spec, FullIds(g), f) \in DOMAIN states}
      deepest == CHOOSE f \in held : \A e \in held : e <= f
  IN  IF ~g.warm \/ held = {} \/ Len(Description(deepest)) >= g.max THEN 0 ELSE deepest

Generations ==
  UNION {[spec : {spec}, input : {State(spec, input) : input \in Inputs}, max : 1 .. Len(Report), warm : BOOLEAN] :
           spec \in Specs}

\* The state after the tokens a generation forwards: not the last one.
Continued(from, g) ==
  LET written == SubSeq(Report, 1, g.max)
  IN  Decoded(SubSeq(written, Len(from) + 1, Len(written) - 1))

\* The longest prefix short of the whole; the last of equals.
BestPrefix(ids, order) ==
  LET fits == {i \in 1 .. Len(order) : IsStrictPrefix(Prefix(order[i]), ids)}
  IN  IF fits = {} THEN 0
      ELSE CHOOSE i \in fits : \A j \in fits :
             \/ Len(Prefix(order[j])) < Len(Prefix(order[i]))
             \/ Len(Prefix(order[j])) = Len(Prefix(order[i])) /\ j <= i

\* A probe of exact ids, the first `split` of them in bulk.
ProbePath_Bulk(ids, split, warm) ==
  LET best == BestPrefix(SubSeq(ids, 1, split), Loaded)
      pre == IF warm /\ best # 0 THEN Prefix(Loaded[best]) ELSE <<>>
  IN  Chunks(pre, CHUNK) \o Chunks(SubSeq(ids, Len(pre) + 1, Len(ids)), CHUNK)
ProbePath(ids, split, warm) ==
  LET best == BestPrefix(SubSeq(ids, 1, split), Loaded)
      pre == IF warm /\ best # 0 THEN Prefix(Loaded[best]) ELSE <<>>
  IN  Chunks(pre, CHUNK) \o Chunks(SubSeq(ids, Len(pre) + 1, split), CHUNK)
        \o Decoded(SubSeq(ids, split + 1, Len(ids)))

-----------------------------------------------------------------------------
(* Actions.                                                                *)

Init ==
  /\ chats = [k \in {} |-> <<>>]
  /\ states = [k \in {} |-> <<>>]
  /\ job = [op |-> "none"]

Idle == job = [op |-> "none"]
Done == job' = [op |-> "none"]

\* A read runs whole, also at the pauses of a job.
Read ==
  \E r \in AdmittedReads :
     /\ IF DescribedHit(r) \/ ~r.warm THEN UNCHANGED states
        ELSE states' \in Fitting(Put(states, ReadPuts(r)), MaxStates)
     /\ UNCHANGED <<chats, job>>

\* A generation keeps what it looked up across its pauses.
StartGenerate ==
  \E g \in Generations :
     /\ Idle
     /\ Len(FullIds(g)) + g.max <= ContextLimit
     /\ job' = [op |-> "generate", spec |-> g.spec, ids |-> FullIds(g), path |-> Prepared(g.spec, FullIds(g), g.warm),
                puts |-> g.warm /\ Resumed(g) = 0 /\ ReadyKey(g.spec, FullIds(g)) \notin DOMAIN states]
     /\ UNCHANGED <<chats, states>>

PutReady ==
  /\ job.op = "generate"
  /\ IF job.puts
     THEN states' \in Fitting(Put(states, [k \in {ReadyKey(job.spec, job.ids)} |-> job.path]), MaxStates)
     ELSE UNCHANGED states
  /\ Done
  /\ UNCHANGED chats

Segments(system, turns) == <<RenderHead(system)>> \o [i \in 1 .. Len(turns) |-> Rendered(turns[i])]
Through(segments, k) == FlattenSeq(SubSeq(segments, 1, k))

\* The most segments, short of all, that a held context covers.
Covered(segments) ==
  LET held == {k \in 1 .. Len(segments) - 1 : IdOf("context", Through(segments, k)) \in DOMAIN chats}
  IN  IF held = {} THEN 0 ELSE CHOOSE k \in held : \A j \in held : j <= k

BaseOf(segments) ==
  LET k == Covered(segments)
  IN  IF k = 0 THEN <<>> ELSE chats[IdOf("context", Through(segments, k))]

\* The base is cloned before the first pause.
StartContext ==
  \E system \in Systems, turns \in Turns \cup {<<>>} :
     LET segments == Segments(system, turns)
         ids == FlattenSeq(segments)
     IN  /\ Idle
         /\ system # <<>> \/ turns # <<>>
         /\ Len(ids) < ContextLimit
         /\ IdOf("context", ids) \notin DOMAIN chats
         /\ job' = [op |-> "context", id |-> IdOf("context", ids),
                    path |-> BaseOf(segments)
                               \o ForwardSegments(SubSeq(segments, Covered(segments) + 1, Len(segments)))]
         /\ UNCHANGED <<chats, states>>

HoldContext ==
  /\ job.op = "context"
  /\ HoldCheckpoint(job.id, job.path)
  /\ Done

\* A chat starts, or continues from a checkpoint of a chat.
Bases == {k \in DOMAIN chats : k[1] # "context"} \cup {Nowhere}

TurnFits(ids, max) == Len(ids) + Len(Opening) + max + Len(AfterEos) <= ContextLimit

StartTurn ==
  \E from \in Bases, system \in Systems, turns \in Turns :
     LET segments == IF from = Nowhere THEN Segments(system, turns)
                     ELSE [i \in 1 .. Len(turns) |-> Rendered(turns[i])]
         ids == from[2] \o FlattenSeq(segments)
         user == IdOf("chat", ids)
     IN  /\ Idle
         /\ from # Nowhere => system = <<>>
         /\ \A i \in 1 .. Len(turns) : turns[i].role # "assistant"
         /\ TurnFits(ids, 1)
         /\ job' = [op |-> IF user \in DOMAIN chats THEN "reply" ELSE "turn", id |-> user,
                    path |-> IF user \in DOMAIN chats THEN chats[user]
                             ELSE (IF from = Nowhere THEN <<>> ELSE chats[from]) \o ForwardSegments(segments)]
         /\ UNCHANGED <<chats, states>>

HoldUser ==
  /\ job.op = "turn"
  /\ HoldCheckpoint(job.id, job.path)
  /\ job' = [job EXCEPT !.op = "reply"]

\* The reply's tokens alone, its eos too; one cut off by the request's
\* max_tokens leaves nothing.
AfterReply(path) == path \o ForwardSegments(<<Opening>>) \o Decoded(Reply) \o ForwardSegments(<<AfterEos>>)

Answer ==
  /\ job.op = "reply"
  /\ \E max \in {max \in 1 .. Len(Reply) : TurnFits(job.id[2], max)} :
       IF max = Len(Reply)
       THEN HoldCheckpoint(IdOf("chat", job.id[2] \o Opening \o Reply \o AfterEos), AfterReply(job.path))
       ELSE UNCHANGED <<chats, states>>
  /\ Done

\* A tail prefix filled for a later read.
TailPrefill ==
  \E id \in DOMAIN chats, spec \in Specs \cap Described :
     /\ TailKey(spec, id) \notin DOMAIN states
     /\ Len(id[2]) + Len(TailHead(spec)) + 2 < ContextLimit
     /\ states' \in Fitting(Put(states, [k \in {TailKey(spec, id)} |->
                                           chats[id] \o ForwardSegments(<<TailHead(spec)>>)]), MaxStates)
     /\ UNCHANGED <<chats, job>>

DeleteContext ==
  \E id \in {k \in DOMAIN chats : k[1] = "context"} :
     /\ chats' = [k \in DOMAIN chats \ {id} |-> chats[k]]
     /\ states' = Forgotten({id})
     /\ UNCHANGED job

Next ==
  \/ Read \/ StartGenerate \/ PutReady
  \/ StartContext \/ HoldContext \/ StartTurn \/ HoldUser \/ Answer
  \/ TailPrefill \/ DeleteContext

Spec == Init /\ [][Next]_vars

-----------------------------------------------------------------------------
(* The reference: where a chunk starts, read off the ids alone.            *)

\* A turn starts at the `start` that follows the end of another or the
\* `bos`; the system's is one segment with the `bos`.
TurnStart(ids, i) ==
  /\ ids[i] = "start"
  /\ \/ i = 2 /\ ids[3] # "system"
     \/ i > 3 /\ ids[i - 2] = "end" /\ ids[i - 1] = "nl"
SegmentStart(ids, i) == CHOOSE s \in 1 .. i :
  /\ s = 1 \/ TurnStart(ids, s)
  /\ \A j \in s + 1 .. i : ~TurnStart(ids, j)
\* A chat's token after an assistant's opening was generated, or follows one.
Alone(kind, ids, i) ==
  LET s == SegmentStart(ids, i)
  IN  kind # "context" /\ i >= s + Len(Opening) /\ s < Len(ids) /\ ids[s + 1] = "assistant"
ChunkStarts(kind, ids) ==
  {i \in 1 .. Len(ids) : Alone(kind, ids, i) \/ (i - SegmentStart(ids, i)) % CHUNK = 0}

\* A path as ids and the positions its chunks start at.
StartsOf(path) == {1 + Len(FlattenSeq(SubSeq(path, 1, i - 1))) : i \in 1 .. Len(path)}
Spells(path, ids) == FlattenSeq(path) = ids

\* The chunks of one kind of prompt, with nothing held.
Scratch(kind, ids) ==
  LET starts == ChunkStarts(kind, ids)
      End(i) == CHOOSE e \in i .. Len(ids) :
                  /\ e = Len(ids) \/ e + 1 \in starts
                  /\ \A j \in i + 1 .. e : j \notin starts
      Nth(n) == CHOOSE i \in starts : Cardinality({j \in starts : j <= i}) = n
  IN  [n \in 1 .. Cardinality(starts) |-> SubSeq(ids, Nth(n), End(Nth(n)))]

PlainPath(spec, ids) ==
  Chunks(Prefix(spec), CHUNK) \o Chunks(SubSeq(ids, Len(Prefix(spec)) + 1, Len(ids)), CHUNK)
ForkedPath(spec, context, input) ==
  Scratch(context[1], context[2]) \o Chunks(TailHead(spec), CHUNK)
    \o Chunks(SubSeq(TailTurn(spec, input), Len(TailHead(spec)) + 1, Len(TailTurn(spec, input))), CHUNK)
OwnPath(r) ==
  CASE ~r.warm -> Chunks(ReadIds(r), CHUNK)
    [] r.warm /\ r.context = Nowhere -> PlainPath(r.spec, ReadIds(r))
    [] r.warm /\ r.context # Nowhere -> ForkedPath(r.spec, r.context, r.input)
\* Every computation of these prompt ids as some read of the spec.
SameIdsPaths(spec, ids) ==
  LET Forks(input) == {n \in 3 .. Len(ids) : ids = SubSeq(ids, 1, n) \o TailTurn(spec, input)}
  IN  {PlainPath(spec, ids)} \cup
      UNION {UNION {{ForkedPath(spec, <<kind, SubSeq(ids, 1, n)>>, input) : n \in Forks(input)} :
                      kind \in {"chat", "context"}} : input \in Inputs}

\* No spec's plain prompt ends as a read of a checkpoint does: its input would
\* quote the spec's block, and the checkpoint be what stands before the quote.
NothingQuoted ==
  \A spec \in Specs, input \in Inputs, other \in Inputs :
     LET ids == Prefix(spec) \o UserTurn(State(spec, input))
     IN  \A n \in 3 .. Len(ids) : ids # SubSeq(ids, 1, n) \o TailTurn(spec, other)

-----------------------------------------------------------------------------
(* Properties.                                                             *)

(* Every held checkpoint is the state its kind and ids alone determine, in *)
(* whatever turns the chat or context was built, continued or rebuilt and  *)
(* whatever was held or evicted meanwhile; a tail prefix is that state and *)
(* the spec's head as one segment, whether a read or the background left   *)
(* it; a ready prompt is the spec's prefix and the rest (chat_session.rs,  *)
(* forward_segments, build_context, chat_turn, tail_prefill, prepare).     *)
HeldStatesCanonical ==
  /\ \A k \in DOMAIN chats :
       /\ Spells(chats[k], k[2])
       /\ StartsOf(chats[k]) = ChunkStarts(k[1], k[2])
  /\ \A k \in DOMAIN states :
       /\ k[1] = "tail" => states[k] = Scratch(k[3][1], k[3][2]) \o Chunks(TailHead(k[2]), CHUNK)
       /\ k[1] = "ready" => states[k] = PlainPath(k[2], k[3])

(* What a read is answered from does not depend on what is held: its own   *)
(* prompt and the description's tokens one by one, or, on a described hit, *)
(* those of a read with the same ids (describe_then_read).                 *)
ReadsDoNotDependOnCaches ==
  \A r \in AdmittedReads :
     LET paths == SlotPaths(r)
         prompts == IF DescribedHit(r) THEN SameIdsPaths(r.spec, ReadIds(r)) ELSE {OwnPath(r)}
     IN  \A f \in r.asked : \E prompt \in prompts : paths[f] = prompt \o Decoded(Description(f))

(* A described hit is answered from the computation of the read's own      *)
(* context, as a described miss is: the two computations of the same ids   *)
(* that context_id keeps apart do not meet in the described cache.         *)
ReadsAreTheirOwn ==
  \A r \in AdmittedReads :
     LET paths == SlotPaths(r)
         prompt == OwnPath(r)
     IN  \A f \in r.asked : paths[f] = prompt \o Decoded(Description(f))

(* A report continued from an opinion's description ends in the state a    *)
(* fresh generation of the same prompt ends in (generate's resume from the *)
(* deepest description).                                                   *)
EscalationsAreFresh ==
  \A g \in {g \in Generations : g.warm /\ Len(FullIds(g)) + g.max <= ContextLimit} :
     LET f == Resumed(g)
         from == states[DescribedKey(g.spec, FullIds(g), f)]
     IN  f # 0 => from \o Continued(Description(f), g)
                    = PlainPath(g.spec, FullIds(g)) \o Continued(<<>>, g)

(* A probe of a read's rendered token ids, split where its prompt ended,   *)
(* repeats the very forwards the read made, whatever other spec is loaded; *)
(* and whatever held ids are probed, wherever the probe is split, every    *)
(* token is forwarded once and something always is: the internal error for *)
(* neither phase having run is unreachable, a prefix equal to the bulk     *)
(* part being no candidate (probe_impl, best_prefix_match).                *)
ProbesReplayReads ==
  /\ \A r \in {r \in AdmittedReads : r.context = Nowhere /\ r.warm} :
       LET ids == ReadIds(r)
           paths == SlotPaths(r)
       IN  \A f \in r.asked : ProbePath(ids \o Description(f), Len(ids), TRUE) = paths[f]
  /\ \A k \in DOMAIN states :
       LET prefix == Len(Prefix(k[2]))
           held == FlattenSeq(states[k])
       IN  \A n \in {prefix, Len(held)} : \A split \in {0, prefix, prefix + 1, n} \cap 0 .. n :
             LET ids == SubSeq(held, 1, n)
                 best == BestPrefix(SubSeq(ids, 1, split), Loaded)
             IN  /\ Spells(ProbePath(ids, split, TRUE), ids)
                 /\ best # 0 => Len(Prefix(Loaded[best])) < n
=============================================================================
