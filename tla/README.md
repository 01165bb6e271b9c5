# Verification of lfm2d

TLA+ models of the lfm2d daemon, checked with TLC and, where it says so below,
proved with TLAPS. Every definition is translated from the Rust source; the
`map` of `PROJECT.json` says which lines each one stands for. Source paths are
relative to `lfm2d/src/` unless they say otherwise.

## 1. The system

lfm2d is one process serving two kinds of models over HTTP (TCP and a Unix
socket): small encoders (classification, token classification, embeddings,
ColBERT) and one generative model, *the adjudicator* (adjudications, opinion
reads, chats, held contexts, probes). Each kind has exactly one worker thread,
which owns its engine; request tasks talk to it through queues.

| part | state it keeps | operations | who it talks to |
|---|---|---|---|
| Encoder worker (`worker.rs`) | an unbounded queue, a queue-depth gauge, the exit flag | send, run_timed, worker exit, panic monitor | request tasks send and wait on a oneshot reply |
| Adjudicator worker (`adjudicator.rs`, `Worker`, `Pause`, `Handle`) | two bounded queues, the stop flag, the live menu | submit, serve by class, pause, background, publish, stop, exit | request tasks; the engine it owns |
| Spec store (`adjudicator.rs`, `SpecStore`) | boot specs, uploaded specs in LRU order | resolve, best prefix, register_or_load, remove | the engine |
| State store (`state_store.rs`) | entries in LRU order, pins, running byte count | get, insert, insert_in, set_pinned, remove, retain | used twice by the engine: chat checkpoints, cached states |
| Adjudicator engine (`adjudicator.rs`, `Adjudicator`) | specs, chat checkpoints, cached states, background tail prefills | generate, opine, chat_turn, build_context, context_info, context_delete, register, unregister, background, probe | runs on the worker thread, pauses at chunk boundaries |
| Chats and contexts (`chat_session.rs`, `contexts_api.rs`, `chat.rs`) | checkpoint ids, kinds, the specs read on a checkpoint | validate, render, checkpoint ids, stream events | the engine; `Handle::chat_stream` |
| Constrained decoding (`constrain.rs`) | grammar programs, cursors, memoised masks | compile, advance, mask | the engine's decoder |
| Opinion reads (`opinion_api.rs`, `opinion.rs`) | a menu of slots per spec | resolve_all, option splitting, scoring | request tasks (menu), the engine |
| Pooling (`pool.rs`) | none | linear and log-linear pooling, leave-one-out | opinion over contexts |
| Tokenize (`tokenize_api.rs`) | tokenizers | encode | request tasks |
| Server, shutdown, main (`server.rs`, `shutdown.rs`, `main.rs`) | ready flag, shutdown signal, worker exits | readiness, drain with a cap, wait for the workers, flush | everything |
| Config, types, device, telemetry, hash, engines | values read once | parsing, device choice, metrics | everything |
| Encoder library (`../../src/`) | weights | trunk, routing, heads, BIOES spans | the encoder worker |
| Instruments (`examine.rs`, `expert_map.rs`, `chunk_sweep.rs`, `probe*.rs`, `bin/`) | none across calls | measurements | the engine |
| Demo (`demo/web`) | councils, pinned tabs, subscribers | turns, retire, release | the daemon's HTTP API |

### What is hard here

- **Reads run inside a paused generation**, on the same thread and the same
  engine. What a generation looked up before a pause may be touched, replaced
  or evicted when it resumes.
- **Removal**: specs, checkpoints and cached states refer to one another by id.
  Whatever removes one must forget what hangs off it, in every path.
- **One worker thread**: a panic there (an `expect` in the eviction loop)
  ends the process; a job that never yields starves everyone.
- **Callers leave**: a reply may have no listener, yet what the job changed
  must still be published.
- **Stopping**: what was queued must still be answered, the thread must return,
  and the process must exit within its caps.
- **Budgets**: pins, groups and byte budgets interact; a refusal must leave
  things as they were.
- **Reuse**: a prompt can be continued from five kinds of held state, and the
  numbers depend on how it was forwarded.
- **Text**: a control token in what a caller wrote forges a turn; a token boundary
  one off scores the wrong thing; a token can be half a character.
- **Streams**: a streamed turn crosses three channels and a timer; the client
  must hear everything before the outcome, and exactly one outcome.

What makes each part correct: the state store's books balance, its pins stay and
what it evicts is reported; nothing is cached for what is gone; a read waits at
most one chunk and is answered; the menu agrees with the store; every job is in
one place; a stream ends with its outcome; the process becomes unready, drains,
drops its engines and exits, in this order, and exits whatever is stuck. The
`hazards` of `PROJECT.json` list where each of these could go wrong, with the
properties that would show it.

## 2. Modules

| module | models | checked by |
|---|---|---|
| `Subsequence` | what is left of a deque when elements are removed | through the modules that use it |
| `Subsequence_proofs` | deques and joined sequences: elements, order, what removing and joining do to them; induction over sets of numbers and of sequences | TLAPS |
| `ByteStore` | the value of one `StateStore` and its methods as operators | through the modules that use it |
| `StateStore` | a store and its callers: any sequence of method calls | `state_store` |
| `StateStoreLoops` | the two eviction loops of `insert_in` iteration by iteration, against the sets of `ByteStore` | `state_store` |
| `BoundedStore` | what the store promises: a bounded set whose pins stay | `state_store` (refinement) |
| `StateStore_proofs` | theorems of `StateStore` and of its loops | TLAPS |
| `Worker` | the adjudicator's queues, worker thread, pauses, menu, stop | `worker`, `worker_live` |
| `Worker_proofs` | theorems of `Worker` | TLAPS |
| `Adjudicator` | what the adjudicator keeps between jobs; composes two `ByteStore`s | `adjudicator`, `adjudicator_specs`, finding `answered_turn` |
| `Adjudicator_proofs` | theorems of `Adjudicator` | TLAPS |
| `Schedules` | in which chunks every held state was forwarded, over all caches | `schedules`, finding `twin_described` |
| `Schedules_proofs` | chunks; theorems of `Schedules` | TLAPS |
| `ChatStream` | one streamed turn from queue to client, with the text its events carry | `chat_stream` |
| `ChatStream_proofs` | theorems of `ChatStream` | TLAPS |
| `Daemon` | connections, the encoder worker, listeners, signal, drain, monitors, exit | `daemon` |
| `Daemon_proofs` | theorems of `Daemon` | TLAPS |
| `Schemas` | output schemas, the menu made of one, the questions that may be asked, what a report must be | `decode` |
| `Constrain` | the vocabulary, the compiled program, the byte automaton, the token masks | `decode` |
| `Decode` | the loops over them: a report, a description up to a slot, a resumed report | `decode` |
| `Documents` | the reference: the documents of a schema and what a JSON parser reads, without the automaton | `decode` |
| `Decode_proofs` | theorems of `Decode` and of the automaton | TLAPS |
| `Values` | values as the template writes them: JSON, Python literals, floats | `requests` |
| `Prompts` | prompts rendered and requests validated | `requests` |
| `Probing` | tokens read, split, scored and reported | `requests` |
| `Pooling` | reads pooled over contexts | `requests` |
| `Encoder` | what surrounds the tensors of the encoder library | `requests` |
| `Serving` | start-up, budgets, spec loading, statuses | `requests` |
| `Requests` | one request at a time, of every kind, through the six above | `requests` |

Definitions named `X_Something` beside a definition `X` are mutated forms of it,
each a plausible bug: `PROJECT.json` pairs them with the property that notices.

### State store (`ByteStore`, `StateStore`, `StateStoreLoops`, `BoundedStore`)

A store is a record: `entries` (`VecDeque` order, oldest first), `pinned` and
`used` (the running count). `Inserted` is the whole of `insert_in`: the refusals,
the replacement of an entry with the same id, the group's cap, the budget, the
append. The Rust evicts in two loops; `ByteStore` says which sets they evict and
`StateStoreLoops` runs the loops themselves, so that `LoopsAgree` ties the short
form to the code. A round of a loop that finds its condition false changes
nothing, so a loop is as many rounds as there are entries. Byte sums are a parameter `Bytes` with an additivity
assumption: TLC is given a sum, the proofs use the assumption only.

### Worker (`Worker`)

`queue` are the two bounded channels, `stack` the frames of the one worker thread
(a job, and at most one read served at its pause), `caller` the request tasks.
A job passes `begin`, `boundary` and `chunk` stages, a registration or deletion
`publish`, and `reply`. `Work` is the thread: pick by class, run, check, pause,
serve at the pause, finish. The tasks' side is `Arrive`, `Enqueue`, `Overload`,
`Expire`, `GiveUp`; the server's `Stop` and `DropHandles`. `waited` is history
(chunks a queued read waited for) and no action reads it.

### Adjudicator (`Adjudicator`)

`chats` and `states` are two `ByteStore` values with the code's groups and caps;
`readSpecs` the `read_specs` of each checkpoint; `uploads` the LRU of uploaded
specs; `background` the queue of tail prefills. `job` is the job of the paused
class with the stage it is paused in, `reading` the read on top of it; between
two pauses the code runs without interruption and so does the action. A handler
with pauses is one action per stretch: `BeginTurn`, `HoldUser`, `StartFill`,
`EndFill`, `Announce`, `Answer` are `chat_turn`. `Serves(op)` is what `Worker`
establishes: only `Overtakes` operations run at a pause, one deep.

### Schedules (`Schedules`)

The numbers of a forward depend on the size of its block, so two ways to the
same token ids are the same computation only if they forward the same chunks. A
model state is therefore its *path*, the sequence of chunks forwarded to reach
it, and every cache maps a key to a path: checkpoints and contexts (`chats`),
ready prompts, described states and tail prefixes (`states`). `Read`,
`StartGenerate`/`PutReady`, `StartContext`/`HoldContext`, `StartTurn`/`HoldUser`/
`Answer`, `TailPrefill` and `DeleteContext` are the operations that look up, fork
and publish; a job is split where the code pauses. Which entry a full store
evicts is free here (`Fitting`): `ByteStore` says which. The reference (`Scratch`,
`PlainPath`, `ForkedPath`) reads the chunks off the ids alone.

### Constrained decoding (`Schemas`, `Constrain`, `Decode`, `Documents`)

Text is a sequence of bytes. `Constrain` names a node of the automaton by its
segment and the bytes of it written; `Step` and `IsDone` are the automaton,
`Plan`/`Permitted` the mask stored as its smaller side, `Allowed` what the
grammar admits token by token. `Decode` is the run: `Load` (the schema refused or
compiled), generation with any token the mask leaves, the description of an
opinion stopped at each asked slot, and the report resumed from it. `Documents`
says what a document is by UTF-8's and JSON's own tables.

### Chat stream (`ChatStream`)

The worker's side (`Proceed`, `Announce`, `Generate`, `FinishTurn`), the two
channels (`channel`, `reply`), the relay task's `select!` (`Relay`, `Replied`,
`TimesOut`, `ClientGone`, in any order when several are ready), and what it does
after the result (`Drain`, `SendLast`). A token event carries the text
`text_delta` adds: tokens may end inside a character, which is then kept back.

### One request (`Requests` and the modules under it)

These parts keep no state between requests: a request is a computation, whose
cases are its hard part. `Requests` is idle, asked one thing of a bounded set of
inputs, answers it by the operators translated from the code, and is idle again;
the properties relate every answer to what was asked. A control token is two
characters of a small alphabet, so that one can be put together from a caller's
text and the renderer's; the tokenizer (external) merges pairs of characters from
the left and spells a two-byte character as two tokens, which makes both a shared
prefix and a merged junction possible; a probability row is naturals, whose ratios
are exact. `Post` and `AskEncoder` are the handlers: which bodies are refused, what
each outcome of the worker becomes. The worker's side of the same requests is in
`Worker`, `Adjudicator` and `Schedules`.

### Process (`Daemon`)

`client` follows one connection from `Accept` to `Close`, including the gap of
`WorkerHandle::send` between raising the gauge and sending. The encoder's thread
takes, starts (`run_timed` lowers the gauge) and finishes each command, heard or
not; the adjudicator's is reduced to its ends and its stop flag. `SignalArrives`
and `BeginShutdown` are the signal task's stores one by one; `StopListening` each
listener's end; `ServeReturns` the drain against its cap; `WaitEnds`,
`WaitTimesOut` and `Exit` are `exit_after_serve`; `Monitor` the crash monitors.
Either end (`EndProcess`) waits for nobody: a connection still open, its request
draining past the cap or its answer not yet written, goes to `"cut"`.

## 3. What the runs check

| run | shows | bounds, and why they are enough |
|---|---|---|
| `state_store` | accounting, pins, panic-freedom, eviction order and reporting, both loops, refinement | six ids, three in a group capped at two, one larger than the budget, one larger than what full pins leave: every branch of `insert_in` and `set_pinned` decides something. The proofs remove the bound |
| `worker` | nesting, waiting, loaded specs, menu, one place per job | two reads, a generation, two uploads, a deletion, queues of one, two chunks: full queues, a pause with a second read behind it and an eviction by upload all occur |
| `worker_live` | answers, cancellation, exit | one chunk per job, queues of two, callers that return forever: endless reads are a cycle |
| `adjudicator` | contexts, pins, tails, and the specs a chain of turns was read with | two chained turns and one that is refused, a context and a longer one extending it: six checkpoints, together over budget, and a cache of two states |
| `adjudicator_specs` | specs and what hangs off them | two uploads where one fits, two prompts, two described fields, a cache of two states |
| `schedules` | what is held is the computation its key names; no answer depends on what was held | a spec with a schema and one with tools, turns that extend one another, chunks of two tokens so that segments end inside and at a chunk, two checkpoints and two cached states: rebuilds after eviction and every kind of hit occur |
| `chat_stream` | order, completeness, text and end of a stream | three tokens, among them halves of a character and reasoning tags; leaving, deadline and stop at any point |
| `decode` | the grammar is the schema's; a slot read is the question's own | one schema per refusal, a free string alone and before a choice, three fields asked out of order; reports of five tokens, every byte a token, merges over keys and quotes; every byte that matters is tried after each prefix, so lead bytes, escapes and blanks are met at their edges |
| `daemon` | gauge; who fails, and who is cut off by the end of the process, and why; what the exit code says of the workers, the drain and panics; the process ends, whatever is stuck; callers hear, when the workers run | two encoder requests (one waits behind the other) and an adjudication, two listeners; the encoder's monitor present or not, chosen at the start |
| `requests` | prompts keep their turns, reads score their tokens, pools are fair, encoders read their text, a process serves what it loaded | texts of up to three characters with both halves of a marker, every merge and the wide character; labelled texts of three tokens; pools of three contexts with weights 0 to 2; budgets, contexts, ids and lengths on both sides of every limit. Limits of tens of kilobytes are small constants |

Two runs (`answered_turn`, `twin_described`) check a sentence of the repository
that the code does not keep; section 6.

Deadlock is checked in the state store's and the adjudicator's runs, in
`schedules`, `chat_stream` and `requests`. It is off in the worker's and the
daemon's, where the thread and the process do end, and in `decode`, where a
refused spec ends everything.

The five properties of `requests` are conjunctions of named parts, one per
operation. `PromptsKeepTheirTurns` leaves out two junctions of texts that are checked
apart (section 6): the facts and the label of a state meet without anything between
them, which `Meets` excepts; and a fixed question's prefill, options and close meet
when they are encoded (`FixedRead`), in a text the property does not look at.
`EncodersReadTheirText` tries a routed prompt cut into tokens at every place of
`Tokenizations`: tokens of one to five bytes at every offset, or one token for all,
some overlapping the next, with an empty special token between any two. A route and
a focus must take exactly the tokens that hold a byte of theirs.

### Fairness

- `Worker!FairSpec`: the worker thread runs (`WF Work`), an admitted task submits,
  the server drops its handles once it has stopped. The thread is an OS thread
  in a loop, the tasks are on the runtime. Nobody has to call, leave or stop.
  `GenerationsAnswered` is conditional on the reads ceasing because the code
  prefers reads without limit.
- `ChatStream!StreamSpec`: the relay's branches and the timer; nothing of the
  worker thread, which other jobs can hold. `select!` polls its branches in
  random order, so a ready branch is eventually taken.
- `Daemon!ExitSpec`: the signal task, the timers and main. The workers, their
  monitors, the callers and the listeners may be stuck for good.
  `CallersHear` takes `WorkersRun` as its antecedent: the worker threads run and
  a task that raised the gauge sends. It assumes nothing of signals, timers or
  disconnections.

## 4. What is proved

All proofs hold for every value of the constants that the named assumptions admit.

**State store** (`StateStore_proofs`; `SizeAssumption`, `BytesAssumption`: finitely
many ids, natural sizes, an additive measure). `IInv`: the store is sound (no
duplicates, pins held, `used` equals the measure of what is held), within budget,
pins within half. Soundness is needed because the eviction sets are computed
from positions: without duplicates, dropping a prefix of the unpinned entries
frees exactly its measure, and `BudgetVictims` then always frees enough, which is
`InsertNeverPanics`. Theorems: `TypeCorrect`, `BooksAlwaysBalance`,
`PinsAlwaysWithinHalf`, `InsertNeverPanics`, `HalfAlwaysAdmitted`,
`EvictionsAlwaysReported` (an action property) and `StoreImplementsBoundedStore`.
`LoopsAlwaysAgree` removes the last doubt about the
short form: both loops take the oldest entry that may go while a condition holds
that more evictions can only end (`EvictsTheOldest`), so what they take is the set
of those the condition asks for when every older one is gone. The loops need a
rule of their own (`RoundsEnd`: an invariant, a deque that gets shorter), proved
from the least number that would break it, where induction is out of reach.

**Worker** (`Worker_proofs`; `WorkerAssumption`). `IInv` adds to the properties
that a queue holds jobs of its class only (so what a pause takes is a read), that
a chunk under way was counted, and `FreshAtBegin`: paused-class work begins
only when no read waits, which is why a read waits for one chunk and not two.
Theorems: type correctness (bounded queues included), `PausesAlwaysNestOnce`,
`ReadsAlwaysWaitOneChunk`, `WorkedSpecAlwaysLoaded`, `MenuAlwaysAgrees`,
`JobsAlwaysInOnePlace`. The last needs `Placed`: every job counts its places in
the queues and on the stack, and the caller's state says which one it is.

**Adjudicator** (`Adjudicator_proofs`; `AdjudicatorAssumption`,
`ChatBytesAssumption`). `IInv` is `StoreInv` (the checkpoint store keeps its types and
its pins within half the budget; what the cached states, the waiting tasks and the
marks name is there), `JobInv` and `ReadInv` (what the paused job and the read on
top of it hold is what their stage says). Theorems:
`NoOrphansAlways`, `CachedSpecsLoadedAlways`, `NothingPulledAwayAlways`,
`HoldsNeverRefusedAlways` and `ReadsFollowTheChatAlways` (an action property).
Nothing is pulled away because nothing that overtakes a paused job evicts a
checkpoint or unloads a spec. `HoldsNeverRefused` is where the startup check of the
chat budget and the cap on pins are needed together. The assumption says of the
prefixes of a context that the longest of any of them has the others as prefixes:
the longest held one, which the code searches for, is then unique.

**Chat stream** (`ChatStream_proofs`; `ChatStreamAssumption`). `NothingLost`: while
the task relays and the client is there, what was heard and what waits in the
channel are together what the worker sent. `Concluding` ties the outcome to the reply, `LettingGo` the
wasted events to the closed reply channel. Theorems: `AlwaysHearsTheWholeTurn`,
`AlwaysStopsAtNextBoundary` and `AlwaysSpellsTheText`, for any vocabulary: what a
decoder reads of a byte depends on the byte before it and the byte after it, so text
that does not end in half a character stays as it is when tokens are appended, and
the deltas sent join to the text held back until then.

**Constrained decoding** (`Decode_proofs`; `ConstrainAssumption`,
`DecodeAssumption`: natural ids, an end token among the model's rows, schemas made of
byte strings). The invariant `Decoding` says where a cursor can be (`Live`): short of
the end of some spelling of its segment, or inside a free string with the bits of a
character begun that can still become a legal scalar. `StepLive` shows that a byte leads
from a live place to a live one or is refused, `StepGoes` that some byte always goes
on. For a character begun this is `ReachableGoes`: where some scalar begins with the
bits so far, in range, no surrogate and not overlong, one more group of six bits leads
there, which is what makes the code's test of a range at every byte sufficient.
`CompileTyped` shows that what `compile` accepts is a program with no empty choice and
no empty spelling. Since every byte has a token of its own, a live place allows a token:
`NeverStuckAlways`, for every schema, vocabulary and choice of tokens. `PlanPermits`,
that the mask stored as its smaller side reads back as the tokens allowed, gives
`MaskAlwaysTheGrammar`.

Two theorems that no run states (TLC was given both on the instance of `decode`
before they were proved). `TextAlwaysDecidesThePlace`: a walk over
joined texts is a walk over one and then the other (`WalkConcat`), so while a
generation goes on its cursor is where its text leads from the start, however the
text is split into tokens and whether it was generated or resumed from a
description; and a report that stops is at the end of its document. It needs that no
token before the end is the end token, and that every prefix of tokens that lead
somewhere leads somewhere (`AdvancePrefix`), for the descriptions reports resume from:
together `Following`. `MaskNeverRefused`: a token picked under the mask is never
refused by `accept`. It has an antecedent, `EndIsUnwritten`, that the base vocabulary
does not list the end of text; section 6 says why. The instance of `decode` satisfies
it (`EndWritesNothing`).

**Schedules** (`Schedules_proofs`; `SchedulesAssumption`, `WordsAssumption`).
`WordsAssumption` says that no text and no system turn carries the token that ends
a turn, and that a reply carries it last and nowhere else: `refuse_control`
(`chat.rs:53`) and `validate_text` (`chat.rs:367`) refuse it in what callers write,
the loader refuses it in a spec (`adjudicator.rs:158`), and generation stops at the
first one. It also types what closes a report, and the loaded specs. Everything else a text may contain, the token that starts a turn
included: a boundary is recognised by what stands before it.
The run computes with small sequences; a proof for all of them needs induction over
sequences, which is stated over sets (`NatInduct`, `SeqInduct`, from the least
number outside a set). From it follow the facts the recursion of `FlattenSeq` gives:
joined chunks spell the ids they were cut from, and where each one starts
(`ChunksSpell`, `FlatConcat`, `ChunkIs`). `Scratch` finds the boundaries again from the
ids alone, so a path is canonical when its chunks spell its ids and start where
`Scratch` would cut (`PathIsScratch`); a turn appended to a canonical path, a reply
appended token by token and a context built from any covered prefix keep it
so. `Inv` says this of every checkpoint held, of every cached state by its key, and
of the job under way, whose path was looked up before a pause and is published
after it. Theorems: `HeldStatesAlwaysCanonical`, `ReadsNeverDependOnCaches`.
Two more compare a read with what goes over the same ids another way: a report that
resumes from a description the read left, and a probe. A described state is keyed
by its spec and ids, and an input that quotes the spec's block after what reads as
a chat could give a prompt and a fork of that chat the same ids and different chunks
(the situation of `twin_described`, section 6). So `EscalationsAlwaysFresh` and
`ProbesAlwaysReplayReads` assume `NothingQuoted`, that no spec's plain prompt ends
as a read of a checkpoint does; nothing in the code refuses such an input.
`MCSchedules` assumes it as `InputsQuoteNothing`, which TLC evaluates, so the run's
instance satisfies it. The first follows from `Inv`: under it a described key names
one path. The second needs `Whole`, that what is cached under a spec is at least
the spec's prefix long, for the probes of held ids.

**Process** (`Daemon_proofs`; `DaemonAssumption`: finitely many connections, at
least one listener). `IInv` is the properties with the ownership of jobs (each
queued or taken job has a caller that is waiting or was disconnected), the order
of the signal task's stores, `GaugeCovers` (the gauge covers the tasks between
raising it and sending, so a decrement never wraps, panics included),
`MarkedAfterDrop` (a mark implies a dropped engine) and `Ending`: nobody is
connected before main serves, only the end of the process cuts a connection off, and
a worker's mark means that no handle is left, so nobody is connected when main has
seen both. Theorems: type correctness, `GaugeAlwaysCounts`, `AlwaysCutOffForCause`
(an accepted encoder request fails only by a panic of its worker; the exit cuts a
connection off only past the cap or after a panic), `ExitAlwaysMeansIt` (an exit that
saw both workers done leaves no engine and cuts nobody off, even past the cap; an
exit by a monitor follows a panic), and, stated by no run,
`AlwaysUnreadyBeforeClosing` and `DrainAlwaysLeavesNobody`, for any number of
connections and listeners.

## 5. What is only model-checked

- Every liveness property (`ReadsAnswered`, `StreamsEnd`, `CallersHear` and the
  others): fairness is stated with ENABLED, which is out of the prover's reach.
- `AdmitsExactlyDocuments`, `FinishedReportsValidate` and `SlotsAreSlots` compare the
  automaton with a reference that cuts texts by folds (`Documents`): that the two agree
  on every text is an induction over the reference's own data, key by key and unit by
  unit. What is proved of the automaton alone is above.
- The properties of `Requests`. The modules under it are recursive (values within
  values, spans, prompts), and say what folds compute from every input.
- Of an input that quotes a spec's block the project says nothing for
  `EscalationsAreFresh` and `ProbesReplayReads`: the theorems assume there is none, and
  the run has none.

## 6. Findings

- **A turn's user checkpoint can be gone when the turn is answered**
  (`answered_turn`). The startup check says both checkpoints of a turn always
  fit. Other checkpoints held between the two make the second evict by age, and
  the first is then the oldest that may go: a pinned context stays, and reads at
  the turn's pauses make older checkpoints the more recently used.
- **Two contexts of the same ids share a described state** (`twin_described`). A
  chat checkpoint and a held context have ids of their own because they are
  different computations of the same tokens, but the key of a described state is
  the prompt's ids: a read of one is answered from the description of the other.

Seen while modelling, stated in no run:

- A turn copies the specs its base was read with before the pauses of its
  prefill (`adjudicator.rs:2863`); a read of the base served at one of them marks
  the base and neither checkpoint of the turn.
- A refused pin is not without effect (`adjudicator.rs:2764`): the context built
  for it is removed again, the entries its insertion evicted do not come back.
- The drain waits for connections, not for commands whose client left before
  (`main.rs:245`), so the bounded wait for the workers can run out although no
  request outlived the drain.
- A choice is scored by its raw text (`adjudicator.rs:3428`) while the grammar
  writes its JSON spelling (`constrain.rs:568`); they differ for an option with a
  quote, a backslash or a control character.
- `split_options` refuses an option only when nothing of it is left to score. Where
  one continuation begins another, the mass of the sequences can exceed the mass of
  their first tokens; `OptionsSplit` has its absence as a condition.
- Facts ending in `<` before a label beginning with `|` put a control marker
  together (`opinion_api.rs:64`).
- So do a fixed question's texts: prefill, options and close are checked apart
  (`opinion.rs:58`) and encoded joined (`opinion.rs:142`), so that an option ending in
  `<` before a close beginning with `|` passes.
- An empty route pools to the zero vector, says `routing.rs:25`. Its range is a point,
  and a token that begins before it and ends after it, as one of the space and the
  newline around it would, overlaps it and is pooled (`routing.rs:294`).
- A checkpoint's tokens rendered and encoded again are the same only if no message
  carries the text of a control token.
- Streamed deltas include the text of the end token; the final text does not.
- The end token is found by its text (`adjudicator.rs:1143`), and nothing checks that the
  base vocabulary leaves it out. `constrain.rs:155` takes that from the tokenizer
  file; where the file lists the end token in its base vocabulary too, its letters are a
  text that a free string admits, the mask permits it, and `accept` refuses it as an end
  before the report closed. `MaskNeverRefused` has its absence as antecedent.
- `snapshot_id` does not cover whether a schema's text was declared as a schema or
  written into the system prompt; the prompts are the same.
- Two heads of different kinds may share an id, which the list of models then
  shows twice and the tokenizer registry holds once (`tokenize_api.rs:32`).
- Of equal maxima, `predict_label` and `firing_clause` name the last, `argmax` of a
  pool and a step's report the first.

## 7. Not modelled, and why

Tensors: the forward passes of both kinds of model, the rows they give and the
activations a probe may capture; a row is what it was read after, or naturals.
Floating-point rounding: probabilities are exact ratios. Real tokenizers and
Unicode: a small alphabet with the cases that matter to the code's own arithmetic.
Metrics, logging, file hashing, the stub engine, and the wording of errors: written
only. Failure inside a chunk of model work is an action everywhere it can happen;
what the device does is not. Poisoned locks: a panic on a worker thread ends the
process through its monitor. The instruments are separate command-line programs.
The demo is a client.

## 8. Plan

1. That the automaton and the reference of `Documents` agree on the program of one
   segment, for every text; then `SlotsAreSlots` from `TextAlwaysDecidesThePlace`.
2. An abstract process (requests answered once, one end) that `Daemon` refines,
   and an abstract priority queue that `Worker` refines.
3. `Pooling` proved apart from `Requests`.
4. `Council`: the demo's engine thread, pinned contexts and subscribers.
