---------------------------- MODULE Adjudicator ----------------------------
(***************************************************************************)
(* What the adjudicator keeps between jobs and how jobs change it          *)
(* (lfm2d/src/adjudicator.rs: Adjudicator, StateCache, SpecStore): the     *)
(* chat checkpoints and held contexts, the cached states derived from      *)
(* them and from specs, the uploaded specs, the specs each checkpoint has  *)
(* been read with, and the background tail prefills they ask for.          *)
(*                                                                         *)
(* Model work is left out: a job's stages are the stretches of work in     *)
(* which it pauses.  Reads run whole at those pauses, as Worker shows      *)
(* (pauses nest once, only reads are served there); the steps of a read    *)
(* and of a job's own bookkeeping have nothing in between them.            *)
(***************************************************************************)
EXTENDS Naturals, Sequences, FiniteSets, Subsequence

CONSTANTS
  Checkpoints,    \* ids of chat checkpoints and held contexts
  Contexts,       \* those that are held contexts
  Prefixes,       \* Prefixes[c]: the contexts that are a prefix of context c
  Turns,          \* chat turns: [from, user, reply], from a checkpoint or None
  SpecOrder,      \* every spec, in the order of their ids; all have a schema
  BootSpecs,      \* those loaded at startup
  SpecCapacity,   \* --opinion-spec-capacity
  TailReadable,   \* the specs that list no tools
  Prompts,        \* prompts read without a checkpoint
  Fields,         \* how many fields a spec asks
  CheckpointSize, \* CheckpointSize[c]: bytes charged
  ChatBudget,     \* --chat-checkpoint-budget-mib
  ChatBytes(_),
  KeySize,        \* KeySize[k]: bytes charged
  StateBudget,    \* --state-cache-budget-mib
  StateBytes(_),
  DescribedCapacity, \* DESCRIBED_CACHE_CAPACITY
  NoGroup, None

Specs == {SpecOrder[i] : i \in DOMAIN SpecOrder}

\* What an entry of the state cache is held under.
Keys ==
  LET key(kind, at, fields) ==
        [kind : {kind}, spec : Specs, at : at, field : fields]
  IN  key("ready", Prompts, {0})
        \cup key("described", Prompts \cup Checkpoints, 1..Fields)
        \cup key("tail", Checkpoints, {0})

ReadyKey(s, p) == [kind |-> "ready", spec |-> s, at |-> p, field |-> 0]
DescribedKey(s, at, f) ==
  [kind |-> "described", spec |-> s, at |-> at, field |-> f]
TailKey(s, c) == [kind |-> "tail", spec |-> s, at |-> c, field |-> 0]

KeyGroup ==
  [k \in Keys |-> IF k.kind = "tail" THEN NoGroup ELSE <<k.kind, k.spec>>]
CacheGroups == {KeyGroup[k] : k \in Keys} \ {NoGroup}
CacheCap ==
  [g \in CacheGroups |-> IF g[1] = "ready" THEN 1 ELSE DescribedCapacity]

\* The startup checks: the chat budget holds two checkpoints of any length,
\* the state budget any one cached state.
ASSUME StartupAssumption ==
  /\ \A c \in Checkpoints : 2 * CheckpointSize[c] <= ChatBudget
  /\ \A k \in Keys : KeySize[k] <= StateBudget
  /\ SpecCapacity \in Nat \ {0}

\* Of the prefixes of one context, the longest has the others as prefixes.
ASSUME AdjudicatorAssumption ==
  /\ Contexts \subseteq Checkpoints
  /\ Prefixes \in [Contexts -> SUBSET Contexts]
  /\ \A c \in Contexts : \A some \in SUBSET Prefixes[c] \ {{}} :
       \E longest \in some : some \subseteq Prefixes[longest] \cup {longest}
  /\ Turns \subseteq [from : Checkpoints \cup {None},
                      user : Checkpoints \ Contexts,
                      reply : Checkpoints \ Contexts]
  /\ \A t \in Turns : t.user # t.reply
  /\ SpecOrder \in Seq(Specs)
  /\ \A i, j \in DOMAIN SpecOrder : SpecOrder[i] = SpecOrder[j] => i = j
  /\ BootSpecs \subseteq Specs
  /\ TailReadable \subseteq Specs
  /\ Prompts \cap Checkpoints = {}
  /\ None \notin Checkpoints \cup Specs \cup Prompts
  /\ Fields \in Nat
  /\ DescribedCapacity \in Nat

Chats == INSTANCE ByteStore WITH
  Ids <- Checkpoints, Size <- CheckpointSize, Budget <- ChatBudget,
  Group <- [c \in Checkpoints |-> NoGroup], Cap <- [g \in {} |-> 0],
  Bytes <- ChatBytes

\* ChatBytes adds up what the checkpoints are charged.
ASSUME ChatBytesAssumption == Chats!SizeAssumption /\ Chats!BytesAssumption

States == INSTANCE ByteStore WITH
  Ids <- Keys, Size <- KeySize, Budget <- StateBudget,
  Group <- KeyGroup, Cap <- CacheCap, Bytes <- StateBytes
-----------------------------------------------------------------------------
VARIABLES
  chats,      \* the checkpoint store
  readSpecs,  \* readSpecs[c]: the specs checkpoint c was tail-read with
  states,     \* the state cache
  uploads,    \* the uploaded specs, least recently used first
  background, \* the tail prefills waiting, <<checkpoint, spec>>
  job,        \* the job of the paused class on the worker thread
  reading     \* the read on top of it

vars == <<chats, readSpecs, states, uploads, background, job, reading>>

HeldCheckpoints == Chats!Held(chats)
CachedKeys == States!Held(states)
Uploaded == {uploads[i] : i \in DOMAIN uploads}
LoadedSpecs == BootSpecs \cup Uploaded
Tasks == {background[i] : i \in DOMAIN background}

NoJob == [kind |-> "none", stage |-> "none", target |-> None, turn |-> None,
          spec |-> None, specs |-> {}, pin |-> "leave"]
NoRead == [stage |-> "none", spec |-> None, at |-> None, asked |-> {}, left |-> {}]

\* The stages in which a job pauses.
PausingStages == {"prefill", "fill", "reply", "decode"}

\* Mutated forms: a deletion, of a spec or of a context, overtakes a paused
\* job.
Overtakes_Deletes(op) == op \in {"opinion", "probe", "unregister"}
Overtakes_ContextDelete(op) == op \in {"opinion", "probe", "context_delete"}

\* The jobs served at a pause.
Overtakes(op) == op \in {"opinion", "probe"}

Serves(op) ==
  /\ reading = NoRead
  /\ job = NoJob \/ (Overtakes(op) /\ job.stage \in PausingStages)

Runs(kind, stage) ==
  reading = NoRead /\ job.kind = kind /\ job.stage = stage

\* A spec that is used goes to the recent end; a boot spec has no place.
Recent(s) ==
  IF s \in Uploaded THEN Append(Without(uploads, {s}), s) ELSE uploads
-----------------------------------------------------------------------------
\* What a checkpoint that is gone leaves: its tail prefixes and its tasks.
TailsOf(gone) == {k \in Keys : k.kind = "tail" /\ k.at \in gone}
Forgotten(gone) == States!Retained(states, Keys \ TailsOf(gone))
TasksOf(gone) == {task \in Tasks : task[1] \in gone}

\* What a spec that is gone leaves.
ForgottenSpec(s) == States!Retained(states, {k \in Keys : k.spec # s})
SpecTasks(s) == {task \in Tasks : task[2] = s}

\* The tasks a newly held checkpoint queues, after those left.
NewTasks(c, specs) ==
  LET all == [i \in DOMAIN SpecOrder |-> <<c, SpecOrder[i]>>]
  IN  Without(all, Tasks \cup {<<c, s>> : s \in Specs \ specs})

\* Mutated form: the tails of the evicted stay.
Remember_Tails(c, gone, specs) ==
  /\ UNCHANGED states
  /\ background' =
       Without(background, TasksOf(gone)) \o NewTasks(c, specs)
  /\ readSpecs' =
       [x \in Checkpoints |->
          IF x \in gone THEN {}
          ELSE IF x = c /\ c \notin HeldCheckpoints THEN specs
          ELSE readSpecs[x]]

\* What holding c changes beside the store: what the evicted leave goes,
\* and c queues its tasks.  A checkpoint held already keeps its own read
\* specs, though it queues the tasks of the new ones.
Remember(c, gone, specs) ==
  /\ states' = Forgotten(gone)
  /\ background' =
       Without(background, TasksOf(gone)) \o NewTasks(c, specs)
  /\ readSpecs' =
       [x \in Checkpoints |->
          IF x \in gone THEN {}
          ELSE IF x = c /\ c \notin HeldCheckpoints THEN specs
          ELSE readSpecs[x]]

\* hold_checkpoint.  It is never refused: HoldsNeverRefused.
Hold(c, specs) ==
  /\ ~Chats!InsertRefused(chats, c)
  /\ chats' = Chats!Inserted(chats, c)
  /\ Remember(c, Chats!Evicted(chats, c), specs)

\* A checkpoint goes, and what it leaves with it.
Forget(gone) ==
  /\ states' = Forgotten(gone)
  /\ background' = Without(background, TasksOf(gone))
  /\ readSpecs' = [c \in Checkpoints |-> IF c \in gone THEN {} ELSE readSpecs[c]]
-----------------------------------------------------------------------------
Init ==
  /\ chats = Chats!EmptyStore
  /\ readSpecs = [c \in Checkpoints |-> {}]
  /\ states = States!EmptyStore
  /\ uploads = <<>>
  /\ background = <<>>
  /\ job = NoJob
  /\ reading = NoRead

EndJob == job' = NoJob

\* A deadline, a caller that left, the stop, a failure of the model: seen
\* between chunks, and the job ends with nothing more published.
AbandonJob ==
  /\ reading = NoRead
  /\ job.stage \in PausingStages \/ (job.stage = "fills" /\ job.specs # {})
  /\ EndJob
  /\ UNCHANGED <<chats, readSpecs, states, uploads, background, reading>>
-----------------------------------------------------------------------------
(* A chat turn.                                                            *)

Inherited(c) == IF c = None THEN {} ELSE readSpecs[c]

\* The checkpoint continued from is used, whatever comes of the turn: it is
\* refused when it is a context or the turn too long.
RefuseTurn(t) ==
  /\ Serves("chat")
  /\ t.from \in HeldCheckpoints
  /\ chats' = Chats!Touch(chats, t.from)
  /\ UNCHANGED <<readSpecs, states, uploads, background, job, reading>>

BeginTurn(t) ==
  /\ Serves("chat")
  /\ t.from = None \/ t.from \in HeldCheckpoints \ Contexts
  /\ chats' = Chats!Touch(Chats!Touch(chats, t.from), t.user)
  /\ job' = [NoJob EXCEPT !.kind = "chat", !.turn = t, !.target = t.user,
               !.stage = IF t.user \in HeldCheckpoints THEN "fills" ELSE "prefill",
               !.specs = IF t.user \in HeldCheckpoints THEN readSpecs[t.user]
                         ELSE Inherited(t.from)]
  /\ UNCHANGED <<readSpecs, states, uploads, background, reading>>

\* The user's turn is complete: it is held, and its chat's specs are filled
\* on it before it is announced.
HoldUser ==
  /\ Runs("chat", "prefill")
  /\ Hold(job.target, job.specs)
  /\ job' = [job EXCEPT !.stage = "fills"]
  /\ UNCHANGED <<uploads, reading>>

\* tail_prefill has something to do.
NeedsFill(c, s) ==
  /\ TailKey(s, c) \notin CachedKeys
  /\ c \in HeldCheckpoints
  /\ s \in LoadedSpecs \cap TailReadable

FirstOf(specs) ==
  CHOOSE s \in specs :
    \E i \in DOMAIN SpecOrder :
      /\ SpecOrder[i] = s
      /\ \A j \in 1..(i-1) : SpecOrder[j] \notin specs

StartFill ==
  /\ Runs("chat", "fills")
  /\ job.specs # {}
  /\ LET s == FirstOf(job.specs)
     IN  job' = [job EXCEPT !.specs = @ \ {s},
                   !.stage = IF NeedsFill(job.target, s) THEN "fill" ELSE "fills",
                   !.spec = IF NeedsFill(job.target, s) THEN s ELSE None]
  /\ UNCHANGED <<chats, readSpecs, states, uploads, background, reading>>

\* A fill that fails is logged, and the turn goes on.
EndFill ==
  /\ Runs("chat", "fill")
  /\ \/ states' = States!Inserted(states, TailKey(job.spec, job.target))
     \/ UNCHANGED states
  /\ job' = [job EXCEPT !.stage = "fills", !.spec = None]
  /\ UNCHANGED <<chats, readSpecs, uploads, background, reading>>

Announce ==
  /\ Runs("chat", "fills")
  /\ job.specs = {}
  /\ background' = Without(background, TasksOf({job.target}))
  /\ job' = [job EXCEPT !.stage = "reply"]
  /\ UNCHANGED <<chats, readSpecs, states, uploads, reading>>

\* The reply reached max_tokens: no second checkpoint.
AnswerAtLength ==
  /\ Runs("chat", "reply")
  /\ EndJob
  /\ UNCHANGED <<chats, readSpecs, states, uploads, background, reading>>

\* Mutated form: what was read while the reply was generated is not passed
\* on.
Answer_AsAnnounced ==
  /\ Runs("chat", "reply")
  /\ Hold(job.turn.reply, Inherited(job.turn.from))
  /\ EndJob
  /\ UNCHANGED <<uploads, reading>>

\* The reply stopped: the response names both checkpoints.
Answer ==
  /\ Runs("chat", "reply")
  /\ Hold(job.turn.reply, readSpecs[job.target])
  /\ EndJob
  /\ UNCHANGED <<uploads, reading>>
-----------------------------------------------------------------------------
(* Held contexts.                                                          *)

Pins == {"leave", "pin", "unpin"}

PinFails(store, c, pin) == pin = "pin" /\ Chats!PinRefused(store, c)

Pinned(store, c, pin) ==
  IF pin = "leave" THEN store ELSE Chats!SetPinned(store, c, pin = "pin")

\* The context is held already: only the pin is left to do.
FindContext(c, pin) ==
  /\ Serves("context_create")
  /\ c \in HeldCheckpoints
  /\ LET found == Chats!Touch(chats, c)
     IN  chats' = IF PinFails(found, c, pin) THEN found ELSE Pinned(found, c, pin)
  /\ UNCHANGED <<readSpecs, states, uploads, background, job, reading>>

\* The build starts from the longest held context that is a prefix.
LongestHeldPrefix(c) ==
  LET held == Prefixes[c] \cap HeldCheckpoints
  IN  IF held = {} THEN None
      ELSE CHOOSE x \in held : held \subseteq Prefixes[x] \cup {x}

BeginContext(c, pin) ==
  /\ Serves("context_create")
  /\ c \notin HeldCheckpoints
  /\ job' = [NoJob EXCEPT !.kind = "context", !.stage = "prefill",
               !.target = c, !.pin = pin,
               !.specs = Inherited(LongestHeldPrefix(c))]
  /\ UNCHANGED <<chats, readSpecs, states, uploads, background, reading>>

HoldContext ==
  LET c == job.target
      held == Chats!Inserted(chats, c)
  IN  /\ Runs("context", "prefill")
      /\ ~Chats!InsertRefused(chats, c)
      /\ ~PinFails(held, c, job.pin)
      /\ chats' = Pinned(held, c, job.pin)
      /\ Remember(c, Chats!Evicted(chats, c), job.specs)
      /\ EndJob
      /\ UNCHANGED <<uploads, reading>>

\* A context just built whose pin is refused goes again.
RefusePin ==
  LET c == job.target
      held == Chats!Inserted(chats, c)
  IN  /\ Runs("context", "prefill")
      /\ ~Chats!InsertRefused(chats, c)
      /\ PinFails(held, c, job.pin)
      /\ chats' = Chats!Drop(held, {c})
      /\ Forget(Chats!Evicted(chats, c) \cup {c})
      /\ EndJob
      /\ UNCHANGED <<uploads, reading>>

DeleteContext(c) ==
  /\ Serves("context_delete")
  /\ c \in HeldCheckpoints
  /\ chats' = Chats!Drop(chats, {c})
  /\ Forget({c})
  /\ UNCHANGED <<uploads, job, reading>>
-----------------------------------------------------------------------------
(* Background tail prefill.                                                *)

\* Tasks with nothing to do are dropped; the first that has some runs.
StartBackground ==
  LET due == {i \in DOMAIN background : NeedsFill(background[i][1], background[i][2])}
  IN  /\ Serves("background")
      /\ background # <<>>
      /\ IF due = {}
         THEN background' = <<>> /\ UNCHANGED job
         ELSE LET first == CHOOSE i \in due : \A j \in due : i <= j
              IN  /\ background' = SubSeq(background, first + 1, Len(background))
                  /\ job' = [NoJob EXCEPT !.kind = "background", !.stage = "fill",
                               !.target = background[first][1],
                               !.spec = background[first][2]]
      /\ UNCHANGED <<chats, readSpecs, states, uploads, reading>>

EndBackground ==
  /\ Runs("background", "fill")
  /\ states' = States!Inserted(states, TailKey(job.spec, job.target))
  /\ EndJob
  /\ UNCHANGED <<chats, readSpecs, uploads, background, reading>>
-----------------------------------------------------------------------------
(* Generative adjudication.                                                *)

HeldDescriptions(s, p) == {f \in 1..Fields : DescribedKey(s, p, f) \in CachedKeys}

\* With the caches: resumed from the deepest description held, else from
\* the ready prompt, else prefilled.  The deepest may be too long to resume
\* from, and is touched all the same; a request for distributions does
\* not look for it.
BeginGenerate(s, p) ==
  LET held == HeldDescriptions(s, p)
      deepest == CHOOSE f \in held : \A g \in held : g <= f
      found == IF held = {} THEN states
               ELSE States!Touch(states, DescribedKey(s, p, deepest))
      begun(stage) == [NoJob EXCEPT !.kind = "generate", !.stage = stage,
                         !.spec = s, !.target = p]
  IN  /\ Serves("generate")
      /\ s \in LoadedSpecs
      /\ uploads' = Recent(s)
      /\ \/ /\ held # {}
            /\ states' = found
            /\ job' = begun("decode")
         \/ /\ \E looked \in {states, found} :
                 states' = States!Touch(looked, ReadyKey(s, p))
            /\ job' = begun(IF ReadyKey(s, p) \in CachedKeys THEN "decode" ELSE "prefill")
      /\ UNCHANGED <<chats, readSpecs, background, reading>>

\* Without the caches, or refused: the spec is used, nothing is kept.
BeginGenerateCold(s) ==
  /\ Serves("generate")
  /\ s \in LoadedSpecs
  /\ uploads' = Recent(s)
  /\ UNCHANGED <<chats, readSpecs, states, background, job, reading>>

PublishReady ==
  /\ Runs("generate", "prefill")
  /\ states' = States!Inserted(states, ReadyKey(job.spec, job.target))
  /\ job' = [job EXCEPT !.stage = "decode"]
  /\ UNCHANGED <<chats, readSpecs, uploads, background, reading>>

EndGenerate ==
  /\ Runs("generate", "decode")
  /\ EndJob
  /\ UNCHANGED <<chats, readSpecs, states, uploads, background, reading>>
-----------------------------------------------------------------------------
(* Registration and deletion of specs.                                     *)

\* A spec not loaded: the least recently used upload makes room, and leaves
\* nothing.
Register(s) ==
  /\ Serves("register")
  /\ s \notin LoadedSpecs
  /\ IF Len(uploads) >= SpecCapacity
     THEN /\ uploads' = Append(Tail(uploads), s)
          /\ states' = ForgottenSpec(uploads[1])
          /\ background' = Without(background, SpecTasks(uploads[1]))
     ELSE /\ uploads' = Append(uploads, s)
          /\ UNCHANGED <<states, background>>
  /\ UNCHANGED <<chats, readSpecs, job, reading>>

\* Registered again, or found by a probe: a use.
UseSpec(s, op) ==
  /\ Serves(op)
  /\ s \in LoadedSpecs
  /\ uploads' = Recent(s)
  /\ UNCHANGED <<chats, readSpecs, states, background, job, reading>>

Unregister(s) ==
  /\ Serves("unregister")
  /\ s \in Uploaded \ BootSpecs
  /\ uploads' = Without(uploads, {s})
  /\ states' = ForgottenSpec(s)
  /\ background' = Without(background, SpecTasks(s))
  /\ UNCHANGED <<chats, readSpecs, job, reading>>
-----------------------------------------------------------------------------
(* Reads.                                                                  *)

ReadAt(s, at) ==
  /\ Serves("opinion")
  /\ s \in LoadedSpecs
  /\ uploads' = Recent(s)
  /\ chats' = IF s \in TailReadable THEN Chats!Touch(chats, at) ELSE chats

\* A read without the caches, or refused: what it names is used, no more.
ReadCold(s, at) ==
  /\ ReadAt(s, at)
  /\ UNCHANGED <<readSpecs, states, background, job, reading>>

\* asked: the fields asked, in order; none is an adjudication's opinion.
BeginRead(s, at, asked) ==
  /\ ReadAt(s, at)
  /\ at \in Checkpoints => asked # {} /\ s \in TailReadable /\ at \in HeldCheckpoints
  /\ reading' = [stage |-> IF asked = {} THEN "prefill" ELSE "lookup",
                 spec |-> s, at |-> at, asked |-> asked, left |-> asked]
  /\ UNCHANGED <<readSpecs, states, background, job>>

NextField == CHOOSE f \in reading.left : \A g \in reading.left : f <= g
ReadKey == DescribedKey(reading.spec, reading.at, NextField)
OnTail == reading.at \in Checkpoints

\* Every slot held is a hit; the first that is not ends the lookup.
LookUp ==
  /\ reading.stage = "lookup"
  /\ states' = States!Touch(states, ReadKey)
  /\ reading' =
       IF ReadKey \notin CachedKeys
       THEN [reading EXCEPT !.stage = "prefill"]
       ELSE IF reading.left = {NextField} THEN NoRead
       ELSE [reading EXCEPT !.left = @ \ {NextField}]
  /\ UNCHANGED <<chats, readSpecs, uploads, background, job>>

\* The head: the tail prefix or the ready prompt, found or prefilled.
Prefill ==
  /\ reading.stage = "prefill"
  /\ states' =
       States!Inserted(states,
         IF OnTail THEN TailKey(reading.spec, reading.at)
                   ELSE ReadyKey(reading.spec, reading.at))
  /\ reading' = IF reading.asked = {} THEN NoRead
                ELSE [reading EXCEPT !.stage = IF OnTail THEN "mark" ELSE "describe",
                                     !.left = reading.asked]
  /\ UNCHANGED <<chats, readSpecs, uploads, background, job>>

\* The read turn is prefilled: the checkpoint remembers the spec.
Mark ==
  /\ reading.stage = "mark"
  /\ readSpecs' = [readSpecs EXCEPT ![reading.at] = @ \cup {reading.spec}]
  /\ reading' = [reading EXCEPT !.stage = "describe"]
  /\ UNCHANGED <<chats, states, uploads, background, job>>

Describe ==
  /\ reading.stage = "describe"
  /\ states' = States!Inserted(states, ReadKey)
  /\ reading' = IF reading.left = {NextField} THEN NoRead
                ELSE [reading EXCEPT !.left = @ \ {NextField}]
  /\ UNCHANGED <<chats, readSpecs, uploads, background, job>>

\* A deadline, a caller that left, a failure: seen between any two chunks.
AbandonRead ==
  /\ reading # NoRead
  /\ reading' = NoRead
  /\ UNCHANGED <<chats, readSpecs, states, uploads, background, job>>
-----------------------------------------------------------------------------
ChatStep ==
  \/ \E t \in Turns : RefuseTurn(t) \/ BeginTurn(t)
  \/ HoldUser \/ StartFill \/ EndFill \/ Announce \/ AnswerAtLength \/ Answer

ContextStep ==
  \/ \E c \in Contexts :
       \/ \E pin \in Pins : FindContext(c, pin) \/ BeginContext(c, pin)
       \/ DeleteContext(c)
  \/ HoldContext \/ RefusePin

SpecStep ==
  \E s \in Specs :
    \/ Register(s) \/ Unregister(s)
    \/ \E op \in {"register", "probe"} : UseSpec(s, op)

GenerateStep ==
  \/ \E s \in Specs :
       BeginGenerateCold(s) \/ \E p \in Prompts : BeginGenerate(s, p)
  \/ PublishReady \/ EndGenerate

ReadStep ==
  \/ \E s \in Specs, at \in Prompts \cup Checkpoints :
       ReadCold(s, at) \/ \E asked \in SUBSET (1..Fields) : BeginRead(s, at, asked)
  \/ LookUp \/ Prefill \/ Mark \/ Describe \/ AbandonRead

Next ==
  \/ ChatStep \/ ContextStep \/ SpecStep \/ GenerateStep \/ ReadStep
  \/ StartBackground \/ EndBackground \/ AbandonJob

Spec == Init /\ [][Next]_vars
-----------------------------------------------------------------------------
\* Nothing is cached for a spec that is not loaded: not by a deletion or an
\* eviction that left something, nor by a generation that paused before it
\* published.
CachedSpecsLoaded == \A k \in CachedKeys : k.spec \in LoadedSpecs

\* A tail prefix is never left without the checkpoint it continues, nor
\* published on one that went while the prefill paused.
TailsOnHeld ==
  \A k \in CachedKeys : k.kind = "tail" => k.at \in HeldCheckpoints

\* Each waiting prefill waits once, for a checkpoint that is held.
TasksOnHeld ==
  \A i, j \in DOMAIN background :
    /\ background[i][1] \in HeldCheckpoints
    /\ background[i] = background[j] => i = j

\* Whatever path takes a checkpoint away, an eviction, a deletion, a refused
\* pin, takes with it what hangs off it: no tail prefix and no waiting
\* prefill is left behind (hold_checkpoint, forget_checkpoint).
NoOrphans == TailsOnHeld /\ TasksOnHeld

\* What a job or a read works on stays while it works: the user checkpoint
\* of the turn being answered may be forked, the spec of a paused
\* generation or prefill is still loaded.
NothingPulledAway ==
  /\ job.kind = "chat" /\ job.stage # "prefill" => job.target \in HeldCheckpoints
  /\ job.kind = "background" => job.target \in HeldCheckpoints
  /\ job.kind = "context" => job.target \notin HeldCheckpoints
  /\ job.spec \in LoadedSpecs \cup {None}
  /\ reading # NoRead =>
       /\ reading.spec \in LoadedSpecs
       /\ OnTail => reading.at \in HeldCheckpoints

\* The startup checks and the cap on pins leave room for every checkpoint: a
\* turn is never answered 507, and a turn that began can always end.
HoldsNeverRefused == \A c \in Checkpoints : ~Chats!InsertRefused(chats, c)

\* What was read on the user checkpoint, before the turn or while its reply
\* was generated, is queued for the reply's checkpoint.
ReadsFollowTheChat ==
  [][Answer => \A s \in readSpecs[job.target] :
                 <<job.turn.reply, s>> \in {background'[i] : i \in DOMAIN background'}]_vars
-----------------------------------------------------------------------------
(* What a comment says and the code does not keep.                          *)

\* The startup check's comment: both checkpoints of a turn fit, so a turn's
\* second never evicts its first before the response names it.
AnsweredTurnHeld ==
  [][Answer => {job.target, job.turn.reply} \subseteq Chats!Held(chats')]_vars

=============================================================================
