------------------------- MODULE Adjudicator_proofs -------------------------
(***************************************************************************)
(* What the adjudicator keeps between jobs stays consistent, for every set *)
(* of checkpoints, specs, prompts and turns, every size and every budget   *)
(* the startup checks let through.                                         *)
(***************************************************************************)
EXTENDS Adjudicator, Subsequence_proofs

\* The checkpoint store keeps its types, and its pins within half its budget.
ChatsOK(s) ==
  /\ s.entries \in Seq(Checkpoints)
  /\ s.pinned \in SUBSET Checkpoints
  /\ Chats!PinnedBytes(s) <= ChatBudget \div 2

StatesOK(s) == s.entries \in Seq(Keys)

\* What the stores, the uploads and the tasks owe each other at any time.
StoreInv ==
  /\ ChatsOK(chats)
  /\ StatesOK(states)
  /\ readSpecs \in [Checkpoints -> SUBSET Specs]
  /\ uploads \in Seq(Specs)
  /\ background \in Seq(Checkpoints \X Specs)
  /\ NoOrphans
  /\ CachedSpecsLoaded

Job ==
  [kind : {"none", "chat", "context", "background", "generate"},
   stage : PausingStages \cup {"none", "fills"},
   target : Checkpoints \cup Prompts \cup {None}, turn : Turns \cup {None},
   spec : Specs \cup {None}, specs : SUBSET Specs, pin : Pins]

\* A job works on what is there: its checkpoint, from the moment it is held,
\* and its spec, where it has one.
JobInv ==
  /\ job \in Job
  /\ job.kind = "chat" =>
       /\ job.turn \in Turns /\ job.target \in Checkpoints
       /\ job.stage # "prefill" => job.target \in HeldCheckpoints
       /\ job.stage = "fill" => job.spec # None
  /\ job.kind = "context" => job.target \in Checkpoints \ HeldCheckpoints
  /\ job.kind = "background" => job.target \in HeldCheckpoints /\ job.spec # None
  /\ job.kind = "generate" => job.target \in Prompts /\ job.spec # None
  /\ job.spec \in LoadedSpecs \cup {None}

Reading ==
  [stage : {"none", "lookup", "prefill", "mark", "describe"},
   spec : Specs \cup {None}, at : Checkpoints \cup Prompts \cup {None},
   asked : SUBSET (1..Fields), left : SUBSET (1..Fields)]

\* So does a read; a field is left to describe while it describes.
ReadInv ==
  /\ reading \in Reading
  /\ reading # NoRead =>
       /\ reading.spec \in LoadedSpecs
       /\ reading.at \in Prompts \cup HeldCheckpoints
  /\ reading.stage \in {"mark", "describe"} => reading.left # {}
  /\ reading.stage = "mark" => OnTail

IInv == StoreInv /\ JobInv /\ ReadInv
-----------------------------------------------------------------------------
(* Both stores remove from their deques as every other deque is removed    *)
(* from.                                                                   *)

LEMMA SameWithout ==
  ASSUME NEW seq, NEW V
  PROVE  /\ Chats!Without(seq, V) = Without(seq, V)
         /\ States!Without(seq, V) = Without(seq, V)
BY DEF Chats!Without, States!Without, Without,
       Chats!Cardinality, States!Cardinality, Cardinality

LEMMA HeldElements ==
  ASSUME NEW s
  PROVE  /\ Chats!Held(s) = ElementsOf(s.entries)
         /\ States!Held(s) = ElementsOf(s.entries)
BY DEF Chats!Held, States!Held, ElementsOf

LEMMA ElementsType ==
  ASSUME NEW S, NEW seq \in Seq(S)
  PROVE  ElementsOf(seq) \in SUBSET S
BY LenProperties DEF ElementsOf

\* A part of a set of checkpoints has no more bytes than the whole, and one
\* checkpoint more adds its own.
LEMMA ChatBytesFacts ==
  /\ ChatBudget \in Nat
  /\ \A c \in Checkpoints : CheckpointSize[c] \in Nat
  /\ \A S \in SUBSET Checkpoints : ChatBytes(S) \in Nat
  /\ \A S, T \in SUBSET Checkpoints : S \subseteq T => ChatBytes(S) <= ChatBytes(T)
  /\ \A S \in SUBSET Checkpoints, c \in Checkpoints :
       c \notin S => ChatBytes(S \cup {c}) = ChatBytes(S) + CheckpointSize[c]
  /\ ChatBytes({}) = 0
<1>1. /\ ChatBytes({}) = 0
      /\ \A S \in SUBSET Checkpoints : ChatBytes(S) \in Nat
      /\ \A c \in Checkpoints : ChatBytes({c}) = CheckpointSize[c]
      /\ \A S, T \in SUBSET Checkpoints :
           S \cap T = {} => ChatBytes(S \cup T) = ChatBytes(S) + ChatBytes(T)
  BY ChatBytesAssumption DEF Chats!BytesAssumption
<1>2. ChatBudget \in Nat /\ CheckpointSize \in [Checkpoints -> Nat]
  BY ChatBytesAssumption DEF Chats!SizeAssumption
<1>3. ASSUME NEW S \in SUBSET Checkpoints, NEW T \in SUBSET Checkpoints, S \subseteq T
      PROVE  ChatBytes(S) <= ChatBytes(T)
  <2>1. T \ S \in SUBSET Checkpoints /\ S \cap (T \ S) = {} /\ S \cup (T \ S) = T
    BY <1>3
  <2>2. ChatBytes(T) = ChatBytes(S) + ChatBytes(T \ S)
    BY <1>1, <2>1
  <2>3. ChatBytes(T) \in Nat /\ ChatBytes(S) \in Nat /\ ChatBytes(T \ S) \in Nat
    BY <1>1, <2>1
  <2> QED BY <2>2, <2>3
<1>4. ASSUME NEW S \in SUBSET Checkpoints, NEW c \in Checkpoints, c \notin S
      PROVE  ChatBytes(S \cup {c}) = ChatBytes(S) + CheckpointSize[c]
  <2>1. {c} \in SUBSET Checkpoints /\ S \cap {c} = {}
    BY <1>4
  <2>2. ChatBytes(S \cup {c}) = ChatBytes(S) + ChatBytes({c})
    BY <1>1, <2>1
  <2> QED BY <1>1, <2>2
<1> QED BY <1>1, <1>2, <1>3, <1>4
-----------------------------------------------------------------------------
(* What the operations of the checkpoint store do to it.                   *)

LEMMA TouchChats ==
  ASSUME NEW s, ChatsOK(s), NEW c
  PROVE  ChatsOK(Chats!Touch(s, c)) /\ Chats!Held(Chats!Touch(s, c)) = Chats!Held(s)
<1>1. CASE c \notin Chats!Held(s)
  BY <1>1 DEF Chats!Touch
<1>2. CASE c \in Chats!Held(s)
  <2> DEFINE t == Chats!Touch(s, c)
             rest == Without(s.entries, {c})
  <2>1. t.entries = Append(rest, c) /\ t.pinned = s.pinned
    BY <1>2, SameWithout DEF Chats!Touch
  <2>2. s.entries \in Seq(Checkpoints) /\ c \in Checkpoints /\ c \in ElementsOf(s.entries)
    BY <1>2, HeldElements, ElementsType DEF ChatsOK
  <2>3. rest \in Seq(Checkpoints) /\ ElementsOf(rest) = ElementsOf(s.entries) \ {c}
    BY <2>2, WithoutProperties
  <2> HIDE DEF rest
  <2>4. /\ Append(rest, c) \in Seq(Checkpoints)
        /\ ElementsOf(Append(rest, c)) = ElementsOf(rest) \cup {c}
    BY <2>2, <2>3, AppendElements
  <2> HIDE DEF t
  <2>5. ElementsOf(t.entries) = ElementsOf(s.entries)
    BY <2>1, <2>2, <2>3, <2>4
  <2>6. Chats!Held(t) = Chats!Held(s)
    BY <2>5, HeldElements
  <2>7. ChatsOK(t)
    BY <2>1, <2>4 DEF ChatsOK, Chats!PinnedBytes
  <2> QED BY <2>6, <2>7 DEF t
<1> QED BY <1>1, <1>2

LEMMA DropChats ==
  ASSUME NEW s, ChatsOK(s), NEW V
  PROVE  /\ ChatsOK(Chats!Drop(s, V))
         /\ Chats!Held(Chats!Drop(s, V)) = Chats!Held(s) \ V
<1> DEFINE t == Chats!Drop(s, V)
           gone == V \cap Chats!Held(s)
           rest == Without(s.entries, gone)
<1>1. t.entries = rest /\ t.pinned = s.pinned \ gone
  BY SameWithout DEF Chats!Drop
<1>2. s.entries \in Seq(Checkpoints) /\ s.pinned \in SUBSET Checkpoints
  BY DEF ChatsOK
<1>3. rest \in Seq(Checkpoints) /\ ElementsOf(rest) = ElementsOf(s.entries) \ gone
  <2> HIDE DEF gone
  <2> QED BY <1>2, WithoutProperties
<1> HIDE DEF rest, t
<1>4. Chats!Held(t) = Chats!Held(s) \ V
  BY <1>1, <1>3, HeldElements
<1>5. Chats!PinnedBytes(t) <= ChatBudget \div 2
  <2>1. ChatBytes(s.pinned) <= ChatBudget \div 2 /\ ChatBudget \div 2 \in Int
    BY ChatBytesFacts DEF ChatsOK, Chats!PinnedBytes
  <2>2. t.pinned \in SUBSET Checkpoints /\ t.pinned \subseteq s.pinned
    BY <1>1, <1>2
  <2>3. /\ ChatBytes(t.pinned) <= ChatBytes(s.pinned)
        /\ ChatBytes(t.pinned) \in Nat /\ ChatBytes(s.pinned) \in Nat
    BY <1>2, <2>2, ChatBytesFacts
  <2> QED BY <2>1, <2>3 DEF Chats!PinnedBytes
<1>6. ChatsOK(t)
  BY <1>1, <1>2, <1>3, <1>5 DEF ChatsOK
<1> QED BY <1>4, <1>6 DEF t

\* A hold evicts others only, and holds what it was asked to.
LEMMA InsertChats ==
  ASSUME NEW s, ChatsOK(s), NEW c \in Checkpoints
  PROVE  LET t == Chats!Inserted(s, c)
             gone == Chats!Evicted(s, c)
         IN  /\ ChatsOK(t)
             /\ c \notin gone
             /\ Chats!Held(t) = (Chats!Held(s) \ gone) \cup {c}
<1> DEFINE t == Chats!Inserted(s, c)
           gone == Chats!Evicted(s, c)
<1>1. CASE c \in Chats!Held(s)
  <2>1. t = Chats!Touch(s, c) /\ gone = {}
    BY <1>1 DEF Chats!Inserted, Chats!Evicted
  <2> QED BY <1>1, <2>1, TouchChats
<1>2. CASE c \notin Chats!Held(s)
  <2> DEFINE left == Chats!Drop(s, Chats!Victims(s, c))
  <2>1. ~Chats!HoldsNothing(c)
    BY DEF Chats!HoldsNothing
  <2>2. /\ gone = Chats!Victims(s, c)
        /\ t.entries = Append(left.entries, c) /\ t.pinned = left.pinned
    BY <1>2, <2>1 DEF Chats!Inserted, Chats!Evicted
  <2>3. ChatsOK(left) /\ Chats!Held(left) = Chats!Held(s) \ Chats!Victims(s, c)
    BY DropChats
  <2>4. Chats!Victims(s, c) \subseteq Chats!Held(s)
    <3>1. Chats!GroupVictims(s, c) \subseteq Chats!Held(s)
      BY DEF Chats!GroupVictims, Chats!GroupMates
    <3>2. Chats!BudgetVictims(s, c) \subseteq Chats!Held(Chats!Drop(s, Chats!GroupVictims(s, c)))
      BY DEF Chats!BudgetVictims
    <3>3. Chats!Held(Chats!Drop(s, Chats!GroupVictims(s, c))) \subseteq Chats!Held(s)
      BY DropChats
    <3> QED BY <3>1, <3>2, <3>3 DEF Chats!Victims
  <2> HIDE DEF left, t, gone
  <2>5. left.entries \in Seq(Checkpoints)
    BY <2>3 DEF ChatsOK
  <2>6. /\ Append(left.entries, c) \in Seq(Checkpoints)
        /\ ElementsOf(Append(left.entries, c)) = ElementsOf(left.entries) \cup {c}
    BY <2>5, AppendElements
  <2>7. Chats!Held(t) = Chats!Held(left) \cup {c}
    BY <2>2, <2>6, HeldElements
  <2>8. ChatsOK(t)
    BY <2>2, <2>3, <2>6 DEF ChatsOK, Chats!PinnedBytes
  <2>9. c \notin gone
    BY <1>2, <2>2, <2>4
  <2>10. Chats!Held(t) = (Chats!Held(s) \ gone) \cup {c}
    BY <2>2, <2>3, <2>7
  <2> QED BY <2>8, <2>9, <2>10 DEF t, gone
<1> QED BY <1>1, <1>2

\* A pin that is not refused stays within half the budget.
LEMMA PinChats ==
  ASSUME NEW s, ChatsOK(s), NEW c \in Checkpoints, NEW pin \in Pins,
         ~PinFails(s, c, pin)
  PROVE  ChatsOK(Pinned(s, c, pin)) /\ Chats!Held(Pinned(s, c, pin)) = Chats!Held(s)
<1>1. CASE pin = "leave"
  BY <1>1 DEF Pinned
<1>2. CASE pin # "leave"
  <2> DEFINE t == Chats!SetPinned(s, c, pin = "pin")
             more == {c} \cap Chats!Held(s)
  <2>1. /\ Pinned(s, c, pin) = t /\ t.entries = s.entries
        /\ t.pinned = IF pin = "pin" THEN s.pinned \cup more ELSE s.pinned \ {c}
    BY <1>2 DEF Pinned, Chats!SetPinned
  <2>2. /\ s.entries \in Seq(Checkpoints) /\ s.pinned \in SUBSET Checkpoints
        /\ ChatBytes(s.pinned) <= ChatBudget \div 2
    BY DEF ChatsOK, Chats!PinnedBytes
  <2> HIDE DEF t
  <2>3. Chats!Held(t) = Chats!Held(s)
    BY <2>1, HeldElements
  <2>4. t.pinned \in SUBSET Checkpoints
    BY <2>1, <2>2
  <2>5. CASE t.pinned \subseteq s.pinned
    <3>1. /\ ChatBytes(t.pinned) <= ChatBytes(s.pinned)
          /\ ChatBytes(t.pinned) \in Nat /\ ChatBytes(s.pinned) \in Nat
          /\ ChatBudget \div 2 \in Int
      BY <2>2, <2>4, <2>5, ChatBytesFacts
    <3>2. ChatBytes(t.pinned) <= ChatBudget \div 2
      BY <2>2, <3>1
    <3> QED BY <2>1, <2>2, <2>3, <2>4, <3>2 DEF ChatsOK, Chats!PinnedBytes
  <2>6. CASE ~(t.pinned \subseteq s.pinned)
    <3>1. pin = "pin" /\ c \in Chats!Held(s) \ s.pinned /\ t.pinned = s.pinned \cup {c}
      BY <2>1, <2>6
    <3>2. ~(ChatBytes(s.pinned) + CheckpointSize[c] > ChatBudget \div 2)
      BY <3>1 DEF PinFails, Chats!PinRefused, Chats!PinnedBytes
    <3>3. /\ ChatBytes(t.pinned) = ChatBytes(s.pinned) + CheckpointSize[c]
          /\ ChatBytes(s.pinned) \in Nat /\ CheckpointSize[c] \in Nat
          /\ ChatBudget \div 2 \in Int
      BY <2>2, <3>1, ChatBytesFacts
    <3>4. ChatBytes(t.pinned) <= ChatBudget \div 2
      BY <3>2, <3>3
    <3> QED BY <2>1, <2>2, <2>3, <2>4, <3>4 DEF ChatsOK, Chats!PinnedBytes
  <2> QED BY <2>5, <2>6
<1> QED BY <1>1, <1>2

\* With pins within half the budget and no checkpoint over the other half,
\* none is refused.
LEMMA NoRefusal ==
  ASSUME NEW s, ChatsOK(s), NEW c \in Checkpoints
  PROVE  ~Chats!InsertRefused(s, c)
<1>1. /\ ChatBytes(s.pinned) \in Nat /\ CheckpointSize[c] \in Nat /\ ChatBudget \in Nat
      /\ ChatBytes(s.pinned) <= ChatBudget \div 2
  BY ChatBytesFacts DEF ChatsOK, Chats!PinnedBytes
<1>2. 2 * CheckpointSize[c] <= ChatBudget
  BY StartupAssumption
<1>3. /\ ~(CheckpointSize[c] > ChatBudget)
      /\ ~(ChatBytes(s.pinned) + CheckpointSize[c] > ChatBudget)
  BY <1>1, <1>2
<1> QED BY <1>3 DEF Chats!InsertRefused, Chats!PinnedBytes
-----------------------------------------------------------------------------
(* What the operations of the state cache do to what is cached.            *)

LEMMA TouchStates ==
  ASSUME NEW s, StatesOK(s), NEW k
  PROVE  StatesOK(States!Touch(s, k)) /\ States!Held(States!Touch(s, k)) = States!Held(s)
<1>1. CASE k \notin States!Held(s)
  BY <1>1 DEF States!Touch
<1>2. CASE k \in States!Held(s)
  <2> DEFINE t == States!Touch(s, k)
             rest == Without(s.entries, {k})
  <2>1. t.entries = Append(rest, k)
    BY <1>2, SameWithout DEF States!Touch
  <2>2. s.entries \in Seq(Keys) /\ k \in Keys /\ k \in ElementsOf(s.entries)
    BY <1>2, HeldElements, ElementsType DEF StatesOK
  <2>3. rest \in Seq(Keys) /\ ElementsOf(rest) = ElementsOf(s.entries) \ {k}
    BY <2>2, WithoutProperties
  <2> HIDE DEF rest
  <2>4. /\ Append(rest, k) \in Seq(Keys)
        /\ ElementsOf(Append(rest, k)) = ElementsOf(rest) \cup {k}
    BY <2>2, <2>3, AppendElements
  <2> HIDE DEF t
  <2>5. ElementsOf(t.entries) = ElementsOf(s.entries)
    BY <2>1, <2>2, <2>3, <2>4
  <2> QED BY <2>1, <2>4, <2>5, HeldElements DEF StatesOK, t
<1> QED BY <1>1, <1>2

\* Whatever it evicts, an insert adds its own key only.
LEMMA InsertStates ==
  ASSUME NEW s, StatesOK(s), NEW k \in Keys
  PROVE  /\ StatesOK(States!Inserted(s, k))
         /\ States!Held(States!Inserted(s, k)) \subseteq States!Held(s) \cup {k}
<1> DEFINE t == States!Inserted(s, k)
<1>1. CASE k \in States!Held(s)
  <2>1. t = States!Touch(s, k)
    BY <1>1 DEF States!Inserted
  <2> QED BY <2>1, TouchStates
<1>2. CASE k \notin States!Held(s) /\ States!HoldsNothing(k)
  <2>1. t = s
    BY <1>2 DEF States!Inserted
  <2> QED BY <2>1
<1>3. CASE k \notin States!Held(s) /\ ~States!HoldsNothing(k)
  <2> DEFINE gone == States!Victims(s, k) \cap States!Held(s)
             rest == Without(s.entries, gone)
  <2>1. t.entries = Append(rest, k)
    BY <1>3, SameWithout DEF States!Inserted, States!Drop
  <2>2. rest \in Seq(Keys) /\ ElementsOf(rest) = ElementsOf(s.entries) \ gone
    <3> HIDE DEF gone
    <3> QED BY WithoutProperties DEF StatesOK
  <2> HIDE DEF rest, t
  <2>3. /\ Append(rest, k) \in Seq(Keys)
        /\ ElementsOf(Append(rest, k)) = ElementsOf(rest) \cup {k}
    BY <2>2, AppendElements
  <2> QED BY <2>1, <2>2, <2>3, HeldElements DEF StatesOK, t
<1> QED BY <1>1, <1>2, <1>3

LEMMA RetainStates ==
  ASSUME NEW s, StatesOK(s), NEW keep
  PROVE  /\ StatesOK(States!Retained(s, keep))
         /\ States!Held(States!Retained(s, keep)) = States!Held(s) \cap keep
<1> DEFINE t == States!Retained(s, keep)
           gone == States!Held(s) \ keep
           rest == Without(s.entries, gone)
<1>1. t.entries = rest
  BY SameWithout DEF States!Retained
<1>2. rest \in Seq(Keys) /\ ElementsOf(rest) = ElementsOf(s.entries) \ gone
  <2> HIDE DEF gone
  <2> QED BY WithoutProperties DEF StatesOK
<1> HIDE DEF rest, t
<1>3. States!Held(t) = States!Held(s) \cap keep
  BY <1>1, <1>2, HeldElements
<1> QED BY <1>1, <1>2, <1>3 DEF StatesOK, t

\* Every key a job or a read publishes or looks for names what it works on.
LEMMA KeyTypes ==
  ASSUME NEW s \in Specs
  PROVE  /\ \A p \in Prompts :
              ReadyKey(s, p) \in Keys /\ ReadyKey(s, p).kind # "tail" /\ ReadyKey(s, p).spec = s
         /\ \A c \in Checkpoints :
              /\ TailKey(s, c) \in Keys
              /\ TailKey(s, c).spec = s /\ TailKey(s, c).at = c
         /\ \A at \in Prompts \cup Checkpoints, f \in 1..Fields :
              /\ DescribedKey(s, at, f) \in Keys
              /\ DescribedKey(s, at, f).kind # "tail" /\ DescribedKey(s, at, f).spec = s
BY DEF ReadyKey, TailKey, DescribedKey, Keys
-----------------------------------------------------------------------------
(* Uploads and tasks.                                                      *)

\* A use moves a spec and loads or unloads none.
LEMMA RecentKeeps ==
  ASSUME uploads \in Seq(Specs), NEW s, uploads' = Recent(s)
  PROVE  uploads' \in Seq(Specs) /\ LoadedSpecs' = LoadedSpecs
<1>1. Uploaded = ElementsOf(uploads) /\ Uploaded \in SUBSET Specs
  BY ElementsType DEF Uploaded, ElementsOf
<1>2. uploads' \in Seq(Specs) /\ ElementsOf(uploads') = Uploaded
  <2>1. CASE s \notin Uploaded
    BY <1>1, <2>1 DEF Recent
  <2>2. CASE s \in Uploaded
    <3> DEFINE rest == Without(uploads, {s})
    <3>1. uploads' = Append(rest, s) /\ s \in Specs
      BY <1>1, <2>2 DEF Recent
    <3>2. rest \in Seq(Specs) /\ ElementsOf(rest) = Uploaded \ {s}
      BY <1>1, WithoutProperties
    <3> HIDE DEF rest
    <3>3. /\ Append(rest, s) \in Seq(Specs)
          /\ ElementsOf(Append(rest, s)) = ElementsOf(rest) \cup {s}
      BY <3>1, <3>2, AppendElements
    <3> QED BY <2>2, <3>1, <3>2, <3>3
  <2> QED BY <2>1, <2>2
<1> QED BY <1>2 DEF LoadedSpecs, Uploaded, ElementsOf

\* The tasks a newly held checkpoint queues: one for every spec named that
\* does not wait already, and none twice.
LEMMA NewTasksFacts ==
  ASSUME NEW c \in Checkpoints, NEW specs \in SUBSET Specs
  PROVE  /\ NewTasks(c, specs) \in Seq(Checkpoints \X Specs)
         /\ Distinct(NewTasks(c, specs))
         /\ ElementsOf(NewTasks(c, specs)) = {<<c, s>> : s \in specs} \ Tasks
<1> DEFINE all == [i \in DOMAIN SpecOrder |-> <<c, SpecOrder[i]>>]
           out == Tasks \cup {<<c, s>> : s \in Specs \ specs}
<1>1. /\ SpecOrder \in Seq(Specs) /\ Len(SpecOrder) \in Nat
      /\ DOMAIN SpecOrder = 1..Len(SpecOrder)
      /\ \A i \in DOMAIN SpecOrder : SpecOrder[i] \in Specs
      /\ \A i, j \in DOMAIN SpecOrder : SpecOrder[i] = SpecOrder[j] => i = j
  BY AdjudicatorAssumption, LenProperties
<1>2. /\ DOMAIN all = DOMAIN SpecOrder
      /\ \A i \in DOMAIN all : all[i] = <<c, SpecOrder[i]>> /\ all[i] \in Checkpoints \X Specs
  BY <1>1
<1>3. all \in Seq(Checkpoints \X Specs)
  <2>1. all \in [1..Len(SpecOrder) -> Checkpoints \X Specs]
    BY <1>1, <1>2
  <2> HIDE DEF all
  <2> QED BY <1>1, <2>1
<1>4. Distinct(all)
  BY <1>1, <1>2 DEF Distinct
<1>5. ElementsOf(all) = {<<c, s>> : s \in Specs}
  BY <1>2 DEF ElementsOf, Specs
<1>6. NewTasks(c, specs) = Without(all, out)
  BY DEF NewTasks
<1> HIDE DEF all, out
<1>7. /\ Without(all, out) \in Seq(Checkpoints \X Specs)
      /\ ElementsOf(Without(all, out)) = ElementsOf(all) \ out
      /\ Distinct(Without(all, out))
  BY <1>3, <1>4, WithoutProperties
<1>8. {<<c, s>> : s \in Specs} \ out = {<<c, s>> : s \in specs} \ Tasks
  BY DEF out
<1> QED BY <1>5, <1>6, <1>7, <1>8

\* TasksOnHeld in terms of the deque's elements.
LEMMA TasksOnHeldForm ==
  TasksOnHeld <=> Distinct(background) /\ \A task \in Tasks : task[1] \in HeldCheckpoints
BY DEF TasksOnHeld, Distinct, Tasks
-----------------------------------------------------------------------------
(* What each kind of step preserves.                                       *)

\* What may be published: states of loaded specs, tails of held checkpoints.
Publishable ==
  {k \in Keys : k.spec \in LoadedSpecs /\ (k.kind = "tail" => k.at \in HeldCheckpoints)}

\* A step that takes no checkpoint and no spec away, publishes only what may
\* be published and queues no task.
LEMMA KeepingStep ==
  ASSUME StoreInv,
         ChatsOK(chats'), HeldCheckpoints' = HeldCheckpoints,
         StatesOK(states'), CachedKeys' \subseteq CachedKeys \cup Publishable,
         readSpecs' \in [Checkpoints -> SUBSET Specs],
         uploads' \in Seq(Specs), LoadedSpecs \subseteq LoadedSpecs',
         background' \in Seq(Checkpoints \X Specs),
         Distinct(background) => Distinct(background'), Tasks' \subseteq Tasks
  PROVE  StoreInv'
<1>1. TailsOnHeld'
  BY DEF StoreInv, NoOrphans, TailsOnHeld, Publishable
<1>2. CachedSpecsLoaded'
  BY DEF StoreInv, CachedSpecsLoaded, Publishable
<1>3. Distinct(background') /\ \A task \in Tasks' : task[1] \in HeldCheckpoints'
  BY TasksOnHeldForm DEF StoreInv, NoOrphans
<1>4. TasksOnHeld'
  BY <1>3 DEF TasksOnHeld, Distinct, Tasks
<1> QED BY <1>1, <1>2, <1>4 DEF StoreInv, NoOrphans, ChatsOK, StatesOK

\* What goes with the checkpoints that are gone leaves no orphan.
LEMMA GoneLeavesNothing ==
  ASSUME StoreInv, NEW gone,
         states' = Forgotten(gone),
         HeldCheckpoints \ gone \subseteq HeldCheckpoints'
  PROVE  /\ StatesOK(states')
         /\ TailsOnHeld'
         /\ CachedKeys' \subseteq CachedKeys
         /\ Without(background, TasksOf(gone)) \in Seq(Checkpoints \X Specs)
         /\ Distinct(Without(background, TasksOf(gone)))
         /\ ElementsOf(Without(background, TasksOf(gone))) = Tasks \ TasksOf(gone)
         /\ \A task \in Tasks \ TasksOf(gone) : task[1] \in HeldCheckpoints'
<1>1. StatesOK(states) /\ background \in Seq(Checkpoints \X Specs)
  BY DEF StoreInv
<1>2. /\ StatesOK(states')
      /\ CachedKeys' = CachedKeys \cap (Keys \ TailsOf(gone))
  BY <1>1, RetainStates DEF Forgotten, CachedKeys
<1>3. TailsOnHeld'
  BY <1>2 DEF StoreInv, NoOrphans, TailsOnHeld, TailsOf
<1>4. Tasks = ElementsOf(background)
  BY DEF Tasks, ElementsOf
<1>5. Distinct(background) /\ \A task \in Tasks : task[1] \in HeldCheckpoints
  BY TasksOnHeldForm DEF StoreInv, NoOrphans
<1>6. \A task \in Tasks \ TasksOf(gone) : task[1] \in HeldCheckpoints'
  BY <1>5 DEF TasksOf
<1> HIDE DEF TasksOf
<1>7. /\ Without(background, TasksOf(gone)) \in Seq(Checkpoints \X Specs)
      /\ Distinct(Without(background, TasksOf(gone)))
      /\ ElementsOf(Without(background, TasksOf(gone))) = Tasks \ TasksOf(gone)
  BY <1>1, <1>4, <1>5, WithoutProperties
<1> QED BY <1>2, <1>3, <1>6, <1>7

\* A checkpoint is held, in place of the evicted and of what they leave.
LEMMA RememberingStep ==
  ASSUME StoreInv, NEW c \in Checkpoints, NEW gone, NEW specs \in SUBSET Specs,
         Remember(c, gone, specs), c \notin gone,
         ChatsOK(chats'), HeldCheckpoints' = (HeldCheckpoints \ gone) \cup {c},
         UNCHANGED uploads
  PROVE  /\ StoreInv'
         /\ \A s \in specs : <<c, s>> \in Tasks'
<1> DEFINE left == Without(background, TasksOf(gone))
           new == NewTasks(c, specs)
<1>1. states' = Forgotten(gone) /\ background' = left \o new
  BY DEF Remember
<1>2. /\ StatesOK(states') /\ TailsOnHeld' /\ CachedKeys' \subseteq CachedKeys
      /\ left \in Seq(Checkpoints \X Specs) /\ Distinct(left)
      /\ ElementsOf(left) = Tasks \ TasksOf(gone)
      /\ \A task \in Tasks \ TasksOf(gone) : task[1] \in HeldCheckpoints'
  BY <1>1, GoneLeavesNothing
<1>3. /\ new \in Seq(Checkpoints \X Specs) /\ Distinct(new)
      /\ ElementsOf(new) = {<<c, s>> : s \in specs} \ Tasks
  BY NewTasksFacts
<1> HIDE DEF left, new
<1>4. /\ background' \in Seq(Checkpoints \X Specs)
      /\ ElementsOf(background') = ElementsOf(left) \cup ElementsOf(new)
      /\ Distinct(background')
  <2>1. ElementsOf(left) \cap ElementsOf(new) = {}
    BY <1>2, <1>3
  <2> QED BY <1>1, <1>2, <1>3, <2>1, ConcatElements
<1>5. Tasks' = (Tasks \ TasksOf(gone)) \cup ({<<c, s>> : s \in specs} \ Tasks)
  BY <1>2, <1>3, <1>4 DEF Tasks, ElementsOf
<1>6. \A task \in Tasks' : task[1] \in HeldCheckpoints'
  BY <1>2, <1>5
<1>7. TasksOnHeld'
  BY <1>4, <1>6 DEF TasksOnHeld, Distinct, Tasks
<1>8. readSpecs' \in [Checkpoints -> SUBSET Specs]
  BY DEF Remember, StoreInv
<1>9. CachedSpecsLoaded'
  BY <1>2 DEF StoreInv, CachedSpecsLoaded, LoadedSpecs, Uploaded
<1>10. \A s \in specs : <<c, s>> \in Tasks'
  BY <1>5 DEF TasksOf
<1> QED BY <1>2, <1>4, <1>7, <1>8, <1>9, <1>10 DEF StoreInv, NoOrphans, ChatsOK, StatesOK

\* Checkpoints go.
LEMMA ForgettingStep ==
  ASSUME StoreInv, NEW gone, Forget(gone),
         ChatsOK(chats'), HeldCheckpoints' = HeldCheckpoints \ gone,
         UNCHANGED uploads
  PROVE  StoreInv'
<1> DEFINE left == Without(background, TasksOf(gone))
<1>1. states' = Forgotten(gone) /\ background' = left
  BY DEF Forget
<1>2. /\ StatesOK(states') /\ TailsOnHeld' /\ CachedKeys' \subseteq CachedKeys
      /\ left \in Seq(Checkpoints \X Specs) /\ Distinct(left)
      /\ ElementsOf(left) = Tasks \ TasksOf(gone)
      /\ \A task \in Tasks \ TasksOf(gone) : task[1] \in HeldCheckpoints'
  BY <1>1, GoneLeavesNothing
<1> HIDE DEF left
<1>3. Tasks' = Tasks \ TasksOf(gone)
  BY <1>1, <1>2 DEF Tasks, ElementsOf
<1>4. \A task \in Tasks' : task[1] \in HeldCheckpoints'
  BY <1>2, <1>3
<1>5. TasksOnHeld'
  BY <1>1, <1>2, <1>4 DEF TasksOnHeld, Distinct, Tasks
<1>6. readSpecs' \in [Checkpoints -> SUBSET Specs]
  BY DEF Forget, StoreInv
<1>7. CachedSpecsLoaded'
  BY <1>2 DEF StoreInv, CachedSpecsLoaded, LoadedSpecs, Uploaded
<1> QED BY <1>1, <1>2, <1>5, <1>6, <1>7 DEF StoreInv, NoOrphans, ChatsOK, StatesOK

\* A spec goes, if any does, and its cached states and its tasks with it.
LEMMA UnloadingStep ==
  ASSUME StoreInv, NEW s,
         states' = ForgottenSpec(s), background' = Without(background, SpecTasks(s)),
         uploads' \in Seq(Specs), LoadedSpecs \ {s} \subseteq LoadedSpecs',
         UNCHANGED <<chats, readSpecs>>
  PROVE  StoreInv'
<1>1. /\ StatesOK(states) /\ background \in Seq(Checkpoints \X Specs)
      /\ ChatsOK(chats) /\ readSpecs \in [Checkpoints -> SUBSET Specs]
  BY DEF StoreInv
<1>2. /\ StatesOK(states')
      /\ CachedKeys' = CachedKeys \cap {k \in Keys : k.spec # s}
  BY <1>1, RetainStates DEF ForgottenSpec, CachedKeys
<1>3. HeldCheckpoints' = HeldCheckpoints
  BY DEF HeldCheckpoints
<1>4. TailsOnHeld' /\ CachedSpecsLoaded'
  BY <1>2, <1>3 DEF StoreInv, NoOrphans, TailsOnHeld, CachedSpecsLoaded
<1>5. Distinct(background) /\ \A task \in Tasks : task[1] \in HeldCheckpoints
  BY TasksOnHeldForm DEF StoreInv, NoOrphans
<1>6. Tasks = ElementsOf(background)
  BY DEF Tasks, ElementsOf
<1> HIDE DEF SpecTasks
<1>7. /\ background' \in Seq(Checkpoints \X Specs) /\ Distinct(background')
      /\ ElementsOf(background') = ElementsOf(background) \ SpecTasks(s)
  BY <1>1, <1>5, WithoutProperties
<1>8. Tasks' \subseteq Tasks
  BY <1>6, <1>7 DEF Tasks, ElementsOf
<1>9. TasksOnHeld'
  BY <1>3, <1>5, <1>7, <1>8 DEF TasksOnHeld, Distinct, Tasks
<1> QED BY <1>1, <1>2, <1>4, <1>7, <1>9 DEF StoreInv, NoOrphans, ChatsOK, StatesOK

\* A job that ends and one that goes on while nothing it works on goes.
LEMMA EndedJob ==
  ASSUME job' = NoJob
  PROVE  JobInv'
BY DEF JobInv, Job, NoJob, Pins

LEMMA KeptJob ==
  ASSUME JobInv, UNCHANGED job,
         HeldCheckpoints' = HeldCheckpoints, LoadedSpecs \subseteq LoadedSpecs'
  PROVE  JobInv'
BY DEF JobInv

LEMMA EndedRead ==
  ASSUME reading' = NoRead
  PROVE  ReadInv'
BY DEF ReadInv, Reading, NoRead

LEMMA KeptRead ==
  ASSUME ReadInv, UNCHANGED reading,
         HeldCheckpoints' = HeldCheckpoints, LoadedSpecs \subseteq LoadedSpecs'
  PROVE  ReadInv'
BY DEF ReadInv, OnTail

LEMMA SameStores ==
  ASSUME StoreInv, UNCHANGED <<chats, readSpecs, states, uploads, background>>
  PROVE  /\ StoreInv'
         /\ HeldCheckpoints' = HeldCheckpoints /\ LoadedSpecs' = LoadedSpecs
BY DEF StoreInv, ChatsOK, StatesOK, NoOrphans, TailsOnHeld, TasksOnHeld,
       CachedSpecsLoaded, HeldCheckpoints, CachedKeys, LoadedSpecs, Uploaded

\* A step that publishes one key and changes no other store.
LEMMA PublishingStep ==
  ASSUME StoreInv, NEW k \in Keys,
         k.spec \in LoadedSpecs, k.kind = "tail" => k.at \in HeldCheckpoints,
         states' = States!Inserted(states, k),
         UNCHANGED <<chats, readSpecs, uploads, background>>
  PROVE  /\ StoreInv'
         /\ HeldCheckpoints' = HeldCheckpoints /\ LoadedSpecs' = LoadedSpecs
<1>1. /\ HeldCheckpoints' = HeldCheckpoints /\ LoadedSpecs' = LoadedSpecs
      /\ Tasks' = Tasks
  BY DEF HeldCheckpoints, LoadedSpecs, Uploaded, Tasks
<1>2. /\ ChatsOK(chats') /\ readSpecs' \in [Checkpoints -> SUBSET Specs]
      /\ uploads' \in Seq(Specs) /\ background' \in Seq(Checkpoints \X Specs)
      /\ StatesOK(states)
  BY DEF StoreInv, ChatsOK
<1>3. StatesOK(states') /\ CachedKeys' \subseteq CachedKeys \cup {k}
  BY <1>2, InsertStates DEF CachedKeys
<1>4. k \in Publishable
  BY DEF Publishable
<1>5. Distinct(background) => Distinct(background')
  BY DEF Distinct
<1>6. StoreInv'
  BY <1>1, <1>2, <1>3, <1>4, <1>5, KeepingStep
<1> QED BY <1>1, <1>6

\* A step that uses a checkpoint, a spec or a cached state.
LEMMA UsingStep ==
  ASSUME StoreInv,
         ChatsOK(chats'), HeldCheckpoints' = HeldCheckpoints,
         StatesOK(states'), CachedKeys' = CachedKeys,
         uploads' \in Seq(Specs), LoadedSpecs' = LoadedSpecs,
         UNCHANGED <<readSpecs, background>>
  PROVE  StoreInv'
<1>1. /\ readSpecs' \in [Checkpoints -> SUBSET Specs]
      /\ background' \in Seq(Checkpoints \X Specs)
      /\ Tasks' = Tasks /\ (Distinct(background) => Distinct(background'))
  BY DEF StoreInv, Tasks, Distinct
<1> QED BY <1>1, KeepingStep

\* A job served is alone on the worker thread, unless it may overtake one.
LEMMA ServesAlone ==
  ASSUME NEW op, Serves(op)
  PROVE  reading = NoRead /\ (~Overtakes(op) => job = NoJob)
BY DEF Serves
-----------------------------------------------------------------------------
(* Every step preserves the invariant.                                     *)

\* A hold of c, by a chat or a context: what remains is the job's own state.
LEMMA HoldStep ==
  ASSUME StoreInv, NEW c \in Checkpoints, NEW specs \in SUBSET Specs,
         Hold(c, specs), UNCHANGED uploads
  PROVE  /\ StoreInv' /\ c \in HeldCheckpoints' /\ LoadedSpecs' = LoadedSpecs
         /\ \A s \in specs : <<c, s>> \in Tasks'
<1> DEFINE gone == Chats!Evicted(chats, c)
<1>1. ChatsOK(chats) /\ chats' = Chats!Inserted(chats, c) /\ Remember(c, gone, specs)
  BY DEF StoreInv, Hold
<1>2. /\ ChatsOK(chats') /\ c \notin gone
      /\ HeldCheckpoints' = (HeldCheckpoints \ gone) \cup {c}
  BY <1>1, InsertChats DEF HeldCheckpoints
<1> HIDE DEF gone
<1>3. StoreInv' /\ \A s \in specs : <<c, s>> \in Tasks'
  BY <1>1, <1>2, RememberingStep
<1>4. LoadedSpecs' = LoadedSpecs
  BY DEF LoadedSpecs, Uploaded
<1> QED BY <1>2, <1>3, <1>4

LEMMA ChatStepKeeps == IInv /\ ChatStep => IInv'
<1> SUFFICES ASSUME IInv, ChatStep PROVE IInv'
  OBVIOUS
<1>1. StoreInv /\ JobInv /\ ReadInv /\ ChatsOK(chats) /\ StatesOK(states)
      /\ uploads \in Seq(Specs) /\ readSpecs \in [Checkpoints -> SUBSET Specs]
  BY DEF IInv, StoreInv
<1>2. ASSUME NEW t \in Turns, RefuseTurn(t)
      PROVE  IInv'
  <2>1. reading = NoRead /\ job = NoJob
    BY <1>2, ServesAlone DEF RefuseTurn, Overtakes
  <2>2. /\ ChatsOK(chats') /\ HeldCheckpoints' = HeldCheckpoints
    BY <1>1, <1>2, TouchChats DEF RefuseTurn, HeldCheckpoints
  <2>3. /\ StatesOK(states') /\ CachedKeys' = CachedKeys
        /\ uploads' \in Seq(Specs) /\ LoadedSpecs' = LoadedSpecs
        /\ UNCHANGED <<readSpecs, background, job, reading>>
    BY <1>1, <1>2 DEF RefuseTurn, StatesOK, CachedKeys, LoadedSpecs, Uploaded
  <2> QED BY <1>1, <2>1, <2>2, <2>3, UsingStep, EndedJob, EndedRead DEF IInv
<1>3. ASSUME NEW t \in Turns, BeginTurn(t)
      PROVE  IInv'
  <2>1. reading = NoRead /\ job = NoJob
    BY <1>3, ServesAlone DEF BeginTurn, Overtakes
  <2>2. ChatsOK(chats') /\ HeldCheckpoints' = HeldCheckpoints
    <3>1. /\ ChatsOK(Chats!Touch(chats, t.from))
          /\ Chats!Held(Chats!Touch(chats, t.from)) = HeldCheckpoints
      BY <1>1, TouchChats DEF HeldCheckpoints
    <3>2. chats' = Chats!Touch(Chats!Touch(chats, t.from), t.user)
      BY <1>3 DEF BeginTurn
    <3> QED BY <3>1, <3>2, TouchChats DEF HeldCheckpoints
  <2>3. /\ StatesOK(states') /\ CachedKeys' = CachedKeys
        /\ uploads' \in Seq(Specs) /\ LoadedSpecs' = LoadedSpecs
        /\ UNCHANGED <<readSpecs, background, reading>>
    BY <1>1, <1>3 DEF BeginTurn, StatesOK, CachedKeys, LoadedSpecs, Uploaded
  <2>4. /\ t.user \in Checkpoints
        /\ t.from = None \/ t.from \in Checkpoints
        /\ readSpecs[t.user] \in SUBSET Specs /\ Inherited(t.from) \in SUBSET Specs
    BY <1>1, AdjudicatorAssumption DEF Inherited
  <2>5. JobInv'
    <3> DEFINE stage == IF t.user \in HeldCheckpoints THEN "fills" ELSE "prefill"
               specs == IF t.user \in HeldCheckpoints THEN readSpecs[t.user]
                        ELSE Inherited(t.from)
    <3>1. job' = [kind |-> "chat", stage |-> stage, target |-> t.user, turn |-> t,
                  spec |-> None, specs |-> specs, pin |-> "leave"]
      BY <1>3 DEF BeginTurn, NoJob
    <3>2. /\ stage \in {"fills", "prefill"} /\ specs \in SUBSET Specs
          /\ stage # "prefill" => t.user \in HeldCheckpoints
      BY <2>4
    <3> HIDE DEF stage, specs
    <3>3. job' \in Job
      BY <2>4, <3>1, <3>2 DEF Job, Pins, PausingStages
    <3>4. /\ job'.kind = "chat" /\ job'.turn \in Turns /\ job'.target = t.user
          /\ job'.stage = stage /\ job'.spec = None
      BY <3>1
    <3> QED BY <2>2, <2>4, <3>2, <3>3, <3>4 DEF JobInv
  <2> QED BY <1>1, <2>1, <2>2, <2>3, <2>5, UsingStep, EndedRead DEF IInv
<1>4. CASE HoldUser
  <2>1. /\ reading' = NoRead /\ job.kind = "chat" /\ job.target \in Checkpoints
        /\ job.specs \in SUBSET Specs /\ UNCHANGED uploads
        /\ Hold(job.target, job.specs) /\ job' = [job EXCEPT !.stage = "fills"]
    BY <1>1, <1>4 DEF HoldUser, Runs, JobInv, Job
  <2>2. StoreInv' /\ job.target \in HeldCheckpoints' /\ LoadedSpecs' = LoadedSpecs
    BY <1>1, <2>1, HoldStep
  <2>3. JobInv'
    BY <1>1, <2>1, <2>2 DEF JobInv, Job
  <2> QED BY <2>1, <2>2, <2>3, EndedRead DEF IInv
<1>5. CASE StartFill
  <2>1. /\ reading' = NoRead /\ job.kind = "chat" /\ job.stage = "fills"
        /\ UNCHANGED <<chats, readSpecs, states, uploads, background>>
    BY <1>5 DEF StartFill, Runs
  <2>2. StoreInv' /\ HeldCheckpoints' = HeldCheckpoints /\ LoadedSpecs' = LoadedSpecs
    BY <1>1, <2>1, SameStores
  <2> DEFINE s == FirstOf(job.specs)
             needs == NeedsFill(job.target, s)
  <2>3. job' = [job EXCEPT !.specs = @ \ {s},
                  !.stage = IF needs THEN "fill" ELSE "fills",
                  !.spec = IF needs THEN s ELSE None]
    BY <1>5 DEF StartFill
  <2>4. needs => s \in LoadedSpecs /\ s # None /\ s \in Specs
    BY AdjudicatorAssumption DEF NeedsFill
  <2> HIDE DEF s, needs
  <2>5. JobInv'
    <3>1. job' \in Job
      BY <1>1, <2>3, <2>4 DEF JobInv, Job, PausingStages
    <3>2. /\ job'.kind = "chat" /\ job'.turn = job.turn /\ job'.target = job.target
          /\ job'.stage = (IF needs THEN "fill" ELSE "fills")
          /\ job'.spec = (IF needs THEN s ELSE None)
      BY <1>1, <2>1, <2>3 DEF JobInv, Job
    <3> QED BY <1>1, <2>1, <2>2, <2>4, <3>1, <3>2 DEF JobInv
  <2> QED BY <2>1, <2>2, <2>5, EndedRead DEF IInv
<1>6. CASE EndFill
  <2>1. /\ reading' = NoRead /\ job.kind = "chat" /\ job.stage = "fill"
        /\ UNCHANGED <<chats, readSpecs, uploads, background>>
        /\ job' = [job EXCEPT !.stage = "fills", !.spec = None]
    BY <1>6 DEF EndFill, Runs
  <2>2. job.target \in HeldCheckpoints /\ job.target \in Checkpoints
        /\ job.spec \in LoadedSpecs /\ job.spec \in Specs
    BY <1>1, <2>1 DEF JobInv, Job
  <2>3. /\ TailKey(job.spec, job.target) \in Keys
        /\ TailKey(job.spec, job.target).spec = job.spec
        /\ TailKey(job.spec, job.target).at = job.target
    BY <2>2, KeyTypes
  <2>4. StoreInv' /\ HeldCheckpoints' = HeldCheckpoints /\ LoadedSpecs' = LoadedSpecs
    <3>1. CASE states' = States!Inserted(states, TailKey(job.spec, job.target))
      BY <1>1, <2>1, <2>2, <2>3, <3>1, PublishingStep
    <3>2. CASE UNCHANGED states
      BY <1>1, <2>1, <3>2, SameStores
    <3> QED BY <1>6, <3>1, <3>2 DEF EndFill
  <2>5. JobInv'
    BY <1>1, <2>1, <2>2, <2>4 DEF JobInv, Job
  <2> QED BY <2>1, <2>4, <2>5, EndedRead DEF IInv
<1>7. CASE Announce
  <2>1. /\ reading' = NoRead /\ job.kind = "chat" /\ job.stage = "fills"
        /\ UNCHANGED <<chats, readSpecs, states, uploads>>
        /\ background' = Without(background, TasksOf({job.target}))
        /\ job' = [job EXCEPT !.stage = "reply"]
    BY <1>7 DEF Announce, Runs
  <2>2. HeldCheckpoints' = HeldCheckpoints /\ LoadedSpecs' = LoadedSpecs
        /\ CachedKeys' = CachedKeys
    BY <2>1 DEF HeldCheckpoints, LoadedSpecs, Uploaded, CachedKeys
  <2>3. /\ background' \in Seq(Checkpoints \X Specs)
        /\ ElementsOf(background') = ElementsOf(background) \ TasksOf({job.target})
        /\ Distinct(background) => Distinct(background')
    <3>1. background \in Seq(Checkpoints \X Specs)
      BY <1>1 DEF StoreInv
    <3> HIDE DEF TasksOf
    <3> QED BY <2>1, <3>1, WithoutProperties
  <2>4. Tasks' \subseteq Tasks
    BY <2>3 DEF Tasks, ElementsOf
  <2>5. /\ ChatsOK(chats') /\ StatesOK(states') /\ uploads' \in Seq(Specs)
        /\ readSpecs' \in [Checkpoints -> SUBSET Specs]
    BY <1>1, <2>1, <2>2 DEF ChatsOK, StatesOK
  <2>6. StoreInv'
    BY <1>1, <2>2, <2>3, <2>4, <2>5, KeepingStep
  <2>7. JobInv'
    BY <1>1, <2>1, <2>2 DEF JobInv, Job, PausingStages
  <2> QED BY <2>1, <2>6, <2>7, EndedRead DEF IInv
<1>8. CASE AnswerAtLength
  <2>1. /\ reading' = NoRead /\ job' = NoJob
        /\ UNCHANGED <<chats, readSpecs, states, uploads, background>>
    BY <1>8 DEF AnswerAtLength, Runs, EndJob
  <2> QED BY <1>1, <2>1, SameStores, EndedJob, EndedRead DEF IInv
<1>9. CASE Answer
  <2>1. /\ reading' = NoRead /\ job' = NoJob /\ UNCHANGED uploads
        /\ job.kind = "chat" /\ Hold(job.turn.reply, readSpecs[job.target])
    BY <1>9 DEF Answer, Runs, EndJob
  <2>2. job.turn.reply \in Checkpoints /\ readSpecs[job.target] \in SUBSET Specs
    BY <1>1, <2>1, AdjudicatorAssumption DEF JobInv
  <2> QED BY <1>1, <2>1, <2>2, HoldStep, EndedJob, EndedRead DEF IInv
<1> QED BY <1>2, <1>3, <1>4, <1>5, <1>6, <1>7, <1>8, <1>9 DEF ChatStep

LEMMA ContextStepKeeps == IInv /\ ContextStep => IInv'
<1> SUFFICES ASSUME IInv, ContextStep PROVE IInv'
  OBVIOUS
<1>1. StoreInv /\ JobInv /\ ReadInv /\ ChatsOK(chats) /\ StatesOK(states)
      /\ uploads \in Seq(Specs) /\ readSpecs \in [Checkpoints -> SUBSET Specs]
  BY DEF IInv, StoreInv
<1>2. ASSUME NEW c \in Contexts, NEW pin \in Pins, FindContext(c, pin)
      PROVE  IInv'
  <2> DEFINE found == Chats!Touch(chats, c)
  <2>1. /\ reading' = NoRead /\ job' = NoJob /\ c \in Checkpoints
        /\ UNCHANGED <<readSpecs, states, uploads, background>>
        /\ chats' = IF PinFails(found, c, pin) THEN found ELSE Pinned(found, c, pin)
    BY <1>2, ServesAlone, AdjudicatorAssumption DEF FindContext, Overtakes
  <2>2. ChatsOK(found) /\ Chats!Held(found) = HeldCheckpoints
    BY <1>1, TouchChats DEF HeldCheckpoints
  <2> HIDE DEF found
  <2>3. ChatsOK(chats') /\ HeldCheckpoints' = HeldCheckpoints
    BY <2>1, <2>2, PinChats DEF HeldCheckpoints
  <2>4. /\ StatesOK(states') /\ CachedKeys' = CachedKeys
        /\ uploads' \in Seq(Specs) /\ LoadedSpecs' = LoadedSpecs
    BY <1>1, <2>1 DEF StatesOK, CachedKeys, LoadedSpecs, Uploaded
  <2> QED BY <1>1, <2>1, <2>3, <2>4, UsingStep, EndedJob, EndedRead DEF IInv
<1>3. ASSUME NEW c \in Contexts, NEW pin \in Pins, BeginContext(c, pin)
      PROVE  IInv'
  <2>1. /\ reading' = NoRead /\ c \in Checkpoints \ HeldCheckpoints
        /\ UNCHANGED <<chats, readSpecs, states, uploads, background>>
    BY <1>3, ServesAlone, AdjudicatorAssumption DEF BeginContext
  <2>2. StoreInv' /\ HeldCheckpoints' = HeldCheckpoints /\ LoadedSpecs' = LoadedSpecs
    BY <1>1, <2>1, SameStores
  <2> DEFINE from == LongestHeldPrefix(c)
  <2>3. Inherited(from) \in SUBSET Specs
    <3> DEFINE held == Prefixes[c] \cap HeldCheckpoints
    <3>1. CASE from = None
      BY <3>1 DEF Inherited
    <3>2. CASE from # None
      <4>1. held # {} /\ from = CHOOSE x \in held : held \subseteq Prefixes[x] \cup {x}
        BY <3>2 DEF LongestHeldPrefix
      <4>2. held \in SUBSET Prefixes[c] \ {{}} /\ Prefixes[c] \in SUBSET Checkpoints
        BY <4>1, AdjudicatorAssumption
      <4>3. \E x \in held : held \subseteq Prefixes[x] \cup {x}
        <5> HIDE DEF held
        <5> QED BY <4>2, AdjudicatorAssumption
      <4>4. from \in Checkpoints
        <5> HIDE DEF held
        <5> QED BY <4>1, <4>2, <4>3
      <4> QED BY <1>1, <3>2, <4>4 DEF Inherited
    <3> HIDE DEF from
    <3> QED BY <3>1, <3>2
  <2> HIDE DEF from
  <2>4. job' = [kind |-> "context", stage |-> "prefill", target |-> c, turn |-> None,
                spec |-> None, specs |-> Inherited(from), pin |-> pin]
    BY <1>3 DEF BeginContext, NoJob, from
  <2>5. JobInv'
    <3>1. job' \in Job
      BY <2>1, <2>3, <2>4 DEF Job, PausingStages
    <3>2. job'.kind = "context" /\ job'.target = c /\ job'.spec = None
      BY <2>4
    <3> QED BY <2>1, <2>2, <3>1, <3>2 DEF JobInv
  <2> QED BY <2>1, <2>2, <2>5, EndedRead DEF IInv
<1>4. ASSUME NEW c \in Contexts, DeleteContext(c)
      PROVE  IInv'
  <2>1. /\ reading' = NoRead /\ job' = NoJob
        /\ chats' = Chats!Drop(chats, {c}) /\ Forget({c}) /\ UNCHANGED uploads
    BY <1>4, ServesAlone DEF DeleteContext, Overtakes
  <2>2. ChatsOK(chats') /\ HeldCheckpoints' = HeldCheckpoints \ {c}
    BY <1>1, <2>1, DropChats DEF HeldCheckpoints
  <2> QED BY <1>1, <2>1, <2>2, ForgettingStep, EndedJob, EndedRead DEF IInv
<1> DEFINE c == job.target
           held == Chats!Inserted(chats, c)
           gone == Chats!Evicted(chats, c)
<1>5. ASSUME job.kind = "context"
      PROVE  /\ c \in Checkpoints /\ job.specs \in SUBSET Specs /\ job.pin \in Pins
             /\ ChatsOK(held) /\ c \notin gone
             /\ Chats!Held(held) = (HeldCheckpoints \ gone) \cup {c}
  <2>1. c \in Checkpoints /\ job.specs \in SUBSET Specs /\ job.pin \in Pins
    BY <1>1, <1>5 DEF JobInv, Job
  <2> QED BY <1>1, <2>1, InsertChats DEF HeldCheckpoints
<1>6. CASE HoldContext
  <2>1. /\ reading' = NoRead /\ job' = NoJob /\ UNCHANGED uploads
        /\ job.kind = "context" /\ ~PinFails(held, c, job.pin)
        /\ chats' = Pinned(held, c, job.pin)
        /\ Remember(c, gone, job.specs)
    BY <1>6 DEF HoldContext, Runs, EndJob
  <2> HIDE DEF c, held, gone
  <2>2. ChatsOK(chats') /\ HeldCheckpoints' = (HeldCheckpoints \ gone) \cup {c}
    BY <1>5, <2>1, PinChats DEF HeldCheckpoints
  <2>3. StoreInv'
    BY <1>1, <1>5, <2>1, <2>2, RememberingStep
  <2> QED BY <2>1, <2>3, EndedJob, EndedRead DEF IInv
<1>7. CASE RefusePin
  <2>1. /\ reading' = NoRead /\ job' = NoJob /\ UNCHANGED uploads
        /\ job.kind = "context"
        /\ chats' = Chats!Drop(held, {c}) /\ Forget(gone \cup {c})
    BY <1>7 DEF RefusePin, Runs, EndJob
  <2> HIDE DEF c, held, gone
  <2>2. ChatsOK(chats') /\ HeldCheckpoints' = HeldCheckpoints \ (gone \cup {c})
    <3>1. ChatsOK(chats') /\ HeldCheckpoints' = Chats!Held(held) \ {c}
      BY <1>5, <2>1, DropChats DEF HeldCheckpoints
    <3> QED BY <1>5, <2>1, <3>1
  <2>3. StoreInv'
    BY <1>1, <2>1, <2>2, ForgettingStep
  <2> QED BY <2>1, <2>3, EndedJob, EndedRead DEF IInv
<1> QED BY <1>2, <1>3, <1>4, <1>6, <1>7 DEF ContextStep

LEMMA BackgroundKeeps == IInv /\ (StartBackground \/ EndBackground) => IInv'
<1> SUFFICES ASSUME IInv, StartBackground \/ EndBackground PROVE IInv'
  OBVIOUS
<1>1. StoreInv /\ JobInv /\ ReadInv /\ ChatsOK(chats) /\ StatesOK(states)
      /\ uploads \in Seq(Specs) /\ readSpecs \in [Checkpoints -> SUBSET Specs]
      /\ background \in Seq(Checkpoints \X Specs)
  BY DEF IInv, StoreInv
<1>2. CASE StartBackground
  <2> DEFINE due == {i \in DOMAIN background : NeedsFill(background[i][1], background[i][2])}
             first == CHOOSE i \in due : \A j \in due : i <= j
  <2>1. /\ reading' = NoRead /\ job = NoJob
        /\ UNCHANGED <<chats, readSpecs, states, uploads>>
    BY <1>2, ServesAlone DEF StartBackground, Overtakes
  <2>2. /\ HeldCheckpoints' = HeldCheckpoints /\ LoadedSpecs' = LoadedSpecs
        /\ CachedKeys' = CachedKeys
        /\ ChatsOK(chats') /\ StatesOK(states') /\ uploads' \in Seq(Specs)
        /\ readSpecs' \in [Checkpoints -> SUBSET Specs]
    BY <1>1, <2>1 DEF HeldCheckpoints, LoadedSpecs, Uploaded, CachedKeys, ChatsOK, StatesOK
  <2>3. CASE due = {}
    <3>1. background' = <<>> /\ job' = NoJob
      BY <1>2, <2>1, <2>3 DEF StartBackground
    <3>2. /\ background' \in Seq(Checkpoints \X Specs) /\ Distinct(background')
          /\ Tasks' \subseteq Tasks
      BY <3>1 DEF Distinct, Tasks
    <3>3. StoreInv'
      BY <1>1, <2>2, <3>2, KeepingStep
    <3> QED BY <2>1, <3>1, <3>3, EndedJob, EndedRead DEF IInv
  <2>4. CASE due # {}
    <3>1. /\ background' = SubSeq(background, first + 1, Len(background))
          /\ job' = [NoJob EXCEPT !.kind = "background", !.stage = "fill",
                       !.target = background[first][1],
                       !.spec = background[first][2]]
      BY <1>2, <2>4 DEF StartBackground
    <3>2. first \in due
      <4>1. due \in SUBSET Nat
        BY <1>1, LenProperties
      <4> HIDE DEF due
      <4> QED BY <2>4, <4>1, LeastNat
    <3>3. /\ first \in DOMAIN background
          /\ NeedsFill(background[first][1], background[first][2])
          /\ background[first] \in Checkpoints \X Specs
      BY <1>1, <3>2, LenProperties
    <3> HIDE DEF first, due
    <3>4. /\ background' \in Seq(Checkpoints \X Specs)
          /\ Distinct(background) => Distinct(background')
          /\ ElementsOf(background') \subseteq ElementsOf(background)
      BY <1>1, <3>1, <3>3, RestElements
    <3>5. Tasks' \subseteq Tasks
      BY <3>4 DEF Tasks, ElementsOf
    <3>6. StoreInv'
      BY <1>1, <2>2, <3>4, <3>5, KeepingStep
    <3>7. /\ background[first][1] \in HeldCheckpoints /\ background[first][1] \in Checkpoints
          /\ background[first][2] \in LoadedSpecs /\ background[first][2] \in Specs
          /\ background[first][2] # None
      BY <3>3, AdjudicatorAssumption DEF NeedsFill
    <3>8. job' = [kind |-> "background", stage |-> "fill",
                  target |-> background[first][1], turn |-> None,
                  spec |-> background[first][2], specs |-> {}, pin |-> "leave"]
      BY <3>1 DEF NoJob
    <3>9. JobInv'
      <4>1. job' \in Job
        BY <3>7, <3>8 DEF Job, Pins, PausingStages
      <4>2. /\ job'.kind = "background" /\ job'.target = background[first][1]
            /\ job'.spec = background[first][2]
        BY <3>8
      <4> QED BY <2>2, <3>7, <4>1, <4>2 DEF JobInv
    <3> QED BY <2>1, <3>6, <3>9, EndedRead DEF IInv
  <2> QED BY <2>3, <2>4
<1>3. CASE EndBackground
  <2>1. /\ reading' = NoRead /\ job' = NoJob /\ job.kind = "background"
        /\ states' = States!Inserted(states, TailKey(job.spec, job.target))
        /\ UNCHANGED <<chats, readSpecs, uploads, background>>
    BY <1>3 DEF EndBackground, Runs, EndJob
  <2>2. /\ job.target \in HeldCheckpoints /\ job.target \in Checkpoints
        /\ job.spec \in LoadedSpecs /\ job.spec \in Specs
    <3>1. HeldCheckpoints \in SUBSET Checkpoints
      BY <1>1, HeldElements, ElementsType DEF ChatsOK, HeldCheckpoints
    <3> QED BY <1>1, <2>1, <3>1 DEF JobInv, Job
  <2>3. /\ TailKey(job.spec, job.target) \in Keys
        /\ TailKey(job.spec, job.target).spec = job.spec
        /\ TailKey(job.spec, job.target).at = job.target
    BY <2>2, KeyTypes
  <2> QED BY <1>1, <2>1, <2>2, <2>3, PublishingStep, EndedJob, EndedRead DEF IInv
<1> QED BY <1>2, <1>3

LEMMA GenerateStepKeeps == IInv /\ GenerateStep => IInv'
<1> SUFFICES ASSUME IInv, GenerateStep PROVE IInv'
  OBVIOUS
<1>1. StoreInv /\ JobInv /\ ReadInv /\ ChatsOK(chats) /\ StatesOK(states)
      /\ uploads \in Seq(Specs)
  BY DEF IInv, StoreInv
<1>2. ASSUME NEW s \in Specs, BeginGenerateCold(s)
      PROVE  IInv'
  <2>1. /\ reading' = NoRead /\ job' = NoJob /\ uploads' = Recent(s)
        /\ UNCHANGED <<chats, readSpecs, states, background>>
    BY <1>2, ServesAlone DEF BeginGenerateCold, Overtakes
  <2>2. /\ uploads' \in Seq(Specs) /\ LoadedSpecs' = LoadedSpecs
    BY <1>1, <2>1, RecentKeeps
  <2>3. /\ ChatsOK(chats') /\ HeldCheckpoints' = HeldCheckpoints
        /\ StatesOK(states') /\ CachedKeys' = CachedKeys
    BY <1>1, <2>1 DEF ChatsOK, HeldCheckpoints, StatesOK, CachedKeys
  <2> QED BY <1>1, <2>1, <2>2, <2>3, UsingStep, EndedJob, EndedRead DEF IInv
<1>3. ASSUME NEW s \in Specs, NEW p \in Prompts, BeginGenerate(s, p)
      PROVE  IInv'
  <2> DEFINE held == HeldDescriptions(s, p)
             deepest == CHOOSE f \in held : \A g \in held : g <= f
             found == IF held = {} THEN states
                      ELSE States!Touch(states, DescribedKey(s, p, deepest))
             begun(stage) == [NoJob EXCEPT !.kind = "generate", !.stage = stage,
                                !.spec = s, !.target = p]
  <2>1. /\ reading' = NoRead /\ s \in LoadedSpecs /\ uploads' = Recent(s)
        /\ UNCHANGED <<chats, readSpecs, background>>
    BY <1>3, ServesAlone DEF BeginGenerate
  <2>2. /\ \/ states' = found
           \/ \E looked \in {states, found} :
                states' = States!Touch(looked, ReadyKey(s, p))
        /\ \E stage \in {"decode", "prefill"} : job' = begun(stage)
    BY <1>3 DEF BeginGenerate
  <2>3. StatesOK(found) /\ States!Held(found) = CachedKeys
    BY <1>1, TouchStates DEF CachedKeys
  <2> HIDE DEF found
  <2>4. StatesOK(states') /\ CachedKeys' = CachedKeys
    <3>1. CASE states' = found
      BY <2>3, <3>1 DEF CachedKeys
    <3>2. ASSUME NEW looked \in {states, found}, states' = States!Touch(looked, ReadyKey(s, p))
          PROVE  StatesOK(states') /\ CachedKeys' = CachedKeys
      <4>1. StatesOK(looked) /\ States!Held(looked) = CachedKeys
        BY <1>1, <2>3 DEF CachedKeys
      <4> QED BY <3>2, <4>1, TouchStates DEF CachedKeys
    <3> QED BY <2>2, <3>1, <3>2
  <2>5. /\ uploads' \in Seq(Specs) /\ LoadedSpecs' = LoadedSpecs
    BY <1>1, <2>1, RecentKeeps
  <2>6. ChatsOK(chats') /\ HeldCheckpoints' = HeldCheckpoints
    BY <1>1, <2>1 DEF ChatsOK, HeldCheckpoints
  <2>7. StoreInv'
    BY <1>1, <2>1, <2>4, <2>5, <2>6, UsingStep
  <2>8. JobInv'
    <3>1. PICK stage \in {"decode", "prefill"} :
            job' = [kind |-> "generate", stage |-> stage, target |-> p, turn |-> None,
                    spec |-> s, specs |-> {}, pin |-> "leave"]
      BY <2>2 DEF NoJob
    <3>2. job' \in Job
      BY <3>1 DEF Job, Pins, PausingStages
    <3>3. job'.kind = "generate" /\ job'.target = p /\ job'.spec = s
      BY <3>1
    <3>4. s # None
      BY AdjudicatorAssumption
    <3> QED BY <2>1, <2>5, <3>2, <3>3, <3>4 DEF JobInv
  <2> QED BY <2>1, <2>7, <2>8, EndedRead DEF IInv
<1>4. CASE PublishReady
  <2>1. /\ reading' = NoRead /\ job.kind = "generate"
        /\ states' = States!Inserted(states, ReadyKey(job.spec, job.target))
        /\ job' = [job EXCEPT !.stage = "decode"]
        /\ UNCHANGED <<chats, readSpecs, uploads, background>>
    BY <1>4 DEF PublishReady, Runs
  <2>2. job.target \in Prompts /\ job.spec \in LoadedSpecs /\ job.spec \in Specs
    BY <1>1, <2>1 DEF JobInv, Job
  <2>3. /\ ReadyKey(job.spec, job.target) \in Keys
        /\ ReadyKey(job.spec, job.target).spec = job.spec
        /\ ReadyKey(job.spec, job.target).kind # "tail"
    BY <2>2, KeyTypes
  <2>4. StoreInv' /\ HeldCheckpoints' = HeldCheckpoints /\ LoadedSpecs' = LoadedSpecs
    BY <1>1, <2>1, <2>2, <2>3, PublishingStep
  <2>5. JobInv'
    BY <1>1, <2>1, <2>2, <2>4 DEF JobInv, Job, PausingStages
  <2> QED BY <2>1, <2>4, <2>5, EndedRead DEF IInv
<1>5. CASE EndGenerate
  <2>1. /\ reading' = NoRead /\ job' = NoJob
        /\ UNCHANGED <<chats, readSpecs, states, uploads, background>>
    BY <1>5 DEF EndGenerate, Runs, EndJob
  <2> QED BY <1>1, <2>1, SameStores, EndedJob, EndedRead DEF IInv
<1> QED BY <1>2, <1>3, <1>4, <1>5 DEF GenerateStep

LEMMA SpecStepKeeps == IInv /\ SpecStep => IInv'
<1> SUFFICES ASSUME IInv, SpecStep PROVE IInv'
  OBVIOUS
<1>1. StoreInv /\ JobInv /\ ReadInv /\ ChatsOK(chats) /\ StatesOK(states)
      /\ uploads \in Seq(Specs) /\ readSpecs \in [Checkpoints -> SUBSET Specs]
      /\ background \in Seq(Checkpoints \X Specs)
  BY DEF IInv, StoreInv
<1>2. Uploaded = ElementsOf(uploads) /\ Uploaded' = ElementsOf(uploads')
  BY DEF Uploaded, ElementsOf
<1>3. ASSUME NEW s \in Specs, Register(s)
      PROVE  IInv'
  <2>1. reading' = NoRead /\ job' = NoJob /\ UNCHANGED <<chats, readSpecs>>
    BY <1>3, ServesAlone DEF Register, Overtakes
  <2>2. CASE Len(uploads) >= SpecCapacity
    <3>1. /\ uploads' = Append(Tail(uploads), s)
          /\ states' = ForgottenSpec(uploads[1])
          /\ background' = Without(background, SpecTasks(uploads[1]))
      BY <1>3, <2>2 DEF Register
    <3>2. uploads # <<>>
      BY <1>1, <2>2, StartupAssumption
    <3>3. /\ Tail(uploads) \in Seq(Specs)
          /\ Uploaded \ {uploads[1]} \subseteq ElementsOf(Tail(uploads))
      BY <1>1, <1>2, <3>2, TailElements
    <3>4. /\ uploads' \in Seq(Specs)
          /\ ElementsOf(uploads') = ElementsOf(Tail(uploads)) \cup {s}
      <4> DEFINE rest == Tail(uploads)
      <4>1. rest \in Seq(Specs)
        BY <3>3
      <4>2. uploads' = Append(rest, s)
        BY <3>1
      <4> HIDE DEF rest
      <4>3. /\ Append(rest, s) \in Seq(Specs)
            /\ ElementsOf(Append(rest, s)) = ElementsOf(rest) \cup {s}
        BY <4>1, AppendElements
      <4>4. uploads' \in Seq(Specs) /\ ElementsOf(uploads') = ElementsOf(rest) \cup {s}
        BY <4>2, <4>3
      <4> QED BY <4>4 DEF rest
    <3>5. LoadedSpecs \ {uploads[1]} \subseteq LoadedSpecs'
      BY <1>2, <3>3, <3>4 DEF LoadedSpecs
    <3>6. StoreInv'
      BY <1>1, <2>1, <3>1, <3>4, <3>5, UnloadingStep
    <3> QED BY <2>1, <3>6, EndedJob, EndedRead DEF IInv
  <2>3. CASE ~(Len(uploads) >= SpecCapacity)
    <3>1. uploads' = Append(uploads, s) /\ UNCHANGED <<states, background>>
      BY <1>3, <2>3 DEF Register
    <3>2. uploads' \in Seq(Specs) /\ ElementsOf(uploads') = ElementsOf(uploads) \cup {s}
      BY <1>1, <3>1, AppendElements
    <3>3. LoadedSpecs \subseteq LoadedSpecs'
      BY <1>2, <3>2 DEF LoadedSpecs
    <3>4. /\ ChatsOK(chats') /\ HeldCheckpoints' = HeldCheckpoints
          /\ StatesOK(states') /\ CachedKeys' \subseteq CachedKeys \cup Publishable
          /\ readSpecs' \in [Checkpoints -> SUBSET Specs]
          /\ background' \in Seq(Checkpoints \X Specs)
          /\ (Distinct(background) => Distinct(background')) /\ Tasks' \subseteq Tasks
      BY <1>1, <2>1, <3>1
         DEF ChatsOK, HeldCheckpoints, StatesOK, CachedKeys, Distinct, Tasks
    <3>5. StoreInv'
      BY <1>1, <3>2, <3>3, <3>4, KeepingStep
    <3> QED BY <2>1, <3>5, EndedJob, EndedRead DEF IInv
  <2> QED BY <2>2, <2>3
<1>4. ASSUME NEW s \in Specs, Unregister(s)
      PROVE  IInv'
  <2>1. /\ reading' = NoRead /\ job' = NoJob /\ UNCHANGED <<chats, readSpecs>>
        /\ uploads' = Without(uploads, {s})
        /\ states' = ForgottenSpec(s)
        /\ background' = Without(background, SpecTasks(s))
    BY <1>4, ServesAlone DEF Unregister, Overtakes
  <2>2. uploads' \in Seq(Specs) /\ ElementsOf(uploads') = ElementsOf(uploads) \ {s}
    BY <1>1, <2>1, WithoutProperties
  <2>3. LoadedSpecs \ {s} \subseteq LoadedSpecs'
    BY <1>2, <2>2 DEF LoadedSpecs
  <2>4. StoreInv'
    BY <1>1, <2>1, <2>2, <2>3, UnloadingStep
  <2> QED BY <2>1, <2>4, EndedJob, EndedRead DEF IInv
<1>5. ASSUME NEW s \in Specs, NEW op, UseSpec(s, op)
      PROVE  IInv'
  <2>1. /\ reading' = NoRead /\ uploads' = Recent(s)
        /\ UNCHANGED <<chats, readSpecs, states, background, job>>
    BY <1>5, ServesAlone DEF UseSpec
  <2>2. uploads' \in Seq(Specs) /\ LoadedSpecs' = LoadedSpecs
    BY <1>1, <2>1, RecentKeeps
  <2>3. /\ ChatsOK(chats') /\ HeldCheckpoints' = HeldCheckpoints
        /\ StatesOK(states') /\ CachedKeys' = CachedKeys
    BY <1>1, <2>1 DEF ChatsOK, HeldCheckpoints, StatesOK, CachedKeys
  <2>4. StoreInv'
    BY <1>1, <2>1, <2>2, <2>3, UsingStep
  <2>5. JobInv'
    BY <1>1, <2>1, <2>2, <2>3, KeptJob
  <2> QED BY <2>1, <2>4, <2>5, EndedRead DEF IInv
<1> QED BY <1>3, <1>4, <1>5 DEF SpecStep

\* A read begins over a job, or over none: it uses its spec and its checkpoint.
LEMMA ReadAtUses ==
  ASSUME IInv, NEW s, NEW at, ReadAt(s, at),
         UNCHANGED <<readSpecs, states, background, job>>
  PROVE  /\ StoreInv' /\ JobInv'
         /\ HeldCheckpoints' = HeldCheckpoints /\ LoadedSpecs' = LoadedSpecs
<1>1. StoreInv /\ JobInv /\ ChatsOK(chats) /\ StatesOK(states) /\ uploads \in Seq(Specs)
  BY DEF IInv, StoreInv
<1>2. ChatsOK(chats') /\ HeldCheckpoints' = HeldCheckpoints
  BY <1>1, TouchChats DEF ReadAt, HeldCheckpoints
<1>3. uploads' \in Seq(Specs) /\ LoadedSpecs' = LoadedSpecs
  BY <1>1, RecentKeeps DEF ReadAt
<1>4. StatesOK(states') /\ CachedKeys' = CachedKeys
  BY <1>1 DEF StatesOK, CachedKeys
<1>5. StoreInv'
  BY <1>1, <1>2, <1>3, <1>4, UsingStep
<1>6. JobInv'
  BY <1>1, <1>2, <1>3, KeptJob
<1> QED BY <1>2, <1>3, <1>5, <1>6

LEMMA ReadStepKeeps == IInv /\ ReadStep => IInv'
<1> SUFFICES ASSUME IInv, ReadStep PROVE IInv'
  OBVIOUS
<1>1. StoreInv /\ JobInv /\ ReadInv /\ ChatsOK(chats) /\ StatesOK(states)
      /\ uploads \in Seq(Specs) /\ readSpecs \in [Checkpoints -> SUBSET Specs]
      /\ background \in Seq(Checkpoints \X Specs)
  BY DEF IInv, StoreInv
<1>2. ASSUME NEW s \in Specs, NEW at \in Prompts \cup Checkpoints, ReadCold(s, at)
      PROVE  IInv'
  <2>1. ReadAt(s, at) /\ reading' = NoRead /\ UNCHANGED <<readSpecs, states, background, job>>
    BY <1>2, ServesAlone DEF ReadCold, ReadAt
  <2> QED BY <2>1, ReadAtUses, EndedRead DEF IInv
<1>3. ASSUME NEW s \in Specs, NEW at \in Prompts \cup Checkpoints,
             NEW asked \in SUBSET (1..Fields), BeginRead(s, at, asked)
      PROVE  IInv'
  <2>1. /\ ReadAt(s, at) /\ s \in LoadedSpecs
        /\ UNCHANGED <<readSpecs, states, background, job>>
        /\ at \in Checkpoints => at \in HeldCheckpoints
        /\ reading' = [stage |-> IF asked = {} THEN "prefill" ELSE "lookup",
                       spec |-> s, at |-> at, asked |-> asked, left |-> asked]
    BY <1>3 DEF BeginRead, ReadAt
  <2>2. /\ StoreInv' /\ JobInv'
        /\ HeldCheckpoints' = HeldCheckpoints /\ LoadedSpecs' = LoadedSpecs
    BY <2>1, ReadAtUses
  <2>3. ReadInv'
    <3>1. reading' \in Reading
      BY <2>1 DEF Reading
    <3>2. reading'.spec = s /\ reading'.at = at /\ reading'.stage \in {"prefill", "lookup"}
      BY <2>1
    <3> QED BY <2>1, <2>2, <3>1, <3>2 DEF ReadInv
  <2> QED BY <2>2, <2>3 DEF IInv
<1>4. CASE LookUp
  <2>1. /\ reading # NoRead
        /\ states' = States!Touch(states, ReadKey)
        /\ UNCHANGED <<chats, readSpecs, uploads, background, job>>
        /\ \/ reading' = [reading EXCEPT !.stage = "prefill"]
           \/ reading' = NoRead
           \/ reading' = [reading EXCEPT !.left = @ \ {NextField}] /\ reading.stage = "lookup"
    BY <1>4 DEF LookUp, NoRead
  <2>2. StatesOK(states') /\ CachedKeys' = CachedKeys
    BY <1>1, <2>1, TouchStates DEF CachedKeys
  <2>3. /\ ChatsOK(chats') /\ HeldCheckpoints' = HeldCheckpoints
        /\ uploads' \in Seq(Specs) /\ LoadedSpecs' = LoadedSpecs
    BY <1>1, <2>1 DEF ChatsOK, HeldCheckpoints, LoadedSpecs, Uploaded
  <2>4. StoreInv' /\ JobInv'
    BY <1>1, <2>1, <2>2, <2>3, UsingStep, KeptJob
  <2>5. ReadInv'
    <3>1. CASE reading' = NoRead
      BY <3>1, EndedRead
    <3>2. CASE reading' = [reading EXCEPT !.stage = "prefill"]
      <4>1. reading' \in Reading
        BY <1>1, <3>2 DEF ReadInv, Reading
      <4>2. reading'.stage = "prefill" /\ reading'.spec = reading.spec /\ reading'.at = reading.at
        BY <1>1, <3>2 DEF ReadInv, Reading
      <4> QED BY <1>1, <2>1, <2>3, <4>1, <4>2 DEF ReadInv
    <3>3. CASE reading' = [reading EXCEPT !.left = @ \ {NextField}] /\ reading.stage = "lookup"
      <4>1. reading' \in Reading
        BY <1>1, <3>3 DEF ReadInv, Reading
      <4>2. reading'.stage = "lookup" /\ reading'.spec = reading.spec /\ reading'.at = reading.at
        BY <1>1, <3>3 DEF ReadInv, Reading
      <4> QED BY <1>1, <2>1, <2>3, <4>1, <4>2 DEF ReadInv
    <3> QED BY <2>1, <3>1, <3>2, <3>3
  <2> QED BY <2>4, <2>5 DEF IInv
<1>5. ASSUME reading # NoRead
      PROVE  /\ reading \in Reading /\ reading.spec \in LoadedSpecs /\ reading.spec \in Specs
             /\ reading.at \in Prompts \cup Checkpoints
             /\ OnTail => reading.at \in HeldCheckpoints
             /\ ~OnTail => reading.at \in Prompts
  <2>1. reading \in Reading /\ reading.spec \in LoadedSpecs /\ reading.at \in Prompts \cup HeldCheckpoints
    BY <1>1, <1>5 DEF ReadInv
  <2>2. LoadedSpecs \in SUBSET Specs
    BY <1>1, ElementsType, AdjudicatorAssumption DEF LoadedSpecs, Uploaded, ElementsOf
  <2>3. HeldCheckpoints \in SUBSET Checkpoints
    BY <1>1, HeldElements, ElementsType DEF ChatsOK, HeldCheckpoints
  <2> QED BY <2>1, <2>2, <2>3, AdjudicatorAssumption DEF OnTail
<1>6. CASE Prefill
  <2> DEFINE k == IF OnTail THEN TailKey(reading.spec, reading.at)
                  ELSE ReadyKey(reading.spec, reading.at)
  <2>1. /\ reading # NoRead /\ states' = States!Inserted(states, k)
        /\ UNCHANGED <<chats, readSpecs, uploads, background, job>>
        /\ reading' = IF reading.asked = {} THEN NoRead
                      ELSE [reading EXCEPT !.stage = IF OnTail THEN "mark" ELSE "describe",
                                           !.left = reading.asked]
    BY <1>6 DEF Prefill, NoRead
  <2>2. k \in Keys /\ k.spec \in LoadedSpecs /\ (k.kind = "tail" => k.at \in HeldCheckpoints)
    <3>1. CASE OnTail
      <4>1. k = TailKey(reading.spec, reading.at) /\ reading.at \in Checkpoints
        BY <3>1 DEF OnTail
      <4> QED BY <1>5, <2>1, <3>1, <4>1, KeyTypes
    <3>2. CASE ~OnTail
      <4>1. k = ReadyKey(reading.spec, reading.at)
        BY <3>2
      <4> QED BY <1>5, <2>1, <3>2, <4>1, KeyTypes
    <3> QED BY <3>1, <3>2
  <2> HIDE DEF k
  <2>3. /\ StoreInv'
        /\ HeldCheckpoints' = HeldCheckpoints /\ LoadedSpecs' = LoadedSpecs
    BY <1>1, <2>1, <2>2, PublishingStep
  <2>4. JobInv'
    BY <1>1, <2>1, <2>3, KeptJob
  <2>5. ReadInv'
    <3>1. CASE reading.asked = {}
      BY <2>1, <3>1, EndedRead
    <3>2. CASE reading.asked # {}
      <4> DEFINE stage == IF OnTail THEN "mark" ELSE "describe"
      <4>1. reading' = [reading EXCEPT !.stage = stage, !.left = reading.asked]
        BY <2>1, <3>2
      <4>2. stage \in {"mark", "describe"} /\ (stage = "mark" => OnTail)
        OBVIOUS
      <4> HIDE DEF stage
      <4>3. reading' \in Reading
        BY <1>5, <2>1, <4>1, <4>2 DEF Reading
      <4>4. /\ reading'.stage = stage /\ reading'.left = reading.asked
            /\ reading'.spec = reading.spec /\ reading'.at = reading.at
        BY <1>5, <2>1, <4>1 DEF Reading
      <4> QED BY <1>1, <2>1, <2>3, <3>2, <4>2, <4>3, <4>4 DEF ReadInv, OnTail
    <3> QED BY <3>1, <3>2
  <2> QED BY <2>3, <2>4, <2>5 DEF IInv
<1>7. CASE Mark
  <2>1. /\ reading # NoRead /\ reading.stage = "mark"
        /\ readSpecs' = [readSpecs EXCEPT ![reading.at] = @ \cup {reading.spec}]
        /\ reading' = [reading EXCEPT !.stage = "describe"]
        /\ UNCHANGED <<chats, states, uploads, background, job>>
    BY <1>7 DEF Mark, NoRead
  <2>2. readSpecs' \in [Checkpoints -> SUBSET Specs]
    BY <1>1, <1>5, <2>1
  <2>3. /\ ChatsOK(chats') /\ HeldCheckpoints' = HeldCheckpoints
        /\ StatesOK(states') /\ CachedKeys' \subseteq CachedKeys \cup Publishable
        /\ uploads' \in Seq(Specs) /\ LoadedSpecs' = LoadedSpecs
        /\ background' \in Seq(Checkpoints \X Specs)
        /\ (Distinct(background) => Distinct(background')) /\ Tasks' \subseteq Tasks
    BY <1>1, <2>1
       DEF ChatsOK, HeldCheckpoints, StatesOK, CachedKeys, LoadedSpecs, Uploaded,
           Distinct, Tasks
  <2>4. StoreInv' /\ JobInv'
    BY <1>1, <2>1, <2>2, <2>3, KeepingStep, KeptJob
  <2>5. ReadInv'
    <3>1. reading' \in Reading
      BY <1>5, <2>1 DEF Reading
    <3>2. /\ reading'.stage = "describe" /\ reading'.left = reading.left
          /\ reading'.spec = reading.spec /\ reading'.at = reading.at
      BY <1>5, <2>1 DEF Reading
    <3> QED BY <1>1, <2>1, <2>3, <3>1, <3>2 DEF ReadInv
  <2> QED BY <2>4, <2>5 DEF IInv
<1>8. CASE Describe
  <2>1. /\ reading # NoRead /\ reading.stage = "describe"
        /\ states' = States!Inserted(states, ReadKey)
        /\ reading' = IF reading.left = {NextField} THEN NoRead
                      ELSE [reading EXCEPT !.left = @ \ {NextField}]
        /\ UNCHANGED <<chats, readSpecs, uploads, background, job>>
    BY <1>8 DEF Describe, NoRead
  <2>2. reading.left # {} /\ reading.left \in SUBSET (1..Fields)
    BY <1>1, <1>5, <2>1 DEF ReadInv, Reading
  <2>3. NextField \in 1..Fields
    <3>1. reading.left \in SUBSET Nat
      BY <2>2, AdjudicatorAssumption
    <3>2. \E f \in reading.left : \A g \in reading.left : f <= g
      BY <2>2, <3>1, LeastNat
    <3> QED BY <2>2, <3>2 DEF NextField
  <2>4. ReadKey \in Keys /\ ReadKey.spec = reading.spec /\ ReadKey.kind # "tail"
    BY <1>5, <2>1, <2>3, KeyTypes DEF ReadKey
  <2>5. /\ StoreInv'
        /\ HeldCheckpoints' = HeldCheckpoints /\ LoadedSpecs' = LoadedSpecs
    BY <1>1, <1>5, <2>1, <2>4, PublishingStep
  <2>6. JobInv'
    BY <1>1, <2>1, <2>5, KeptJob
  <2>7. ReadInv'
    <3>1. CASE reading.left = {NextField}
      BY <2>1, <3>1, EndedRead
    <3>2. CASE reading.left # {NextField}
      <4>1. reading' = [reading EXCEPT !.left = @ \ {NextField}]
        BY <2>1, <3>2
      <4>2. reading.left \ {NextField} # {}
        BY <2>2, <3>2
      <4>3. reading' \in Reading
        BY <1>5, <2>1, <4>1 DEF Reading
      <4>4. /\ reading'.stage = "describe" /\ reading'.left = reading.left \ {NextField}
            /\ reading'.spec = reading.spec /\ reading'.at = reading.at
        BY <1>5, <2>1, <4>1 DEF Reading
      <4> QED BY <1>1, <2>1, <2>5, <4>2, <4>3, <4>4 DEF ReadInv
    <3> QED BY <3>1, <3>2
  <2> QED BY <2>5, <2>6, <2>7 DEF IInv
<1>9. CASE AbandonRead
  <2>1. reading' = NoRead /\ UNCHANGED <<chats, readSpecs, states, uploads, background, job>>
    BY <1>9 DEF AbandonRead
  <2> QED BY <1>1, <2>1, SameStores, KeptJob, EndedRead DEF IInv
<1> QED BY <1>2, <1>3, <1>4, <1>6, <1>7, <1>8, <1>9 DEF ReadStep
-----------------------------------------------------------------------------
LEMMA IInvInit == Init => IInv
<1> SUFFICES ASSUME Init PROVE IInv
  OBVIOUS
<1>1. /\ readSpecs = [c \in Checkpoints |-> {}]
      /\ uploads = <<>> /\ background = <<>> /\ job = NoJob /\ reading = NoRead
  BY DEF Init
<1> DEFINE empty == [entries |-> <<>>, pinned |-> {}, used |-> 0]
<1>2. chats = empty /\ states = empty
  BY DEF Init, Chats!EmptyStore, States!EmptyStore
<1>3. ChatsOK(chats)
  <2>1. Chats!PinnedBytes(chats) = ChatBytes({})
    BY <1>2 DEF Chats!PinnedBytes
  <2> QED BY <1>2, <2>1, ChatBytesFacts DEF ChatsOK
<1>4. NoOrphans /\ CachedSpecsLoaded
  <2>1. CachedKeys = {} /\ DOMAIN background = {}
    BY <1>2, <1>1 DEF CachedKeys, States!Held
  <2> QED BY <2>1 DEF NoOrphans, TailsOnHeld, TasksOnHeld, CachedSpecsLoaded
<1>5. StoreInv
  BY <1>1, <1>2, <1>3, <1>4 DEF StoreInv, StatesOK
<1>6. JobInv
  BY <1>1 DEF JobInv, Job, NoJob, Pins, PausingStages
<1>7. ReadInv
  BY <1>1 DEF ReadInv, Reading, NoRead
<1> QED BY <1>5, <1>6, <1>7 DEF IInv

LEMMA IInvNext == IInv /\ [Next]_vars => IInv'
<1> SUFFICES ASSUME IInv, [Next]_vars PROVE IInv'
  OBVIOUS
<1>1. CASE ChatStep
  BY <1>1, ChatStepKeeps
<1>2. CASE ContextStep
  BY <1>2, ContextStepKeeps
<1>3. CASE SpecStep
  BY <1>3, SpecStepKeeps
<1>4. CASE GenerateStep
  BY <1>4, GenerateStepKeeps
<1>5. CASE ReadStep
  BY <1>5, ReadStepKeeps
<1>6. CASE StartBackground \/ EndBackground
  BY <1>6, BackgroundKeeps
<1>7. CASE AbandonJob
  <2>1. /\ reading' = NoRead /\ job' = NoJob
        /\ UNCHANGED <<chats, readSpecs, states, uploads, background>>
    BY <1>7 DEF AbandonJob, EndJob
  <2> QED BY <2>1, SameStores, EndedJob, EndedRead DEF IInv
<1>8. CASE UNCHANGED vars
  <2>1. UNCHANGED <<chats, readSpecs, states, uploads, background>>
        /\ job' = job /\ reading' = reading
    BY <1>8 DEF vars
  <2> QED BY <2>1, SameStores, KeptJob, KeptRead DEF IInv
<1> QED
  BY <1>1, <1>2, <1>3, <1>4, <1>5, <1>6, <1>7, <1>8 DEF Next

\* Between any two steps of any job the stores, the uploads, the tasks, the
\* job and the read agree about what is there.
THEOREM IInvAlways == Spec => []IInv
<1>1. Init => IInv
  BY IInvInit
<1>2. IInv /\ [Next]_vars => IInv'
  BY IInvNext
<1> QED BY <1>1, <1>2, PTL DEF Spec

\* Whatever takes a checkpoint away, an eviction for the budget, a deletion,
\* a pin refused after the build, takes its tail prefixes and its waiting
\* prefills with it (hold_checkpoint, forget_checkpoint), and a prefill that
\* paused publishes nothing on a checkpoint that went meanwhile.
THEOREM NoOrphansAlways == Spec => []NoOrphans
<1>1. IInv => NoOrphans
  BY DEF IInv, StoreInv
<1> QED BY <1>1, IInvAlways, PTL

\* No cached state outlives its spec: neither a deletion nor the eviction of
\* the least recently used upload leaves one (SpecStore, forget_spec), and no
\* job or read publishes one for a spec that went while it was paused.
THEOREM CachedSpecsLoadedAlways == Spec => []CachedSpecsLoaded
<1>1. IInv => CachedSpecsLoaded
  BY DEF IInv, StoreInv
<1> QED BY <1>1, IInvAlways, PTL

\* What a paused job or a read works on is still there when it goes on.
THEOREM NothingPulledAwayAlways == Spec => []NothingPulledAway
<1>1. ASSUME IInv
      PROVE  NothingPulledAway
  <2>1. JobInv /\ ReadInv
    BY <1>1 DEF IInv
  <2>2. reading # NoRead => reading.spec \in LoadedSpecs /\ (OnTail => reading.at \in HeldCheckpoints)
    BY <2>1, AdjudicatorAssumption DEF ReadInv, OnTail
  <2> QED BY <2>1, <2>2 DEF JobInv, NothingPulledAway
<1> QED BY <1>1, IInvAlways, PTL

\* Whatever is pinned and whatever is held, there is room for any checkpoint
\* (hold_checkpoint): what the startup check of the chat budget and the cap
\* on pins at half of it promise each other.
THEOREM HoldsNeverRefusedAlways == Spec => []HoldsNeverRefused
<1>1. IInv => HoldsNeverRefused
  BY NoRefusal DEF IInv, StoreInv, HoldsNeverRefused
<1> QED BY <1>1, IInvAlways, PTL

LEMMA AnswerPassesOn ==
  ASSUME IInv, Answer
  PROVE  \A s \in readSpecs[job.target] :
           <<job.turn.reply, s>> \in {background'[i] : i \in DOMAIN background'}
<1>1. /\ reading' = reading /\ UNCHANGED uploads /\ job.kind = "chat" /\ job.stage = "reply"
      /\ Hold(job.turn.reply, readSpecs[job.target])
  BY DEF Answer, Runs
<1>2. job.turn \in Turns /\ job.target \in Checkpoints
  BY <1>1 DEF IInv, JobInv
<1>3. job.turn.reply \in Checkpoints
  BY <1>2, AdjudicatorAssumption
<1>4. readSpecs[job.target] \in SUBSET Specs
  BY <1>2 DEF IInv, StoreInv
<1>5. \A s \in readSpecs[job.target] : <<job.turn.reply, s>> \in Tasks'
  BY <1>1, <1>3, <1>4, HoldStep DEF IInv
<1> QED BY <1>5 DEF Tasks

\* A turn's answer hands the specs its chat has been read with on to the
\* checkpoint of the reply, those a read added while the reply was being
\* generated too (hold_checkpoint takes them when the reply is complete).
THEOREM ReadsFollowTheChatAlways == Spec => ReadsFollowTheChat
<1>1. ASSUME IInv, [Next]_vars
      PROVE  [Answer => \A s \in readSpecs[job.target] :
                 <<job.turn.reply, s>> \in {background'[i] : i \in DOMAIN background'}]_vars
  BY <1>1, AnswerPassesOn
<1> QED BY <1>1, IInvAlways, PTL DEF Spec, ReadsFollowTheChat
=============================================================================
