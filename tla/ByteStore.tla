----------------------------- MODULE ByteStore -----------------------------
(***************************************************************************)
(* The bookkeeping of lfm2d/src/state_store.rs: a least-recently-used      *)
(* store under a byte budget, with groups capped by count and pinned       *)
(* entries that eviction passes over.  Two stores of the adjudicator are   *)
(* instances of it: the chat checkpoints (pins, no groups) and the prompt  *)
(* states (groups, no pins).                                               *)
(*                                                                         *)
(* A store is a value, so that the state machines of StateStore and        *)
(* Adjudicator can share the operators below.  The payload of an entry is  *)
(* immutable and named by its id; it is left out.                          *)
(***************************************************************************)
EXTENDS Naturals, Sequences, FiniteSets, Subsequence

CONSTANTS
  Ids,       \* the keys an entry may be held under
  Size,      \* Size[id]: the bytes an entry is charged
  Group,     \* Group[id]: the group an entry belongs to, or NoGroup
  NoGroup,
  Cap,       \* Cap[g]: how many entries group g may hold
  Budget,    \* the store's byte budget
  Bytes(_)   \* Bytes(S): the total Size of a set of ids

Groups == {Group[id] : id \in Ids} \ {NoGroup}

ASSUME SizeAssumption ==
  /\ IsFiniteSet(Ids)
  /\ Size \in [Ids -> Nat]
  /\ Budget \in Nat
  /\ Cap \in [Groups -> Nat]

\* Bytes is the additive measure that Size generates on the sets of ids.
ASSUME BytesAssumption ==
  /\ Bytes({}) = 0
  /\ \A S \in SUBSET Ids : Bytes(S) \in Nat
  /\ \A id \in Ids : Bytes({id}) = Size[id]
  /\ \A S, T \in SUBSET Ids :
       S \cap T = {} => Bytes(S \cup T) = Bytes(S) + Bytes(T)
-----------------------------------------------------------------------------
\* `entries` is the deque of ids, least recently used first.
EmptyStore == [entries |-> <<>>, pinned |-> {}, used |-> 0]

Held(s) == {s.entries[i] : i \in DOMAIN s.entries}

Store ==
  [entries : Seq(Ids), pinned : SUBSET Ids, used : Nat]

\* x is less recently used than y.
Older(s, x, y) ==
  \E i, j \in DOMAIN s.entries :
     i < j /\ s.entries[i] = x /\ s.entries[j] = y

PinnedBytes(s) == Bytes(s.pinned)

\* Entries go one by one, each giving its bytes back: pinned or not, the
\* others keeping their order.
Drop(s, V) ==
  LET gone == V \cap Held(s)
  IN  [entries |-> Without(s.entries, gone),
       pinned  |-> s.pinned \ gone,
       used    |-> s.used - Bytes(gone)]

\* Mutated form: the count is not taken again.
Retained_Stale(s, keep) ==
  [entries |-> Without(s.entries, Held(s) \ keep),
   pinned  |-> s.pinned \cap keep,
   used    |-> s.used]

\* retain recounts what is left instead.
Retained(s, keep) ==
  [entries |-> Without(s.entries, Held(s) \ keep),
   pinned  |-> s.pinned \cap keep,
   used    |-> Bytes(Held(s) \cap keep)]

\* get: the entry moves to the most recently used end.
Touch(s, id) ==
  IF id \in Held(s)
  THEN [entries |-> Append(Without(s.entries, {id}), id),
        pinned  |-> s.pinned,
        used    |-> s.used]
  ELSE s

\* Mutated form: the limit is the whole budget.
PinRefused_Whole(s, id) ==
  id \in Held(s) \ s.pinned /\ PinnedBytes(s) + Size[id] > Budget

PinRefused(s, id) ==
  /\ id \in Held(s) \ s.pinned
  /\ PinnedBytes(s) + Size[id] > Budget \div 2

\* set_pinned of an entry that may be pinned; recency untouched.
SetPinned(s, id, pin) ==
  [entries |-> s.entries,
   pinned  |-> IF pin THEN s.pinned \cup ({id} \cap Held(s)) ELSE s.pinned \ {id},
   used    |-> s.used]

\* Mutated form: pins are not looked at.
InsertRefused_NoPins(s, id) == id \notin Held(s) /\ Size[id] > Budget

\* An insert is refused before anything is evicted.
InsertRefused(s, id) ==
  /\ id \notin Held(s)
  /\ \/ Size[id] > Budget
     \/ PinnedBytes(s) + Size[id] > Budget

GroupMates(s, id) ==
  {x \in Held(s) : Group[id] # NoGroup /\ Group[x] = Group[id]}

HoldsNothing(id) == Group[id] # NoGroup /\ Cap[Group[id]] = 0

\* The group loop evicts x when the group is still at its cap with every
\* older unpinned member gone; it stops at a group of pins only.
GroupVictims(s, id) ==
  LET unpinned == GroupMates(s, id) \ s.pinned
  IN  {x \in unpinned :
         Cardinality(GroupMates(s, id))
           - Cardinality({y \in unpinned : Older(s, y, x)}) >= Cap[Group[id]]}

\* Mutated forms of the budget loop: one eviction too many; the most recent
\* first; pins evicted with the rest.
BudgetVictims_TooMany(s, id) ==
  LET left == Drop(s, GroupVictims(s, id))
      unpinned == Held(left) \ left.pinned
  IN  {x \in unpinned :
         left.used + Size[id]
           >= Budget + Bytes({y \in unpinned : Older(left, y, x)})}

BudgetVictims_Pins(s, id) ==
  LET left == Drop(s, GroupVictims(s, id))
  IN  {x \in Held(left) :
         left.used + Size[id]
           > Budget + Bytes({y \in Held(left) : Older(left, y, x)})}

\* The budget loop evicts x when the entry still does not fit with every
\* older unpinned entry gone.
BudgetVictims(s, id) ==
  LET left == Drop(s, GroupVictims(s, id))
      unpinned == Held(left) \ left.pinned
  IN  {x \in unpinned :
         left.used + Size[id]
           > Budget + Bytes({y \in unpinned : Older(left, y, x)})}

Victims(s, id) == GroupVictims(s, id) \cup BudgetVictims(s, id)

\* The budget loop runs out of unpinned entries: its `expect` panics.
InsertPanics(s, id) ==
  /\ id \notin Held(s)
  /\ ~InsertRefused(s, id)
  /\ ~HoldsNothing(id)
  /\ Drop(s, Victims(s, id)).used + Size[id] > Budget

\* What an accepted insert evicts: an id already held keeps its value.
Evicted(s, id) ==
  IF id \in Held(s) \/ HoldsNothing(id) THEN {} ELSE Victims(s, id)

Inserted(s, id) ==
  IF id \in Held(s) THEN Touch(s, id)
  ELSE IF HoldsNothing(id) THEN s
  ELSE LET left == Drop(s, Victims(s, id))
       IN  [entries |-> Append(left.entries, id),
            pinned  |-> left.pinned,
            used    |-> left.used + Size[id]]
=============================================================================
