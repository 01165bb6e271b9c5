----------------------------- MODULE StateStore -----------------------------
(***************************************************************************)
(* lfm2d/src/state_store.rs as a state machine: any caller, any order of   *)
(* calls, one call a step (every method takes &mut self).                  *)
(***************************************************************************)
EXTENDS ByteStore

VARIABLES
  store,    \* the StateStore
  evicted   \* the ids the last insert reported to its caller as evicted

vars == <<store, evicted>>

Init ==
  /\ store = EmptyStore
  /\ evicted = {}

Insert(id) ==
  /\ ~InsertRefused(store, id)
  /\ ~InsertPanics(store, id)
  /\ store' = Inserted(store, id)
  /\ evicted' = Evicted(store, id)

RefuseInsert(id) ==
  /\ InsertRefused(store, id)
  /\ evicted' = {}
  /\ UNCHANGED store

Get(id) ==
  /\ store' = Touch(store, id)
  /\ UNCHANGED evicted

Pin(id, pin) ==
  /\ id \in Held(store)
  /\ ~(pin /\ PinRefused(store, id))
  /\ store' = SetPinned(store, id, pin)
  /\ UNCHANGED evicted

Remove(id) ==
  /\ id \in Held(store)
  /\ store' = Drop(store, {id})
  /\ UNCHANGED evicted

Retain(keep) ==
  /\ store' = Retained(store, keep)
  /\ UNCHANGED evicted

Next ==
  \/ \E id \in Ids :
       \/ Insert(id)
       \/ RefuseInsert(id)
       \/ Get(id)
       \/ Remove(id)
       \/ \E pin \in BOOLEAN : Pin(id, pin)
  \/ \E keep \in SUBSET Ids : Retain(keep)

Spec == Init /\ [][Next]_vars
-----------------------------------------------------------------------------
TypeOK ==
  /\ store \in Store
  /\ evicted \subseteq Ids

\* The running count is what the held entries are charged, each id is held
\* once, and the budget is never exceeded, whatever mix of group evictions,
\* budget evictions, removals and retains led here.
BooksBalance ==
  /\ \A i, j \in DOMAIN store.entries :
       store.entries[i] = store.entries[j] => i = j
  /\ store.used = Bytes(Held(store))
  /\ store.used <= Budget

\* Pins are held entries and never more than half the budget, across
\* unpin, re-pin, removal and retain.
PinsWithinHalf ==
  /\ store.pinned \subseteq Held(store)
  /\ PinnedBytes(store) <= Budget \div 2

\* The refusal beside the pins is computed early enough that the eviction
\* loop never runs out of unpinned entries.
NeverPanics == \A id \in Ids : ~InsertPanics(store, id)

\* Pins never lock the store: an entry of at most half the budget is
\* accepted in every state.
HalfBudgetAlwaysAdmitted ==
  \A id \in Ids : Size[id] <= Budget - Budget \div 2
                    => ~InsertRefused(store, id)

\* A caller learns of every entry its insert pushed out, which is what lets
\* the adjudicator forget what it kept beside an evicted checkpoint.
EvictionsReported ==
  [][\A id \in Held(store') \ Held(store) :
       Held(store) \ Held(store') = evicted']_store
-----------------------------------------------------------------------------
\* The store implements the bounded set of BoundedStore.
Abstract == INSTANCE BoundedStore WITH held <- Held(store), pinned <- store.pinned
Implements == Abstract!Spec
=============================================================================
