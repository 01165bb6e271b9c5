--------------------------- MODULE StateStoreLoops ---------------------------
(***************************************************************************)
(* insert_in of lfm2d/src/state_store.rs loop by loop.  ByteStore says     *)
(* which entries an insert evicts by what is true of them; here the two    *)
(* eviction loops run as the code runs them, one entry a round, and the    *)
(* two are compared in every state a store can reach.                      *)
(***************************************************************************)
EXTENDS StateStore

SX == INSTANCE SequencesExt

\* What `position` returns: the first of some positions of the deque.
First(at) == CHOOSE i \in at : \A j \in at : i <= j

Charged(entries) == Bytes(SX!ToSet(entries))

\* A loop that removes at most one entry a round, run to its end: a round that
\* finds its condition false changes nothing, so the rounds of a deque are
\* over after as many as it has entries.
Rounds(round, entries) ==
  LET after[n \in 0..Len(entries)] ==
        IF n = 0 THEN entries ELSE round[after[n - 1]]
  IN  after[Len(entries)]

GroupRound(pinned, id) ==
  [entries \in Seq(Ids) |->
     LET mates == {i \in DOMAIN entries : Group[entries[i]] = Group[id]}
         loose == {i \in mates : entries[i] \notin pinned}
     IN  IF Group[id] # NoGroup /\ Cardinality(mates) >= Cap[Group[id]] /\ loose # {}
         THEN SX!RemoveAt(entries, First(loose))
         ELSE entries]

BudgetRound(pinned, id) ==
  [entries \in Seq(Ids) |->
     LET loose == {i \in DOMAIN entries : entries[i] \notin pinned}
     IN  IF Charged(entries) + Size[id] > Budget
         THEN SX!RemoveAt(entries, First(loose))
         ELSE entries]

GroupLoop(entries, pinned, id) == Rounds(GroupRound(pinned, id), entries)
BudgetLoop(entries, pinned, id) == Rounds(BudgetRound(pinned, id), entries)

InsertLoop(s, id) ==
  IF id \in Held(s)
  THEN Append(SX!RemoveAt(s.entries, First({i \in DOMAIN s.entries : s.entries[i] = id})), id)
  ELSE IF HoldsNothing(id)
  THEN s.entries
  ELSE Append(BudgetLoop(GroupLoop(s.entries, s.pinned, id), s.pinned, id), id)

\* The loops of insert_in, one eviction at a time, leave the same entries in
\* the same order as the eviction ByteStore declares, in every reachable
\* store and for every accepted insert.
LoopsAgree ==
  \A id \in Ids : ~InsertRefused(store, id)
                    => InsertLoop(store, id) = Inserted(store, id).entries
=============================================================================
