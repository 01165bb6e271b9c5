-------------------------- MODULE StateStore_proofs --------------------------
(***************************************************************************)
(* The state store keeps its books, its pins and its promises for every    *)
(* set of ids, every sizes, groups, caps and budget; and the eviction      *)
(* loops of insert_in, one entry a round, leave what ByteStore says.       *)
(***************************************************************************)
EXTENDS StateStoreLoops, Subsequence_proofs

\* The bytes of a set split over a subset and the rest.
LEMMA BytesSplit ==
  ASSUME NEW S \in SUBSET Ids, NEW T \in SUBSET S
  PROVE  /\ Bytes(S) \in Nat /\ Bytes(T) \in Nat /\ Bytes(S \ T) \in Nat
         /\ Bytes(S) = Bytes(T) + Bytes(S \ T)
<1>1. T \in SUBSET Ids /\ S \ T \in SUBSET Ids /\ T \cap (S \ T) = {}
  OBVIOUS
<1>2. S = T \cup (S \ T)
  OBVIOUS
<1> QED BY <1>1, <1>2, BytesAssumption

\* A well-formed store: what BooksBalance and PinsWithinHalf rest on.
Sound(s) ==
  /\ s \in Store
  /\ Distinct(s.entries)
  /\ s.pinned \subseteq Held(s)
  /\ s.used = Bytes(Held(s))

LEMMA HeldType ==
  ASSUME NEW s, s \in Store
  PROVE  Held(s) \in SUBSET Ids
BY DEF Store, Held

\* Dropping entries keeps a store well-formed and takes exactly their bytes.
LEMMA DropSound ==
  ASSUME NEW s, Sound(s), NEW V
  PROVE  /\ Sound(Drop(s, V))
         /\ Held(Drop(s, V)) = Held(s) \ V
         /\ Drop(s, V).pinned = s.pinned \ V
         /\ Drop(s, V).used = s.used - Bytes(V \cap Held(s))
<1> DEFINE gone == V \cap Held(s)
<1>1. s \in Store /\ Held(s) \in SUBSET Ids /\ s.entries \in Seq(Ids)
  BY HeldType DEF Sound, Store
<1>2. /\ Without(s.entries, gone) \in Seq(Ids)
      /\ ElementsOf(Without(s.entries, gone)) = Held(s) \ gone
      /\ Distinct(Without(s.entries, gone))
  <2>1. ElementsOf(s.entries) = Held(s) /\ Distinct(s.entries)
    BY DEF Sound, Held, ElementsOf
  <2> HIDE DEF gone
  <2> QED BY <1>1, <2>1, WithoutProperties
<1>3. Held(s) \ gone = Held(s) \ V
  OBVIOUS
<1>4. /\ Drop(s, V) = [entries |-> Without(s.entries, gone),
                       pinned  |-> s.pinned \ gone,
                       used    |-> s.used - Bytes(gone)]
  BY DEF Drop
<1>5. Held(Drop(s, V)) = Held(s) \ V
  <2>1. Drop(s, V).entries = Without(s.entries, gone)
    BY <1>4
  <2>2. Held(Drop(s, V)) = ElementsOf(Without(s.entries, gone))
    BY <2>1 DEF Held, ElementsOf
  <2> QED BY <1>2, <1>3, <2>2
<1>6. s.pinned \ gone = s.pinned \ V
  BY DEF Sound
<1>7. Bytes(Held(s)) = Bytes(gone) + Bytes(Held(s) \ gone)
      /\ Bytes(gone) \in Nat /\ Bytes(Held(s) \ gone) \in Nat
  BY <1>1, BytesSplit
<1>8. s.used - Bytes(gone) = Bytes(Held(s) \ V) /\ s.used - Bytes(gone) \in Nat
  <2> HIDE DEF gone
  <2>1. s.used = Bytes(Held(s))
    BY DEF Sound
  <2>2. Bytes(Held(s) \ V) = Bytes(Held(s) \ gone)
    BY <1>3
  <2> QED BY <2>1, <2>2, <1>7
<1>9. s.pinned \ V \in SUBSET (Held(s) \ V) /\ s.pinned \ V \in SUBSET Ids
  BY <1>1 DEF Sound
<1> HIDE DEF gone
<1>10. Drop(s, V) \in Store
  BY <1>2, <1>4, <1>6, <1>8, <1>9 DEF Store
<1> QED
  <2>1. /\ Drop(s, V).pinned = s.pinned \ V
        /\ Drop(s, V).used = s.used - Bytes(gone)
        /\ Drop(s, V).entries = Without(s.entries, gone)
    BY <1>4, <1>6
  <2> QED BY <2>1, <1>2, <1>5, <1>8, <1>9, <1>10 DEF Sound, gone

\* Appending an id that is not held adds it at the most recent end.
LEMMA AppendSound ==
  ASSUME NEW s, Sound(s), NEW id \in Ids, id \notin Held(s),
         NEW t, t = [entries |-> Append(s.entries, id),
                     pinned  |-> s.pinned,
                     used    |-> s.used + Size[id]]
  PROVE  Sound(t) /\ Held(t) = Held(s) \cup {id}
<1>1. s \in Store /\ s.entries \in Seq(Ids) /\ Held(s) \in SUBSET Ids
  BY HeldType DEF Sound, Store
<1>2. /\ t.entries = Append(s.entries, id)
      /\ t.pinned = s.pinned
      /\ t.used = s.used + Size[id]
  OBVIOUS
<1>3. /\ DOMAIN t.entries = 1..(Len(s.entries) + 1)
      /\ \A i \in DOMAIN s.entries : t.entries[i] = s.entries[i]
      /\ t.entries[Len(s.entries) + 1] = id
      /\ DOMAIN s.entries = 1..Len(s.entries) /\ Len(s.entries) \in Nat
  BY <1>1, <1>2
<1>4. \A i \in DOMAIN t.entries : i \in DOMAIN s.entries \/ i = Len(s.entries) + 1
  BY <1>3
<1>5. Held(t) = Held(s) \cup {id}
  BY <1>3, <1>4 DEF Held
<1>6. \A i \in DOMAIN s.entries : s.entries[i] # id
  BY DEF Held
<1>7. Distinct(t.entries)
  BY <1>3, <1>4, <1>6 DEF Distinct, Sound
<1>8. /\ Bytes(Held(s) \cup {id}) = Bytes(Held(s)) + Size[id]
      /\ Bytes(Held(s)) \in Nat /\ Size[id] \in Nat
  <2>1. Held(s) \cap {id} = {} /\ {id} \in SUBSET Ids
    OBVIOUS
  <2> QED BY <2>1, <1>1, BytesAssumption, SizeAssumption
<1>9. t \in Store
  BY <1>1, <1>2, <1>8 DEF Store, Sound
<1> QED BY <1>2, <1>5, <1>7, <1>8, <1>9 DEF Sound

\* Touching an entry moves it and changes nothing else.
LEMMA TouchSound ==
  ASSUME NEW s, Sound(s), NEW id \in Held(s)
  PROVE  /\ Sound(Touch(s, id))
         /\ Held(Touch(s, id)) = Held(s)
         /\ Touch(s, id).pinned = s.pinned
         /\ Touch(s, id).used = s.used
<1> DEFINE d == Drop(s, {id})
           t == [entries |-> Append(d.entries, id), pinned |-> d.pinned,
                 used |-> d.used + Size[id]]
           r == Touch(s, id)
<1>1. /\ id \in Ids /\ Held(s) \in SUBSET Ids /\ s \in Store
      /\ {id} \cap Held(s) = {id} /\ {id} \in SUBSET Ids
  BY HeldType DEF Sound
<1>2. /\ Sound(d) /\ Held(d) = Held(s) \ {id}
      /\ d.entries = Without(s.entries, {id})
  <2>1. Sound(d) /\ Held(d) = Held(s) \ {id}
    BY DropSound
  <2> QED BY <2>1, <1>1 DEF Drop
<1>3. Sound(t) /\ Held(t) = Held(s)
  <2> HIDE DEF d
  <2>1. id \notin Held(d)
    BY <1>2
  <2>2. Sound(t) /\ Held(t) = Held(d) \cup {id}
    BY <2>1, <1>1, <1>2, AppendSound
  <2> QED BY <2>2, <1>2
<1>4. /\ r.entries = t.entries /\ r.pinned = s.pinned /\ r.used = s.used
      /\ r = [entries |-> t.entries, pinned |-> s.pinned, used |-> s.used]
  BY <1>2 DEF Touch
<1> HIDE DEF t, r
<1>5. Held(r) = Held(s)
  BY <1>3, <1>4 DEF Held
<1>6. r \in Store
  BY <1>1, <1>3, <1>4 DEF Sound, Store
<1>7. Sound(r)
  BY <1>3, <1>4, <1>5, <1>6 DEF Sound
<1> QED BY <1>4, <1>5, <1>7 DEF r

LEMMA RetainedSound ==
  ASSUME NEW s, Sound(s), NEW keep
  PROVE  /\ Sound(Retained(s, keep))
         /\ Held(Retained(s, keep)) = Held(s) \cap keep
         /\ Retained(s, keep).pinned = s.pinned \cap keep
<1> DEFINE r == Retained(s, keep)
           gone == Held(s) \ keep
<1>1. s \in Store /\ Held(s) \in SUBSET Ids /\ s.entries \in Seq(Ids)
  BY HeldType DEF Sound, Store
<1>2. /\ Without(s.entries, gone) \in Seq(Ids)
      /\ ElementsOf(Without(s.entries, gone)) = ElementsOf(s.entries) \ gone
      /\ Distinct(Without(s.entries, gone))
  <2>1. Distinct(s.entries)
    BY DEF Sound
  <2> HIDE DEF gone
  <2> QED BY <1>1, <2>1, WithoutProperties
<1>3. /\ r.entries = Without(s.entries, gone)
      /\ r.pinned = s.pinned \cap keep
      /\ r.used = Bytes(Held(s) \cap keep)
      /\ r = [entries |-> r.entries, pinned |-> r.pinned, used |-> r.used]
  BY DEF Retained
<1> HIDE DEF r
<1>4. Held(r) = Held(s) \cap keep
  <2>1. Held(r) = ElementsOf(Without(s.entries, gone))
    BY <1>3 DEF Held, ElementsOf
  <2>2. ElementsOf(s.entries) = Held(s)
    BY DEF Held, ElementsOf
  <2> QED BY <2>1, <2>2, <1>2
<1>5. Bytes(Held(s) \cap keep) \in Nat
  BY <1>1, BytesAssumption
<1>6. r.pinned \in SUBSET Ids /\ r.pinned \subseteq Held(r)
  BY <1>1, <1>3, <1>4 DEF Sound
<1> HIDE DEF gone
<1>7. r \in Store
  BY <1>2, <1>3, <1>5, <1>6 DEF Store
<1>8. Sound(r)
  BY <1>2, <1>3, <1>4, <1>6, <1>7 DEF Sound
<1> QED BY <1>3, <1>4, <1>8 DEF r

LEMMA SetPinnedSound ==
  ASSUME NEW s, Sound(s), NEW id \in Held(s), NEW pin \in BOOLEAN
  PROVE  /\ Sound(SetPinned(s, id, pin))
         /\ Held(SetPinned(s, id, pin)) = Held(s)
         /\ SetPinned(s, id, pin).used = s.used
         /\ pin => SetPinned(s, id, pin).pinned = s.pinned \cup {id}
         /\ ~pin => SetPinned(s, id, pin).pinned = s.pinned \ {id}
<1> DEFINE r == SetPinned(s, id, pin)
<1>1. s \in Store /\ Held(s) \in SUBSET Ids
  BY HeldType DEF Sound
<1>2. /\ r.entries = s.entries /\ r.used = s.used
      /\ pin => r.pinned = s.pinned \cup {id}
      /\ ~pin => r.pinned = s.pinned \ {id}
      /\ r = [entries |-> r.entries, pinned |-> r.pinned, used |-> r.used]
  <2>1. {id} \cap Held(s) = {id}
    OBVIOUS
  <2> QED BY <2>1 DEF SetPinned
<1> HIDE DEF r
<1>3. Held(r) = Held(s)
  BY <1>2 DEF Held
<1>4. r.pinned \in SUBSET Held(s) /\ r.pinned \in SUBSET Ids
  BY <1>1, <1>2 DEF Sound
<1>5. r \in Store
  BY <1>1, <1>2, <1>4 DEF Store
<1>6. Sound(r)
  BY <1>2, <1>3, <1>4, <1>5 DEF Sound
<1> QED BY <1>2, <1>3, <1>6 DEF r

\* Evictions are unpinned held entries, and the two loops never take the
\* same one.
LEMMA VictimsUnpinned ==
  ASSUME NEW s, Sound(s), NEW id
  PROVE  /\ GroupVictims(s, id) \subseteq Held(s) \ s.pinned
         /\ BudgetVictims(s, id) \subseteq Held(s) \ s.pinned
         /\ GroupVictims(s, id) \cap BudgetVictims(s, id) = {}
<1>1. GroupVictims(s, id) \subseteq Held(s) \ s.pinned
  BY DEF GroupVictims, GroupMates
<1>2. /\ Held(Drop(s, GroupVictims(s, id))) = Held(s) \ GroupVictims(s, id)
      /\ Drop(s, GroupVictims(s, id)).pinned = s.pinned \ GroupVictims(s, id)
  BY DropSound
<1>3. BudgetVictims(s, id) \subseteq Held(Drop(s, GroupVictims(s, id)))
                                    \ Drop(s, GroupVictims(s, id)).pinned
  BY DEF BudgetVictims
<1> QED BY <1>1, <1>2, <1>3

\* Why the `expect` of the budget loop cannot fail: an entry accepted beside
\* the pins fits once the victims are gone.  Either every unpinned entry is a
\* victim, and what is left is the pins; or the oldest entry that is not a
\* victim marks where the loop stopped, and it stopped because the entry fits.
LEMMA EvictionSuffices ==
  ASSUME NEW s, Sound(s), NEW id \in Ids, PinnedBytes(s) + Size[id] <= Budget
  PROVE  Drop(s, Victims(s, id)).used + Size[id] <= Budget
<1> DEFINE gv == GroupVictims(s, id)
           bv == BudgetVictims(s, id)
           left == Drop(s, gv)
           unpinned == Held(left) \ left.pinned
           before(x) == {y \in unpinned : Older(left, y, x)}
<1>1. /\ gv \subseteq Held(s) \ s.pinned /\ bv \subseteq Held(s) \ s.pinned
      /\ gv \cap bv = {}
  BY VictimsUnpinned
<1>2. /\ Sound(left) /\ Held(left) = Held(s) \ gv /\ left.pinned = s.pinned \ gv
      /\ left.used = s.used - Bytes(gv \cap Held(s))
  <2> HIDE DEF gv
  <2> QED BY DropSound
<1>3. /\ Held(s) \in SUBSET Ids /\ Held(left) \in SUBSET Ids
      /\ s.used = Bytes(Held(s)) /\ left.used = Bytes(Held(left))
      /\ s.pinned \subseteq Held(s)
  BY <1>2, HeldType DEF Sound
<1>4. bv = {x \in unpinned : left.used + Size[id] > Budget + Bytes(before(x))}
  BY DEF BudgetVictims
<1> HIDE DEF gv, bv, left
<1>5. left.pinned = s.pinned /\ gv \cap Held(s) = gv
      /\ (gv \cup bv) \cap Held(s) = gv \cup bv
  BY <1>1, <1>2
<1>6. Drop(s, Victims(s, id)).used = s.used - Bytes(gv \cup bv)
  BY <1>5, DropSound DEF Victims, gv, bv
<1>7. /\ Bytes(gv \cup bv) = Bytes(gv) + Bytes(bv)
      /\ Bytes(gv) \in Nat /\ Bytes(bv) \in Nat
  <2>1. gv \in SUBSET Ids /\ bv \in SUBSET Ids
    BY <1>1, <1>3
  <2> QED BY <2>1, <1>1, BytesAssumption
<1>8. SUFFICES left.used - Bytes(bv) + Size[id] <= Budget
  <2>1. s.used \in Nat /\ Size[id] \in Nat /\ left.used \in Nat /\ Budget \in Nat
    BY <1>2, SizeAssumption DEF Sound, Store
  <2>2. left.used = s.used - Bytes(gv)
    BY <1>2, <1>5
  <2> QED BY <1>6, <1>7, <2>1, <2>2
<1>9. left.used \in Nat /\ Size[id] \in Nat /\ Budget \in Nat
  BY <1>2, SizeAssumption DEF Sound, Store
<1>10. CASE unpinned \subseteq bv
  <2>1. bv = unpinned
    BY <1>4, <1>10
  <2>2. /\ Bytes(Held(left)) = Bytes(left.pinned) + Bytes(unpinned)
        /\ Bytes(left.pinned) \in Nat /\ Bytes(unpinned) \in Nat
    <3>1. left.pinned \in SUBSET Held(left)
      BY <1>2 DEF Sound
    <3> QED BY <3>1, <1>3, BytesSplit
  <2>3. Bytes(left.pinned) + Size[id] <= Budget
    BY <1>5 DEF PinnedBytes
  <2> HIDE DEF unpinned
  <2> QED BY <2>1, <2>2, <2>3, <1>3, <1>9
<1>11. CASE ~(unpinned \subseteq bv)
  <2> DEFINE places == {i \in DOMAIN left.entries : left.entries[i] \in unpinned \ bv}
  <2>1. left.entries \in Seq(Ids) /\ DOMAIN left.entries \in SUBSET Nat
    BY <1>2 DEF Sound, Store
  <2>2. places \in SUBSET Nat /\ places # {}
    BY <2>1, <1>11 DEF Held
  <2>3. PICK first \in places : \A i \in places : first <= i
    BY <2>2, LeastNat
  <2> DEFINE x == left.entries[first]
  <2>4. x \in unpinned /\ x \notin bv
    BY <2>3
  <2>5. before(x) \subseteq bv
    <3> SUFFICES ASSUME NEW y \in unpinned, Older(left, y, x)
                 PROVE  y \in bv
      OBVIOUS
    <3>1. PICK i \in DOMAIN left.entries, j \in DOMAIN left.entries :
            i < j /\ left.entries[i] = y /\ left.entries[j] = x
      BY DEF Older
    <3>2. j = first
      BY <3>1, <2>3, <1>2 DEF Sound, Distinct
    <3>3. i \notin places
      BY <3>1, <3>2, <2>1, <2>3
    <3> QED BY <3>1, <3>3
  <2>6. ~(left.used + Size[id] > Budget + Bytes(before(x)))
    BY <2>4, <1>4
  <2>7. bv \in SUBSET Ids
    BY <1>1, <1>3
  <2>8. Bytes(before(x)) \in Nat /\ Bytes(before(x)) <= Bytes(bv)
    <3> HIDE DEF x, before
    <3>1. Bytes(bv) = Bytes(before(x)) + Bytes(bv \ before(x))
          /\ Bytes(before(x)) \in Nat /\ Bytes(bv \ before(x)) \in Nat
      BY <2>5, <2>7, BytesSplit
    <3> QED BY <3>1
  <2> HIDE DEF x, before, unpinned
  <2> QED BY <2>6, <2>8, <1>7, <1>9
<1> QED BY <1>10, <1>11
-----------------------------------------------------------------------------
IInv ==
  /\ Sound(store)
  /\ store.used <= Budget
  /\ PinnedBytes(store) <= Budget \div 2
  /\ evicted \subseteq Ids

LEMMA IInvImpliesNoPanic ==
  ASSUME IInv, NEW id \in Ids
  PROVE  ~InsertPanics(store, id)
<1> SUFFICES ASSUME ~InsertRefused(store, id), id \notin Held(store)
             PROVE  ~(Drop(store, Victims(store, id)).used + Size[id] > Budget)
  BY DEF InsertPanics
<1>1. PinnedBytes(store) + Size[id] <= Budget
  <2>1. store.pinned \in SUBSET Ids
    BY DEF IInv, Sound, Store
  <2>2. PinnedBytes(store) \in Nat /\ Size[id] \in Nat /\ Budget \in Nat
    BY <2>1, BytesAssumption, SizeAssumption DEF PinnedBytes
  <2> QED BY <2>2 DEF InsertRefused
<1>2. Drop(store, Victims(store, id)).used + Size[id] <= Budget
  BY <1>1, EvictionSuffices DEF IInv
<1>3. Drop(store, Victims(store, id)).used \in Nat
  BY DropSound DEF IInv, Sound, Store
<1> QED BY <1>2, <1>3, SizeAssumption

\* An accepted insert keeps the store well-formed and within its budget,
\* keeps every pin, and holds the new entry beside what was not evicted.
LEMMA InsertedSound ==
  ASSUME NEW s, Sound(s), s.used <= Budget, NEW id \in Ids,
         ~InsertRefused(s, id)
  PROVE  /\ Sound(Inserted(s, id))
         /\ Inserted(s, id).used <= Budget
         /\ Inserted(s, id).pinned = s.pinned
         /\ Evicted(s, id) \subseteq Held(s) \ s.pinned
         /\ \/ Held(Inserted(s, id)) = (Held(s) \ Evicted(s, id)) \cup {id}
            \/ Inserted(s, id) = s /\ Evicted(s, id) = {}
<1>1. CASE id \in Held(s)
  <2>1. Inserted(s, id) = Touch(s, id) /\ Evicted(s, id) = {}
    BY <1>1 DEF Inserted, Evicted
  <2> QED BY <2>1, <1>1, TouchSound
<1>2. CASE id \notin Held(s) /\ HoldsNothing(id)
  <2>1. Inserted(s, id) = s /\ Evicted(s, id) = {}
    BY <1>2 DEF Inserted, Evicted
  <2> QED BY <2>1
<1>3. CASE id \notin Held(s) /\ ~HoldsNothing(id)
  <2> DEFINE left == Drop(s, Victims(s, id))
             t == [entries |-> Append(left.entries, id),
                   pinned  |-> left.pinned,
                   used    |-> left.used + Size[id]]
  <2>1. Inserted(s, id) = t /\ Evicted(s, id) = Victims(s, id)
    BY <1>3 DEF Inserted, Evicted
  <2>2. Victims(s, id) \subseteq Held(s) \ s.pinned
    BY VictimsUnpinned DEF Victims
  <2>3. /\ Sound(left) /\ Held(left) = Held(s) \ Victims(s, id)
        /\ left.pinned = s.pinned
    <3>1. /\ Sound(left) /\ Held(left) = Held(s) \ Victims(s, id)
          /\ left.pinned = s.pinned \ Victims(s, id)
      BY DropSound
    <3> QED BY <3>1, <2>2
  <2>4. Sound(t) /\ Held(t) = Held(left) \cup {id}
    <3> HIDE DEF left
    <3>1. id \notin Held(left)
      BY <2>3, <1>3
    <3> QED BY <3>1, <2>3, AppendSound
  <2>5. left.used + Size[id] <= Budget
    <3>1. s.pinned \in SUBSET Ids
      BY DEF Sound, Store
    <3>2. PinnedBytes(s) \in Nat /\ Size[id] \in Nat /\ Budget \in Nat
      BY <3>1, BytesAssumption, SizeAssumption DEF PinnedBytes
    <3>3. PinnedBytes(s) + Size[id] <= Budget
      BY <3>2, <1>3 DEF InsertRefused
    <3> QED BY <3>3, EvictionSuffices
  <2>6. t.used = left.used + Size[id] /\ t.pinned = left.pinned
    OBVIOUS
  <2> HIDE DEF t, left
  <2> QED BY <2>1, <2>2, <2>3, <2>4, <2>5, <2>6
<1> QED BY <1>1, <1>2, <1>3

LEMMA IInvInit == Init => IInv
<1> SUFFICES ASSUME Init PROVE IInv
  OBVIOUS
<1>1. /\ store.entries = <<>> /\ store.pinned = {} /\ store.used = 0
      /\ store = [entries |-> <<>>, pinned |-> {}, used |-> 0] /\ evicted = {}
  BY DEF Init, EmptyStore
<1>2. Held(store) = {} /\ Distinct(store.entries)
  BY <1>1 DEF Held, Distinct
<1>3. store \in Store
  BY <1>1 DEF Store
<1>4. Bytes({}) = 0 /\ Budget \in Nat /\ 0 <= Budget \div 2
  BY BytesAssumption, SizeAssumption
<1>5. Sound(store)
  BY <1>1, <1>2, <1>3, <1>4 DEF Sound
<1>6. PinnedBytes(store) = 0
  BY <1>1, <1>4 DEF PinnedBytes
<1> QED BY <1>1, <1>4, <1>5, <1>6 DEF IInv

LEMMA IInvNext == IInv /\ [Next]_vars => IInv'
<1> SUFFICES ASSUME IInv, [Next]_vars PROVE IInv'
  OBVIOUS
<1> USE DEF IInv
<1>1. Sound(store) /\ Held(store) \in SUBSET Ids
  BY HeldType DEF Sound
<1>2. ASSUME Sound(store'), store'.used <= Budget,
             Bytes(store'.pinned) <= Budget \div 2, evicted' \subseteq Ids
      PROVE  IInv'
  BY <1>2 DEF Sound, Held, PinnedBytes
<1>3. ASSUME NEW id \in Ids, Insert(id)
      PROVE  IInv'
  <2>1. /\ Sound(store') /\ store'.used <= Budget
        /\ store'.pinned = store.pinned
        /\ Evicted(store, id) \subseteq Held(store) \ store.pinned
    BY <1>3, InsertedSound DEF Insert
  <2>2. evicted' \subseteq Ids
    BY <1>1, <1>3, <2>1 DEF Insert
  <2> QED BY <1>2, <2>1, <2>2 DEF PinnedBytes
<1>4. ASSUME NEW id \in Ids, RefuseInsert(id)
      PROVE  IInv'
  BY <1>2, <1>4 DEF RefuseInsert, PinnedBytes
<1>5. ASSUME NEW id \in Ids, Get(id)
      PROVE  IInv'
  <2>1. CASE id \in Held(store)
    BY <1>2, <1>5, <2>1, TouchSound DEF Get, PinnedBytes
  <2>2. CASE id \notin Held(store)
    BY <1>2, <1>5, <2>2 DEF Get, Touch, PinnedBytes
  <2> QED BY <2>1, <2>2
<1>6. ASSUME NEW id \in Ids, Remove(id)
      PROVE  IInv'
  <2>1. Sound(store') /\ store'.pinned \subseteq store.pinned
        /\ store'.used = store.used - Bytes({id} \cap Held(store))
    <3>1. /\ Sound(Drop(store, {id}))
          /\ Drop(store, {id}).pinned = store.pinned \ {id}
          /\ Drop(store, {id}).used = store.used - Bytes({id} \cap Held(store))
      BY <1>1, DropSound
    <3>2. store' = Drop(store, {id})
      BY <1>6 DEF Remove
    <3> QED BY <3>1, <3>2
  <2>2. /\ Bytes(store.pinned)
              = Bytes(store'.pinned) + Bytes(store.pinned \ store'.pinned)
        /\ Bytes(store'.pinned) \in Nat
        /\ Bytes(store.pinned \ store'.pinned) \in Nat
        /\ Bytes({id} \cap Held(store)) \in Nat
    <3>1. store.pinned \in SUBSET Ids /\ {id} \cap Held(store) \in SUBSET Ids
      BY <1>1 DEF Sound, Store
    <3> QED BY <2>1, <3>1, BytesSplit, BytesAssumption
  <2>3. store.used \in Nat /\ Budget \in Nat
    BY <1>1, SizeAssumption DEF Sound, Store
  <2>4. evicted' \subseteq Ids
    BY <1>6 DEF Remove
  <2> QED BY <1>2, <2>1, <2>2, <2>3, <2>4 DEF PinnedBytes
<1>7. ASSUME NEW id \in Ids, NEW pin \in BOOLEAN, Pin(id, pin)
      PROVE  IInv'
  <2>1. /\ Sound(store') /\ store'.used = store.used /\ id \in Held(store)
        /\ pin => store'.pinned = store.pinned \cup {id}
        /\ ~pin => store'.pinned = store.pinned \ {id}
        /\ evicted' = evicted
    <3>1. store' = SetPinned(store, id, pin) /\ id \in Held(store) /\ evicted' = evicted
      BY <1>7 DEF Pin
    <3> DEFINE r == SetPinned(store, id, pin)
    <3>2. /\ Sound(r) /\ r.used = store.used
          /\ pin => r.pinned = store.pinned \cup {id}
          /\ ~pin => r.pinned = store.pinned \ {id}
      BY <3>1, <1>1, SetPinnedSound
    <3> HIDE DEF r
    <3>3. store' = r
      BY <3>1 DEF r
    <3> QED BY <3>1, <3>2, <3>3
  <2>2. store.pinned \in SUBSET Ids
    BY <1>1 DEF Sound, Store
  <2>3. CASE pin /\ id \notin store.pinned
    <3>1. ~(PinnedBytes(store) + Size[id] > Budget \div 2)
      BY <1>7, <2>1, <2>3 DEF Pin, PinRefused
    <3>2. /\ Bytes(store'.pinned) = Bytes(store.pinned) + Size[id]
          /\ Bytes(store.pinned) \in Nat /\ Size[id] \in Nat /\ Budget \in Nat
      <4>1. store.pinned \cap {id} = {} /\ {id} \in SUBSET Ids
        BY <2>3
      <4> QED BY <4>1, <2>1, <2>2, <2>3, BytesAssumption, SizeAssumption
    <3> QED BY <1>2, <2>1, <3>1, <3>2 DEF PinnedBytes
  <2>4. CASE pin /\ id \in store.pinned
    <3>1. store'.pinned = store.pinned
      BY <2>1, <2>4
    <3> QED BY <1>2, <2>1, <3>1 DEF PinnedBytes
  <2>5. CASE ~pin
    <3>1. /\ Bytes(store.pinned)
                = Bytes(store.pinned \ {id})
                    + Bytes(store.pinned \ (store.pinned \ {id}))
          /\ Bytes(store.pinned \ {id}) \in Nat
          /\ Bytes(store.pinned \ (store.pinned \ {id})) \in Nat
      BY <2>2, BytesSplit
    <3>2. store'.pinned = store.pinned \ {id} /\ Budget \in Nat
      BY <2>1, <2>5, SizeAssumption
    <3> QED BY <1>2, <2>1, <3>1, <3>2 DEF PinnedBytes
  <2> QED BY <2>3, <2>4, <2>5
<1>8. ASSUME NEW keep \in SUBSET Ids, Retain(keep)
      PROVE  IInv'
  <2>1. /\ Sound(store') /\ Held(store') = Held(store) \cap keep
        /\ store'.pinned = store.pinned \cap keep /\ evicted' = evicted
    BY <1>8, RetainedSound DEF Retain
  <2>2. /\ Bytes(store.pinned)
              = Bytes(store'.pinned) + Bytes(store.pinned \ store'.pinned)
        /\ Bytes(store'.pinned) \in Nat
        /\ Bytes(store.pinned \ store'.pinned) \in Nat
    <3>1. store.pinned \in SUBSET Ids /\ store'.pinned \in SUBSET store.pinned
      BY <1>1, <2>1 DEF Sound, Store
    <3> QED BY <3>1, BytesSplit
  <2>3. /\ Bytes(Held(store))
              = Bytes(Held(store')) + Bytes(Held(store) \ Held(store'))
        /\ Bytes(Held(store')) \in Nat
        /\ Bytes(Held(store) \ Held(store')) \in Nat
    <3>1. Held(store') \in SUBSET Held(store)
      BY <2>1
    <3> QED BY <3>1, <1>1, BytesSplit
  <2>4. store.used = Bytes(Held(store)) /\ store'.used = Bytes(Held(store'))
    BY <2>1 DEF Sound
  <2> QED BY <1>2, <2>1, <2>2, <2>3, <2>4, SizeAssumption DEF PinnedBytes
<1>9. CASE UNCHANGED vars
  BY <1>2, <1>9 DEF vars, PinnedBytes
<1> QED BY <1>3, <1>4, <1>5, <1>6, <1>7, <1>8, <1>9 DEF Next

LEMMA IInvAlways == Spec => []IInv
BY IInvInit, IInvNext, PTL DEF Spec

\* The store stays well-typed under every sequence of calls.
THEOREM TypeCorrect == Spec => []TypeOK
<1>1. IInv => TypeOK
  BY DEF IInv, Sound, TypeOK
<1> QED BY <1>1, IInvAlways, PTL

\* The running count equals what is held, no id is held twice and the budget
\* is never exceeded.
THEOREM BooksAlwaysBalance == Spec => []BooksBalance
<1>1. IInv => BooksBalance
  BY DEF IInv, Sound, BooksBalance, Distinct
<1> QED BY <1>1, IInvAlways, PTL

\* Pins are held and stay within half the budget.
THEOREM PinsAlwaysWithinHalf == Spec => []PinsWithinHalf
<1>1. IInv => PinsWithinHalf
  BY DEF IInv, Sound, PinsWithinHalf
<1> QED BY <1>1, IInvAlways, PTL

\* The `expect` in insert_in is unreachable.
THEOREM InsertNeverPanics == Spec => []NeverPanics
<1>1. IInv => NeverPanics
  BY IInvImpliesNoPanic DEF NeverPanics
<1> QED BY <1>1, IInvAlways, PTL

\* Pins never lock the store against an entry of half the budget.
THEOREM HalfAlwaysAdmitted == Spec => []HalfBudgetAlwaysAdmitted
<1>1. IInv => HalfBudgetAlwaysAdmitted
  <2> SUFFICES ASSUME IInv, NEW id \in Ids, Size[id] <= Budget - Budget \div 2
               PROVE  ~InsertRefused(store, id)
    BY DEF HalfBudgetAlwaysAdmitted
  <2>1. store.pinned \in SUBSET Ids
    BY DEF IInv, Sound, Store
  <2>2. PinnedBytes(store) \in Nat /\ Size[id] \in Nat /\ Budget \in Nat
    BY <2>1, BytesAssumption, SizeAssumption DEF PinnedBytes
  <2> QED BY <2>2 DEF InsertRefused, IInv
<1> QED BY <1>1, IInvAlways, PTL

\* An insert that holds a new entry reports exactly what left the store.
THEOREM EvictionsAlwaysReported == Spec => EvictionsReported
<1>1. IInv /\ [Next]_vars =>
        [\A id \in Held(store') \ Held(store) :
           Held(store) \ Held(store') = evicted']_store
  <2> SUFFICES ASSUME IInv, [Next]_vars,
                      NEW id \in Held(store'), id \notin Held(store)
               PROVE  Held(store) \ Held(store') = evicted'
    OBVIOUS
  <2>1. Sound(store) /\ Held(store) \in SUBSET Ids
    BY HeldType DEF IInv, Sound
  <2>2. ASSUME NEW x \in Ids, Insert(x)
        PROVE  Held(store) \ Held(store') = evicted'
    <3>1. /\ Evicted(store, x) \subseteq Held(store) \ store.pinned
          /\ \/ Held(Inserted(store, x)) = (Held(store) \ Evicted(store, x)) \cup {x}
             \/ Inserted(store, x) = store /\ Evicted(store, x) = {}
      BY <2>1, <2>2, InsertedSound DEF Insert, IInv
    <3>2. Held(store') = Held(Inserted(store, x)) /\ evicted' = Evicted(store, x)
      BY <2>2 DEF Insert, Held
    <3>3. x \in Held(store) => Evicted(store, x) = {}
      BY DEF Evicted
    <3> QED BY <3>1, <3>2, <3>3 DEF Held
  <2>3. ASSUME NEW x \in Ids,
               \/ RefuseInsert(x) \/ Get(x) \/ Remove(x)
               \/ \E pin \in BOOLEAN : Pin(x, pin)
        PROVE  Held(store') \subseteq Held(store)
    <3>1. CASE RefuseInsert(x)
      BY <3>1 DEF RefuseInsert, Held
    <3>2. CASE Get(x)
      <4>1. x \in Held(store) => Held(Touch(store, x)) = Held(store)
        BY <2>1, TouchSound
      <4>2. x \notin Held(store) => Touch(store, x) = store
        BY DEF Touch
      <4>3. store' = Touch(store, x)
        BY <3>2 DEF Get
      <4> QED BY <4>1, <4>2, <4>3 DEF Held
    <3>3. CASE Remove(x)
      <4>1. Held(Drop(store, {x})) = Held(store) \ {x}
        BY <2>1, DropSound
      <4> QED BY <4>1, <3>3 DEF Remove, Held
    <3>4. ASSUME NEW pin \in BOOLEAN, Pin(x, pin)
          PROVE  Held(store') \subseteq Held(store)
      BY <3>4 DEF Pin, SetPinned, Held
    <3> QED BY <2>3, <3>1, <3>2, <3>3, <3>4
  <2>4. ASSUME NEW keep \in SUBSET Ids, Retain(keep)
        PROVE  Held(store') \subseteq Held(store)
    <3>1. Held(Retained(store, keep)) = Held(store) \cap keep
      BY <2>1, RetainedSound
    <3> QED BY <3>1, <2>4 DEF Retain, Held
  <2>5. CASE UNCHANGED vars
    BY <2>5 DEF vars, Held
  <2> QED BY <2>2, <2>3, <2>4, <2>5 DEF Next
<1>2. Spec => [][\A id \in Held(store') \ Held(store) :
                   Held(store) \ Held(store') = evicted']_store
  BY <1>1, IInvAlways, PTL DEF Spec
<1> QED BY <1>2 DEF EvictionsReported
-----------------------------------------------------------------------------
\* The store implements the bounded set: every call is an admission, a pin, an
\* unpin or a forgetting of BoundedStore, or leaves the set as it was.
THEOREM StoreImplementsBoundedStore == Spec => Implements
<1>1. Init => Abstract!Init
  BY DEF Init, EmptyStore, Held, Abstract!Init
<1>2. IInv /\ IInv' /\ [Next]_vars
        => [Abstract!Next]_<<Held(store), store.pinned>>
  <2> SUFFICES ASSUME IInv, IInv', [Next]_vars
               PROVE  Abstract!Next \/ UNCHANGED <<Held(store), store.pinned>>
    OBVIOUS
  <2>1. /\ Sound(store) /\ Held(store) \in SUBSET Ids
        /\ store'.used = Bytes(Held(store')) /\ store'.used <= Budget
        /\ store.pinned \subseteq Held(store)
    BY HeldType DEF IInv, Sound, Held
  <2>2. ASSUME NEW id \in Ids, Insert(id)
        PROVE  Abstract!Next \/ UNCHANGED <<Held(store), store.pinned>>
    <3>1. /\ Evicted(store, id) \in SUBSET (Held(store) \ store.pinned)
          /\ Inserted(store, id).pinned = store.pinned
          /\ \/ Held(Inserted(store, id)) = (Held(store) \ Evicted(store, id)) \cup {id}
             \/ Inserted(store, id) = store
      BY <2>1, <2>2, InsertedSound DEF Insert, IInv
    <3>2. store' = Inserted(store, id) /\ Held(store') = Held(Inserted(store, id))
      BY <2>2 DEF Insert, Held
    <3>3. CASE Inserted(store, id) = store
      BY <3>2, <3>3 DEF Held
    <3>4. CASE Held(Inserted(store, id)) = (Held(store) \ Evicted(store, id)) \cup {id}
      <4>1. Abstract!Admit(id)
        BY <2>1, <3>1, <3>2, <3>4 DEF Abstract!Admit
      <4> QED BY <4>1 DEF Abstract!Next
    <3> QED BY <3>1, <3>3, <3>4
  <2>3. ASSUME NEW id \in Ids, RefuseInsert(id)
        PROVE  UNCHANGED <<Held(store), store.pinned>>
    BY <2>3 DEF RefuseInsert, Held
  <2>4. ASSUME NEW id \in Ids, Get(id)
        PROVE  UNCHANGED <<Held(store), store.pinned>>
    <3>1. store' = Touch(store, id)
      BY <2>4 DEF Get
    <3>2. CASE id \in Held(store)
      <4>1. Held(Touch(store, id)) = Held(store) /\ Touch(store, id).pinned = store.pinned
        BY <2>1, <3>2, TouchSound
      <4> QED BY <3>1, <4>1 DEF Held
    <3>3. CASE id \notin Held(store)
      BY <3>1, <3>3 DEF Touch, Held
    <3> QED BY <3>2, <3>3
  <2>5. ASSUME NEW id \in Ids, Remove(id)
        PROVE  Abstract!Next
    <3>1. store' = Drop(store, {id})
      BY <2>5 DEF Remove
    <3>2. /\ Held(Drop(store, {id})) = Held(store) \ {id}
          /\ Drop(store, {id}).pinned = store.pinned \ {id}
      BY <2>1, DropSound
    <3>3. Held(store') = Held(store) \ {id} /\ store'.pinned = store.pinned \ {id}
      BY <3>1, <3>2 DEF Held
    <3> DEFINE keep == Ids \ {id}
    <3>4. /\ keep \in SUBSET Ids /\ Held(store') = Held(store) \cap keep
          /\ store'.pinned = store.pinned \cap keep
      BY <2>1, <3>3
    <3> HIDE DEF keep
    <3> QED BY <3>4 DEF Abstract!Next, Abstract!Forget
  <2>6. ASSUME NEW id \in Ids, NEW pin \in BOOLEAN, Pin(id, pin)
        PROVE  Abstract!Next
    <3>1. store' = SetPinned(store, id, pin) /\ id \in Held(store)
      BY <2>6 DEF Pin
    <3>2. Held(store') = Held(store)
      BY <3>1 DEF SetPinned, Held
    <3>3. store'.pinned = IF pin THEN store.pinned \cup {id} ELSE store.pinned \ {id}
      BY <3>1 DEF SetPinned
    <3>4. Bytes(store'.pinned) <= Budget \div 2
      BY DEF IInv, PinnedBytes
    <3>5. Abstract!Pin(id) \/ Abstract!Unpin(id)
      BY <3>1, <3>2, <3>3, <3>4 DEF Abstract!Pin, Abstract!Unpin
    <3> QED BY <3>5 DEF Abstract!Next
  <2>7. ASSUME NEW keep \in SUBSET Ids, Retain(keep)
        PROVE  Abstract!Next
    <3>1. store' = Retained(store, keep)
      BY <2>7 DEF Retain
    <3>2. /\ Held(Retained(store, keep)) = Held(store) \cap keep
          /\ Retained(store, keep).pinned = store.pinned \cap keep
      BY <2>1, RetainedSound
    <3>3. Abstract!Forget(keep)
      BY <3>1, <3>2 DEF Abstract!Forget, Held
    <3> QED BY <3>3 DEF Abstract!Next
  <2>8. CASE UNCHANGED vars
    BY <2>8 DEF vars, Held
  <2> QED BY <2>2, <2>3, <2>4, <2>5, <2>6, <2>7, <2>8 DEF Next
<1>3. Spec => Abstract!Spec
  BY <1>1, <1>2, IInvAlways, PTL DEF Spec, Abstract!Spec
<1> QED BY <1>3 DEF Implements
-----------------------------------------------------------------------------
(* The eviction loops.                                                     *)


\* The loop rule: while the deque is not the last one a round shortens it and
\* keeps the invariant, and the last one it leaves alone.
LEMMA RoundsEnd ==
  ASSUME NEW round, NEW Inv \in SUBSET Seq(Ids), NEW start \in Inv, NEW last \in Inv,
         \A t \in Inv : t # last => round[t] \in Inv /\ Len(round[t]) < Len(t),
         round[last] = last
  PROVE  Rounds(round, start) = last
<1> DEFINE N == Len(start)
           RunsTo(k) == \E g \in [0..k -> Inv] :
                           g[0] = start /\ \A i \in 1..k : g[i] = round[g[i - 1]]
<1>1. /\ N \in Nat /\ \A t \in Inv : Len(t) \in Nat
      /\ \A t \in Inv : round[t] \in Inv
  OBVIOUS
<1>2. \A k \in 0..N : RunsTo(k)
  <2> DEFINE bad == {k \in 0..N : ~RunsTo(k)}
  <2>1. SUFFICES ASSUME bad # {}
                 PROVE  FALSE
    BY DEF bad
  <2>2. bad \in SUBSET Nat
    BY <1>1
  <2>3. PICK k \in bad : \A i \in bad : k <= i
    <3> HIDE DEF bad
    <3> QED BY <2>1, <2>2, LeastNat
  <2>4. RunsTo(0)
    <3> DEFINE g == [i \in 0..0 |-> start]
    <3>1. g \in [0..0 -> Inv] /\ g[0] = start /\ \A i \in 1..0 : g[i] = round[g[i - 1]]
      OBVIOUS
    <3> HIDE DEF g
    <3> QED BY <3>1
  <2>5. k \in 1..N /\ k - 1 \in 0..N /\ k - 1 \in Nat
    <3> HIDE DEF RunsTo
    <3>1. k \in 0..N /\ k # 0
      BY <2>3, <2>4
    <3> QED BY <3>1, <1>1
  <2>6. RunsTo(k - 1)
    <3> HIDE DEF RunsTo
    <3>1. k - 1 \notin bad
      <4>1. ~(k <= k - 1)
        BY <2>5
      <4> QED BY <4>1, <2>3
    <3> QED BY <3>1, <2>5
  <2>7. PICK g \in [0..(k - 1) -> Inv] :
          g[0] = start /\ \A i \in 1..(k - 1) : g[i] = round[g[i - 1]]
    BY <2>6
  <2> DEFINE h == [i \in 0..k |-> IF i = k THEN round[g[k - 1]] ELSE g[i]]
  <2>8. h \in [0..k -> Inv] /\ h[0] = start
    <3>1. round[g[k - 1]] \in Inv
      BY <1>1, <2>5, <2>7
    <3>2. \A i \in 0..k : i = k \/ i \in 0..(k - 1)
      BY <2>5
    <3> QED BY <3>1, <3>2, <2>5, <2>7
  <2>9. \A i \in 1..k : h[i] = round[h[i - 1]]
    BY <2>5, <2>7
  <2>10. RunsTo(k)
    <3> HIDE DEF h
    <3> QED BY <2>8, <2>9
  <2> QED BY <2>3, <2>10
<1>3. PICK g \in [0..N -> Inv] :
        g[0] = start /\ \A i \in 1..N : g[i] = round[g[i - 1]]
  <2>1. RunsTo(N)
    <3> HIDE DEF RunsTo
    <3> QED BY <1>1, <1>2
  <2> QED BY <2>1
<1>4. g = [n \in 0..N |-> IF n = 0 THEN start ELSE round[g[n - 1]]]
  BY <1>1, <1>3
<1> DEFINE after == CHOOSE f : f = [n \in 0..N |-> IF n = 0 THEN start ELSE round[f[n - 1]]]
<1>5. after = [n \in 0..N |-> IF n = 0 THEN start ELSE round[after[n - 1]]]
  BY <1>4
<1>6. Rounds(round, start) = after[N]
  BY DEF Rounds
<1> HIDE DEF after
<1>7. after[0] = start /\ \A k \in 1..N : after[k] = round[after[k - 1]]
  BY <1>1, <1>5
<1> DEFINE On(k) == after[k] = last \/ (after[k] \in Inv /\ Len(after[k]) + k <= N)
           off == {k \in 0..N : ~On(k)}
<1>8. off = {}
  <2>1. SUFFICES ASSUME off # {}
                 PROVE  FALSE
    OBVIOUS
  <2>2. off \in SUBSET Nat
    BY <1>1
  <2>3. PICK k \in off : \A i \in off : k <= i
    <3> HIDE DEF off
    <3> QED BY <2>1, <2>2, LeastNat
  <2>4. k \in 1..N /\ k - 1 \in 0..N /\ k - 1 \in Nat
    BY <2>3, <1>1, <1>7
  <2>5. On(k - 1) /\ ~On(k)
    <3>1. k - 1 \notin off
      BY <2>3, <2>4
    <3> QED BY <3>1, <2>3, <2>4
  <2>6. after[k] = round[after[k - 1]]
    BY <2>4, <1>7
  <2>7. CASE after[k - 1] = last
    BY <2>5, <2>6, <2>7
  <2>8. CASE after[k - 1] # last
    <3>1. after[k - 1] \in Inv /\ Len(after[k - 1]) + (k - 1) <= N
      BY <2>5, <2>8
    <3>2. after[k] \in Inv /\ Len(after[k]) < Len(after[k - 1])
      BY <3>1, <2>6, <2>8
    <3>3. Len(after[k]) \in Nat /\ Len(after[k - 1]) \in Nat
      BY <3>1, <3>2, <1>1
    <3>4. Len(after[k]) + k <= N
      BY <3>1, <3>2, <3>3, <2>4, <1>1
    <3> QED BY <3>2, <3>4, <2>5
  <2> QED BY <2>7, <2>8
<1>9. On(N)
  BY <1>1, <1>8
<1>10. CASE after[N] \in Inv /\ Len(after[N]) + N <= N /\ after[N] # last
  <2>1. Len(after[N]) \in Nat /\ Len(round[after[N]]) \in Nat
        /\ Len(round[after[N]]) < Len(after[N])
    BY <1>1, <1>10
  <2> QED BY <2>1, <1>1, <1>10
<1> QED BY <1>6, <1>9, <1>10
-----------------------------------------------------------------------------
\* remove(at) takes one entry out and leaves the others in their order.
LEMMA RemoveIsWithout ==
  ASSUME NEW t \in Seq(Ids), Distinct(t), NEW at \in DOMAIN t
  PROVE  /\ SX!RemoveAt(t, at) = Without(t, {t[at]})
         /\ Len(SX!RemoveAt(t, at)) < Len(t)
<1> DEFINE r == SX!RemoveAt(t, at)
           w == Without(t, {t[at]})
           L == Len(t)
<1>1. L \in Nat /\ DOMAIN t = 1..L /\ at \in 1..L /\ \A i \in 1..L : t[i] \in Ids
  OBVIOUS
<1>2. /\ r \in Seq(Ids) /\ Len(r) = L - 1
      /\ \A k \in 1..(L - 1) : r[k] = IF k < at THEN t[k] ELSE t[k + 1]
  <2> DEFINE before == SubSeq(t, 1, at - 1)
             behind == SubSeq(t, at + 1, L)
  <2>1. before \in Seq(Ids) /\ Len(before) = at - 1 /\ \A k \in 1..(at - 1) : before[k] = t[k]
    BY <1>1
  <2>2. behind \in Seq(Ids) /\ Len(behind) = L - at /\ \A k \in 1..(L - at) : behind[k] = t[k + at]
    <3>1. \A k \in (at + 1)..L : t[k] \in Ids
      BY <1>1
    <3>2. /\ behind \in Seq(Ids)
          /\ Len(behind) = IF at + 1 <= L THEN L - (at + 1) + 1 ELSE 0
          /\ \A k \in 1..(L - (at + 1) + 1) : behind[k] = t[(at + 1) + k - 1]
      BY <3>1, <1>1, SubSeqProperties
    <3>3. /\ (at + 1 <= L => L - (at + 1) + 1 = L - at) /\ (~(at + 1 <= L) => L - at = 0)
          /\ L - (at + 1) + 1 = L - at
          /\ \A k \in 1..(L - at) : (at + 1) + k - 1 = k + at
      BY <1>1
    <3> HIDE DEF behind
    <3> QED BY <3>2, <3>3
  <2>3. r = before \o behind
    BY DEF SX!RemoveAt
  <2> HIDE DEF before, behind, r
  <2>4. /\ r \in Seq(Ids) /\ Len(r) = Len(before) + Len(behind)
        /\ \A k \in 1..(Len(before) + Len(behind)) :
             r[k] = IF k <= Len(before) THEN before[k] ELSE behind[k - Len(before)]
    BY <2>1, <2>2, <2>3, ConcatProperties
  <2>5. Len(r) = L - 1
    BY <2>1, <2>2, <2>4, <1>1
  <2>6. ASSUME NEW k \in 1..(L - 1)
        PROVE  r[k] = IF k < at THEN t[k] ELSE t[k + 1]
    <3>1. CASE k < at
      BY <3>1, <2>1, <2>2, <2>4, <1>1
    <3>2. CASE ~(k < at)
      <4>1. r[k] = behind[k - (at - 1)] /\ k - (at - 1) \in 1..(L - at)
        BY <3>2, <2>1, <2>2, <2>4, <1>1
      <4>2. (k - (at - 1)) + at = k + 1
        BY <1>1
      <4> QED BY <3>2, <4>1, <4>2, <2>2
    <3> QED BY <3>1, <3>2
  <2> QED BY <2>4, <2>5, <2>6
<1> HIDE DEF r
<1>3. DOMAIN r = 1..(L - 1)
  BY <1>2
<1> DEFINE old(k) == IF k < at THEN k ELSE k + 1
<1>4. \A k \in DOMAIN r : old(k) \in DOMAIN t /\ r[k] = t[old(k)] /\ old(k) # at
  BY <1>1, <1>2, <1>3
<1>5. \A k, l \in DOMAIN r : k < l <=> old(k) < old(l)
  BY <1>1, <1>3
<1>6. \A i \in DOMAIN t : i # at => \E k \in DOMAIN r : old(k) = i
  <2> SUFFICES ASSUME NEW i \in DOMAIN t, i # at
               PROVE  \E k \in DOMAIN r : old(k) = i
    OBVIOUS
  <2>1. CASE i < at
    BY <2>1, <1>1, <1>3
  <2>2. CASE at < i
    <3>1. i - 1 \in DOMAIN r /\ old(i - 1) = i
      BY <2>2, <1>1, <1>3
    <3> QED BY <3>1
  <2> QED BY <2>1, <2>2, <1>1
<1>7. \A k, l \in DOMAIN r : k = l \/ k < l \/ l < k
  BY <1>1, <1>3
<1>8. \A k \in DOMAIN r : old(k) \in Nat
  BY <1>1, <1>3
<1> HIDE DEF old
<1>9. Distinct(r)
  <2> SUFFICES ASSUME NEW k \in DOMAIN r, NEW l \in DOMAIN r, r[k] = r[l]
               PROVE  k = l
    BY DEF Distinct
  <2>1. old(k) = old(l)
    BY <1>4 DEF Distinct
  <2> QED BY <2>1, <1>5, <1>7, <1>8
<1>10. ElementsOf(r) = ElementsOf(t) \ {t[at]}
  <2>1. ElementsOf(r) \subseteq ElementsOf(t) \ {t[at]}
    BY <1>4 DEF ElementsOf, Distinct
  <2>2. ElementsOf(t) \ {t[at]} \subseteq ElementsOf(r)
    BY <1>4, <1>6 DEF ElementsOf
  <2> QED BY <2>1, <2>2
<1>11. /\ w \in Seq(Ids) /\ Distinct(w) /\ ElementsOf(w) = ElementsOf(t) \ {t[at]}
       /\ \A x, y : Before(w, x, y) <=> Before(t, x, y) /\ x \notin {t[at]} /\ y \notin {t[at]}
  BY WithoutProperties
<1>12. ASSUME NEW x, NEW y, Before(r, x, y)
       PROVE  Before(w, x, y)
  <2>1. PICK k, l \in DOMAIN r : k < l /\ r[k] = x /\ r[l] = y
    BY <1>12 DEF Before
  <2>2. Before(t, x, y)
    BY <2>1, <1>4, <1>5 DEF Before
  <2>3. x # t[at] /\ y # t[at]
    BY <2>1, <1>4 DEF Distinct
  <2> QED BY <2>2, <2>3, <1>11
<1> HIDE DEF w
<1>13. r = w
  BY <1>2, <1>9, <1>10, <1>11, <1>12, SameOrder
<1>14. Len(r) < Len(t)
  BY <1>1, <1>2
<1> QED BY <1>13, <1>14 DEF r, w
-----------------------------------------------------------------------------
\* The part both loops have in common.  C are the entries a loop may evict and
\* Hot the evictions after which its condition still holds.
TakesTheOldest(round, e, C, Hot) ==
  \A T \in SUBSET C :
    LET t == Without(e, T)
    IN  round[t] = IF T \in Hot /\ T # C
                   THEN SX!RemoveAt(t, First({i \in DOMAIN t : t[i] \in C}))
                   ELSE t

\* Those whose eviction the condition asks for when every older one is gone.
AskedFor(e, C, Hot) == {x \in C : {y \in C : Before(e, y, x)} \in Hot}

\* Where fewer evictions keep the condition true, taking the oldest round by
\* round ends with exactly those gone that it asks for.
LEMMA EvictsTheOldest ==
  ASSUME NEW e \in Seq(Ids), Distinct(e),
         NEW C \in SUBSET ElementsOf(e),
         NEW Hot \in SUBSET (SUBSET C),
         \A T \in Hot : SUBSET T \subseteq Hot,
         NEW round, TakesTheOldest(round, e, C, Hot)
  PROVE  Rounds(round, e) = Without(e, AskedFor(e, C, Hot))
<1>0. \A T \in SUBSET C :
        LET t == Without(e, T)
        IN  round[t] = IF T \in Hot /\ T # C
                       THEN SX!RemoveAt(t, First({i \in DOMAIN t : t[i] \in C}))
                       ELSE t
  BY DEF TakesTheOldest
<1> DEFINE Ahead(x) == {y \in C : Before(e, y, x)}
           W == {x \in C : Ahead(x) \in Hot}
           Closed(T) == T \subseteq W /\ \A x \in T : Ahead(x) \subseteq T
           Inv == {t \in Seq(Ids) : \E T \in SUBSET W : Closed(T) /\ t = Without(e, T)}
           last == Without(e, W)
<1>1. /\ \A x, y \in C : x = y \/ Before(e, x, y) \/ Before(e, y, x)
      /\ \A x, y : Before(e, x, y) => ~Before(e, y, x)
      /\ \A x, y, z : Before(e, x, y) /\ Before(e, y, z) => Before(e, x, z)
  <2>1. C \subseteq ElementsOf(e)
    OBVIOUS
  <2> QED BY <2>1, BeforeOrders
<1>2. /\ \A T : Without(e, T) \in Seq(Ids) /\ Distinct(Without(e, T))
      /\ \A T : ElementsOf(Without(e, T)) = ElementsOf(e) \ T
      /\ \A T, x, y : Before(Without(e, T), x, y) <=> Before(e, x, y) /\ x \notin T /\ y \notin T
  BY WithoutProperties
<1>3. Closed(W)
  <2> SUFFICES ASSUME NEW x \in W, NEW y \in Ahead(x)
               PROVE  y \in W
    OBVIOUS
  <2>1. Ahead(y) \subseteq Ahead(x)
    BY <1>1
  <2>2. Ahead(y) \in Hot
    <3> HIDE DEF Ahead
    <3> QED BY <2>1
  <2> QED BY <2>2
\* What is closed and not yet all of C: the oldest of the others comes next.
<1>4. ASSUME NEW T \in SUBSET C, \A x \in T : Ahead(x) \subseteq T, T # C
      PROVE  \E x \in C \ T : Ahead(x) = T
  <2>1. C \ T # {} /\ C \ T \in SUBSET ElementsOf(e)
    BY <1>4
  <2>2. PICK x \in C \ T : \A z \in C \ T : z = x \/ Before(e, x, z)
    BY <2>1, FirstElement
  <2>3. Ahead(x) \subseteq T
    BY <2>2, <1>1
  <2>4. T \subseteq Ahead(x)
    <3> SUFFICES ASSUME NEW y \in T
                 PROVE  Before(e, y, x)
      OBVIOUS
    <3>1. y # x /\ (Before(e, y, x) \/ Before(e, x, y))
      BY <1>1, <2>2
    <3>2. ~Before(e, x, y)
      BY <1>4, <2>2
    <3> QED BY <3>1, <3>2
  <2> QED BY <2>2, <2>3, <2>4
<1> HIDE DEF Ahead
<1>5. ASSUME NEW T \in SUBSET W, Closed(T), T # W
      PROVE  /\ round[Without(e, T)] \in Inv
             /\ Len(round[Without(e, T)]) < Len(Without(e, T))
  <2> DEFINE t == Without(e, T)
             loose == {i \in DOMAIN t : t[i] \in C}
             at == First(loose)
  <2>1. T \in SUBSET C /\ T # C
    BY <1>5
  <2>2. PICK x \in C \ T : Ahead(x) = T
    BY <2>1, <1>4, <1>5
  <2>3. T \in Hot /\ x \in W
    <3>1. PICK z \in W : z \notin T
      BY <1>5
    <3>2. Ahead(z) \in Hot /\ z \in C
      BY <3>1
    <3>3. T \subseteq Ahead(z)
      <4>1. z = x \/ Before(e, x, z)
        BY <1>1, <2>2, <3>1, <3>2 DEF Ahead
      <4>2. Before(e, x, z) => Ahead(x) \subseteq Ahead(z)
        BY <1>1 DEF Ahead
      <4> QED BY <4>1, <4>2, <2>2
    <3>4. T \in Hot
      BY <3>2, <3>3
    <3> QED BY <3>4, <2>2
  <2>4. round[t] = SX!RemoveAt(t, at)
    BY <2>1, <2>3, <1>0
  <2>5. t \in Seq(Ids) /\ Distinct(t) /\ ElementsOf(t) = ElementsOf(e) \ T
    BY <1>2
  <2>6. \A y, z : Before(t, y, z) <=> Before(e, y, z) /\ y \notin T /\ z \notin T
    BY <1>2
  <2> HIDE DEF t
  <2>7. loose \in SUBSET Nat /\ \E i \in loose : t[i] = x
    <3>1. x \in ElementsOf(t)
      BY <2>2, <2>5
    <3> QED BY <3>1, <2>2, <2>5 DEF ElementsOf
  <2>8. at \in loose /\ \A i \in loose : at <= i
    <3> HIDE DEF loose
    <3>1. \E i \in loose : \A j \in loose : i <= j
      BY <2>7, LeastNat
    <3> QED BY <3>1 DEF First
  <2> HIDE DEF at
  <2>9. t[at] = x
    <3>1. PICK i \in loose : t[i] = x
      BY <2>7
    <3>2. at = i \/ at < i
      BY <3>1, <2>7, <2>8
    <3>3. at < i => Before(e, t[at], x)
      <4>1. at < i => Before(t, t[at], t[i])
        BY <3>1, <2>8 DEF Before
      <4> HIDE DEF loose
      <4> QED BY <3>1, <4>1, <2>6
    <3>4. t[at] \in C \ T
      BY <2>5, <2>8 DEF ElementsOf
    <3>5. at < i => t[at] \in Ahead(x)
      BY <3>3, <3>4 DEF Ahead
    <3> QED BY <3>1, <3>2, <3>4, <3>5, <2>2
  <2>10. SX!RemoveAt(t, at) = Without(t, {x}) /\ Len(SX!RemoveAt(t, at)) < Len(t)
    BY <2>5, <2>8, <2>9, RemoveIsWithout
  <2> DEFINE U == T \cup {x}
  <2>11. Without(t, {x}) = Without(e, U)
    BY WithoutTwice DEF t
  <2>12. U \in SUBSET W /\ Closed(U)
    BY <2>2, <2>3, <1>5
  <2>13. Without(e, U) \in Inv
    <3> HIDE DEF U, Closed, W
    <3> QED BY <2>12, <1>2
  <2> QED BY <2>4, <2>10, <2>11, <2>13 DEF t
<1>6. round[last] = last
  <2>1. CASE W = C
    BY <2>1, <1>0
  <2>2. CASE W # C
    <3>1. PICK x \in C \ W : Ahead(x) = W
      BY <1>3, <1>4, <2>2
    <3>2. W \notin Hot
      BY <3>1
    <3>3. W \in SUBSET C
      OBVIOUS
    <3> HIDE DEF W
    <3> QED BY <3>2, <3>3, <1>0
  <2> QED BY <2>1, <2>2
<1>7. e \in Inv
  <2>1. Closed({})
    OBVIOUS
  <2>2. e = Without(e, {})
    BY WithoutNothing
  <2> HIDE DEF Closed, W
  <2> QED BY <2>1, <2>2
<1>8. \A t \in Inv : t # last => round[t] \in Inv /\ Len(round[t]) < Len(t)
  <2> SUFFICES ASSUME NEW t \in Inv, t # last
               PROVE  round[t] \in Inv /\ Len(round[t]) < Len(t)
    OBVIOUS
  <2>1. PICK T \in SUBSET W : Closed(T) /\ t = Without(e, T)
    OBVIOUS
  <2>2. T # W
    BY <2>1
  <2> HIDE DEF Closed, W, Inv, last
  <2> QED BY <2>1, <2>2, <1>5
<1>9. Inv \in SUBSET Seq(Ids)
  OBVIOUS
<1>10. Rounds(round, e) = last
  <2>1. last \in Inv
    <3> HIDE DEF Closed, W
    <3> QED BY <1>2, <1>3
  <2> HIDE DEF Inv, last
  <2> QED BY <2>1, <1>6, <1>7, <1>8, <1>9, RoundsEnd
<1> QED BY <1>10 DEF Ahead, AskedFor
-----------------------------------------------------------------------------
\* How many entries of a deque are of D.
LEMMA CountOf ==
  ASSUME NEW t \in Seq(Ids), Distinct(t), NEW D \in SUBSET ElementsOf(t)
  PROVE  Cardinality({i \in DOMAIN t : t[i] \in D}) = Cardinality(D)
<1> DEFINE at == {i \in DOMAIN t : t[i] \in D}
           f == [i \in at |-> t[i]]
<1>1. IsFiniteSet(at)
  <2>1. IsFiniteSet(1..Len(t)) /\ at \in SUBSET (1..Len(t))
    BY FS_Interval
  <2> HIDE DEF at
  <2> QED BY <2>1, FS_Subset
<1>2. f \in Bijection(at, D)
  <2>1. f \in [at -> D] /\ \A d \in D : \E i \in at : f[i] = d
    BY DEF ElementsOf
  <2>2. \A i, j \in at : f[i] = f[j] => i = j
    BY DEF Distinct
  <2> HIDE DEF f, at
  <2> QED BY <2>1, <2>2 DEF Bijection, Injection, Surjection, IsInjective
<1> HIDE DEF at, f
<1>3. ExistsBijection(at, D)
  BY <1>2 DEF ExistsBijection
<1> QED BY <1>1, <1>3, FS_Bijection DEF at

\* The first loop takes out the group's victims.
LEMMA GroupLoopEvicts ==
  ASSUME NEW s, Sound(s), NEW id \in Ids
  PROVE  GroupLoop(s.entries, s.pinned, id) = Without(s.entries, GroupVictims(s, id))
<1> DEFINE e == s.entries
           M == GroupMates(s, id)
           C == M \ s.pinned
           Hot == {T \in SUBSET C : /\ Group[id] # NoGroup
                                    /\ Cardinality(M) - Cardinality(T) >= Cap[Group[id]]}
           round == GroupRound(s.pinned, id)
<1>1. /\ e \in Seq(Ids) /\ Distinct(e) /\ ElementsOf(e) = Held(s)
      /\ M \in SUBSET ElementsOf(e) /\ C \in SUBSET ElementsOf(e)
  BY DEF Sound, Store, ElementsOf, Held, GroupMates
<1>2. IsFiniteSet(M) /\ Cardinality(M) \in Nat
  <2>1. M \in SUBSET Ids
    BY HeldType, <1>1 DEF Sound
  <2> HIDE DEF M
  <2> QED BY <2>1, SizeAssumption, FS_Subset, FS_CardinalityType
<1>3. \A T \in SUBSET M : IsFiniteSet(T) /\ Cardinality(T) \in Nat
  <2> HIDE DEF M
  <2> QED BY <1>2, FS_Subset, FS_CardinalityType
<1>4. Group[id] # NoGroup => Cap[Group[id]] \in Nat
  BY SizeAssumption DEF Groups
<1>5. ASSUME NEW T \in Hot, NEW U \in SUBSET T
      PROVE  U \in Hot
  <2>1. T \in SUBSET M /\ U \in SUBSET M
    OBVIOUS
  <2>2. Cardinality(U) <= Cardinality(T)
    BY <2>1, <1>3, FS_Subset
  <2>3. Cardinality(T) \in Nat /\ Cardinality(U) \in Nat
    BY <2>1, <1>3
  <2>4. Group[id] # NoGroup /\ Cardinality(M) - Cardinality(T) >= Cap[Group[id]]
    OBVIOUS
  <2>5. Cardinality(M) - Cardinality(U) >= Cap[Group[id]]
    BY <2>2, <2>3, <2>4, <1>2, <1>4
  <2> QED BY <2>4, <2>5
<1>6. ASSUME NEW T \in SUBSET C
      PROVE  LET t == Without(e, T)
             IN  round[t] = IF T \in Hot /\ T # C
                            THEN SX!RemoveAt(t, First({i \in DOMAIN t : t[i] \in C}))
                            ELSE t
  <2> DEFINE t == Without(e, T)
             mates == {i \in DOMAIN t : Group[t[i]] = Group[id]}
             loose == {i \in mates : t[i] \notin s.pinned}
  <2>1. t \in Seq(Ids) /\ Distinct(t) /\ ElementsOf(t) = ElementsOf(e) \ T
    BY <1>1, WithoutProperties
  <2> HIDE DEF t
  <2>2. round[t] = IF Group[id] # NoGroup /\ Cardinality(mates) >= Cap[Group[id]] /\ loose # {}
                   THEN SX!RemoveAt(t, First(loose))
                   ELSE t
    BY <2>1 DEF GroupRound
  <2>3. CASE Group[id] = NoGroup
    BY <2>2, <2>3 DEF t
  <2>4. CASE Group[id] # NoGroup
    <3>1. \A i \in DOMAIN t : t[i] \in Held(s) /\ t[i] \notin T
      BY <2>1, <1>1 DEF ElementsOf
    <3>2. mates = {i \in DOMAIN t : t[i] \in M \ T}
      BY <2>4, <3>1 DEF GroupMates
    <3>3. loose = {i \in DOMAIN t : t[i] \in C}
      BY <2>4, <3>1 DEF GroupMates
    <3>4. M \ T \in SUBSET ElementsOf(t)
      BY <2>1, <1>1
    <3>5. Cardinality(mates) = Cardinality(M \ T)
      <4> HIDE DEF mates, M
      <4> QED BY <2>1, <3>2, <3>4, CountOf
    <3>6. Cardinality(M \ T) = Cardinality(M) - Cardinality(T)
      <4>1. M \cap T = T
        OBVIOUS
      <4> HIDE DEF M
      <4> QED BY <4>1, <1>2, FS_Difference
    <3>7. loose # {} <=> T # C
      <4>1. \A i \in loose : t[i] \in C \ T
        BY <3>1, <3>3
      <4>2. \A x \in C \ T : \E i \in loose : t[i] = x
        BY <2>1, <3>3, <1>1 DEF ElementsOf
      <4> QED BY <4>1, <4>2
    <3>8. T \in Hot <=> Cardinality(mates) >= Cap[Group[id]]
      <4>1. T \in Hot <=> Cardinality(M) - Cardinality(T) >= Cap[Group[id]]
        BY <2>4
      <4> QED BY <4>1, <3>5, <3>6
    <3> HIDE DEF mates, loose, M, C, Hot, round
    <3> QED BY <2>2, <2>4, <3>3, <3>7, <3>8 DEF t
  <2> QED BY <2>3, <2>4
<1>7. GroupVictims(s, id) = AskedFor(e, C, Hot)
  BY DEF GroupVictims, Older, Before, GroupMates, AskedFor
<1>8. TakesTheOldest(round, e, C, Hot)
  <2> HIDE DEF Hot, C, round, e
  <2> QED BY <1>6 DEF TakesTheOldest
<1>9. Rounds(round, e) = Without(e, AskedFor(e, C, Hot))
  <2>1. Hot \in SUBSET (SUBSET C) /\ \A T \in Hot : SUBSET T \subseteq Hot
    BY <1>5
  <2> HIDE DEF Hot, C, round, e
  <2> QED BY <2>1, <1>1, <1>8, EvictsTheOldest
<1> QED BY <1>7, <1>9 DEF GroupLoop

\* The second loop, of an insert that is not refused, takes out the budget's
\* victims among what the first one left, and always finds one.
LEMMA BudgetLoopEvicts ==
  ASSUME NEW s, Sound(s), NEW id \in Ids, PinnedBytes(s) + Size[id] <= Budget
  PROVE  LET left == Drop(s, GroupVictims(s, id))
         IN  BudgetLoop(left.entries, s.pinned, id) = Without(left.entries, BudgetVictims(s, id))
<1> DEFINE left == Drop(s, GroupVictims(s, id))
           e == left.entries
           C == Held(left) \ left.pinned
           Hot == {T \in SUBSET C : left.used + Size[id] > Budget + Bytes(T)}
           round == BudgetRound(s.pinned, id)
<1>1. Sound(left) /\ left.pinned = s.pinned
  <2>1. GroupVictims(s, id) \subseteq Held(s) \ s.pinned
    BY VictimsUnpinned
  <2>2. Sound(left) /\ left.pinned = s.pinned \ GroupVictims(s, id)
    BY DropSound
  <2> QED BY <2>1, <2>2
<1>2. BudgetVictims(s, id) = AskedFor(e, C, Hot)
  BY DEF BudgetVictims, Older, Before, AskedFor
<1> HIDE DEF left
<1>3. /\ e \in Seq(Ids) /\ Distinct(e) /\ ElementsOf(e) = Held(left) /\ Held(left) \in SUBSET Ids
      /\ C \in SUBSET ElementsOf(e) /\ left.used = Bytes(Held(left))
  BY <1>1, HeldType DEF Sound, Store, ElementsOf, Held
<1>4. left.used \in Nat /\ Size[id] \in Nat /\ Budget \in Nat
  BY <1>1, SizeAssumption DEF Sound, Store
<1>5. ASSUME NEW T \in Hot, NEW U \in SUBSET T
      PROVE  U \in Hot
  <2>1. T \in SUBSET Ids
    BY <1>3
  <2>2. Bytes(T) = Bytes(U) + Bytes(T \ U) /\ Bytes(T) \in Nat /\ Bytes(U) \in Nat
        /\ Bytes(T \ U) \in Nat
    BY <2>1, BytesSplit
  <2>3. left.used + Size[id] > Budget + Bytes(U)
    BY <2>2, <1>4
  <2> QED BY <2>3
<1>6. C \notin Hot
  <2>1. left.pinned \in SUBSET Held(left) /\ Held(left) \ C = left.pinned
    BY <1>1 DEF Sound
  <2>2. Bytes(Held(left)) = Bytes(C) + Bytes(left.pinned) /\ Bytes(C) \in Nat
        /\ Bytes(left.pinned) \in Nat
    BY <2>1, <1>3, BytesSplit
  <2>3. Bytes(left.pinned) + Size[id] <= Budget
    BY <1>1 DEF PinnedBytes
  <2>4. ~(left.used + Size[id] > Budget + Bytes(C))
    BY <2>2, <2>3, <1>3, <1>4
  <2> QED BY <2>4
<1>7. ASSUME NEW T \in SUBSET C
      PROVE  LET t == Without(e, T)
             IN  round[t] = IF T \in Hot /\ T # C
                            THEN SX!RemoveAt(t, First({i \in DOMAIN t : t[i] \in C}))
                            ELSE t
  <2> DEFINE t == Without(e, T)
             loose == {i \in DOMAIN t : t[i] \notin s.pinned}
  <2>1. t \in Seq(Ids) /\ ElementsOf(t) = Held(left) \ T
    BY <1>3, WithoutProperties
  <2> HIDE DEF t
  <2>2. round[t] = IF Charged(t) + Size[id] > Budget
                   THEN SX!RemoveAt(t, First(loose))
                   ELSE t
    BY <2>1 DEF BudgetRound
  <2>3. loose = {i \in DOMAIN t : t[i] \in C}
    BY <2>1, <1>1 DEF ElementsOf
  <2>4. Charged(t) = Bytes(Held(left) \ T)
    BY <2>1 DEF Charged, SX!ToSet, ElementsOf
  <2>5. Bytes(Held(left)) = Bytes(T) + Bytes(Held(left) \ T) /\ Bytes(T) \in Nat
        /\ Bytes(Held(left) \ T) \in Nat
    BY <1>3, BytesSplit
  <2>6. T \in Hot <=> Charged(t) + Size[id] > Budget
    <3>1. T \in Hot <=> left.used + Size[id] > Budget + Bytes(T)
      OBVIOUS
    <3> HIDE DEF Hot
    <3> QED BY <3>1, <2>4, <2>5, <1>3, <1>4
  <2>7. T \in Hot => T # C
    BY <1>6
  <2> HIDE DEF loose, C, Hot, round
  <2> QED BY <2>2, <2>3, <2>6, <2>7 DEF t
<1>8. TakesTheOldest(round, e, C, Hot)
  <2> HIDE DEF Hot, C, round, e
  <2> QED BY <1>7 DEF TakesTheOldest
<1>9. Rounds(round, e) = Without(e, AskedFor(e, C, Hot))
  <2>1. Hot \in SUBSET (SUBSET C) /\ \A T \in Hot : SUBSET T \subseteq Hot
    BY <1>5
  <2> HIDE DEF Hot, C, round, e
  <2> QED BY <2>1, <1>3, <1>8, EvictsTheOldest
<1> QED BY <1>2, <1>9 DEF BudgetLoop, left
-----------------------------------------------------------------------------
\* One insert: the loops leave what the sets leave.
LEMMA InsertAgrees ==
  ASSUME NEW s, Sound(s), NEW id \in Ids, ~InsertRefused(s, id)
  PROVE  InsertLoop(s, id) = Inserted(s, id).entries
<1> DEFINE e == s.entries
<1>1. e \in Seq(Ids) /\ Distinct(e) /\ ElementsOf(e) = Held(s)
  BY DEF Sound, Store, ElementsOf, Held
<1>2. CASE id \in Held(s)
  <2> DEFINE at == {i \in DOMAIN e : e[i] = id}
  <2>1. at \in SUBSET Nat /\ at # {}
    BY <1>1, <1>2 DEF Held
  <2>2. First(at) \in at
    <3> HIDE DEF at
    <3>1. \E i \in at : \A j \in at : i <= j
      BY <2>1, LeastNat
    <3> QED BY <3>1 DEF First
  <2>3. SX!RemoveAt(e, First(at)) = Without(e, {id})
    <3>1. First(at) \in DOMAIN e /\ e[First(at)] = id
      BY <2>2
    <3> HIDE DEF at, e
    <3> QED BY <3>1, <1>1, RemoveIsWithout
  <2>4. Inserted(s, id).entries = Append(Without(e, {id}), id)
    BY <1>2 DEF Inserted, Touch
  <2>5. InsertLoop(s, id) = Append(SX!RemoveAt(e, First(at)), id)
    BY <1>2 DEF InsertLoop
  <2> QED BY <2>3, <2>4, <2>5
<1>3. CASE id \notin Held(s) /\ HoldsNothing(id)
  BY <1>3 DEF InsertLoop, Inserted
<1>4. CASE id \notin Held(s) /\ ~HoldsNothing(id)
  <2> DEFINE gv == GroupVictims(s, id)
             bv == BudgetVictims(s, id)
             left == Drop(s, gv)
  <2>1. PinnedBytes(s) + Size[id] <= Budget
    <3>1. PinnedBytes(s) \in Nat /\ Size[id] \in Nat /\ Budget \in Nat
      <4>1. s.pinned \in SUBSET Ids
        BY DEF Sound, Store
      <4> QED BY <4>1, BytesAssumption, SizeAssumption DEF PinnedBytes
    <3> QED BY <3>1, <1>4 DEF InsertRefused
  <2>2. gv \subseteq Held(s) /\ bv \subseteq Held(s)
    BY VictimsUnpinned
  <2>3. GroupLoop(e, s.pinned, id) = Without(e, gv)
    BY GroupLoopEvicts
  <2>4. left.entries = Without(e, gv)
    <3>1. gv \cap Held(s) = gv
      BY <2>2
    <3> HIDE DEF gv
    <3> QED BY <3>1 DEF Drop
  <2>5. BudgetLoop(left.entries, s.pinned, id) = Without(left.entries, bv)
    BY <2>1, BudgetLoopEvicts
  <2>6. Inserted(s, id).entries = Append(Without(e, gv \cup bv), id)
    <3>1. Victims(s, id) \cap Held(s) = gv \cup bv
      BY <2>2 DEF Victims
    <3> HIDE DEF gv, bv
    <3> QED BY <3>1, <1>4 DEF Inserted, Drop
  <2>7. InsertLoop(s, id) = Append(BudgetLoop(GroupLoop(e, s.pinned, id), s.pinned, id), id)
    BY <1>4 DEF InsertLoop
  <2>8. Without(Without(e, gv), bv) = Without(e, gv \cup bv)
    <3> HIDE DEF gv, bv, e
    <3> QED BY <1>1, WithoutTwice
  <2> HIDE DEF gv, bv, left, e
  <2> QED BY <2>3, <2>4, <2>5, <2>6, <2>7, <2>8
<1> QED BY <1>2, <1>3, <1>4

\* The eviction loops of insert_in and the sets every other theorem about the
\* store and about the adjudicator speaks of are the same evictions, in the
\* same order, in every reachable state.
THEOREM LoopsAlwaysAgree == Spec => []LoopsAgree
<1>1. IInv => LoopsAgree
  BY InsertAgrees DEF IInv, LoopsAgree
<1> QED BY <1>1, IInvAlways, PTL
=============================================================================
