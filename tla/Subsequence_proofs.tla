------------------------- MODULE Subsequence_proofs -------------------------
(***************************************************************************)
(* What every deque of the adjudicator rests on: the entries of a store,   *)
(* the uploads, the background tasks.                                      *)
(***************************************************************************)
EXTENDS Subsequence, FiniteSetTheorems, SequenceTheorems, WellFoundedInduction, TLAPS

Seqs == INSTANCE SequencesExt

Distinct(seq) == \A i, j \in DOMAIN seq : seq[i] = seq[j] => i = j
ElementsOf(seq) == {seq[i] : i \in DOMAIN seq}

\* x comes before y.
Before(seq, x, y) ==
  \E i, j \in DOMAIN seq : i < j /\ seq[i] = x /\ seq[j] = y

\* What is left of a deque sits at the increasing positions of what was not
\* taken.
LEMMA WithoutPositions ==
  ASSUME NEW S, NEW seq \in Seq(S), NEW V
  PROVE  LET kept == {i \in DOMAIN seq : seq[i] \notin V}
             left == Without(seq, V)
         IN  /\ left \in Seq(S)
             /\ \E at \in [DOMAIN left -> kept] :
                  /\ \A n \in DOMAIN left : left[n] = seq[at[n]]
                  /\ \A i \in kept : \E n \in DOMAIN left : at[n] = i
                  /\ \A m, n \in DOMAIN left : m < n <=> at[m] < at[n]
<1> DEFINE kept == {i \in DOMAIN seq : seq[i] \notin V}
           left == Without(seq, V)
           upTo(i) == {j \in kept : j <= i}
           size == Cardinality(kept)
           rank == [i \in kept |-> Cardinality(upTo(i))]
           pick(n) == CHOOSE i \in kept : Cardinality(upTo(i)) = n
<1>1. DOMAIN seq = 1..Len(seq) /\ Len(seq) \in Nat
  OBVIOUS
<1>2. kept \in SUBSET (1..Len(seq)) /\ IsFiniteSet(kept) /\ size \in Nat
  <2>1. kept \in SUBSET (1..Len(seq))
    BY <1>1
  <2>2. IsFiniteSet(1..Len(seq))
    BY <1>1, FS_Interval
  <2> HIDE DEF kept
  <2>3. IsFiniteSet(kept)
    BY <2>1, <2>2, FS_Subset
  <2> QED BY <2>1, <2>3, FS_CardinalityType
<1>3. ASSUME NEW i \in kept
      PROVE  /\ IsFiniteSet(upTo(i))
             /\ Cardinality(upTo(i)) \in 1..size
  <2>1. upTo(i) \in SUBSET kept /\ i \in upTo(i)
    BY <1>2
  <2>2. IsFiniteSet(upTo(i)) /\ Cardinality(upTo(i)) <= size
    BY <1>2, <2>1, FS_Subset
  <2>3. Cardinality(upTo(i)) \in Nat
    BY <2>2, FS_CardinalityType
  <2>4. Cardinality(upTo(i)) # 0
    BY <2>1, <2>2, FS_EmptySet
  <2> HIDE DEF upTo, size
  <2> QED BY <2>2, <2>3, <2>4, <1>2
<1>4. ASSUME NEW i \in kept, NEW j \in kept, i < j
      PROVE  Cardinality(upTo(i)) < Cardinality(upTo(j))
  <2>1. upTo(i) \in SUBSET upTo(j) /\ j \in upTo(j) /\ j \notin upTo(i)
    BY <1>2, <1>4
  <2>2. IsFiniteSet(upTo(j)) /\ Cardinality(upTo(i)) \in 1..size /\ Cardinality(upTo(j)) \in 1..size
    BY <1>3
  <2> HIDE DEF upTo, size
  <2>3. /\ Cardinality(upTo(i)) <= Cardinality(upTo(j))
        /\ Cardinality(upTo(i)) # Cardinality(upTo(j))
    BY <2>1, <2>2, FS_Subset
  <2> QED BY <2>2, <2>3, <1>2
<1>5. \A i, j \in kept : i < j \/ j < i \/ i = j
  BY <1>2
<1>6. \A i, j \in kept : Cardinality(upTo(i)) = Cardinality(upTo(j)) => i = j
  <2> SUFFICES ASSUME NEW i \in kept, NEW j \in kept, Cardinality(upTo(i)) = Cardinality(upTo(j))
               PROVE  i = j
    OBVIOUS
  <2>1. Cardinality(upTo(i)) \in 1..size
    BY <1>3
  <2> HIDE DEF upTo, kept, size
  <2> QED BY <1>2, <1>4, <1>5, <2>1
<1>7. rank \in Surjection(kept, 1..size)
  <2>1. rank \in Injection(kept, 1..size)
    <3> HIDE DEF kept, upTo, size
    <3> QED BY <1>3, <1>6 DEF Injection, IsInjective
  <2>2. IsFiniteSet(1..size) /\ Cardinality(1..size) = size
    BY <1>2, FS_Interval
  <2> HIDE DEF rank
  <2> QED BY <2>1, <2>2, <1>2, FS_Injection
<1>8. \A n \in 1..size : pick(n) \in kept /\ Cardinality(upTo(pick(n))) = n
  <2> HIDE DEF upTo, kept, size
  <2>1. \A n \in 1..size : \E i \in kept : rank[i] = n
    BY <1>7 DEF Surjection
  <2> QED BY <2>1
<1>9. \A i \in kept : Cardinality(upTo(i)) \in 1..size /\ pick(Cardinality(upTo(i))) = i
  <2> HIDE DEF upTo, kept, size
  <2> QED BY <1>3, <1>6, <1>8
<1>10. left = [n \in 1..size |-> seq[pick(n)]]
  BY DEF Without
<1>11. \A i \in kept : seq[i] \in S
  BY <1>1, <1>2
<1>12. left \in Seq(S) /\ DOMAIN left = 1..size
  <2> HIDE DEF pick, kept, size, upTo, rank
  <2>1. \A n \in 1..size : seq[pick(n)] \in S
    BY <1>8, <1>11
  <2>2. left \in [1..size -> S]
    BY <2>1, <1>10
  <2> QED BY <2>2, <1>2
<1>13. ASSUME NEW m \in 1..size, NEW n \in 1..size
       PROVE  m < n <=> pick(m) < pick(n)
  <2> DEFINE i == pick(m)
             j == pick(n)
  <2>1. i \in kept /\ j \in kept /\ Cardinality(upTo(i)) = m /\ Cardinality(upTo(j)) = n
    BY <1>8
  <2> HIDE DEF i, j, pick, upTo, size
  <2>2. (i < j => m < n) /\ (j < i => n < m) /\ (i = j => m = n)
    BY <1>4, <2>1
  <2>3. m \in Nat /\ n \in Nat /\ i \in Nat /\ j \in Nat
    BY <1>2, <2>1
  <2>4. m < n <=> i < j
    BY <2>2, <2>3
  <2> QED BY <2>4 DEF i, j
<1> DEFINE at == [n \in 1..size |-> pick(n)]
<1>14. /\ at \in [DOMAIN left -> kept]
       /\ \A n \in DOMAIN left : left[n] = seq[at[n]]
       /\ \A i \in kept : \E n \in DOMAIN left : at[n] = i
       /\ \A m, n \in DOMAIN left : m < n <=> at[m] < at[n]
  <2> HIDE DEF pick, upTo, kept, size, left
  <2> QED BY <1>8, <1>9, <1>10, <1>12, <1>13
<1> HIDE DEF at, kept, left
<1>15. \E f \in [DOMAIN left -> kept] :
         /\ \A n \in DOMAIN left : left[n] = seq[f[n]]
         /\ \A i \in kept : \E n \in DOMAIN left : f[n] = i
         /\ \A m, n \in DOMAIN left : m < n <=> f[m] < f[n]
  BY <1>14
<1> QED BY <1>12, <1>15 DEF kept, left

\* Taking a set of elements out of a deque leaves a deque of exactly the
\* others, in their order: what the code's element-by-element `remove(at)` and
\* `retain` do to the ids a store holds, the specs uploaded and the tasks
\* waiting.
LEMMA WithoutProperties ==
  ASSUME NEW S, NEW seq \in Seq(S), NEW V
  PROVE  /\ Without(seq, V) \in Seq(S)
         /\ ElementsOf(Without(seq, V)) = ElementsOf(seq) \ V
         /\ Distinct(seq) => Distinct(Without(seq, V))
         /\ \A x, y : Before(Without(seq, V), x, y)
                        <=> Before(seq, x, y) /\ x \notin V /\ y \notin V
<1> DEFINE kept == {i \in DOMAIN seq : seq[i] \notin V}
           left == Without(seq, V)
<1>1. left \in Seq(S)
  BY WithoutPositions
<1>2. PICK at \in [DOMAIN left -> kept] :
        /\ \A n \in DOMAIN left : left[n] = seq[at[n]]
        /\ \A i \in kept : \E n \in DOMAIN left : at[n] = i
        /\ \A m, n \in DOMAIN left : m < n <=> at[m] < at[n]
  BY WithoutPositions, SMTT(40)
<1>3. \A n \in DOMAIN left : at[n] \in DOMAIN seq /\ left[n] = seq[at[n]] /\ left[n] \notin V
  BY <1>2
<1>4. \A i \in DOMAIN seq : seq[i] \notin V => \E n \in DOMAIN left : at[n] = i /\ left[n] = seq[i]
  BY <1>2
<1>5. \A m, n \in DOMAIN left : m < n \/ n < m \/ m = n
  BY <1>1
<1> HIDE DEF left, kept
<1>6. ElementsOf(left) = ElementsOf(seq) \ V
  BY <1>3, <1>4 DEF ElementsOf
<1>7. Distinct(seq) => Distinct(left)
  <2> SUFFICES ASSUME Distinct(seq), NEW m \in DOMAIN left, NEW n \in DOMAIN left,
                      left[m] = left[n]
               PROVE  m = n
    BY DEF Distinct
  <2>1. at[m] = at[n]
    BY <1>3 DEF Distinct
  <2>2. at[m] \in Nat
    BY <1>3
  <2> QED BY <1>2, <1>5, <2>1, <2>2
<1>8. ASSUME NEW x, NEW y
      PROVE  Before(left, x, y) <=> Before(seq, x, y) /\ x \notin V /\ y \notin V
  <2>1. ASSUME Before(left, x, y)
        PROVE  Before(seq, x, y) /\ x \notin V /\ y \notin V
    <3>1. PICK m, n \in DOMAIN left : m < n /\ left[m] = x /\ left[n] = y
      BY <2>1 DEF Before
    <3> QED BY <3>1, <1>2, <1>3 DEF Before
  <2>2. ASSUME Before(seq, x, y), x \notin V, y \notin V
        PROVE  Before(left, x, y)
    <3>1. PICK i, j \in DOMAIN seq : i < j /\ seq[i] = x /\ seq[j] = y
      BY <2>2 DEF Before
    <3>2. PICK m \in DOMAIN left : at[m] = i /\ left[m] = x
      BY <3>1, <2>2, <1>4
    <3>3. PICK n \in DOMAIN left : at[n] = j /\ left[n] = y
      BY <3>1, <2>2, <1>4
    <3>4. m < n
      BY <3>1, <3>2, <3>3, <1>2
    <3> QED BY <3>2, <3>3, <3>4 DEF Before
  <2> QED BY <2>1, <2>2
<1> QED BY <1>1, <1>6, <1>7, <1>8 DEF left
-----------------------------------------------------------------------------
\* A nonempty set of naturals has a least element.
LEMMA LeastNat ==
  ASSUME NEW T \in SUBSET Nat, T # {}
  PROVE  \E n \in T : \A m \in T : n <= m
<1>1. PICK n \in T : \A m \in T : ~ (<<m, n>> \in OpToRel(<, Nat))
  BY NatLessThanWellFounded, WFMin
<1>2. \A m \in T : ~ (m < n)
  BY <1>1 DEF OpToRel
<1> QED BY <1>2
-----------------------------------------------------------------------------
\* A deque without duplicates orders its elements.
LEMMA BeforeOrders ==
  ASSUME NEW S, NEW seq \in Seq(S), Distinct(seq)
  PROVE  /\ \A x, y \in ElementsOf(seq) : x = y \/ Before(seq, x, y) \/ Before(seq, y, x)
         /\ \A x, y : Before(seq, x, y) => ~Before(seq, y, x)
         /\ \A x, y, z : Before(seq, x, y) /\ Before(seq, y, z) => Before(seq, x, z)
         /\ \A x, y : Before(seq, x, y) => x \in ElementsOf(seq) /\ y \in ElementsOf(seq)
<1>1. DOMAIN seq = 1..Len(seq) /\ Len(seq) \in Nat
  OBVIOUS
<1>2. ASSUME NEW x \in ElementsOf(seq), NEW y \in ElementsOf(seq)
      PROVE  x = y \/ Before(seq, x, y) \/ Before(seq, y, x)
  <2>1. PICK i \in DOMAIN seq : seq[i] = x
    BY DEF ElementsOf
  <2>2. PICK j \in DOMAIN seq : seq[j] = y
    BY DEF ElementsOf
  <2>3. i < j \/ j < i \/ i = j
    BY <1>1
  <2> QED BY <2>1, <2>2, <2>3 DEF Before
<1>3. ASSUME NEW x, NEW y, Before(seq, x, y), Before(seq, y, x)
      PROVE  FALSE
  <2>1. PICK i, j \in DOMAIN seq : i < j /\ seq[i] = x /\ seq[j] = y
    BY <1>3 DEF Before
  <2>2. PICK k, l \in DOMAIN seq : k < l /\ seq[k] = y /\ seq[l] = x
    BY <1>3 DEF Before
  <2>3. i = l /\ j = k
    BY <2>1, <2>2 DEF Distinct
  <2> QED BY <2>1, <2>2, <2>3, <1>1
<1>4. ASSUME NEW x, NEW y, NEW z, Before(seq, x, y), Before(seq, y, z)
      PROVE  Before(seq, x, z)
  <2>1. PICK i, j \in DOMAIN seq : i < j /\ seq[i] = x /\ seq[j] = y
    BY <1>4 DEF Before
  <2>2. PICK k, l \in DOMAIN seq : k < l /\ seq[k] = y /\ seq[l] = z
    BY <1>4 DEF Before
  <2>3. j = k
    BY <2>1, <2>2 DEF Distinct
  <2>4. i < l
    BY <2>1, <2>2, <2>3, <1>1
  <2> QED BY <2>1, <2>2, <2>4 DEF Before
<1>5. \A x, y : Before(seq, x, y) => x \in ElementsOf(seq) /\ y \in ElementsOf(seq)
  BY DEF Before, ElementsOf
<1> QED BY <1>2, <1>3, <1>4, <1>5

\* Some elements of a deque have a first one.
LEMMA FirstElement ==
  ASSUME NEW S, NEW seq \in Seq(S), NEW D \in SUBSET ElementsOf(seq), D # {}
  PROVE  \E x \in D : \A z \in D : z = x \/ Before(seq, x, z)
<1> DEFINE at == {i \in DOMAIN seq : seq[i] \in D}
<1>1. at \in SUBSET Nat /\ at # {}
  BY DEF ElementsOf
<1>2. PICK i \in at : \A j \in at : i <= j
  <2> HIDE DEF at
  <2> QED BY <1>1, LeastNat
<1>3. ASSUME NEW z \in D
      PROVE  z = seq[i] \/ Before(seq, seq[i], z)
  <2>1. PICK j \in DOMAIN seq : seq[j] = z
    BY DEF ElementsOf
  <2>2. i <= j /\ i \in Nat /\ j \in Nat
    BY <1>2, <2>1
  <2>3. i = j \/ i < j
    BY <2>2
  <2> QED BY <1>2, <2>1, <2>3 DEF Before
<1> QED BY <1>2, <1>3

\* A map of the positions of one deque to those of another that keeps their
\* order never moves a position down.
LEMMA NeverDown ==
  ASSUME NEW m \in Nat, NEW n \in Nat, NEW f \in [1..m -> 1..n],
         \A i, j \in 1..m : i < j => f[i] < f[j]
  PROVE  \A i \in 1..m : i <= f[i]
<1> DEFINE low == {i \in 1..m : f[i] < i}
<1>1. SUFFICES ASSUME low # {}
               PROVE  FALSE
  BY DEF low
<1>2. low \in SUBSET Nat
  OBVIOUS
<1>3. PICK i \in low : \A j \in low : i <= j
  <2> HIDE DEF low
  <2> QED BY <1>1, <1>2, LeastNat
<1>4. f[i] \in 1..m /\ f[i] < i
  BY <1>3
<1>5. f[f[i]] < f[i]
  BY <1>3, <1>4
<1>6. f[i] \in low
  BY <1>4, <1>5
<1> QED BY <1>3, <1>4, <1>6

\* Two deques of the same elements in the same order are the same.
LEMMA SameOrder ==
  ASSUME NEW S, NEW s \in Seq(S), NEW t \in Seq(S), Distinct(s), Distinct(t),
         ElementsOf(s) = ElementsOf(t),
         \A x, y : Before(s, x, y) => Before(t, x, y)
  PROVE  s = t
<1>1. /\ Len(s) \in Nat /\ DOMAIN s = 1..Len(s)
      /\ Len(t) \in Nat /\ DOMAIN t = 1..Len(t)
  OBVIOUS
<1>2. \A i \in DOMAIN s : \E k \in DOMAIN t : t[k] = s[i]
  BY DEF ElementsOf
<1>3. \A k \in DOMAIN t : \E i \in DOMAIN s : s[i] = t[k]
  BY DEF ElementsOf
<1>4. PICK f \in [DOMAIN s -> DOMAIN t] : \A i \in DOMAIN s : t[f[i]] = s[i]
  <2> DEFINE g == [i \in DOMAIN s |-> CHOOSE k \in DOMAIN t : t[k] = s[i]]
  <2>1. g \in [DOMAIN s -> DOMAIN t] /\ \A i \in DOMAIN s : t[g[i]] = s[i]
    BY <1>2
  <2> QED BY <2>1
<1>5. PICK h \in [DOMAIN t -> DOMAIN s] : \A k \in DOMAIN t : s[h[k]] = t[k]
  <2> DEFINE g == [k \in DOMAIN t |-> CHOOSE i \in DOMAIN s : s[i] = t[k]]
  <2>1. g \in [DOMAIN t -> DOMAIN s] /\ \A k \in DOMAIN t : s[g[k]] = t[k]
    BY <1>3
  <2> QED BY <2>1
<1>6. \A i \in DOMAIN s : h[f[i]] = i
  BY <1>4, <1>5 DEF Distinct
<1>7. \A k \in DOMAIN t : f[h[k]] = k
  BY <1>4, <1>5 DEF Distinct
<1>8. ASSUME NEW i \in DOMAIN s, NEW j \in DOMAIN s, i < j
      PROVE  f[i] < f[j]
  <2>1. Before(t, s[i], s[j])
    <3>1. Before(s, s[i], s[j])
      BY <1>8 DEF Before
    <3> QED BY <3>1
  <2>2. PICK k, l \in DOMAIN t : k < l /\ t[k] = s[i] /\ t[l] = s[j]
    BY <2>1 DEF Before
  <2>3. k = f[i] /\ l = f[j]
    BY <2>2, <1>4 DEF Distinct
  <2> QED BY <2>2, <2>3
<1>9. ASSUME NEW k \in DOMAIN t, NEW l \in DOMAIN t, k < l
      PROVE  h[k] < h[l]
  <2>5. h[k] \in DOMAIN s /\ h[l] \in DOMAIN s /\ f[h[k]] = k /\ f[h[l]] = l
    BY <1>5, <1>7
  <2>1. h[k] < h[l] \/ h[l] < h[k] \/ h[k] = h[l]
    BY <1>1, <2>5
  <2>2. h[l] < h[k] => l < k
    BY <1>8, <2>5
  <2>3. h[k] = h[l] => k = l
    BY <1>7
  <2>4. k \in Nat /\ l \in Nat /\ ~(l < k) /\ k # l
    <3>1. DOMAIN t \subseteq Nat
      BY <1>1
    <3> QED BY <1>9, <3>1, SMTT(20)
  <2> QED BY <2>1, <2>2, <2>3, <2>4
<1>10. \A i \in DOMAIN s : i <= f[i]
  BY <1>1, <1>4, <1>8, NeverDown
<1>11. \A k \in DOMAIN t : k <= h[k]
  BY <1>1, <1>5, <1>9, NeverDown
<1>12. \A i \in DOMAIN s : f[i] = i
  BY <1>1, <1>4, <1>6, <1>10, <1>11
<1>13. \A k \in DOMAIN t : h[k] = k
  BY <1>1, <1>5, <1>7, <1>10, <1>11
<1>14. DOMAIN s = DOMAIN t
  BY <1>4, <1>5, <1>12, <1>13
<1>15. \A i \in DOMAIN s : s[i] = t[i]
  BY <1>4, <1>12
<1> QED BY <1>14, <1>15

\* Taking some elements out, then others, is taking out both.
LEMMA WithoutTwice ==
  ASSUME NEW S, NEW seq \in Seq(S), Distinct(seq), NEW V, NEW U
  PROVE  Without(Without(seq, V), U) = Without(seq, V \cup U)
<1> DEFINE s == Without(seq, V)
           l == Without(s, U)
           m == Without(seq, V \cup U)
<1>1. /\ s \in Seq(S) /\ Distinct(s) /\ ElementsOf(s) = ElementsOf(seq) \ V
      /\ \A x, y : Before(s, x, y) <=> Before(seq, x, y) /\ x \notin V /\ y \notin V
  BY WithoutProperties
<1> HIDE DEF s
<1>2. /\ l \in Seq(S) /\ Distinct(l) /\ ElementsOf(l) = ElementsOf(s) \ U
      /\ \A x, y : Before(l, x, y) <=> Before(s, x, y) /\ x \notin U /\ y \notin U
  BY <1>1, WithoutProperties
<1>3. /\ m \in Seq(S) /\ Distinct(m) /\ ElementsOf(m) = ElementsOf(seq) \ (V \cup U)
      /\ \A x, y : Before(m, x, y)
                     <=> Before(seq, x, y) /\ x \notin V \cup U /\ y \notin V \cup U
  BY WithoutProperties
<1> HIDE DEF l, m
<1>4. ElementsOf(l) = ElementsOf(m) /\ \A x, y : Before(l, x, y) => Before(m, x, y)
  BY <1>1, <1>2, <1>3
<1>5. l = m
  BY <1>2, <1>3, <1>4, SameOrder
<1> QED BY <1>5 DEF l, m, s

\* Taking nothing out changes nothing.
LEMMA WithoutNothing ==
  ASSUME NEW S, NEW seq \in Seq(S), Distinct(seq)
  PROVE  Without(seq, {}) = seq
<1> DEFINE m == Without(seq, {})
<1>1. /\ m \in Seq(S) /\ Distinct(m) /\ ElementsOf(m) = ElementsOf(seq) \ {}
      /\ \A x, y : Before(m, x, y) <=> Before(seq, x, y) /\ x \notin {} /\ y \notin {}
  BY WithoutProperties
<1> HIDE DEF m
<1>2. ElementsOf(m) = ElementsOf(seq) /\ \A x, y : Before(m, x, y) => Before(seq, x, y)
  BY <1>1
<1>3. m = seq
  BY <1>1, <1>2, SameOrder
<1> QED BY <1>3 DEF m
-----------------------------------------------------------------------------
\* Appending adds one element, last.
LEMMA AppendElements ==
  ASSUME NEW S, NEW seq \in Seq(S), NEW e \in S
  PROVE  /\ Append(seq, e) \in Seq(S)
         /\ ElementsOf(Append(seq, e)) = ElementsOf(seq) \cup {e}
<1>1. /\ Append(seq, e) \in Seq(S) /\ Len(seq) \in Nat
      /\ DOMAIN seq = 1..Len(seq) /\ DOMAIN Append(seq, e) = 1..(Len(seq) + 1)
      /\ \A i \in DOMAIN seq : Append(seq, e)[i] = seq[i]
      /\ Append(seq, e)[Len(seq) + 1] = e
  BY AppendProperties, LenProperties
<1>2. \A i \in DOMAIN Append(seq, e) : i \in DOMAIN seq \/ i = Len(seq) + 1
  BY <1>1
<1>3. DOMAIN seq \subseteq DOMAIN Append(seq, e) /\ Len(seq) + 1 \in DOMAIN Append(seq, e)
  BY <1>1
<1> QED BY <1>1, <1>2, <1>3 DEF ElementsOf

\* Joining two deques that have no element in common.
LEMMA ConcatElements ==
  ASSUME NEW S, NEW s \in Seq(S), NEW t \in Seq(S)
  PROVE  /\ s \o t \in Seq(S)
         /\ ElementsOf(s \o t) = ElementsOf(s) \cup ElementsOf(t)
         /\ Distinct(s) /\ Distinct(t) /\ ElementsOf(s) \cap ElementsOf(t) = {}
              => Distinct(s \o t)
<1>1. /\ s \o t \in Seq(S) /\ Len(s) \in Nat /\ Len(t) \in Nat
      /\ DOMAIN s = 1..Len(s) /\ DOMAIN t = 1..Len(t)
      /\ DOMAIN (s \o t) = 1..(Len(s) + Len(t))
  BY ConcatProperties, LenProperties
<1>2. /\ \A i \in DOMAIN s : i \in DOMAIN (s \o t) /\ (s \o t)[i] = s[i]
      /\ \A i \in DOMAIN t : Len(s) + i \in DOMAIN (s \o t) /\ (s \o t)[Len(s) + i] = t[i]
  BY <1>1, ConcatProperties
<1>3. \A i \in DOMAIN (s \o t) :
        i \in DOMAIN s \/ (i - Len(s) \in DOMAIN t /\ Len(s) + (i - Len(s)) = i /\ i \notin DOMAIN s)
  BY <1>1
<1>4. ElementsOf(s \o t) = ElementsOf(s) \cup ElementsOf(t)
  <2>1. ElementsOf(s \o t) \subseteq ElementsOf(s) \cup ElementsOf(t)
    BY <1>2, <1>3 DEF ElementsOf
  <2>2. ElementsOf(s) \subseteq ElementsOf(s \o t)
    BY <1>2 DEF ElementsOf
  <2>3. ElementsOf(t) \subseteq ElementsOf(s \o t)
    BY <1>2 DEF ElementsOf
  <2> QED BY <2>1, <2>2, <2>3
<1>5. ASSUME Distinct(s), Distinct(t), ElementsOf(s) \cap ElementsOf(t) = {},
             NEW i \in DOMAIN (s \o t), NEW j \in DOMAIN (s \o t),
             (s \o t)[i] = (s \o t)[j]
      PROVE  i = j
  <2>1. \A k \in DOMAIN s, l \in DOMAIN t : s[k] # t[l]
    BY <1>5 DEF ElementsOf
  <2>2. CASE i \in DOMAIN s /\ j \in DOMAIN s
    BY <1>2, <1>5, <2>2 DEF Distinct
  <2>3. CASE i \in DOMAIN s /\ j \notin DOMAIN s
    BY <1>2, <1>3, <1>5, <2>1, <2>3
  <2>4. CASE i \notin DOMAIN s /\ j \in DOMAIN s
    BY <1>2, <1>3, <1>5, <2>1, <2>4
  <2>5. CASE i \notin DOMAIN s /\ j \notin DOMAIN s
    <3>1. t[i - Len(s)] = t[j - Len(s)]
      BY <1>2, <1>3, <1>5, <2>5
    <3>2. i - Len(s) = j - Len(s)
      BY <1>3, <1>5, <2>5, <3>1 DEF Distinct
    <3> QED BY <1>1, <3>2
  <2> QED BY <2>2, <2>3, <2>4, <2>5
<1> QED BY <1>1, <1>4, <1>5 DEF Distinct

\* What is left of a deque after its first m elements.
LEMMA RestElements ==
  ASSUME NEW S, NEW seq \in Seq(S), NEW m \in DOMAIN seq
  PROVE  LET rest == SubSeq(seq, m + 1, Len(seq)) IN
         /\ rest \in Seq(S)
         /\ ElementsOf(rest) \subseteq ElementsOf(seq)
         /\ Distinct(seq) => Distinct(rest)
<1> DEFINE rest == SubSeq(seq, m + 1, Len(seq))
<1>1. /\ Len(seq) \in Nat /\ DOMAIN seq = 1..Len(seq) /\ m \in Nat
      /\ \A i \in DOMAIN seq : seq[i] \in S
  BY LenProperties
<1>2. /\ rest \in Seq(S)
      /\ Len(rest) = Len(seq) - m
      /\ \A i \in 1..(Len(seq) - m) : rest[i] = seq[m + i]
  <2>1. \A i \in (m + 1)..Len(seq) : seq[i] \in S
    BY <1>1
  <2>2. /\ rest \in Seq(S)
        /\ Len(rest) = IF m + 1 <= Len(seq) THEN Len(seq) - (m + 1) + 1 ELSE 0
        /\ \A i \in 1..(Len(seq) - (m + 1) + 1) : rest[i] = seq[(m + 1) + i - 1]
    BY <1>1, <2>1, SubSeqProperties
  <2>3. /\ (m + 1 <= Len(seq) => Len(seq) - (m + 1) + 1 = Len(seq) - m)
        /\ (~(m + 1 <= Len(seq)) => Len(seq) - m = 0)
        /\ Len(seq) - (m + 1) + 1 = Len(seq) - m
        /\ \A i \in 1..(Len(seq) - m) : (m + 1) + i - 1 = m + i
    BY <1>1
  <2> HIDE DEF rest
  <2> QED BY <2>2, <2>3
<1> HIDE DEF rest
<1>3. DOMAIN rest = 1..(Len(seq) - m)
  BY <1>2, LenProperties
<1>4. \A i \in DOMAIN rest : m + i \in DOMAIN seq /\ rest[i] = seq[m + i]
  BY <1>1, <1>2, <1>3
<1>5. ElementsOf(rest) \subseteq ElementsOf(seq)
  BY <1>4 DEF ElementsOf
<1>6. Distinct(seq) => Distinct(rest)
  <2>1. ASSUME Distinct(seq), NEW i \in DOMAIN rest, NEW j \in DOMAIN rest, rest[i] = rest[j]
        PROVE  i = j
    <3>1. m + i = m + j
      BY <1>4, <2>1 DEF Distinct
    <3> QED BY <1>1, <1>3, <3>1
  <2> QED BY <2>1 DEF Distinct
<1> QED BY <1>2, <1>5, <1>6 DEF rest

\* Dropping the first element keeps every other one.
LEMMA TailElements ==
  ASSUME NEW S, NEW seq \in Seq(S), seq # <<>>
  PROVE  /\ Tail(seq) \in Seq(S)
         /\ ElementsOf(seq) \ {seq[1]} \subseteq ElementsOf(Tail(seq))
<1>1. /\ Tail(seq) \in Seq(S) /\ Len(Tail(seq)) = Len(seq) - 1
      /\ \A i \in 1..Len(Tail(seq)) : Tail(seq)[i] = seq[i + 1]
      /\ Len(seq) \in Nat \ {0} /\ DOMAIN seq = 1..Len(seq)
  BY HeadTailProperties, LenProperties, EmptySeq
<1>2. DOMAIN Tail(seq) = 1..(Len(seq) - 1)
  BY <1>1, LenProperties
<1>3. \A i \in DOMAIN seq : i = 1 \/ (i - 1 \in DOMAIN Tail(seq) /\ Tail(seq)[i - 1] = seq[i])
  BY <1>1, <1>2
<1> QED BY <1>1, <1>3 DEF ElementsOf
-----------------------------------------------------------------------------
(* Induction, over sets in place of predicates.                            *)

LEMMA NatInduct ==
  ASSUME NEW G, 0 \in G, \A n \in Nat : n \in G => n + 1 \in G
  PROVE  \A n \in Nat : n \in G
<1> DEFINE bad == Nat \ G
<1> SUFFICES ASSUME bad # {}
             PROVE  FALSE
  OBVIOUS
<1>1. PICK n \in bad : \A m \in bad : n <= m
  BY LeastNat
<1>2. n - 1 \in Nat /\ n - 1 \notin bad
  BY <1>1
<1> QED BY <1>1, <1>2

LEMMA SeqInduct ==
  ASSUME NEW S, NEW G, <<>> \in G,
         \A p \in Seq(S), x \in S : p \in G => Append(p, x) \in G
  PROVE  \A p \in Seq(S) : p \in G
<1> DEFINE H == {n \in Nat : \A p \in Seq(S) : Len(p) = n => p \in G}
<1>1. 0 \in H
  <2>1. \A p \in Seq(S) : Len(p) = 0 => p = <<>>
    BY EmptySeq
  <2> QED BY <2>1
<1>2. ASSUME NEW n \in Nat, n \in H
      PROVE  n + 1 \in H
  <2> SUFFICES ASSUME NEW p \in Seq(S), Len(p) = n + 1
               PROVE  p \in G
    OBVIOUS
  <2>1. PICK q \in Seq(S), x \in S : p = Append(q, x)
    <3>1. p # <<>>
      BY EmptySeq
    <3> QED BY <3>1, SequenceEmptyOrAppend
  <2>2. Len(q) = n
    BY <2>1
  <2> QED BY <1>2, <2>1, <2>2
<1> HIDE DEF H
<1>3. \A n \in Nat : n \in H
  BY <1>1, <1>2, NatInduct
<1> QED BY <1>3 DEF H

\* A function given by its first value and a step from each value to the next.
Iterations(S, n, F, s) ==
  {g \in [0..n -> S] : g[0] = s /\ \A i \in 1..n : g[i] = F[<<i, g[i - 1]>>]}

LEMMA Iterated ==
  ASSUME NEW S, NEW n \in Nat, NEW F \in [(1..n) \X S -> S], NEW s \in S
  PROVE  Iterations(S, n, F, s) # {}
<1> DEFINE Upto(m, g) == g[0] = s /\ \A i \in 1..m : g[i] = F[<<i, g[i - 1]>>]
           G == {m \in Nat : m <= n => \E g \in [0..m -> S] : Upto(m, g)}
<1>1. 0 \in G
  <2> DEFINE g == [i \in 0..0 |-> s]
  <2>1. g \in [0..0 -> S] /\ Upto(0, g)
    OBVIOUS
  <2> QED BY <2>1
<1>2. ASSUME NEW m \in Nat, m \in G
      PROVE  m + 1 \in G
  <2> SUFFICES ASSUME m + 1 <= n
               PROVE  \E g \in [0..m + 1 -> S] : Upto(m + 1, g)
    OBVIOUS
  <2>1. PICK g \in [0..m -> S] : Upto(m, g)
    BY <1>2
  <2> DEFINE last == F[<<m + 1, g[m]>>]
             h == [i \in 0..m + 1 |-> IF i = m + 1 THEN last ELSE g[i]]
  <2>2. m \in 0..m /\ m + 1 \in 1..n /\ g[m] \in S
    BY <2>1
  <2>3. last \in S
    BY <2>2
  <2> HIDE DEF last
  <2>4. h \in [0..m + 1 -> S]
    BY <2>1, <2>3
  <2>5. h[0] = s
    BY <2>1
  <2>6. ASSUME NEW i \in 1..m + 1
        PROVE  h[i] = F[<<i, h[i - 1]>>]
    <3>1. CASE i = m + 1
      <4>1. h[i] = last /\ i - 1 = m /\ h[m] = g[m]
        BY <2>2, <3>1
      <4> QED BY <3>1, <4>1 DEF last
    <3>2. CASE i \in 1..m
      <4>1. h[i] = g[i] /\ h[i - 1] = g[i - 1]
        BY <3>2
      <4>2. g[i] = F[<<i, g[i - 1]>>]
        BY <2>1, <3>2
      <4> QED BY <4>1, <4>2
    <3> QED BY <3>1, <3>2
  <2> HIDE DEF h
  <2> QED BY <2>4, <2>5, <2>6
<1>3. n \in G
  <2> HIDE DEF G
  <2> QED BY <1>1, <1>2, NatInduct
<1> QED BY <1>3 DEF Iterations
-----------------------------------------------------------------------------
(* Joining sequences.                                                      *)

IsRun(g, p) ==
  \A i \in 1..Len(p) : g[i] = IF i = 1 THEN p[i] ELSE g[i - 1] \o p[i]
JoinRuns(p, T) == {g \in [1..Len(p) -> Seq(T)] : IsRun(g, p)}

LEMMA JoinRun ==
  ASSUME NEW T, NEW p \in Seq(Seq(T))
  PROVE  JoinRuns(p, T) # {}
<1> DEFINE G == {q \in Seq(Seq(T)) : JoinRuns(q, T) # {}}
<1>1. <<>> \in G
  <2>1. <<>> \in Seq(Seq(T)) /\ Len(<<>>) = 0 /\ 1..0 = {}
    BY EmptySeq
  <2>2. [i \in {} |-> <<>>] \in [1..Len(<<>>) -> Seq(T)] /\ IsRun([i \in {} |-> <<>>], <<>>)
    BY <2>1 DEF IsRun
  <2> QED BY <2>1, <2>2 DEF JoinRuns
<1>2. ASSUME NEW q \in Seq(Seq(T)), NEW x \in Seq(T), q \in G
      PROVE  Append(q, x) \in G
  <2> DEFINE n == Len(q)
             r == Append(q, x)
  <2>1. PICK g \in [1..n -> Seq(T)] : IsRun(g, q)
    BY <1>2 DEF JoinRuns
  <2>2. /\ r \in Seq(Seq(T)) /\ n \in Nat /\ Len(r) = n + 1 /\ r[n + 1] = x
        /\ \A i \in 1..n : r[i] = q[i]
    BY AppendProperties, LenProperties
  <2> DEFINE last == IF n = 0 THEN x ELSE g[n] \o x
             h == [i \in 1..(n + 1) |-> IF i = n + 1 THEN last ELSE g[i]]
  <2> HIDE DEF r, n
  <2>3. last \in Seq(T)
    <3>1. CASE n = 0
      BY <3>1
    <3>2. CASE n # 0
      BY <2>1, <2>2, <3>2, ConcatProperties
    <3> QED BY <3>1, <3>2
  <2> HIDE DEF last
  <2>4. h \in [1..(n + 1) -> Seq(T)]
    BY <2>1, <2>2, <2>3
  <2>5. \A i \in 1..n : g[i] = IF i = 1 THEN q[i] ELSE g[i - 1] \o q[i]
    BY <2>1 DEF IsRun, n
  <2>6. /\ \A i \in 1..n : h[i] = g[i] /\ i # n + 1
        /\ h[n + 1] = last
    BY <2>2
  <2>7. ASSUME NEW i \in 1..(n + 1)
        PROVE  h[i] = IF i = 1 THEN r[i] ELSE h[i - 1] \o r[i]
    <3> HIDE DEF h
    <3>1. CASE i \in 1..n
      <4>1. i # 1 => i - 1 \in 1..n
        BY <2>2, <3>1
      <4>2. h[i] = g[i] /\ r[i] = q[i] /\ (i # 1 => h[i - 1] = g[i - 1])
        BY <2>2, <2>6, <3>1, <4>1
      <4>3. g[i] = IF i = 1 THEN q[i] ELSE g[i - 1] \o q[i]
        BY <2>5, <3>1
      <4> QED BY <4>2, <4>3
    <3>2. CASE i = n + 1 /\ n = 0
      BY <2>2, <2>6, <3>2 DEF last
    <3>3. CASE i = n + 1 /\ n # 0
      <4>1. n \in 1..n /\ i # 1 /\ i - 1 = n
        BY <2>2, <3>3
      <4>2. h[i] = g[n] \o x /\ h[i - 1] = g[n] /\ r[i] = x
        BY <2>2, <2>6, <3>3, <4>1 DEF last
      <4> QED BY <4>1, <4>2
    <3> QED BY <2>2, <3>1, <3>2, <3>3
  <2>8. h \in JoinRuns(r, T)
    <3> HIDE DEF h
    <3> QED BY <2>2, <2>4, <2>7 DEF JoinRuns, IsRun
  <2> QED BY <2>2, <2>8 DEF r
<1> HIDE DEF G
<1>3. p \in G
  BY <1>1, <1>2, SeqInduct
<1> QED BY <1>3 DEF G

LEMMA JoinEmpty == Seqs!FlattenSeq(<<>>) = <<>>
BY DEF Seqs!FlattenSeq

LEMMA JoinIs ==
  ASSUME NEW T, NEW p \in Seq(Seq(T)), p # <<>>, NEW g \in JoinRuns(p, T)
  PROVE  Seqs!FlattenSeq(p) = g[Len(p)]
<1> DEFINE n == Len(p)
           f == CHOOSE f : f = [i \in 1..n |-> IF i = 1 THEN p[i] ELSE f[i - 1] \o p[i]]
<1>1. n \in Nat \ {0}
  BY EmptySeq
<1>2. g = [i \in 1..n |-> IF i = 1 THEN p[i] ELSE g[i - 1] \o p[i]]
  BY DEF JoinRuns, IsRun
<1>3. \A i \in 1..n : g[i] = IF i = 1 THEN p[i] ELSE g[i - 1] \o p[i]
  BY DEF JoinRuns, IsRun
<1>4. f = [i \in 1..n |-> IF i = 1 THEN p[i] ELSE f[i - 1] \o p[i]]
  BY <1>2
<1>5. Seqs!FlattenSeq(p) = f[n]
  BY <1>1 DEF Seqs!FlattenSeq
<1> HIDE DEF f
<1>6. \A i \in 1..n : f[i] = IF i = 1 THEN p[i] ELSE f[i - 1] \o p[i]
  BY <1>4
<1> HIDE DEF n
<1> DEFINE G == {i \in Nat : i + 1 \in 1..n => f[i + 1] = g[i + 1]}
<1>7. 0 \in G
  <2>1. 1 \in 1..n
    BY <1>1
  <2>2. f[1] = p[1] /\ g[1] = p[1]
    BY <1>3, <1>6, <2>1
  <2> QED BY <2>2
<1>8. ASSUME NEW i \in Nat, i \in G
      PROVE  i + 1 \in G
  <2> SUFFICES ASSUME i + 2 \in 1..n
               PROVE  f[i + 2] = g[i + 2]
    BY <1>1
  <2>1. i + 1 \in 1..n /\ i + 2 # 1 /\ (i + 2) - 1 = i + 1
    BY <1>1
  <2>2. f[i + 2] = f[i + 1] \o p[i + 2]
    BY <1>6, <2>1
  <2>3. g[i + 2] = g[i + 1] \o p[i + 2]
    BY <1>3, <2>1
  <2> QED BY <1>8, <2>1, <2>2, <2>3
<1>9. \A i \in Nat : i \in G
  <2> HIDE DEF G
  <2> QED BY <1>7, <1>8, NatInduct
<1>10. n - 1 \in Nat /\ (n - 1) + 1 = n /\ n \in 1..n
  BY <1>1
<1>11. f[n] = g[n]
  BY <1>9, <1>10
<1> QED BY <1>5, <1>11 DEF n

LEMMA JoinAppend ==
  ASSUME NEW T, NEW p \in Seq(Seq(T)), NEW c \in Seq(T)
  PROVE  /\ Seqs!FlattenSeq(p) \in Seq(T)
         /\ Seqs!FlattenSeq(Append(p, c)) = Seqs!FlattenSeq(p) \o c
         /\ Seqs!FlattenSeq(Append(p, c)) \in Seq(T)
<1> DEFINE n == Len(p)
           r == Append(p, c)
<1>1. /\ r \in Seq(Seq(T)) /\ n \in Nat /\ Len(r) = n + 1 /\ r[n + 1] = c
      /\ \A i \in 1..n : r[i] = p[i]
      /\ r # <<>>
  BY AppendProperties, LenProperties
<1> HIDE DEF r, n
<1>2. PICK g : g \in JoinRuns(r, T)
  BY <1>1, JoinRun
<1>3. g \in [1..(n + 1) -> Seq(T)]
  BY <1>1, <1>2 DEF JoinRuns
<1>4. \A i \in 1..(n + 1) : g[i] = IF i = 1 THEN r[i] ELSE g[i - 1] \o r[i]
  BY <1>1, <1>2 DEF JoinRuns, IsRun
<1>5. n + 1 \in 1..(n + 1)
  BY <1>1
<1>6. Seqs!FlattenSeq(r) = g[Len(r)]
  BY <1>1, <1>2, JoinIs
<1>7. Seqs!FlattenSeq(r) = g[n + 1] /\ g[n + 1] \in Seq(T)
  BY <1>1, <1>3, <1>5, <1>6
<1>8. CASE n = 0
  <2>1. p = <<>> /\ g[n + 1] = c
    BY <1>1, <1>4, <1>5, <1>8, EmptySeq DEF n
  <2>2. Seqs!FlattenSeq(p) = <<>> /\ <<>> \o c = c /\ <<>> \in Seq(T)
    BY <2>1, JoinEmpty, ConcatEmptySeq, EmptySeq
  <2> QED BY <1>7, <2>1, <2>2 DEF r
<1>9. CASE n # 0
  <2> DEFINE h == [i \in 1..n |-> g[i]]
  <2>1. h \in [1..n -> Seq(T)] /\ p # <<>>
    BY <1>1, <1>3, <1>9, EmptySeq DEF n
  <2>2. \A i \in 1..n : h[i] = IF i = 1 THEN p[i] ELSE h[i - 1] \o p[i]
    <3> SUFFICES ASSUME NEW i \in 1..n
                 PROVE  h[i] = IF i = 1 THEN p[i] ELSE h[i - 1] \o p[i]
      OBVIOUS
    <3>1. i \in 1..(n + 1) /\ (i # 1 => i - 1 \in 1..n)
      BY <1>1
    <3> QED BY <1>1, <1>4, <3>1
  <2>3. n \in 1..n /\ n + 1 # 1 /\ (n + 1) - 1 = n
    BY <1>1, <1>9
  <2>4. g[n + 1] = g[n] \o c /\ h[n] = g[n] /\ h[n] \in Seq(T)
    BY <1>1, <1>4, <1>5, <2>1, <2>3
  <2> HIDE DEF h
  <2>5. h \in JoinRuns(p, T)
    BY <2>1, <2>2 DEF JoinRuns, IsRun, n
  <2>6. Seqs!FlattenSeq(p) = h[n]
    BY <2>1, <2>5, JoinIs DEF n
  <2> QED BY <1>7, <2>4, <2>6 DEF r
<1> QED BY <1>8, <1>9

LEMMA JoinTyped ==
  ASSUME NEW T, NEW p \in Seq(Seq(T))
  PROVE  Seqs!FlattenSeq(p) \in Seq(T)
BY JoinAppend, EmptySeq

LEMMA JoinOne ==
  ASSUME NEW T, NEW c \in Seq(T)
  PROVE  Seqs!FlattenSeq(<<c>>) = c
<1>1. <<>> \in Seq(Seq(T)) /\ Append(<<>>, c) = <<c>>
  BY EmptySeq
<1>2. Seqs!FlattenSeq(Append(<<>>, c)) = Seqs!FlattenSeq(<<>>) \o c
  BY <1>1, JoinAppend
<1> QED BY <1>1, <1>2, JoinEmpty, ConcatEmptySeq

LEMMA ConcatAppend ==
  ASSUME NEW S, NEW p \in Seq(S), NEW q \in Seq(S), NEW x \in S
  PROVE  p \o Append(q, x) = Append(p \o q, x)
<1>1. <<x>> \in Seq(S)
  OBVIOUS
<1>2. Append(q, x) = q \o <<x>> /\ p \o q \in Seq(S)
  BY AppendIsConcat, ConcatProperties
<1>3. Append(p \o q, x) = (p \o q) \o <<x>>
  BY <1>2, AppendIsConcat
<1> QED BY <1>1, <1>2, <1>3, ConcatAssociative

Associated(s, t, u) == (s \o t) \o u = s \o (t \o u)

LEMMA Associative ==
  ASSUME NEW S, NEW s \in Seq(S), NEW t \in Seq(S), NEW u \in Seq(S)
  PROVE  Associated(s, t, u)
<1>1. (s \o t) \o u = s \o (t \o u)
  BY ConcatAssociative, SMTT(30)
<1> QED BY <1>1, Zenon DEF Associated

LEMMA JoinConcat ==
  ASSUME NEW T, NEW p \in Seq(Seq(T)), NEW q \in Seq(Seq(T))
  PROVE  Seqs!FlattenSeq(p \o q) = Seqs!FlattenSeq(p) \o Seqs!FlattenSeq(q)
<1> DEFINE G == {r \in Seq(Seq(T)) : Seqs!FlattenSeq(p \o r) = Seqs!FlattenSeq(p) \o Seqs!FlattenSeq(r)}
<1>1. <<>> \in G
  <2>1. p \o <<>> = p /\ Seqs!FlattenSeq(p) \o <<>> = Seqs!FlattenSeq(p) /\ <<>> \in Seq(Seq(T))
    BY JoinTyped, ConcatEmptySeq, EmptySeq
  <2> QED BY <2>1, JoinEmpty
<1>2. ASSUME NEW r \in Seq(Seq(T)), NEW x \in Seq(T), r \in G
      PROVE  Append(r, x) \in G
  <2>1. p \o r \in Seq(Seq(T)) /\ Append(r, x) \in Seq(Seq(T))
    BY ConcatProperties, AppendProperties
  <2>2. Seqs!FlattenSeq(p \o Append(r, x)) = Seqs!FlattenSeq(p \o r) \o x
    <3>1. p \o Append(r, x) = Append(p \o r, x)
      BY ConcatAppend
    <3>2. Seqs!FlattenSeq(Append(p \o r, x)) = Seqs!FlattenSeq(p \o r) \o x
      BY <2>1, JoinAppend
    <3> QED BY <3>1, <3>2
  <2>3. Seqs!FlattenSeq(Append(r, x)) = Seqs!FlattenSeq(r) \o x
    BY JoinAppend
  <2>4. Seqs!FlattenSeq(p \o r) = Seqs!FlattenSeq(p) \o Seqs!FlattenSeq(r)
    BY <1>2
  <2>5. Seqs!FlattenSeq(p) \in Seq(T) /\ Seqs!FlattenSeq(r) \in Seq(T)
    BY JoinTyped
  <2>6. (Seqs!FlattenSeq(p) \o Seqs!FlattenSeq(r)) \o x = Seqs!FlattenSeq(p) \o (Seqs!FlattenSeq(r) \o x)
    <3>1. Associated(Seqs!FlattenSeq(p), Seqs!FlattenSeq(r), x)
      BY <2>5, Associative
    <3> QED BY <3>1, Zenon DEF Associated
  <2>7. Seqs!FlattenSeq(p \o Append(r, x)) = Seqs!FlattenSeq(p) \o Seqs!FlattenSeq(Append(r, x))
    BY <2>2, <2>3, <2>4, <2>6
  <2> QED BY <2>1, <2>7
<1> HIDE DEF G
<1>3. q \in G
  BY <1>1, <1>2, SeqInduct
<1> QED BY <1>3 DEF G

LEMMA PrefixOfPath ==
  ASSUME NEW S, NEW p \in Seq(S), NEW i \in 0..Len(p)
  PROVE  /\ SubSeq(p, 1, i) \in Seq(S)
         /\ Len(SubSeq(p, 1, i)) = i
         /\ \A j \in 1..i : SubSeq(p, 1, i)[j] = p[j]
         /\ i < Len(p) => SubSeq(p, 1, i + 1) = Append(SubSeq(p, 1, i), p[i + 1])
<1>1. Len(p) \in Nat /\ \A j \in 1..Len(p) : p[j] \in S
  BY LenProperties, ElementOfSeq
<1>2. /\ SubSeq(p, 1, i) \in Seq(S)
      /\ Len(SubSeq(p, 1, i)) = i
      /\ \A j \in 1..i : SubSeq(p, 1, i)[j] = p[j]
  BY <1>1, SubSeqProperties
<1>3. ASSUME i < Len(p)
      PROVE  SubSeq(p, 1, i + 1) = Append(SubSeq(p, 1, i), p[i + 1])
  <2>1. 1 \in 1..Len(p) /\ i + 1 \in 1..Len(p) /\ (i + 1) - 1 = i
    BY <1>1, <1>3
  <2>2. SubSeq(p, 1, i + 1) = SubSeq(p, 1, i) \o <<p[i + 1]>>
    BY <2>1, SubSeqRecursiveSecond
  <2>3. Append(SubSeq(p, 1, i), p[i + 1]) = SubSeq(p, 1, i) \o <<p[i + 1]>>
    BY <1>1, <1>2, <2>1, AppendIsConcat
  <2> QED BY <2>2, <2>3
<1> QED BY <1>2, <1>3

LEMMA PrefixOfConcat ==
  ASSUME NEW S, NEW p \in Seq(S), NEW q \in Seq(S)
  PROVE  /\ \A i \in 0..Len(p) : SubSeq(p \o q, 1, i) = SubSeq(p, 1, i)
         /\ \A i \in 0..Len(q) : SubSeq(p \o q, 1, Len(p) + i) = p \o SubSeq(q, 1, i)
<1>1. /\ p \o q \in Seq(S) /\ Len(p \o q) = Len(p) + Len(q) /\ Len(p) \in Nat /\ Len(q) \in Nat
      /\ \A i \in 1..Len(p) + Len(q) : (p \o q)[i] = IF i <= Len(p) THEN p[i] ELSE q[i - Len(p)]
  BY ConcatProperties, LenProperties
<1>2. ASSUME NEW i \in 0..Len(p)
      PROVE  SubSeq(p \o q, 1, i) = SubSeq(p, 1, i)
  <2>1. i \in 0..Len(p \o q)
    BY <1>1
  <2>2. /\ SubSeq(p, 1, i) \in Seq(S) /\ Len(SubSeq(p, 1, i)) = i
        /\ \A j \in 1..i : SubSeq(p, 1, i)[j] = p[j]
    BY PrefixOfPath
  <2>3. /\ SubSeq(p \o q, 1, i) \in Seq(S) /\ Len(SubSeq(p \o q, 1, i)) = i
        /\ \A j \in 1..i : SubSeq(p \o q, 1, i)[j] = (p \o q)[j]
    BY <1>1, <2>1, PrefixOfPath
  <2>4. \A j \in 1..i : SubSeq(p \o q, 1, i)[j] = SubSeq(p, 1, i)[j]
    BY <1>1, <2>2, <2>3
  <2> QED BY <2>2, <2>3, <2>4, SeqEqual
<1>3. ASSUME NEW i \in 0..Len(q)
      PROVE  SubSeq(p \o q, 1, Len(p) + i) = p \o SubSeq(q, 1, i)
  <2>1. Len(p) + i \in 0..Len(p \o q)
    BY <1>1
  <2>2. /\ SubSeq(q, 1, i) \in Seq(S) /\ Len(SubSeq(q, 1, i)) = i
        /\ \A j \in 1..i : SubSeq(q, 1, i)[j] = q[j]
    BY PrefixOfPath
  <2>3. /\ SubSeq(p \o q, 1, Len(p) + i) \in Seq(S) /\ Len(SubSeq(p \o q, 1, Len(p) + i)) = Len(p) + i
        /\ \A j \in 1..Len(p) + i : SubSeq(p \o q, 1, Len(p) + i)[j] = (p \o q)[j]
    BY <1>1, <2>1, PrefixOfPath
  <2>4. /\ p \o SubSeq(q, 1, i) \in Seq(S) /\ Len(p \o SubSeq(q, 1, i)) = Len(p) + i
        /\ \A j \in 1..Len(p) + i : (p \o SubSeq(q, 1, i))[j] =
                                      IF j <= Len(p) THEN p[j] ELSE SubSeq(q, 1, i)[j - Len(p)]
    BY <2>2, ConcatProperties
  <2>5. ASSUME NEW j \in 1..Len(p) + i
        PROVE  SubSeq(p \o q, 1, Len(p) + i)[j] = (p \o SubSeq(q, 1, i))[j]
    <3>1. j \in 1..Len(p) + Len(q) /\ (j > Len(p) => j - Len(p) \in 1..i)
      BY <1>1
    <3> QED BY <1>1, <2>2, <2>3, <2>4, <3>1
  <2> QED BY <2>3, <2>4, <2>5, SeqEqual
<1> QED BY <1>2, <1>3
=============================================================================
