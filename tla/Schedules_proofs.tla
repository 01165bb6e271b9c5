-------------------------- MODULE Schedules_proofs --------------------------
(***************************************************************************)
(* Whatever was held, evicted, continued or rebuilt, a held state is the   *)
(* computation its key names: for every chunk size, specs, chats and       *)
(* contexts, and stores of any size.                                       *)
(***************************************************************************)
EXTENDS Schedules, Subsequence_proofs

(* Joining the chunks of a path: the facts about joining sequences.        *)

LEMMA FlattenJoins == ASSUME NEW p PROVE FlattenSeq(p) = Seqs!FlattenSeq(p)
BY DEF FlattenSeq, Seqs!FlattenSeq

LEMMA FlatEmpty == FlattenSeq(<<>>) = <<>>
BY FlattenJoins, JoinEmpty

LEMMA FlatAppend ==
  ASSUME NEW T, NEW p \in Seq(Seq(T)), NEW c \in Seq(T)
  PROVE  /\ FlattenSeq(p) \in Seq(T)
         /\ FlattenSeq(Append(p, c)) = FlattenSeq(p) \o c
         /\ FlattenSeq(Append(p, c)) \in Seq(T)
BY FlattenJoins, JoinAppend

LEMMA FlatTyped ==
  ASSUME NEW T, NEW p \in Seq(Seq(T))
  PROVE  FlattenSeq(p) \in Seq(T)
BY FlattenJoins, JoinTyped

LEMMA FlatOne ==
  ASSUME NEW T, NEW c \in Seq(T)
  PROVE  FlattenSeq(<<c>>) = c
BY FlattenJoins, JoinOne

LEMMA FlatConcat ==
  ASSUME NEW T, NEW p \in Seq(Seq(T)), NEW q \in Seq(Seq(T))
  PROVE  FlattenSeq(p \o q) = FlattenSeq(p) \o FlattenSeq(q)
BY FlattenJoins, JoinConcat
-----------------------------------------------------------------------------
(* Where the chunks of a path start.                                       *)

Paths(T) == Seq(Seq(T) \ {<<>>})
Shifted(starts, n) == {n + j : j \in starts}

LEMMA PathsAreSeqs ==
  ASSUME NEW T, NEW p \in Paths(T)
  PROVE  p \in Seq(Seq(T))
<1>1. Seq(T) \ {<<>>} \subseteq Seq(T)
  OBVIOUS
<1> QED BY <1>1, SeqMonotonic DEF Paths

LEMMA StartsAre ==
  ASSUME NEW p
  PROVE  StartsOf(p) = {1 + Len(Through(p, i - 1)) : i \in 1..Len(p)}
BY DEF StartsOf, Through

LEMMA NextChunk ==
  ASSUME NEW T, NEW p \in Seq(Seq(T)), NEW i \in 1..Len(p)
  PROVE  /\ Through(p, i - 1) \in Seq(T)
         /\ Through(p, i) = Through(p, i - 1) \o p[i]
         /\ Through(p, i) \in Seq(T)
<1>1. i - 1 \in 0..Len(p) /\ i - 1 < Len(p) /\ (i - 1) + 1 = i /\ Len(p) \in Nat
  BY LenProperties
<1>2. SubSeq(p, 1, i) = Append(SubSeq(p, 1, i - 1), p[i]) /\ SubSeq(p, 1, i - 1) \in Seq(Seq(T))
  BY <1>1, PrefixOfPath
<1>3. p[i] \in Seq(T)
  BY ElementOfSeq
<1> QED BY <1>2, <1>3, FlatAppend DEF Through

LEMMA ThroughEnds ==
  ASSUME NEW T, NEW p \in Seq(Seq(T))
  PROVE  Through(p, 0) = <<>> /\ Through(p, Len(p)) = FlattenSeq(p)
<1>1. SubSeq(p, 1, 0) = <<>> /\ SubSeq(p, 1, Len(p)) = p
  BY SubSeqEmpty, SubSeqFull
<1> QED BY <1>1, FlatEmpty DEF Through

LEMMA StartsConcat ==
  ASSUME NEW T, NEW p \in Seq(Seq(T)), NEW q \in Seq(Seq(T))
  PROVE  StartsOf(p \o q) = StartsOf(p) \cup Shifted(StartsOf(q), Len(FlattenSeq(p)))
<1> DEFINE m == Len(p)
           n == Len(q)
           r == p \o q
           size == Len(FlattenSeq(p))
<1>1. r \in Seq(Seq(T)) /\ Len(r) = m + n /\ m \in Nat /\ n \in Nat /\ size \in Nat
  BY ConcatProperties, LenProperties, FlatTyped
<1>2. \A i \in 0..m : Through(r, i) = Through(p, i)
  BY PrefixOfConcat DEF Through
<1>3. ASSUME NEW i \in 0..n
      PROVE  /\ Len(Through(r, m + i)) = size + Len(Through(q, i))
             /\ Len(Through(q, i)) \in Nat
  <2>1. SubSeq(r, 1, m + i) = p \o SubSeq(q, 1, i) /\ SubSeq(q, 1, i) \in Seq(Seq(T))
    BY PrefixOfConcat, PrefixOfPath
  <2>2. Through(r, m + i) = FlattenSeq(p) \o Through(q, i)
    BY <2>1, FlatConcat DEF Through
  <2>3. FlattenSeq(p) \in Seq(T) /\ Through(q, i) \in Seq(T)
    BY <2>1, FlatTyped DEF Through
  <2> QED BY <2>2, <2>3, ConcatProperties, LenProperties
<1> HIDE DEF m, n, r, size
<1>4. ASSUME NEW s \in StartsOf(r)
      PROVE  s \in StartsOf(p) \/ s \in Shifted(StartsOf(q), size)
  <2>1. PICK i \in 1..m + n : s = 1 + Len(Through(r, i - 1))
    BY <1>1, StartsAre
  <2>2. CASE i <= m
    <3>1. i \in 1..m /\ i - 1 \in 0..m
      BY <1>1, <2>2
    <3> QED BY <1>2, <2>1, <3>1, StartsAre DEF m
  <2>3. CASE i > m
    <3>1. i - m \in 1..n /\ (i - m) - 1 \in 0..n /\ m + ((i - m) - 1) = i - 1
      BY <1>1, <2>3
    <3>2. 1 + Len(Through(q, (i - m) - 1)) \in StartsOf(q)
      BY <3>1, StartsAre DEF n
    <3> DEFINE k == (i - m) - 1
    <3>3. Len(Through(r, m + k)) = size + Len(Through(q, k)) /\ Len(Through(q, k)) \in Nat
      BY <1>3, <3>1
    <3>4. s = 1 + Len(Through(r, m + k))
      BY <2>1, <3>1
    <3>5. s = size + (1 + Len(Through(q, k)))
      BY <1>1, <3>3, <3>4
    <3> QED BY <3>2, <3>5 DEF Shifted
  <2> QED BY <1>1, <2>2, <2>3
<1>5. ASSUME NEW s \in StartsOf(p)
      PROVE  s \in StartsOf(r)
  <2>1. PICK i \in 1..m : s = 1 + Len(Through(p, i - 1))
    BY StartsAre DEF m
  <2>2. i \in 1..m + n /\ i - 1 \in 0..m
    BY <1>1
  <2> QED BY <1>1, <1>2, <2>1, <2>2, StartsAre
<1>6. ASSUME NEW s \in Shifted(StartsOf(q), size)
      PROVE  s \in StartsOf(r)
  <2>1. PICK i \in 1..n : s = size + (1 + Len(Through(q, i - 1)))
    BY StartsAre DEF n, Shifted
  <2>2. m + i \in 1..m + n /\ i - 1 \in 0..n /\ (m + i) - 1 = m + (i - 1)
    BY <1>1
  <2> DEFINE k == i - 1
  <2>3. Len(Through(r, m + k)) = size + Len(Through(q, k)) /\ Len(Through(q, k)) \in Nat
    BY <1>3, <2>2
  <2>4. s = 1 + Len(Through(r, (m + i) - 1))
    BY <1>1, <2>1, <2>2, <2>3
  <2> QED BY <1>1, <2>2, <2>4, StartsAre
<1> QED BY <1>4, <1>5, <1>6 DEF r, size

(* A block of ids forwarded `size` tokens at a time.                       *)

EndOf(ids, size, i) == IF i * size < Len(ids) THEN i * size ELSE Len(ids)
Multiples(n, size) == {i \in 1..n : (i - 1) % size = 0}

LEMMA ChunkCount ==
  ASSUME NEW L \in Nat, NEW size \in Nat \ {0}, NEW i \in Nat
  PROVE  i <= (L + size - 1) \div size <=> (i - 1) * size < L
OBVIOUS

LEMMA Rounding ==
  ASSUME NEW a \in Nat, NEW size \in Nat \ {0}
  PROVE  /\ (a \div size) \in Nat
         /\ (a % size) \in 0..size - 1
         /\ a = (a \div size) * size + (a % size)
         /\ (a * size) % size = 0
OBVIOUS

LEMMA ChunksSpell ==
  ASSUME NEW T, NEW ids \in Seq(T), NEW size \in Nat \ {0}
  PROVE  /\ Chunks(ids, size) \in Paths(T)
         /\ FlattenSeq(Chunks(ids, size)) = ids
         /\ StartsOf(Chunks(ids, size)) = Multiples(Len(ids), size)
<1> DEFINE L == Len(ids)
           n == (L + size - 1) \div size
           e(i) == EndOf(ids, size, i)
           p == Chunks(ids, size)
<1>1. L \in Nat /\ n \in Nat
  <2>1. L \in Nat /\ L + size - 1 \in Nat
    BY LenProperties
  <2> QED BY <2>1, Rounding
<1>2. \A i \in Nat : i <= n <=> (i - 1) * size < L
  BY <1>1, ChunkCount
<1>3. \A i \in Nat : e(i) \in 0..L /\ e(i) = IF i * size < L THEN i * size ELSE L
  BY <1>1 DEF EndOf
<1>4. p = [i \in 1..n |-> SubSeq(ids, (i - 1) * size + 1, e(i))]
  BY DEF Chunks, EndOf
<1> HIDE DEF L, n, e, p
<1>5. ASSUME NEW i \in 1..n
      PROVE  /\ i \in Nat \ {0} /\ i - 1 \in Nat
             /\ e(i - 1) = (i - 1) * size /\ e(i - 1) \in 0..L - 1
             /\ e(i) \in e(i - 1) + 1..L
  <2> DEFINE a == (i - 1) * size
  <2>1. i \in Nat \ {0} /\ i - 1 \in Nat /\ i <= n
    BY <1>1
  <2>2. a < L /\ a \in Nat /\ i * size = a + size /\ i * size \in Nat
    BY <1>2, <2>1
  <2>3. e(i - 1) = IF a < L THEN a ELSE L
    BY <1>3, <2>1
  <2>4. e(i) = IF a + size < L THEN a + size ELSE L
    BY <1>3, <2>1, <2>2
  <2> HIDE DEF a
  <2>5. e(i - 1) = a /\ a \in 0..L - 1 /\ e(i) \in a + 1..L
    BY <1>1, <2>2, <2>3, <2>4
  <2> QED BY <2>1, <2>5 DEF a
<1>6. ASSUME NEW i \in 1..n
      PROVE  /\ p[i] = SubSeq(ids, e(i - 1) + 1, e(i))
             /\ p[i] \in Seq(T) \ {<<>>}
  <2>1. p[i] = SubSeq(ids, e(i - 1) + 1, e(i))
    BY <1>4, <1>5
  <2>2. /\ e(i - 1) + 1 \in 1..L /\ e(i) \in e(i - 1) + 1..L
        /\ \A j \in e(i - 1) + 1..e(i) : ids[j] \in T
    <3>1. e(i - 1) \in 0..L - 1 /\ e(i) \in e(i - 1) + 1..L
      BY <1>5
    <3>2. \A j \in 1..L : ids[j] \in T
      BY ElementOfSeq DEF L
    <3> QED BY <1>1, <3>1, <3>2
  <2>3. /\ SubSeq(ids, e(i - 1) + 1, e(i)) \in Seq(T)
        /\ Len(SubSeq(ids, e(i - 1) + 1, e(i))) = e(i) - (e(i - 1) + 1) + 1
    BY <1>1, <2>2, SubSeqProperties
  <2>4. Len(SubSeq(ids, e(i - 1) + 1, e(i))) # 0
    BY <1>1, <2>2, <2>3
  <2> QED BY <2>1, <2>3, <2>4, EmptySeq
<1>7. p \in Seq(Seq(T) \ {<<>>}) /\ Len(p) = n /\ p \in Seq(Seq(T))
  <2>1. p \in [1..n -> Seq(T) \ {<<>>}]
    BY <1>4, <1>6
  <2>2. p \in Seq(Seq(T) \ {<<>>}) /\ Len(p) = n
    BY <1>1, <2>1
  <2> QED BY <2>2, PathsAreSeqs DEF Paths
<1> DEFINE G == {i \in Nat : i <= n => Through(p, i) = SubSeq(ids, 1, e(i))}
<1>8. 0 \in G
  <2>1. e(0) = 0
    BY <1>1, <1>3
  <2>2. SubSeq(ids, 1, 0) = <<>>
    BY SubSeqEmpty
  <2> QED BY <1>7, <2>1, <2>2, ThroughEnds
<1>9. ASSUME NEW i \in Nat, i \in G
      PROVE  i + 1 \in G
  <2> SUFFICES ASSUME i + 1 <= n
               PROVE  Through(p, i + 1) = SubSeq(ids, 1, e(i + 1))
    OBVIOUS
  <2>1. i + 1 \in 1..n /\ (i + 1) - 1 = i /\ i <= n
    BY <1>1
  <2>2. Through(p, i + 1) = Through(p, i) \o p[i + 1]
    BY <1>7, <2>1, NextChunk
  <2>3. p[i + 1] = SubSeq(ids, e(i) + 1, e(i + 1)) /\ e(i) \in 0..L - 1 /\ e(i + 1) \in e(i) + 1..L
    BY <1>5, <1>6, <2>1
  <2>4. SubSeq(ids, 1, e(i)) \o SubSeq(ids, e(i) + 1, e(i + 1)) = SubSeq(ids, 1, e(i + 1))
    <3>1. 1 \in 1..L + 1 /\ e(i) \in 1 - 1..L /\ e(i + 1) \in e(i)..L
      BY <1>1, <2>3
    <3> QED BY <3>1, ConcatAdjacentSubSeq DEF L
  <2>5. Through(p, i) = SubSeq(ids, 1, e(i))
    BY <1>9, <2>1
  <2> QED BY <2>2, <2>3, <2>4, <2>5
<1> HIDE DEF G
<1>10. \A i \in Nat : i \in G
  BY <1>8, <1>9, NatInduct
<1>11. \A i \in 0..n : Through(p, i) = SubSeq(ids, 1, e(i))
  BY <1>1, <1>10 DEF G
<1>12. FlattenSeq(p) = ids
  <2>1. ~ (n * size < L)
    <3>1. n + 1 \in Nat /\ ~ (n + 1 <= n) /\ (n + 1) - 1 = n
      BY <1>1
    <3> QED BY <1>2, <3>1
  <2>2. e(n) = L
    BY <1>1, <1>3, <2>1
  <2>3. FlattenSeq(p) = SubSeq(ids, 1, L)
    <3>1. n \in 0..n
      BY <1>1
    <3>2. Through(p, n) = FlattenSeq(p)
      BY <1>7, ThroughEnds
    <3>3. Through(p, n) = SubSeq(ids, 1, e(n))
      BY <1>11, <3>1
    <3> QED BY <2>2, <3>2, <3>3
  <2> QED BY <2>3, SubSeqFull DEF L
<1>13. ASSUME NEW i \in 1..n
       PROVE  1 + Len(Through(p, i - 1)) = (i - 1) * size + 1
  <2> DEFINE a == (i - 1) * size
  <2>0. e(i - 1) = a /\ e(i - 1) \in 0..L - 1
    BY <1>5
  <2>1. i - 1 \in 0..n /\ e(i - 1) = a /\ e(i - 1) \in 0..L
    <3> HIDE DEF a
    <3> QED BY <1>1, <2>0
  <2>2. Len(SubSeq(ids, 1, e(i - 1))) = e(i - 1)
    BY <2>1, PrefixOfPath DEF L
  <2> QED BY <1>1, <1>11, <2>1, <2>2
<1>14. StartsOf(p) = {1 + Len(Through(p, i - 1)) : i \in 1..n}
  BY <1>7, StartsAre
<1>15. ASSUME NEW s \in StartsOf(p)
       PROVE  s \in Multiples(L, size)
  <2>1. PICK i \in 1..n : s = (i - 1) * size + 1
    BY <1>13, <1>14
  <2>2. i - 1 \in Nat /\ (i - 1) * size < L /\ (i - 1) * size \in Nat
    BY <1>1, <1>2
  <2>3. ((i - 1) * size) % size = 0
    BY <2>2, Rounding
  <2> QED BY <1>1, <2>1, <2>2, <2>3 DEF Multiples
<1>16. ASSUME NEW s \in Multiples(L, size)
       PROVE  s \in StartsOf(p)
  <2> DEFINE q == (s - 1) \div size
  <2>1. s \in 1..L /\ s - 1 \in Nat /\ (s - 1) % size = 0
    BY <1>1 DEF Multiples
  <2>2. q \in Nat /\ s - 1 = q * size + ((s - 1) % size)
    BY <2>1, Rounding
  <2> HIDE DEF q
  <2>3. s - 1 = q * size
    BY <2>1, <2>2
  <2>4. q + 1 \in Nat /\ (q + 1) - 1 = q /\ q * size < L
    BY <1>1, <2>1, <2>2, <2>3
  <2>5. q + 1 \in 1..n
    BY <1>1, <1>2, <2>2, <2>4
  <2>6. s = ((q + 1) - 1) * size + 1
    BY <2>1, <2>3, <2>4
  <2> QED BY <1>13, <1>14, <2>5, <2>6
<1> QED BY <1>7, <1>12, <1>15, <1>16 DEF Paths, L, p

-----------------------------------------------------------------------------
(* Where the segments of a rendering start.                                *)

Tokens == Words \cup {"bos", "start", "system", "end", "nl", "assistant", "user", "tool", "gap"}

SegmentAt(ids, i, s) ==
  /\ s \in 1..i
  /\ s = 1 \/ TurnStart(ids, s)
  /\ \A j \in s + 1..i : ~ TurnStart(ids, j)

LEMMA SegmentStartIs ==
  ASSUME NEW ids, NEW i \in Nat, NEW s, SegmentAt(ids, i, s)
  PROVE  SegmentStart(ids, i) = s
<1> DEFINE P(u) == (u = 1 \/ TurnStart(ids, u)) /\ \A j \in u + 1..i : ~ TurnStart(ids, j)
<1>1. s \in 1..i /\ P(s)
  BY DEF SegmentAt
<1>2. ASSUME NEW u \in 1..i, P(u), u # s
      PROVE  FALSE
  <2>1. CASE u < s
    <3>1. s \in u + 1..i /\ s # 1
      BY <1>1, <2>1
    <3> QED BY <1>1, <1>2, <3>1
  <2>2. CASE s < u
    <3>1. u \in s + 1..i /\ u # 1
      BY <1>1, <2>2
    <3> QED BY <1>1, <1>2, <3>1
  <2> QED BY <1>1, <1>2, <2>1, <2>2
<1>3. SegmentStart(ids, i) = CHOOSE u \in 1..i : P(u)
  BY DEF SegmentStart
<1> HIDE DEF P
<1> QED BY <1>1, <1>2, <1>3

LEMMA SegmentStartAt ==
  ASSUME NEW ids, NEW i \in Nat \ {0}
  PROVE  SegmentAt(ids, i, SegmentStart(ids, i))
<1> DEFINE back == {n \in 0..i - 1 : i - n = 1 \/ TurnStart(ids, i - n)}
<1>1. back \in SUBSET Nat /\ i - 1 \in back
  OBVIOUS
<1>2. PICK n \in back : \A m \in back : n <= m
  BY <1>1, LeastNat
<1>3. i - n \in 1..i /\ (i - n = 1 \/ TurnStart(ids, i - n))
  BY <1>2
<1>4. ASSUME NEW j \in (i - n) + 1..i, TurnStart(ids, j)
      PROVE  FALSE
  <2>1. i - j \in 0..i - 1 /\ i - (i - j) = j /\ i - j < n
    BY <1>3
  <2>2. i - j \in back
    BY <1>4, <2>1
  <2> QED BY <1>2, <2>1, <2>2
<1>5. SegmentAt(ids, i, i - n)
  BY <1>3, <1>4 DEF SegmentAt
<1> QED BY <1>5, SegmentStartIs

\* What is held ends with a turn's end, or is the `bos` alone.
Shape(ids) ==
  /\ ids \in Seq(Tokens)
  /\ \/ Len(ids) = 1
     \/ Len(ids) >= 3 /\ ids[Len(ids) - 1] = "end" /\ ids[Len(ids)] = "nl"

\* A segment after the head: one turn, whose end is its last token but one.
Turn(seg) ==
  /\ seg \in Seq(Tokens)
  /\ Len(seg) >= 4
  /\ seg[1] = "start" /\ seg[2] \notin {"start", "system"}
  /\ \A j \in 1..Len(seg) : seg[j] = "end" <=> j = Len(seg) - 1
  /\ seg[Len(seg)] = "nl"

SegmentStarts(kind, seg) ==
  {j \in 1..Len(seg) : (kind # "context" /\ j >= 3 /\ seg[2] = "assistant") \/ (j - 1) % CHUNK = 0}

LEMMA Appended ==
  ASSUME NEW ids, NEW seg, Shape(ids), Turn(seg)
  PROVE  /\ ids \o seg \in Seq(Tokens)
         /\ Len(ids) \in Nat \ {0} /\ Len(seg) \in Nat
         /\ Len(ids \o seg) = Len(ids) + Len(seg)
         /\ \A i \in 1..Len(ids) : (ids \o seg)[i] = ids[i]
         /\ \A j \in 1..Len(seg) : (ids \o seg)[Len(ids) + j] = seg[j]
<1>1. ids \in Seq(Tokens) /\ seg \in Seq(Tokens) /\ Len(ids) \in Nat \ {0} /\ Len(seg) \in Nat
  <2>1. ids \in Seq(Tokens) /\ seg \in Seq(Tokens)
    BY DEF Shape, Turn
  <2>2. Len(ids) \in Nat /\ Len(seg) \in Nat
    BY <2>1, LenProperties
  <2>3. Len(ids) # 0
    BY DEF Shape
  <2> QED BY <2>1, <2>2, <2>3
<1>2. /\ ids \o seg \in Seq(Tokens) /\ Len(ids \o seg) = Len(ids) + Len(seg)
      /\ \A i \in 1..Len(ids) + Len(seg) :
           (ids \o seg)[i] = IF i <= Len(ids) THEN ids[i] ELSE seg[i - Len(ids)]
  BY <1>1, ConcatProperties
<1>3. ASSUME NEW j \in 1..Len(seg)
      PROVE  (ids \o seg)[Len(ids) + j] = seg[j]
  <2>1. Len(ids) + j \in 1..Len(ids) + Len(seg) /\ ~ (Len(ids) + j <= Len(ids)) /\ (Len(ids) + j) - Len(ids) = j
    BY <1>1
  <2> QED BY <1>2, <2>1
<1>4. ASSUME NEW i \in 1..Len(ids)
      PROVE  (ids \o seg)[i] = ids[i]
  BY <1>1, <1>2
<1> QED BY <1>1, <1>2, <1>3, <1>4

LEMMA TurnStarts ==
  ASSUME NEW ids, NEW seg, Shape(ids), Turn(seg)
  PROVE  /\ Shape(ids \o seg)
         /\ \A i \in 1..Len(ids) : TurnStart(ids \o seg, i) <=> TurnStart(ids, i)
         /\ TurnStart(ids \o seg, Len(ids) + 1)
         /\ \A i \in Len(ids) + 2..Len(ids) + Len(seg) : ~ TurnStart(ids \o seg, i)
<1> DEFINE r == ids \o seg
           n == Len(ids)
           m == Len(seg)
<1>1. /\ r \in Seq(Tokens) /\ n \in Nat \ {0} /\ m \in Nat /\ Len(r) = n + m
      /\ \A i \in 1..n : r[i] = ids[i]
      /\ \A j \in 1..m : r[n + j] = seg[j]
  BY Appended
<1> HIDE DEF r
<1>2. /\ m >= 4 /\ seg[1] = "start" /\ seg[2] # "start" /\ seg[2] # "system"
      /\ \A j \in 1..m : seg[j] = "end" => j = m - 1
      /\ seg[m - 1] = "end" /\ seg[m] = "nl"
  BY <1>1 DEF Turn
<1>3. n = 1 \/ (n >= 3 /\ ids[n - 1] = "end" /\ ids[n] = "nl")
  BY DEF Shape
<1> HIDE DEF n, m
<1>4. Shape(r)
  <2>1. r[n + (m - 1)] = "end" /\ r[n + m] = "nl"
    BY <1>1, <1>2
  <2>2. n + (m - 1) = Len(r) - 1 /\ n + m = Len(r) /\ Len(r) >= 3
    BY <1>1, <1>2
  <2> QED BY <1>1, <2>1, <2>2 DEF Shape
<1>5. ASSUME NEW i \in 1..n
      PROVE  TurnStart(r, i) <=> TurnStart(ids, i)
  <2>1. r[i] = ids[i]
    BY <1>1
  <2>2. i = 2 => r[3] = ids[3]
    BY <1>1, <1>3
  <2>3. i > 3 => r[i - 2] = ids[i - 2] /\ r[i - 1] = ids[i - 1]
    BY <1>1
  <2> QED BY <2>1, <2>2, <2>3 DEF TurnStart
<1>6. TurnStart(r, n + 1)
  <2>1. r[n + 1] = "start" /\ r[n + 2] # "system"
    BY <1>1, <1>2
  <2>2. CASE n = 1
    BY <2>1, <2>2 DEF TurnStart
  <2>3. CASE n >= 3 /\ ids[n - 1] = "end" /\ ids[n] = "nl"
    <3>1. n + 1 > 3 /\ (n + 1) - 2 = n - 1 /\ (n + 1) - 1 = n
      BY <1>1, <2>3
    <3>2. r[n - 1] = "end" /\ r[n] = "nl"
      BY <1>1, <2>3
    <3> QED BY <2>1, <3>1, <3>2 DEF TurnStart
  <2> QED BY <1>3, <2>2, <2>3
<1>7. ASSUME NEW i \in n + 2..n + m, TurnStart(r, i)
      PROVE  FALSE
  <2> DEFINE j == i - n
  <2>1. j \in 2..m /\ i = n + j /\ r[i] = "start" /\ i # 2
    BY <1>1, <1>7 DEF TurnStart
  <2>2. i > 3 /\ r[i - 2] = "end" /\ r[i - 1] = "nl"
    BY <1>7, <2>1 DEF TurnStart
  <2> HIDE DEF j
  <2>3. j # 2
    BY <1>1, <1>2, <2>1
  <2>4. j - 2 \in 1..m /\ i - 2 = n + (j - 2)
    BY <1>1, <2>1, <2>3
  <2>5. seg[j - 2] = "end"
    BY <1>1, <2>2, <2>4
  <2> QED BY <1>1, <1>2, <2>1, <2>4, <2>5
<1> QED BY <1>4, <1>5, <1>6, <1>7 DEF r, n, m

LEMMA SameSegments ==
  ASSUME NEW ids, NEW seg, Shape(ids), Turn(seg)
  PROVE  /\ \A i \in 1..Len(ids) : SegmentStart(ids \o seg, i) = SegmentStart(ids, i)
         /\ \A i \in 1..Len(ids) : SegmentStart(ids, i) \in 1..i
         /\ \A i \in Len(ids) + 1..Len(ids) + Len(seg) : SegmentStart(ids \o seg, i) = Len(ids) + 1
<1> DEFINE r == ids \o seg
           n == Len(ids)
           m == Len(seg)
<1>1. n \in Nat \ {0} /\ m \in Nat
  BY Appended
<1>2. /\ \A i \in 1..n : TurnStart(r, i) <=> TurnStart(ids, i)
      /\ TurnStart(r, n + 1)
      /\ \A i \in n + 2..n + m : ~ TurnStart(r, i)
  BY TurnStarts
<1> HIDE DEF r, n, m
<1>3. ASSUME NEW i \in 1..n
      PROVE  SegmentStart(r, i) = SegmentStart(ids, i) /\ SegmentStart(ids, i) \in 1..i
  <2> DEFINE s == SegmentStart(ids, i)
  <2>1. SegmentAt(ids, i, s)
    BY <1>1, SegmentStartAt
  <2> HIDE DEF s
  <2>2. s \in 1..i /\ s \in 1..n /\ \A j \in s + 1..i : j \in 1..n
    BY <1>1, <2>1 DEF SegmentAt
  <2>3. SegmentAt(r, i, s)
    BY <1>2, <2>1, <2>2 DEF SegmentAt
  <2>4. SegmentStart(r, i) = s
    BY <1>1, <2>3, SegmentStartIs
  <2> QED BY <2>2, <2>4 DEF s
<1>4. ASSUME NEW i \in n + 1..n + m
      PROVE  SegmentStart(r, i) = n + 1
  <2>1. i \in Nat /\ n + 1 \in 1..i /\ \A j \in (n + 1) + 1..i : j \in n + 2..n + m
    BY <1>1
  <2>2. SegmentAt(r, i, n + 1)
    BY <1>2, <2>1 DEF SegmentAt
  <2> QED BY <2>1, <2>2, SegmentStartIs
<1> QED BY <1>3, <1>4 DEF r, n, m

LEMMA StartsAppended ==
  ASSUME NEW kind, NEW ids, NEW seg, Shape(ids), Turn(seg)
  PROVE  ChunkStarts(kind, ids \o seg) =
           ChunkStarts(kind, ids) \cup Shifted(SegmentStarts(kind, seg), Len(ids))
<1> DEFINE r == ids \o seg
           n == Len(ids)
           m == Len(seg)
<1>1. /\ n \in Nat \ {0} /\ m \in Nat /\ Len(r) = n + m
      /\ \A i \in 1..n : r[i] = ids[i]
      /\ \A j \in 1..m : r[n + j] = seg[j]
  BY Appended
<1>2. /\ \A i \in 1..n : SegmentStart(r, i) = SegmentStart(ids, i)
      /\ \A i \in 1..n : SegmentStart(ids, i) \in 1..i
      /\ \A i \in n + 1..n + m : SegmentStart(r, i) = n + 1
  BY SameSegments
<1>3. m >= 4
  BY DEF Turn
<1>4. Len(Opening) = 2
  BY DEF Opening
<1> HIDE DEF r, n, m
<1>5. ASSUME NEW i \in 1..n
      PROVE  i \in ChunkStarts(kind, r) <=> i \in ChunkStarts(kind, ids)
  <2> DEFINE s == SegmentStart(ids, i)
  <2>1. s \in 1..i /\ SegmentStart(r, i) = s /\ i \in 1..n + m
    BY <1>1, <1>2
  <2> HIDE DEF s
  <2>2. Alone(kind, r, i) <=> kind # "context" /\ i >= s + 2 /\ s < n + m /\ r[s + 1] = "assistant"
    BY <1>1, <1>4, <2>1 DEF Alone
  <2>3. Alone(kind, ids, i) <=> kind # "context" /\ i >= s + 2 /\ s < n /\ ids[s + 1] = "assistant"
    BY <1>4 DEF Alone, s, n
  <2>4. i >= s + 2 => s < n /\ s < n + m /\ r[s + 1] = ids[s + 1]
    BY <1>1, <2>1
  <2>5. Alone(kind, r, i) <=> Alone(kind, ids, i)
    BY <2>2, <2>3, <2>4
  <2>6. i \in ChunkStarts(kind, r) <=> Alone(kind, r, i) \/ (i - s) % CHUNK = 0
    BY <1>1, <2>1 DEF ChunkStarts
  <2>7. i \in ChunkStarts(kind, ids) <=> Alone(kind, ids, i) \/ (i - s) % CHUNK = 0
    BY DEF ChunkStarts, s, n
  <2> QED BY <2>5, <2>6, <2>7
<1>6. ASSUME NEW j \in 1..m
      PROVE  n + j \in ChunkStarts(kind, r) <=> j \in SegmentStarts(kind, seg)
  <2> DEFINE i == n + j
  <2>1. /\ i \in n + 1..n + m /\ i \in 1..n + m /\ i - (n + 1) = j - 1 /\ n + 1 < n + m
        /\ i >= (n + 1) + 2 <=> j >= 3
        /\ (n + 1) + 1 = n + 2 /\ 2 \in 1..m
    BY <1>1, <1>3
  <2>2. SegmentStart(r, i) = n + 1 /\ r[n + 2] = seg[2]
    BY <1>1, <1>2, <2>1
  <2> HIDE DEF i
  <2>3. Alone(kind, r, i) <=> kind # "context" /\ j >= 3 /\ seg[2] = "assistant"
    BY <1>1, <1>4, <2>1, <2>2 DEF Alone
  <2>4. i \in ChunkStarts(kind, r) <=> Alone(kind, r, i) \/ (j - 1) % CHUNK = 0
    BY <1>1, <2>1, <2>2 DEF ChunkStarts
  <2>5. j \in SegmentStarts(kind, seg) <=>
          ((kind # "context" /\ j >= 3 /\ seg[2] = "assistant") \/ (j - 1) % CHUNK = 0)
    BY DEF SegmentStarts, m
  <2> QED BY <2>3, <2>4, <2>5 DEF i
<1>7. ASSUME NEW i
      PROVE  i \in ChunkStarts(kind, r) <=>
               i \in ChunkStarts(kind, ids) \/ i \in Shifted(SegmentStarts(kind, seg), n)
  <2>1. ChunkStarts(kind, r) \subseteq 1..n + m
    BY <1>1 DEF ChunkStarts
  <2>2. ChunkStarts(kind, ids) \subseteq 1..n
    BY DEF ChunkStarts, n
  <2>3. SegmentStarts(kind, seg) \subseteq 1..m
    BY DEF SegmentStarts, m
  <2>4. CASE i \in 1..n
    <3>1. i \notin Shifted(SegmentStarts(kind, seg), n)
      BY <1>1, <2>3, <2>4 DEF Shifted
    <3> QED BY <1>5, <2>4, <3>1
  <2>5. CASE i \in n + 1..n + m
    <3>1. PICK j \in 1..m : i = n + j
      <4>1. i - n \in 1..m /\ i = n + (i - n)
        BY <1>1, <2>5
      <4> QED BY <4>1
    <3>2. i \in Shifted(SegmentStarts(kind, seg), n) <=> j \in SegmentStarts(kind, seg)
      BY <1>1, <2>3, <3>1 DEF Shifted
    <3>3. i \notin ChunkStarts(kind, ids)
      BY <1>1, <2>2, <2>5
    <3> QED BY <1>6, <3>1, <3>2, <3>3
  <2>6. CASE i \notin 1..n + m
    <3>1. i \notin Shifted(SegmentStarts(kind, seg), n)
      BY <1>1, <2>3, <2>6 DEF Shifted
    <3>2. i \notin ChunkStarts(kind, ids)
      BY <1>1, <2>2, <2>6
    <3> QED BY <2>1, <2>6, <3>1, <3>2
  <2> QED BY <1>1, <2>4, <2>5, <2>6
<1> QED BY <1>7 DEF r, n

-----------------------------------------------------------------------------
(* Forwarding segments after a path that is the computation of its ids.    *)

Canonical(kind, ids, path) ==
  /\ path \in Paths(Tokens)
  /\ FlattenSeq(path) = ids
  /\ StartsOf(path) = ChunkStarts(kind, ids)

LEMMA PathConcat ==
  ASSUME NEW T, NEW p \in Paths(T), NEW q \in Paths(T)
  PROVE  p \o q \in Paths(T)
BY ConcatProperties DEF Paths

LEMMA CanonicalAppended ==
  ASSUME NEW kind, NEW ids, NEW seg, NEW p, NEW q, Shape(ids), Turn(seg),
         Canonical(kind, ids, p),
         q \in Paths(Tokens), FlattenSeq(q) = seg, StartsOf(q) = SegmentStarts(kind, seg)
  PROVE  Canonical(kind, ids \o seg, p \o q)
<1>1. p \in Seq(Seq(Tokens)) /\ q \in Seq(Seq(Tokens)) /\ p \o q \in Paths(Tokens)
  BY PathsAreSeqs, PathConcat DEF Canonical
<1>2. FlattenSeq(p \o q) = ids \o seg
  BY <1>1, FlatConcat DEF Canonical
<1>3. StartsOf(p \o q) = StartsOf(p) \cup Shifted(StartsOf(q), Len(FlattenSeq(p)))
  BY <1>1, StartsConcat
<1>4. StartsOf(p \o q) = ChunkStarts(kind, ids \o seg)
  BY <1>3, StartsAppended DEF Canonical
<1> QED BY <1>1, <1>2, <1>4 DEF Canonical

\* The turns of a kind of checkpoint: a chat's client writes no assistant's.
TurnsOf(kind) == {seg \in Seq(Tokens) : Turn(seg) /\ (kind = "context" \/ seg[2] # "assistant")}

LEMMA CHUNKType == CHUNK \in Nat \ {0}
BY SchedulesAssumption

LEMMA CanonicalTurn ==
  ASSUME NEW kind, NEW ids, NEW p, Shape(ids), Canonical(kind, ids, p), NEW seg \in TurnsOf(kind)
  PROVE  /\ Shape(ids \o seg)
         /\ Canonical(kind, ids \o seg, p \o Chunks(seg, CHUNK))
<1>1. seg \in Seq(Tokens) /\ Turn(seg) /\ (kind = "context" \/ seg[2] # "assistant")
  BY DEF TurnsOf
<1>2. /\ Chunks(seg, CHUNK) \in Paths(Tokens)
      /\ FlattenSeq(Chunks(seg, CHUNK)) = seg
      /\ StartsOf(Chunks(seg, CHUNK)) = Multiples(Len(seg), CHUNK)
  BY <1>1, CHUNKType, ChunksSpell
<1>3. Multiples(Len(seg), CHUNK) = SegmentStarts(kind, seg)
  BY <1>1 DEF Multiples, SegmentStarts
<1> QED BY <1>1, <1>2, <1>3, TurnStarts, CanonicalAppended

ChunksOf(segments) == [i \in 1..Len(segments) |-> Chunks(segments[i], CHUNK)]

LEMMA ChunksOfTyped ==
  ASSUME NEW T, NEW segments \in Seq(Seq(T))
  PROVE  /\ ChunksOf(segments) \in Seq(Paths(T))
         /\ Len(ChunksOf(segments)) = Len(segments)
         /\ ForwardSegments(segments) = FlattenSeq(ChunksOf(segments))
         /\ ForwardSegments(segments) \in Paths(T)
<1>1. Len(segments) \in Nat /\ \A i \in 1..Len(segments) : segments[i] \in Seq(T)
  BY LenProperties, ElementOfSeq
<1>2. \A i \in 1..Len(segments) : Chunks(segments[i], CHUNK) \in Paths(T)
  BY <1>1, CHUNKType, ChunksSpell
<1>3. ChunksOf(segments) \in [1..Len(segments) -> Paths(T)]
  BY <1>2 DEF ChunksOf
<1>4. ChunksOf(segments) \in Seq(Paths(T)) /\ Len(ChunksOf(segments)) = Len(segments)
  BY <1>1, <1>3
<1>5. ForwardSegments(segments) = FlattenSeq(ChunksOf(segments))
  BY DEF ForwardSegments, ChunksOf
<1>6. FlattenSeq(ChunksOf(segments)) \in Seq(Seq(T) \ {<<>>})
  BY <1>4, FlatTyped DEF Paths
<1> QED BY <1>4, <1>5, <1>6 DEF Paths

LEMMA ForwardOne ==
  ASSUME NEW T, NEW seg \in Seq(T)
  PROVE  ForwardSegments(<<seg>>) = Chunks(seg, CHUNK)
<1>1. Len(<<seg>>) = 1 /\ <<seg>>[1] = seg
  OBVIOUS
<1>2. ChunksOf(<<seg>>) = <<Chunks(seg, CHUNK)>>
  BY <1>1 DEF ChunksOf
<1>3. Chunks(seg, CHUNK) \in Seq(Seq(T) \ {<<>>})
  BY CHUNKType, ChunksSpell DEF Paths
<1>4. FlattenSeq(<<Chunks(seg, CHUNK)>>) = Chunks(seg, CHUNK)
  BY <1>3, FlatOne
<1> QED BY <1>2, <1>4 DEF ForwardSegments, ChunksOf

LEMMA ForwardConcat ==
  ASSUME NEW T, NEW a \in Seq(Seq(T)), NEW b \in Seq(Seq(T))
  PROVE  ForwardSegments(a \o b) = ForwardSegments(a) \o ForwardSegments(b)
<1>1. /\ a \o b \in Seq(Seq(T)) /\ Len(a \o b) = Len(a) + Len(b)
      /\ Len(a) \in Nat /\ Len(b) \in Nat
      /\ \A i \in 1..Len(a) + Len(b) : (a \o b)[i] = IF i <= Len(a) THEN a[i] ELSE b[i - Len(a)]
  BY ConcatProperties, LenProperties
<1>2. /\ ChunksOf(a) \in Seq(Paths(T)) /\ Len(ChunksOf(a)) = Len(a)
      /\ ChunksOf(b) \in Seq(Paths(T)) /\ Len(ChunksOf(b)) = Len(b)
      /\ ChunksOf(a \o b) \in Seq(Paths(T)) /\ Len(ChunksOf(a \o b)) = Len(a) + Len(b)
  BY <1>1, ChunksOfTyped
<1>3. /\ ChunksOf(a) \o ChunksOf(b) \in Seq(Paths(T))
      /\ Len(ChunksOf(a) \o ChunksOf(b)) = Len(a) + Len(b)
      /\ \A i \in 1..Len(a) + Len(b) : (ChunksOf(a) \o ChunksOf(b))[i] =
            IF i <= Len(a) THEN ChunksOf(a)[i] ELSE ChunksOf(b)[i - Len(a)]
  BY <1>2, ConcatProperties
<1>4. ASSUME NEW i \in 1..Len(a) + Len(b)
      PROVE  ChunksOf(a \o b)[i] = (ChunksOf(a) \o ChunksOf(b))[i]
  <2>1. ChunksOf(a \o b)[i] = Chunks((a \o b)[i], CHUNK)
    BY <1>1 DEF ChunksOf
  <2>2. CASE i <= Len(a)
    <3>1. i \in 1..Len(a)
      BY <1>1, <2>2
    <3>2. ChunksOf(a)[i] = Chunks(a[i], CHUNK)
      BY <3>1 DEF ChunksOf
    <3> QED BY <1>1, <1>3, <2>1, <2>2, <3>2
  <2>3. CASE i > Len(a)
    <3>1. i - Len(a) \in 1..Len(b) /\ ~ (i <= Len(a))
      BY <1>1, <2>3
    <3>2. ChunksOf(b)[i - Len(a)] = Chunks(b[i - Len(a)], CHUNK)
      BY <3>1 DEF ChunksOf
    <3>3. (a \o b)[i] = b[i - Len(a)]
      BY <1>1, <3>1
    <3>4. (ChunksOf(a) \o ChunksOf(b))[i] = ChunksOf(b)[i - Len(a)]
      BY <1>3, <3>1
    <3> QED BY <2>1, <3>2, <3>3, <3>4
  <2>4. i <= Len(a) \/ i > Len(a)
    BY <1>1
  <2> QED BY <2>2, <2>3, <2>4
<1>5. ChunksOf(a \o b) = ChunksOf(a) \o ChunksOf(b)
  BY <1>2, <1>3, <1>4, SeqEqual
<1>6. FlattenSeq(ChunksOf(a) \o ChunksOf(b)) = FlattenSeq(ChunksOf(a)) \o FlattenSeq(ChunksOf(b))
  BY <1>2, FlatConcat DEF Paths
<1> QED BY <1>5, <1>6 DEF ForwardSegments, ChunksOf

LEMMA CanonicalTurns ==
  ASSUME NEW kind, NEW ids, NEW p, Shape(ids), Canonical(kind, ids, p),
         NEW segments \in Seq(TurnsOf(kind))
  PROVE  /\ Shape(ids \o FlattenSeq(segments))
         /\ Canonical(kind, ids \o FlattenSeq(segments), p \o ForwardSegments(segments))
<1> DEFINE Forwarded(s) == /\ Shape(ids \o FlattenSeq(s))
                       /\ Canonical(kind, ids \o FlattenSeq(s), p \o ForwardSegments(s))
           G == {s \in Seq(TurnsOf(kind)) : Forwarded(s)}
<1>0. ids \in Seq(Tokens) /\ p \in Paths(Tokens) /\ TurnsOf(kind) \subseteq Seq(Tokens)
  BY DEF Shape, Canonical, TurnsOf
<1>1. <<>> \in G
  <2>1. Len(<<>>) = 0 /\ <<>> \in Seq(TurnsOf(kind)) /\ <<>> \in Seq(Paths(Tokens))
    BY EmptySeq
  <2>2. ChunksOf(<<>>) = <<>>
    BY <2>1 DEF ChunksOf
  <2>3. ForwardSegments(<<>>) = <<>>
    BY <2>2, FlatEmpty DEF ForwardSegments, ChunksOf
  <2>4. ids \o <<>> = ids /\ p \o <<>> = p
    BY <1>0, ConcatEmptySeq DEF Paths
  <2> QED BY <2>1, <2>3, <2>4, FlatEmpty
<1>2. ASSUME NEW s \in Seq(TurnsOf(kind)), NEW seg \in TurnsOf(kind), s \in G
      PROVE  Append(s, seg) \in G
  <2>1. s \in Seq(Seq(Tokens)) /\ seg \in Seq(Tokens) /\ Append(s, seg) \in Seq(TurnsOf(kind))
    BY <1>0, SeqMonotonic, AppendProperties
  <2>2. FlattenSeq(Append(s, seg)) = FlattenSeq(s) \o seg /\ FlattenSeq(s) \in Seq(Tokens)
    BY <2>1, FlatAppend
  <2>3. ids \o FlattenSeq(Append(s, seg)) = (ids \o FlattenSeq(s)) \o seg
    <3>1. Associated(ids, FlattenSeq(s), seg)
      BY <1>0, <2>1, <2>2, Associative
    <3> QED BY <2>2, <3>1 DEF Associated
  <2>4. ForwardSegments(Append(s, seg)) = ForwardSegments(s) \o Chunks(seg, CHUNK)
    <3>1. Append(s, seg) = s \o <<seg>> /\ <<seg>> \in Seq(Seq(Tokens))
      BY <2>1, AppendIsConcat
    <3>2. ForwardSegments(s \o <<seg>>) = ForwardSegments(s) \o ForwardSegments(<<seg>>)
      BY <2>1, <3>1, ForwardConcat
    <3> QED BY <2>1, <3>1, <3>2, ForwardOne
  <2>5. p \o ForwardSegments(Append(s, seg)) = (p \o ForwardSegments(s)) \o Chunks(seg, CHUNK)
    <3>1. ForwardSegments(s) \in Paths(Tokens) /\ Chunks(seg, CHUNK) \in Paths(Tokens)
      BY <2>1, ChunksOfTyped, CHUNKType, ChunksSpell
    <3>2. (p \o ForwardSegments(s)) \o Chunks(seg, CHUNK) = p \o (ForwardSegments(s) \o Chunks(seg, CHUNK))
      <4>1. Associated(p, ForwardSegments(s), Chunks(seg, CHUNK))
        BY <1>0, <3>1, Associative DEF Paths
      <4> QED BY <4>1, Zenon DEF Associated
    <3> QED BY <2>4, <3>2
  <2>6. Forwarded(s)
    BY <1>2
  <2>7. /\ Shape((ids \o FlattenSeq(s)) \o seg)
        /\ Canonical(kind, (ids \o FlattenSeq(s)) \o seg, (p \o ForwardSegments(s)) \o Chunks(seg, CHUNK))
    BY <2>6, CanonicalTurn
  <2> QED BY <2>1, <2>3, <2>5, <2>7
<1> HIDE DEF G
<1>3. segments \in G
  BY <1>1, <1>2, SeqInduct
<1> QED BY <1>3 DEF G

-----------------------------------------------------------------------------
(* What is rendered and generated: heads, turns and replies.               *)

IsWrapped(w, a, b, c) ==
  /\ Len(w) = Len(a) + Len(b) + Len(c)
  /\ \A i \in 1..Len(a) : w[i] = a[i]
  /\ \A i \in 1..Len(b) : w[Len(a) + i] = b[i]
  /\ \A i \in 1..Len(c) : w[Len(a) + Len(b) + i] = c[i]

LEMMA Wrapped ==
  ASSUME NEW T, NEW a \in Seq(T), NEW b \in Seq(T), NEW c \in Seq(T)
  PROVE  a \o b \o c \in Seq(T) /\ IsWrapped(a \o b \o c, a, b, c)
<1> DEFINE l == Len(a)
           m == Len(b)
           n == Len(c)
           d == a \o b
           w == d \o c
<1>1. /\ d \in Seq(T) /\ Len(d) = l + m /\ l \in Nat /\ m \in Nat /\ n \in Nat
      /\ \A i \in 1..l + m : d[i] = IF i <= l THEN a[i] ELSE b[i - l]
  BY ConcatProperties, LenProperties
<1> HIDE DEF d
<1>2. /\ w \in Seq(T) /\ Len(w) = Len(d) + Len(c)
      /\ \A i \in 1..Len(d) + Len(c) : w[i] = IF i <= Len(d) THEN d[i] ELSE c[i - Len(d)]
  <2>1. d \in Seq(T)
    BY <1>1
  <2> QED BY <2>1, ConcatProperties
<1> HIDE DEF w, l, m, n
<1>3. /\ w \in Seq(T) /\ Len(w) = l + m + n
      /\ \A i \in 1..l + m + n : w[i] = IF i <= l + m THEN d[i] ELSE c[i - (l + m)]
  BY <1>1, <1>2 DEF n
<1>4. ASSUME NEW i \in 1..l
      PROVE  w[i] = a[i]
  <2>1. i \in 1..l + m /\ i \in 1..l + m + n /\ i <= l + m /\ i <= l
    BY <1>1
  <2> QED BY <1>1, <1>3, <2>1
<1>5. ASSUME NEW i \in 1..m
      PROVE  w[l + i] = b[i]
  <2>1. l + i \in 1..l + m /\ l + i \in 1..l + m + n /\ l + i <= l + m /\ ~ (l + i <= l) /\ (l + i) - l = i
    BY <1>1
  <2> QED BY <1>1, <1>3, <2>1
<1>6. ASSUME NEW i \in 1..n
      PROVE  w[l + m + i] = c[i]
  <2>1. l + m + i \in 1..l + m + n /\ ~ (l + m + i <= l + m) /\ (l + m + i) - (l + m) = i
    BY <1>1
  <2> QED BY <1>3, <2>1
<1> QED BY <1>3, <1>4, <1>5, <1>6 DEF IsWrapped, w, d, l, m, n

LEMMA WordsAreTokens ==
  /\ Words \subseteq Tokens
  /\ \A s \in Seq(Words) : s \in Seq(Tokens)
  /\ "end" \notin Words
<1>1. Words \subseteq Tokens
  BY DEF Tokens
<1> QED BY <1>1, SeqMonotonic, WordsAssumption

LEMMA OneSegment ==
  ASSUME NEW kind, NEW ids, Shape(ids),
         \A i \in 1..Len(ids) : ~ TurnStart(ids, i),
         Len(ids) = 1 \/ ids[2] # "assistant"
  PROVE  Canonical(kind, ids, Chunks(ids, CHUNK))
<1>1. ids \in Seq(Tokens) /\ Len(ids) \in Nat
  BY LenProperties DEF Shape
<1>2. /\ Chunks(ids, CHUNK) \in Paths(Tokens)
      /\ FlattenSeq(Chunks(ids, CHUNK)) = ids
      /\ StartsOf(Chunks(ids, CHUNK)) = Multiples(Len(ids), CHUNK)
  BY <1>1, CHUNKType, ChunksSpell
<1>3. Len(Opening) = 2
  BY DEF Opening
<1>4. ASSUME NEW i \in 1..Len(ids)
      PROVE  i \in ChunkStarts(kind, ids) <=> (i - 1) % CHUNK = 0
  <2>1. SegmentAt(ids, i, 1)
    <3>1. i \in Nat /\ 1 \in 1..i /\ \A j \in 1 + 1..i : j \in 1..Len(ids)
      BY <1>1
    <3> QED BY <3>1 DEF SegmentAt
  <2>2. SegmentStart(ids, i) = 1
    BY <1>1, <2>1, SegmentStartIs
  <2>3. ~ Alone(kind, ids, i)
    BY <1>1, <1>3, <2>2 DEF Alone
  <2> QED BY <2>2, <2>3 DEF ChunkStarts
<1>5. ChunkStarts(kind, ids) = Multiples(Len(ids), CHUNK)
  BY <1>4 DEF ChunkStarts, Multiples
<1> QED BY <1>2, <1>5 DEF Canonical

LEMMA HeadForwarded ==
  ASSUME NEW kind, NEW system \in Seq(Words)
  PROVE  /\ RenderHead(system) \in Seq(Tokens)
         /\ Shape(RenderHead(system))
         /\ Canonical(kind, RenderHead(system), Chunks(RenderHead(system), CHUNK))
         /\ system # <<>> => Len(RenderHead(system)) >= 3
<1> DEFINE h == RenderHead(system)
<1>1. CASE system = <<>>
  <2>1. h = <<"bos">>
    BY <1>1 DEF RenderHead
  <2>2. h \in Seq(Tokens) /\ Len(h) = 1 /\ h[1] = "bos"
    BY <2>1 DEF Tokens
  <2> HIDE DEF h
  <2>3. Shape(h)
    BY <2>2 DEF Shape
  <2>4. \A i \in 1..Len(h) : ~ TurnStart(h, i)
    BY <2>2 DEF TurnStart
  <2>5. Canonical(kind, h, Chunks(h, CHUNK))
    BY <2>2, <2>3, <2>4, OneSegment
  <2> QED BY <1>1, <2>2, <2>3, <2>5 DEF h
<1>2. CASE system # <<>>
  <2> DEFINE a == <<"bos", "start", "system">>
             c == <<"end", "nl">>
             n == Len(system)
  <2>1. /\ a \in Seq(Tokens) /\ Len(a) = 3 /\ a[2] = "start" /\ a[3] = "system" /\ a[1] = "bos"
        /\ c \in Seq(Tokens) /\ Len(c) = 2 /\ c[1] = "end" /\ c[2] = "nl"
    BY DEF Tokens
  <2>2. h = a \o system \o c
    BY <1>2 DEF RenderHead
  <2>3. system \in Seq(Tokens) /\ n \in Nat /\ \A i \in 1..n : system[i] # "end"
    BY WordsAreTokens, LenProperties, ElementOfSeq
  <2> HIDE DEF a, c, n, h
  <2>4. /\ h \in Seq(Tokens) /\ Len(h) = n + 5
        /\ h[1] = "bos" /\ h[2] = "start" /\ h[3] = "system"
        /\ \A i \in 1..n : h[3 + i] = system[i]
        /\ h[n + 4] = "end" /\ h[n + 5] = "nl"
    <3>1. /\ h \in Seq(Tokens) /\ Len(h) = 3 + n + 2
          /\ \A i \in 1..3 : h[i] = a[i]
          /\ \A i \in 1..n : h[3 + i] = system[i]
          /\ \A i \in 1..2 : h[3 + n + i] = c[i]
      <4>1. h \in Seq(Tokens) /\ IsWrapped(h, a, system, c)
        BY <2>1, <2>2, <2>3, Wrapped
      <4> QED BY <2>1, <4>1 DEF IsWrapped, n
    <3>2. 3 + n + 1 = n + 4 /\ 3 + n + 2 = n + 5 /\ 1 \in 1..2 /\ 2 \in 1..2
      BY <2>3
    <3> QED BY <2>1, <3>1, <3>2
  <2>5. Shape(h)
    <3>1. Len(h) - 1 = n + 4 /\ Len(h) >= 3
      BY <2>3, <2>4
    <3> QED BY <2>4, <3>1 DEF Shape
  <2>6. ASSUME NEW i \in 1..Len(h), TurnStart(h, i)
        PROVE  FALSE
    <3>1. i > 3 /\ h[i - 2] = "end"
      BY <2>4, <2>6 DEF TurnStart
    <3>2. i - 2 \in 2..n + 3
      BY <2>3, <2>4, <3>1
    <3>3. i - 2 = 2 \/ i - 2 = 3 \/ \E k \in 1..n : i - 2 = 3 + k
      <4>1. i - 2 > 3 => (i - 2) - 3 \in 1..n /\ i - 2 = 3 + ((i - 2) - 3)
        BY <2>3, <3>2
      <4> QED BY <3>2, <4>1
    <3> QED BY <2>3, <2>4, <3>1, <3>3
  <2>7. Canonical(kind, h, Chunks(h, CHUNK))
    BY <2>4, <2>5, <2>6, OneSegment
  <2>8. Len(h) >= 3
    BY <2>3, <2>4
  <2> QED BY <2>4, <2>5, <2>7, <2>8 DEF h
<1> QED BY <1>1, <1>2

Roles == {"user", "tool", "assistant"}

LEMMA RenderedTurn ==
  ASSUME NEW turn \in [role : Roles, content : Seq(Words)]
  PROVE  /\ Turn(Rendered(turn))
         /\ Rendered(turn)[2] = turn.role
<1> DEFINE a == <<"start", turn.role>>
           b == turn.content
           c == <<"end", "nl">>
           n == Len(b)
           s == Rendered(turn)
<1>0. turn.role \in Roles /\ b \in Seq(Words)
  OBVIOUS
<1>1. /\ a \in Seq(Tokens) /\ Len(a) = 2 /\ a[1] = "start" /\ a[2] = turn.role
      /\ c \in Seq(Tokens) /\ Len(c) = 2 /\ c[1] = "end" /\ c[2] = "nl"
      /\ turn.role \notin {"start", "system", "end"}
  BY <1>0 DEF Tokens, Roles
<1>2. s = a \o b \o c
  BY DEF Rendered
<1>3. b \in Seq(Tokens) /\ n \in Nat /\ \A i \in 1..n : b[i] # "end"
  BY <1>0, WordsAreTokens, LenProperties, ElementOfSeq
<1> HIDE DEF a, b, c, n, s
<1>4. /\ s \in Seq(Tokens) /\ Len(s) = n + 4
      /\ s[1] = "start" /\ s[2] = turn.role
      /\ \A i \in 1..n : s[2 + i] = b[i]
      /\ s[n + 3] = "end" /\ s[n + 4] = "nl"
  <2>1. /\ s \in Seq(Tokens) /\ Len(s) = 2 + n + 2
        /\ \A i \in 1..2 : s[i] = a[i]
        /\ \A i \in 1..n : s[2 + i] = b[i]
        /\ \A i \in 1..2 : s[2 + n + i] = c[i]
    <3>1. s \in Seq(Tokens) /\ IsWrapped(s, a, b, c)
      BY <1>1, <1>2, <1>3, Wrapped
    <3> QED BY <1>1, <3>1 DEF IsWrapped, n
  <2>2. 2 + n + 1 = n + 3 /\ 2 + n + 2 = n + 4 /\ 1 \in 1..2 /\ 2 \in 1..2
    BY <1>3
  <2> QED BY <1>1, <2>1, <2>2
<1>5. ASSUME NEW j \in 1..Len(s)
      PROVE  s[j] = "end" <=> j = Len(s) - 1
  <2>1. j \in 1..2 \/ j = n + 3 \/ j = n + 4 \/ \E k \in 1..n : j = 2 + k
    <3>1. j > 2 /\ j < n + 3 => j - 2 \in 1..n /\ j = 2 + (j - 2)
      BY <1>3
    <3> QED BY <1>3, <1>4, <3>1
  <2>2. CASE j \in 1..2
    <3>1. s[j] # "end"
      <4>1. j = 1 \/ j = 2
        BY <2>2
      <4> QED BY <1>1, <1>4, <4>1
    <3>2. j # Len(s) - 1
      BY <1>3, <1>4, <2>2
    <3> QED BY <3>1, <3>2
  <2>3. CASE \E k \in 1..n : j = 2 + k
    <3>1. PICK k \in 1..n : j = 2 + k
      BY <2>3
    <3>2. s[j] = b[k] /\ b[k] # "end"
      BY <1>3, <1>4, <3>1
    <3>3. j # Len(s) - 1
      BY <1>3, <1>4, <3>1
    <3> QED BY <3>2, <3>3
  <2>4. CASE j = n + 3
    BY <1>3, <1>4, <2>4
  <2>5. CASE j = n + 4
    BY <1>3, <1>4, <2>5
  <2> QED BY <2>1, <2>2, <2>3, <2>4, <2>5
<1>6. Len(s) >= 4 /\ Len(s) = n + 4
  BY <1>3, <1>4
<1> QED BY <1>1, <1>4, <1>5, <1>6 DEF Turn, s

\* A reply's segment, its opening and what follows its eos included.
ReplySegment == Opening \o Reply \o AfterEos

LEMMA ReplyIs ==
  /\ Opening \in Seq(Tokens) /\ Len(Opening) = 2 /\ Opening[1] = "start" /\ Opening[2] = "assistant"
  /\ AfterEos \in Seq(Tokens) /\ Len(AfterEos) = 1 /\ AfterEos[1] = "nl"
  /\ Reply \in Seq(Tokens) /\ Len(Reply) \in Nat \ {0}
  /\ \A i \in 1..Len(Reply) : Reply[i] = "end" <=> i = Len(Reply)
<1>1. /\ Opening \in Seq(Tokens) /\ Len(Opening) = 2 /\ Opening[1] = "start" /\ Opening[2] = "assistant"
      /\ AfterEos \in Seq(Tokens) /\ Len(AfterEos) = 1 /\ AfterEos[1] = "nl"
  BY DEF Opening, AfterEos, Tokens
<1> DEFINE n == Len(Reply)
<1>2. Reply \in Seq(Words \cup {"end"}) /\ Reply # <<>> /\ Reply[n] = "end"
  BY SchedulesAssumption, WordsAssumption DEF Last
<1>3. n \in Nat \ {0}
  BY <1>2, EmptySeq
<1>4. \A i \in 1..n - 1 : Reply[i] \in Words
  <2>1. Front(Reply) \in Seq(Words) /\ Front(Reply) = SubSeq(Reply, 1, n - 1)
    BY WordsAssumption DEF Front
  <2>2. n - 1 \in 0..n
    BY <1>3
  <2>3. /\ Len(SubSeq(Reply, 1, n - 1)) = n - 1
        /\ \A i \in 1..n - 1 : SubSeq(Reply, 1, n - 1)[i] = Reply[i]
    BY <1>2, <2>2, PrefixOfPath
  <2> QED BY <2>1, <2>3, ElementOfSeq
<1>5. \A i \in 1..n : Reply[i] = "end" <=> i = n
  BY <1>2, <1>3, <1>4, WordsAreTokens
<1>6. Reply \in Seq(Tokens)
  <2>1. Words \cup {"end"} \subseteq Tokens
    BY DEF Tokens
  <2> QED BY <1>2, <2>1, SeqMonotonic
<1> QED BY <1>1, <1>3, <1>5, <1>6

LEMMA ReplyTurn ==
  /\ ReplySegment \in Seq(Tokens) /\ Len(ReplySegment) = Len(Reply) + 3
  /\ ReplySegment[2] = "assistant"
  /\ Turn(ReplySegment)
<1> DEFINE n == Len(Reply)
           s == ReplySegment
<1>1. /\ n \in Nat \ {0}
      /\ s \in Seq(Tokens) /\ Len(s) = n + 3
      /\ s[1] = "start" /\ s[2] = "assistant"
      /\ \A i \in 1..n : s[2 + i] = Reply[i]
      /\ s[n + 3] = "nl"
  <2>1. /\ s \in Seq(Tokens) /\ Len(s) = Len(Opening) + n + Len(AfterEos)
        /\ \A i \in 1..Len(Opening) : s[i] = Opening[i]
        /\ \A i \in 1..n : s[Len(Opening) + i] = Reply[i]
        /\ \A i \in 1..Len(AfterEos) : s[Len(Opening) + n + i] = AfterEos[i]
    <3>1. s \in Seq(Tokens) /\ IsWrapped(s, Opening, Reply, AfterEos)
      BY ReplyIs, Wrapped DEF ReplySegment
    <3> HIDE DEF s
    <3> QED BY <3>1 DEF IsWrapped
  <2>2. 2 + n + 1 = n + 3 /\ n \in Nat \ {0}
    BY ReplyIs
  <2>3. /\ s \in Seq(Tokens) /\ Len(s) = 2 + n + 1
        /\ \A i \in 1..2 : s[i] = Opening[i]
        /\ \A i \in 1..n : s[2 + i] = Reply[i]
        /\ \A i \in 1..1 : s[2 + n + i] = AfterEos[i]
    BY <2>1, ReplyIs
  <2> HIDE DEF n, s
  <2> QED BY <2>2, <2>3, ReplyIs
<1>2. \A i \in 1..n : Reply[i] = "end" <=> i = n
  BY ReplyIs
<1> HIDE DEF n, s
<1>3. ASSUME NEW j \in 1..Len(s)
      PROVE  s[j] = "end" <=> j = Len(s) - 1
  <2>1. j \in 1..2 \/ j = n + 3 \/ \E k \in 1..n : j = 2 + k
    <3>1. j > 2 /\ j < n + 3 => j - 2 \in 1..n /\ j = 2 + (j - 2)
      BY <1>1
    <3> QED BY <1>1, <3>1
  <2>2. CASE j \in 1..2
    <3>1. s[j] # "end"
      <4>1. j = 1 \/ j = 2
        BY <2>2
      <4> QED BY <1>1, <4>1
    <3>2. j # Len(s) - 1
      BY <1>1, <2>2
    <3> QED BY <3>1, <3>2
  <2>3. CASE \E k \in 1..n : j = 2 + k
    <3>1. PICK k \in 1..n : j = 2 + k
      BY <2>3
    <3>2. s[j] = "end" <=> k = n
      BY <1>1, <1>2, <3>1
    <3>3. j = Len(s) - 1 <=> k = n
      BY <1>1, <3>1
    <3> QED BY <3>2, <3>3
  <2>4. CASE j = n + 3
    BY <1>1, <2>4
  <2> QED BY <2>1, <2>2, <2>3, <2>4
<1>4. Len(s) >= 4
  BY <1>1
<1> QED BY <1>1, <1>3, <1>4 DEF Turn, s, n

LEMMA CanonicalReply ==
  ASSUME NEW ids, NEW p, Shape(ids), Canonical("chat", ids, p)
  PROVE  /\ Shape(ids \o Opening \o Reply \o AfterEos)
         /\ Canonical("chat", ids \o Opening \o Reply \o AfterEos, AfterReply(p))
<1> DEFINE n == Len(Reply)
           o == Chunks(Opening, CHUNK)
           d == Chunks(Reply, 1)
           a == Chunks(AfterEos, CHUNK)
           q == o \o d \o a
<1>0. ids \in Seq(Tokens) /\ p \in Paths(Tokens) /\ n \in Nat \ {0}
  BY ReplyIs DEF Shape, Canonical
<1>1. /\ o \in Paths(Tokens) /\ FlattenSeq(o) = Opening /\ StartsOf(o) = Multiples(2, CHUNK)
      /\ d \in Paths(Tokens) /\ FlattenSeq(d) = Reply /\ StartsOf(d) = Multiples(n, 1)
      /\ a \in Paths(Tokens) /\ FlattenSeq(a) = AfterEos /\ StartsOf(a) = Multiples(1, CHUNK)
  BY ReplyIs, CHUNKType, ChunksSpell
<1>2. AfterReply(p) = p \o o \o d \o a
  <2>1. ForwardSegments(<<Opening>>) = o /\ ForwardSegments(<<AfterEos>>) = a
    BY ReplyIs, ForwardOne
  <2>2. Decoded(Reply) = d
    BY DEF Decoded
  <2> HIDE DEF o, d, a
  <2> QED BY <2>1, <2>2 DEF AfterReply
<1> HIDE DEF o, d, a
<1>3. ids \o Opening \o Reply \o AfterEos = ids \o ReplySegment
  <2>1. Opening \o Reply \in Seq(Tokens) /\ ids \o Opening \in Seq(Tokens)
    BY <1>0, ReplyIs, ConcatProperties
  <2>2. (ids \o Opening) \o Reply = ids \o (Opening \o Reply)
    <3>1. Associated(ids, Opening, Reply)
      BY <1>0, ReplyIs, Associative
    <3> QED BY <3>1, Zenon DEF Associated
  <2> DEFINE e == Opening \o Reply
  <2> HIDE DEF e
  <2>4. e \in Seq(Tokens)
    BY <2>1 DEF e
  <2>5. (ids \o e) \o AfterEos = ids \o (e \o AfterEos)
    <3>1. Associated(ids, e, AfterEos)
      BY <1>0, <2>4, ReplyIs, Associative
    <3> QED BY <3>1, Zenon DEF Associated
  <2>3. (ids \o (Opening \o Reply)) \o AfterEos = ids \o ((Opening \o Reply) \o AfterEos)
    BY <2>5 DEF e
  <2> QED BY <2>2, <2>3 DEF ReplySegment
<1>4. o \o d \in Paths(Tokens) /\ q \in Paths(Tokens)
  BY <1>1, PathConcat
<1>5. p \o o \o d \o a = p \o q
  <2> DEFINE S == Seq(Tokens) \ {<<>>}
             e == o \o d
  <2>0. p \in Seq(S) /\ o \in Seq(S) /\ d \in Seq(S) /\ a \in Seq(S) /\ e \in Seq(S)
    BY <1>0, <1>1, <1>4 DEF Paths
  <2> HIDE DEF S, e
  <2>1. Associated(p, o, d)
    BY <2>0, Associative
  <2>2. Associated(p, e, a)
    BY <2>0, Associative
  <2> QED BY <2>1, <2>2 DEF Associated, e
<1>6. /\ FlattenSeq(o \o d) = Opening \o Reply
      /\ FlattenSeq(q) = ReplySegment
      /\ StartsOf(o \o d) = Multiples(2, CHUNK) \cup Shifted(Multiples(n, 1), 2)
      /\ StartsOf(q) = StartsOf(o \o d) \cup Shifted(Multiples(1, CHUNK), n + 2)
  <2>1. /\ o \in Seq(Seq(Tokens)) /\ d \in Seq(Seq(Tokens)) /\ a \in Seq(Seq(Tokens))
        /\ o \o d \in Seq(Seq(Tokens))
    BY <1>1, <1>4, PathsAreSeqs
  <2>2. FlattenSeq(o \o d) = Opening \o Reply
    BY <1>1, <2>1, FlatConcat
  <2>3. FlattenSeq(q) = ReplySegment
    BY <1>1, <2>1, <2>2, FlatConcat DEF ReplySegment
  <2>4. Len(Opening) = 2 /\ Len(Opening \o Reply) = n + 2
    <3>1. Len(Opening \o Reply) = Len(Opening) + Len(Reply) /\ Len(Opening) = 2
      BY ReplyIs, ConcatProperties
    <3> QED BY <1>0, <3>1
  <2>5. StartsOf(o \o d) = StartsOf(o) \cup Shifted(StartsOf(d), Len(FlattenSeq(o)))
    BY <2>1, StartsConcat
  <2>6. StartsOf(q) = StartsOf(o \o d) \cup Shifted(StartsOf(a), Len(FlattenSeq(o \o d)))
    BY <2>1, StartsConcat
  <2> QED BY <1>1, <2>2, <2>3, <2>4, <2>5, <2>6
<1> HIDE DEF q, n
<1>7. StartsOf(q) = SegmentStarts("chat", ReplySegment)
  <2>1. \A j \in Int : j % 1 = 0
    OBVIOUS
  <2>2. 0 % CHUNK = 0
    BY CHUNKType
  <2>3. Multiples(n, 1) = 1..n /\ Multiples(1, CHUNK) = {1}
    BY <1>0, <2>1, <2>2 DEF Multiples
  <2>4. Shifted(1..n, 2) = 3..n + 2 /\ Shifted({1}, n + 2) = {n + 3}
    <3>1. ASSUME NEW j \in 3..n + 2
          PROVE  j \in Shifted(1..n, 2)
      <4>1. j - 2 \in 1..n /\ j = 2 + (j - 2)
        BY <1>0
      <4> QED BY <4>1 DEF Shifted
    <3>2. ASSUME NEW j \in Shifted(1..n, 2)
          PROVE  j \in 3..n + 2
      BY <1>0 DEF Shifted
    <3>3. (n + 2) + 1 = n + 3
      BY <1>0
    <3> QED BY <3>1, <3>2, <3>3 DEF Shifted
  <2>5. SegmentStarts("chat", ReplySegment) = {j \in 1..n + 3 : j >= 3 \/ (j - 1) % CHUNK = 0}
    BY ReplyTurn DEF SegmentStarts, n
  <2>6. {j \in 1..n + 3 : j >= 3 \/ (j - 1) % CHUNK = 0} = Multiples(2, CHUNK) \cup (3..n + 2) \cup {n + 3}
    BY <1>0 DEF Multiples
  <2> QED BY <1>6, <2>3, <2>4, <2>5, <2>6
<1>8. Canonical("chat", ids \o ReplySegment, p \o q)
  BY <1>4, <1>6, <1>7, ReplyTurn, CanonicalAppended
<1>9. Shape(ids \o ReplySegment)
  BY ReplyTurn, TurnStarts
<1> QED BY <1>2, <1>3, <1>5, <1>8, <1>9

-----------------------------------------------------------------------------
(* The ids and the starts of its chunks determine a path.                  *)

StartAt(p, i) == 1 + Len(Through(p, i - 1))
FirstStarts(p, m) == {StartAt(p, k) : k \in 1..m}

LEMMA StartsGrow ==
  ASSUME NEW T, NEW p \in Paths(T)
  PROVE  /\ \A i \in 1..Len(p) + 1 : StartAt(p, i) \in Nat \ {0}
         /\ \A i \in 1..Len(p) : StartAt(p, i + 1) = StartAt(p, i) + Len(p[i])
         /\ \A i \in 1..Len(p) : Len(p[i]) \in Nat \ {0}
         /\ \A i, j \in 1..Len(p) + 1 : i < j => StartAt(p, i) < StartAt(p, j)
         /\ StartAt(p, Len(p) + 1) = Len(FlattenSeq(p)) + 1
<1> DEFINE n == Len(p)
<1>1. p \in Seq(Seq(T)) /\ n \in Nat
  BY PathsAreSeqs, LenProperties
<1>2. Through(p, 0) = <<>> /\ Through(p, n) = FlattenSeq(p)
  BY <1>1, ThroughEnds
<1>3. ASSUME NEW i \in 0..n
      PROVE  Through(p, i) \in Seq(T) /\ Len(Through(p, i)) \in Nat
  <2>1. SubSeq(p, 1, i) \in Seq(Seq(T))
    BY <1>1, PrefixOfPath
  <2> QED BY <2>1, FlatTyped, LenProperties DEF Through
<1>4. ASSUME NEW i \in 1..n
      PROVE  /\ Len(p[i]) \in Nat \ {0}
             /\ StartAt(p, i + 1) = StartAt(p, i) + Len(p[i])
  <2>1. p[i] \in Seq(T) /\ p[i] # <<>>
    BY ElementOfSeq DEF Paths
  <2>2. Len(p[i]) \in Nat \ {0}
    BY <2>1, EmptySeq
  <2>3. Through(p, i) = Through(p, i - 1) \o p[i]
    BY <1>1, NextChunk
  <2>4. (i + 1) - 1 = i /\ i - 1 \in 0..n
    BY <1>1
  <2>5. Through(p, i - 1) \in Seq(T) /\ Len(Through(p, i - 1)) \in Nat
    BY <1>3, <2>4
  <2>6. Len(Through(p, i)) = Len(Through(p, i - 1)) + Len(p[i])
    BY <2>1, <2>3, <2>5, ConcatProperties
  <2>7. StartAt(p, i + 1) = 1 + Len(Through(p, i)) /\ StartAt(p, i) = 1 + Len(Through(p, i - 1))
    BY <2>4 DEF StartAt
  <2>8. StartAt(p, i + 1) = StartAt(p, i) + Len(p[i])
    <3> DEFINE x == Len(Through(p, i - 1))
               y == Len(p[i])
               z == Len(Through(p, i))
    <3>1. x \in Nat /\ y \in Nat /\ z = x + y /\ StartAt(p, i + 1) = 1 + z /\ StartAt(p, i) = 1 + x
      BY <2>2, <2>5, <2>6, <2>7
    <3> HIDE DEF x, y, z
    <3>2. StartAt(p, i + 1) = StartAt(p, i) + y
      BY <3>1
    <3> QED BY <3>2 DEF y
  <2> QED BY <2>2, <2>8
<1>5. ASSUME NEW i \in 1..n + 1
      PROVE  StartAt(p, i) \in Nat \ {0}
  <2>1. i - 1 \in 0..n
    BY <1>1
  <2> QED BY <1>3, <2>1 DEF StartAt
<1> HIDE DEF n
<1>6. ASSUME NEW i \in 1..n + 1
      PROVE  \A j \in 1..n + 1 : i < j => StartAt(p, i) < StartAt(p, j)
  <2> DEFINE G == {d \in Nat : i + d + 1 \in 1..n + 1 => StartAt(p, i) < StartAt(p, i + d + 1)}
  <2>1. 0 \in G
    <3> SUFFICES ASSUME i + 1 \in 1..n + 1
                 PROVE  StartAt(p, i) < StartAt(p, i + 1)
      BY <1>1
    <3>1. i \in 1..n
      BY <1>1
    <3> QED BY <1>4, <1>5, <3>1
  <2>2. ASSUME NEW d \in Nat, d \in G
        PROVE  d + 1 \in G
    <3> DEFINE k == i + d + 1
    <3> SUFFICES ASSUME k + 1 \in 1..n + 1
                 PROVE  StartAt(p, i) < StartAt(p, k + 1)
      <4>1. i + (d + 1) + 1 = k + 1
        BY <1>1
      <4> QED BY <4>1
    <3>1. k \in 1..n /\ k \in 1..n + 1
      BY <1>1
    <3>2. StartAt(p, i) < StartAt(p, k)
      BY <2>2, <3>1
    <3> HIDE DEF k
    <3> QED BY <1>4, <1>5, <3>1, <3>2
  <2> HIDE DEF G
  <2>3. \A d \in Nat : d \in G
    BY <2>1, <2>2, NatInduct
  <2>4. ASSUME NEW j \in 1..n + 1, i < j
        PROVE  StartAt(p, i) < StartAt(p, j)
    <3>1. j - i - 1 \in Nat /\ i + (j - i - 1) + 1 = j
      BY <1>1, <2>4
    <3> QED BY <2>3, <3>1 DEF G
  <2> QED BY <2>4
<1>7. StartAt(p, n + 1) = Len(FlattenSeq(p)) + 1
  <2>1. (n + 1) - 1 = n /\ n \in 0..n
    BY <1>1
  <2>2. Len(Through(p, n)) \in Nat
    BY <1>3, <2>1
  <2> QED BY <1>2, <2>1, <2>2 DEF StartAt
<1> QED BY <1>4, <1>5, <1>6, <1>7 DEF n

LEMMA StartsCounted ==
  ASSUME NEW T, NEW p \in Paths(T), NEW m \in 0..Len(p)
  PROVE  IsFiniteSet(FirstStarts(p, m)) /\ Cardinality(FirstStarts(p, m)) = m
<1> DEFINE n == Len(p)
           G == {i \in Nat : i <= n => IsFiniteSet(FirstStarts(p, i)) /\ Cardinality(FirstStarts(p, i)) = i}
<1>1. n \in Nat
  BY LenProperties DEF Paths
<1>2. /\ \A i \in 1..n + 1 : StartAt(p, i) \in Nat \ {0}
      /\ \A i, j \in 1..n + 1 : i < j => StartAt(p, i) < StartAt(p, j)
  BY StartsGrow
<1> HIDE DEF n
<1>3. 0 \in G
  <2>1. FirstStarts(p, 0) = {}
    BY DEF FirstStarts
  <2> QED BY <2>1, FS_EmptySet
<1>4. ASSUME NEW i \in Nat, i \in G
      PROVE  i + 1 \in G
  <2> SUFFICES ASSUME i + 1 <= n
               PROVE  IsFiniteSet(FirstStarts(p, i + 1)) /\ Cardinality(FirstStarts(p, i + 1)) = i + 1
    OBVIOUS
  <2>1. i <= n /\ i + 1 \in 1..n + 1
    BY <1>1
  <2>2. IsFiniteSet(FirstStarts(p, i)) /\ Cardinality(FirstStarts(p, i)) = i
    BY <1>4, <2>1
  <2>3. FirstStarts(p, i + 1) = FirstStarts(p, i) \cup {StartAt(p, i + 1)}
    <3>1. 1..i + 1 = (1..i) \cup {i + 1}
      OBVIOUS
    <3> QED BY <3>1 DEF FirstStarts
  <2>4. StartAt(p, i + 1) \notin FirstStarts(p, i)
    <3> SUFFICES ASSUME NEW k \in 1..i, StartAt(p, i + 1) = StartAt(p, k)
                 PROVE  FALSE
      BY DEF FirstStarts
    <3>1. k \in 1..n + 1 /\ k < i + 1
      BY <1>1, <2>1
    <3>2. StartAt(p, k) < StartAt(p, i + 1)
      BY <1>2, <2>1, <3>1
    <3> QED BY <1>2, <2>1, <3>1, <3>2
  <2> QED BY <2>2, <2>3, <2>4, FS_AddElement
<1> HIDE DEF G
<1>5. \A i \in Nat : i \in G
  BY <1>3, <1>4, NatInduct
<1>6. m \in Nat /\ m <= n
  BY <1>1 DEF n
<1> QED BY <1>5, <1>6 DEF G

NthStart(starts, m) == CHOOSE i \in starts : Cardinality({j \in starts : j <= i}) = m
LastOf(starts, len, i) ==
  CHOOSE e \in i..len : /\ e = len \/ e + 1 \in starts
                        /\ \A j \in i + 1..e : j \notin starts

LEMMA ScratchIs ==
  ASSUME NEW kind, NEW ids
  PROVE  LET starts == ChunkStarts(kind, ids)
         IN  Scratch(kind, ids) =
               [m \in 1..Cardinality(starts) |->
                  SubSeq(ids, NthStart(starts, m), LastOf(starts, Len(ids), NthStart(starts, m)))]
BY DEF Scratch, NthStart, LastOf

LEMMA NthStartIs ==
  ASSUME NEW T, NEW p \in Paths(T), NEW m \in 1..Len(p)
  PROVE  NthStart(StartsOf(p), m) = StartAt(p, m)
<1> DEFINE n == Len(p)
           S == StartsOf(p)
<1>1. n \in Nat
  BY LenProperties DEF Paths
<1>2. /\ \A i \in 1..n + 1 : StartAt(p, i) \in Nat \ {0}
      /\ \A i, j \in 1..n + 1 : i < j => StartAt(p, i) < StartAt(p, j)
  BY StartsGrow
<1>3. S = FirstStarts(p, n)
  BY StartsAre DEF FirstStarts, StartAt
<1>4. \A i \in 1..n : Cardinality(FirstStarts(p, i)) = i
  <2>1. \A i \in 1..n : i \in 0..n
    BY <1>1
  <2> QED BY <2>1, StartsCounted
<1> HIDE DEF n, S
<1>5. ASSUME NEW i \in 1..n
      PROVE  {s \in S : s <= StartAt(p, i)} = FirstStarts(p, i)
  <2>1. ASSUME NEW k \in 1..n
        PROVE  StartAt(p, k) <= StartAt(p, i) <=> k \in 1..i
    <3>1. i \in 1..n + 1 /\ k \in 1..n + 1 /\ StartAt(p, k) \in Nat /\ StartAt(p, i) \in Nat
      BY <1>1, <1>2
    <3>2. /\ i < k => StartAt(p, i) < StartAt(p, k)
          /\ k < i => StartAt(p, k) < StartAt(p, i)
      BY <1>2, <3>1
    <3> QED BY <1>1, <3>1, <3>2
  <2>2. ASSUME NEW s \in S, s <= StartAt(p, i)
        PROVE  s \in FirstStarts(p, i)
    <3>1. PICK k \in 1..n : s = StartAt(p, k)
      BY <1>3 DEF FirstStarts
    <3> QED BY <2>1, <2>2, <3>1 DEF FirstStarts
  <2>3. ASSUME NEW s \in FirstStarts(p, i)
        PROVE  s \in S /\ s <= StartAt(p, i)
    <3>1. PICK k \in 1..i : s = StartAt(p, k)
      BY DEF FirstStarts
    <3>2. k \in 1..n
      BY <1>1
    <3> QED BY <1>3, <2>1, <3>1, <3>2 DEF FirstStarts
  <2> QED BY <2>2, <2>3
<1>6. m \in 1..n
  BY DEF n
<1>7. StartAt(p, m) \in S /\ Cardinality({j \in S : j <= StartAt(p, m)}) = m
  BY <1>3, <1>4, <1>5, <1>6 DEF FirstStarts
<1>8. ASSUME NEW s \in S, Cardinality({j \in S : j <= s}) = m
      PROVE  s = StartAt(p, m)
  <2>1. PICK k \in 1..n : s = StartAt(p, k)
    BY <1>3 DEF FirstStarts
  <2>2. Cardinality({j \in S : j <= s}) = k
    BY <1>4, <1>5, <2>1
  <2> QED BY <1>8, <2>1, <2>2
<1> QED BY <1>7, <1>8 DEF NthStart, S

LEMMA LastOfIs ==
  ASSUME NEW T, NEW p \in Paths(T), NEW m \in 1..Len(p)
  PROVE  LastOf(StartsOf(p), Len(FlattenSeq(p)), StartAt(p, m)) = StartAt(p, m + 1) - 1
<1> DEFINE n == Len(p)
           S == StartsOf(p)
           L == Len(FlattenSeq(p))
           b == StartAt(p, m)
           e == StartAt(p, m + 1) - 1
<1>1. n \in Nat
  BY LenProperties DEF Paths
<1>2. /\ \A i \in 1..n + 1 : StartAt(p, i) \in Nat \ {0}
      /\ \A i, j \in 1..n + 1 : i < j => StartAt(p, i) < StartAt(p, j)
      /\ StartAt(p, n + 1) = L + 1
  BY StartsGrow
<1>3. S = FirstStarts(p, n)
  BY StartsAre DEF FirstStarts, StartAt
<1>4. L \in Nat
  BY FlatTyped, PathsAreSeqs, LenProperties
<1> HIDE DEF n, S, L
<1>5. m \in 1..n /\ m \in 1..n + 1 /\ m + 1 \in 1..n + 1 /\ n + 1 \in 1..n + 1
  BY <1>1 DEF n
<1>6. b \in Nat \ {0} /\ StartAt(p, m + 1) \in Nat \ {0} /\ b < StartAt(p, m + 1)
  BY <1>2, <1>5
<1>7. m + 1 < n + 1 => StartAt(p, m + 1) < L + 1
  BY <1>2, <1>5
<1>8. m + 1 = n + 1 \/ m + 1 < n + 1
  BY <1>1, <1>5
<1>9. e \in b..L /\ e + 1 = StartAt(p, m + 1)
  BY <1>2, <1>4, <1>6, <1>7, <1>8
<1>10. e = L \/ e + 1 \in S
  <2>1. CASE m + 1 = n + 1
    BY <1>2, <1>4, <2>1
  <2>2. CASE m + 1 < n + 1
    <3>1. m + 1 \in 1..n
      BY <1>1, <1>5, <2>2
    <3> QED BY <1>3, <1>9, <3>1 DEF FirstStarts
  <2> QED BY <1>8, <2>1, <2>2
<1>11. ASSUME NEW s \in S
       PROVE  s \notin b + 1..e
  <2>1. PICK k \in 1..n : s = StartAt(p, k)
    BY <1>3 DEF FirstStarts
  <2>2. k \in 1..n + 1 /\ StartAt(p, k) \in Nat
    BY <1>1, <1>2
  <2>3. CASE k <= m
    <3>1. s <= b
      <4>1. k < m => StartAt(p, k) < b
        BY <1>2, <1>5, <2>2
      <4>2. k = m \/ k < m
        BY <1>5, <2>2, <2>3
      <4> QED BY <1>6, <2>1, <2>2, <4>1, <4>2
    <3> QED BY <1>6, <2>1, <2>2, <3>1
  <2>4. CASE k > m
    <3>1. s >= StartAt(p, m + 1)
      <4>1. m + 1 < k => StartAt(p, m + 1) < StartAt(p, k)
        BY <1>2, <1>5, <2>2
      <4>2. k = m + 1 \/ m + 1 < k
        BY <1>5, <2>2, <2>4
      <4> QED BY <1>6, <2>1, <2>2, <4>1, <4>2
    <3> QED BY <1>6, <1>9, <2>1, <2>2, <3>1
  <2> QED BY <1>5, <2>2, <2>3, <2>4
<1> HIDE DEF b, e
<1>12. ASSUME NEW d \in b..L, d = L \/ d + 1 \in S, \A j \in b + 1..d : j \notin S
       PROVE  d = e
  <2>1. CASE d < e
    <3>1. d # L /\ d + 1 \in b + 1..e
      BY <1>4, <1>6, <1>9, <2>1
    <3> QED BY <1>11, <1>12, <3>1
  <2>2. CASE d > e
    <3>1. e # L /\ e + 1 \in b + 1..d
      BY <1>4, <1>6, <1>9, <2>2
    <3> QED BY <1>10, <1>12, <3>1
  <2> QED BY <1>4, <1>6, <1>9, <2>1, <2>2
<1> QED BY <1>9, <1>10, <1>11, <1>12 DEF LastOf, S, L, b, e

LEMMA ChunkIs ==
  ASSUME NEW T, NEW p \in Paths(T), NEW m \in 1..Len(p)
  PROVE  SubSeq(FlattenSeq(p), StartAt(p, m), StartAt(p, m + 1) - 1) = p[m]
<1> DEFINE n == Len(p)
           ids == FlattenSeq(p)
           a == Through(p, m - 1)
           c == p[m]
           rest == SubSeq(p, m + 1, n)
<1>1. p \in Seq(Seq(T)) /\ n \in Nat \ {0} /\ m \in 1..n
  BY PathsAreSeqs, LenProperties
<1>2. a \in Seq(T) /\ Through(p, m) = a \o c /\ c \in Seq(T)
  BY <1>1, NextChunk, ElementOfSeq
<1>3. rest \in Seq(Seq(T))
  <2>1. \A i \in m + 1..n : p[i] \in Seq(T)
    BY <1>1, ElementOfSeq
  <2> QED BY <1>1, <2>1, SubSeqProperties
<1>4. SubSeq(p, 1, m) \o rest = p /\ SubSeq(p, 1, m) \in Seq(Seq(T))
  <2>1. 1 \in 1..n + 1 /\ m \in 1 - 1..n /\ n \in m..n /\ m \in 0..n
    BY <1>1
  <2>2. SubSeq(p, 1, m) \o rest = SubSeq(p, 1, n)
    BY <1>1, <2>1, ConcatAdjacentSubSeq
  <2> QED BY <1>1, <2>1, <2>2, SubSeqFull, PrefixOfPath
<1>5. ids = a \o c \o FlattenSeq(rest)
  BY <1>2, <1>3, <1>4, FlatConcat DEF Through
<1>6. ids \in Seq(T) /\ IsWrapped(ids, a, c, FlattenSeq(rest))
  <2>1. FlattenSeq(rest) \in Seq(T)
    BY <1>3, FlatTyped
  <2> HIDE DEF ids, a, c, rest
  <2> QED BY <1>2, <1>5, <2>1, Wrapped
<1>7. /\ Len(a) \in Nat /\ Len(c) \in Nat /\ Len(FlattenSeq(rest)) \in Nat /\ Len(ids) \in Nat
  BY <1>2, <1>3, <1>6, FlatTyped, LenProperties
<1>8. StartAt(p, m) = Len(a) + 1 /\ StartAt(p, m + 1) = Len(a) + 1 + Len(c)
  <2>1. StartAt(p, m) = 1 + Len(a)
    BY DEF StartAt
  <2>2. StartAt(p, m + 1) = StartAt(p, m) + Len(c)
    BY StartsGrow
  <2> HIDE DEF a, c
  <2> QED BY <1>7, <2>1, <2>2
<1> HIDE DEF ids, a, c, rest, n
<1>9. SubSeq(ids, Len(a) + 1, Len(a) + Len(c)) = c
  <2> DEFINE x == Len(a)
             y == Len(c)
             s == SubSeq(ids, x + 1, x + y)
  <2>1. Len(ids) = x + y + Len(FlattenSeq(rest)) /\ \A i \in 1..y : ids[x + i] = c[i]
    BY <1>6 DEF IsWrapped
  <2> HIDE DEF x, y
  <2>2. x \in Nat /\ y \in Nat /\ \A i \in x + 1..x + y : i \in 1..Len(ids)
    BY <1>7, <2>1 DEF x, y
  <2>3. \A i \in x + 1..x + y : ids[i] \in T
    BY <1>6, <2>2, ElementOfSeq
  <2>4. /\ s \in Seq(T) /\ Len(s) = IF x + 1 <= x + y THEN (x + y) - (x + 1) + 1 ELSE 0
        /\ \A i \in 1..(x + y) - (x + 1) + 1 : s[i] = ids[x + 1 + i - 1]
    BY <2>2, <2>3, SubSeqProperties
  <2>5. Len(s) = y
    BY <2>2, <2>4
  <2>6. ASSUME NEW i \in 1..y
        PROVE  s[i] = c[i]
    <3>1. i \in 1..(x + y) - (x + 1) + 1 /\ x + 1 + i - 1 = x + i
      BY <2>2
    <3> QED BY <2>1, <2>4, <3>1
  <2> HIDE DEF s
  <2>7. s = c
    BY <1>2, <2>4, <2>5, <2>6, SeqEqual DEF y
  <2> QED BY <2>7 DEF s, x, y
<1>10. (Len(a) + 1 + Len(c)) - 1 = Len(a) + Len(c)
  BY <1>7
<1> QED BY <1>8, <1>9, <1>10 DEF ids, c

LEMMA PathIsScratch ==
  ASSUME NEW kind, NEW ids, NEW p, Canonical(kind, ids, p)
  PROVE  p = Scratch(kind, ids)
<1> DEFINE n == Len(p)
           S == ChunkStarts(kind, ids)
<1>1. p \in Paths(Tokens) /\ FlattenSeq(p) = ids /\ StartsOf(p) = S /\ n \in Nat
  BY LenProperties DEF Canonical, Paths
<1>2. Cardinality(S) = n
  <2>1. n \in 0..n
    BY <1>1
  <2>2. StartsOf(p) = FirstStarts(p, n)
    BY StartsAre DEF FirstStarts, StartAt
  <2> QED BY <1>1, <2>1, <2>2, StartsCounted
<1>3. Scratch(kind, ids) = [m \in 1..n |-> SubSeq(ids, NthStart(S, m), LastOf(S, Len(ids), NthStart(S, m)))]
  BY <1>2, ScratchIs
<1>4. ASSUME NEW m \in 1..n
      PROVE  SubSeq(ids, NthStart(S, m), LastOf(S, Len(ids), NthStart(S, m))) = p[m]
  <2>1. NthStart(S, m) = StartAt(p, m)
    BY <1>1, NthStartIs
  <2>2. LastOf(S, Len(ids), StartAt(p, m)) = StartAt(p, m + 1) - 1
    BY <1>1, LastOfIs
  <2>3. SubSeq(ids, StartAt(p, m), StartAt(p, m + 1) - 1) = p[m]
    BY <1>1, ChunkIs
  <2> QED BY <2>1, <2>2, <2>3
<1>5. p = [m \in 1..n |-> p[m]]
  BY <1>1, LenProperties DEF Paths
<1> HIDE DEF n, S
<1> QED BY <1>3, <1>4, <1>5

-----------------------------------------------------------------------------
(* The inductive invariant: what every cache and the job hold is what      *)
(* their keys name.                                                        *)

Checkpoint(id, path) ==
  /\ id \in {"chat", "context"} \X Seq(Tokens)
  /\ Shape(id[2]) /\ Len(id[2]) >= 3
  /\ Canonical(id[1], id[2], path)

Cached(k, path) ==
  /\ k[1] = "ready" => path = PlainPath(k[2], k[3])
  /\ k[1] = "tail" => path = Scratch(k[3][1], k[3][2]) \o Chunks(TailHead(k[2]), CHUNK)
  /\ k[1] = "described" =>
       \E prompt \in SameIdsPaths(k[2], k[3]) : path = prompt \o Decoded(Description(k[4]))

JobHolds(j) ==
  /\ j.op = "generate" /\ j.puts => j.path = PlainPath(j.spec, j.ids)
  /\ j.op \in {"context", "turn", "reply"} => Checkpoint(j.id, j.path)
  /\ j.op \in {"turn", "reply"} => j.id[1] = "chat"
  /\ j.op = "turn" => j = [op |-> "turn", id |-> j.id, path |-> j.path]

ChatsHold(held) == \A k \in DOMAIN held : Checkpoint(k, held[k])
StatesHold(held) == \A k \in DOMAIN held : Cached(k, held[k])

Inv == ChatsHold(chats) /\ StatesHold(states) /\ JobHolds(job)

LEMMA FittingIs ==
  ASSUME NEW store, NEW cap, NEW kept \in Fitting(store, cap)
  PROVE  /\ DOMAIN kept \subseteq DOMAIN store
         /\ \A k \in DOMAIN kept : kept[k] = store[k]
<1>1. PICK keep \in SUBSET DOMAIN store : kept = [k \in keep |-> store[k]]
  BY DEF Fitting
<1> QED BY <1>1

LEMMA PutIs ==
  ASSUME NEW store, NEW new, NEW k \in DOMAIN Put(store, new)
  PROVE  \/ k \in DOMAIN new /\ Put(store, new)[k] = new[k]
         \/ k \in DOMAIN store /\ Put(store, new)[k] = store[k]
<1> DEFINE replaced == {x \in DOMAIN store :
                          x[1] = "ready" /\ \E n \in DOMAIN new : n[1] = "ready" /\ n[2] = x[2] /\ n # x}
           all == (DOMAIN store \ replaced) \cup DOMAIN new
<1>1. Put(store, new) = [x \in all |-> IF x \in DOMAIN new THEN new[x] ELSE store[x]]
  BY DEF Put
<1>2. all \subseteq DOMAIN store \cup DOMAIN new
  OBVIOUS
<1> HIDE DEF all
<1> QED BY <1>1, <1>2

LEMMA PutHolds ==
  ASSUME NEW store, NEW new, NEW cap, NEW kept \in Fitting(Put(store, new), cap),
         StatesHold(store), StatesHold(new)
  PROVE  StatesHold(kept)
<1> SUFFICES ASSUME NEW k \in DOMAIN kept
             PROVE  Cached(k, kept[k])
  BY DEF StatesHold
<1>1. k \in DOMAIN Put(store, new) /\ kept[k] = Put(store, new)[k]
  BY FittingIs
<1>2. \/ k \in DOMAIN new /\ Put(store, new)[k] = new[k]
      \/ k \in DOMAIN store /\ Put(store, new)[k] = store[k]
  BY <1>1, PutIs
<1> QED BY <1>1, <1>2 DEF StatesHold

LEMMA ForgottenHolds ==
  ASSUME NEW gone, StatesHold(states)
  PROVE  StatesHold(Forgotten(gone))
<1> DEFINE keep == {k \in DOMAIN states : ~(k[1] = "tail" /\ k[3] \in gone)}
<1>1. Forgotten(gone) = [k \in keep |-> states[k]] /\ keep \subseteq DOMAIN states
  BY DEF Forgotten
<1> HIDE DEF keep
<1> QED BY <1>1 DEF StatesHold

LEMMA HoldCheckpointHolds ==
  ASSUME NEW id, NEW path, ChatsHold(chats), StatesHold(states), Checkpoint(id, path),
         HoldCheckpoint(id, path)
  PROVE  ChatsHold(chats') /\ StatesHold(states')
<1> DEFINE all == [k \in DOMAIN chats \cup {id} |-> IF k = id THEN path ELSE chats[k]]
<1>1. PICK kept \in Fitting(all, MaxChats) : chats' = kept /\ states' = Forgotten(DOMAIN chats \ DOMAIN kept)
  BY DEF HoldCheckpoint
<1>2. ChatsHold(all)
  BY DEF ChatsHold
<1> HIDE DEF all
<1>3. DOMAIN kept \subseteq DOMAIN all /\ \A k \in DOMAIN kept : kept[k] = all[k]
  BY FittingIs
<1>4. ChatsHold(kept)
  BY <1>2, <1>3 DEF ChatsHold
<1>5. StatesHold(Forgotten(DOMAIN chats \ DOMAIN kept))
  BY ForgottenHolds
<1> QED BY <1>1, <1>4, <1>5

-----------------------------------------------------------------------------
(* Chats and contexts.                                                     *)

RenderedAll(turns) == [i \in 1..Len(turns) |-> Rendered(turns[i])]

LEMMA TurnsTyped ==
  ASSUME NEW turns \in Turns \cup {<<>>}
  PROVE  /\ turns \in Seq([role : Roles, content : Seq(Words)])
         /\ turns \in Turns => turns # <<>>
<1>1. <<>> \in Seq([role : Roles, content : Seq(Words)])
  BY EmptySeq
<1> QED BY <1>1, WordsAssumption DEF Roles

LEMMA RenderedAllTyped ==
  ASSUME NEW kind, NEW turns \in Turns \cup {<<>>},
         kind = "context" \/ \A i \in 1..Len(turns) : turns[i].role # "assistant"
  PROVE  /\ RenderedAll(turns) \in Seq(TurnsOf(kind))
         /\ Len(RenderedAll(turns)) = Len(turns)
         /\ Len(turns) \in Nat
<1>1. Len(turns) \in Nat /\ \A i \in 1..Len(turns) : turns[i] \in [role : Roles, content : Seq(Words)]
  BY TurnsTyped, LenProperties, ElementOfSeq
<1>2. ASSUME NEW i \in 1..Len(turns)
      PROVE  Rendered(turns[i]) \in TurnsOf(kind)
  <2>1. Turn(Rendered(turns[i])) /\ Rendered(turns[i])[2] = turns[i].role
    BY <1>1, RenderedTurn
  <2>2. Rendered(turns[i]) \in Seq(Tokens)
    BY <2>1 DEF Turn
  <2> QED BY <2>1, <2>2 DEF TurnsOf
<1>3. RenderedAll(turns) \in [1..Len(turns) -> TurnsOf(kind)]
  BY <1>2 DEF RenderedAll
<1> QED BY <1>1, <1>3

LEMMA TurnsNotEmpty ==
  ASSUME NEW kind, NEW segments \in Seq(TurnsOf(kind)), segments # <<>>
  PROVE  FlattenSeq(segments) \in Seq(Tokens) /\ Len(FlattenSeq(segments)) >= 4
<1>1. TurnsOf(kind) \subseteq Seq(Tokens)
  BY DEF TurnsOf
<1>2. PICK s \in Seq(TurnsOf(kind)), x \in TurnsOf(kind) : segments = Append(s, x)
  BY SequenceEmptyOrAppend
<1>3. s \in Seq(Seq(Tokens)) /\ x \in Seq(Tokens) /\ Len(x) >= 4
  BY <1>1, SeqMonotonic DEF TurnsOf, Turn
<1>4. FlattenSeq(segments) = FlattenSeq(s) \o x /\ FlattenSeq(s) \in Seq(Tokens)
  BY <1>2, <1>3, FlatAppend
<1>5. FlattenSeq(s) \o x \in Seq(Tokens) /\ Len(FlattenSeq(s) \o x) = Len(FlattenSeq(s)) + Len(x)
  BY <1>3, <1>4, ConcatProperties
<1>6. Len(FlattenSeq(s)) \in Nat /\ Len(x) \in Nat
  BY <1>3, <1>4, LenProperties
<1> QED BY <1>3, <1>4, <1>5, <1>6

LEMMA SegmentsAre ==
  ASSUME NEW kind, NEW system \in Systems, NEW turns \in Turns \cup {<<>>},
         kind = "context" \/ \A i \in 1..Len(turns) : turns[i].role # "assistant"
  PROVE  /\ Segments(system, turns) = <<RenderHead(system)>> \o RenderedAll(turns)
         /\ RenderHead(system) \in Seq(Tokens)
         /\ RenderedAll(turns) \in Seq(TurnsOf(kind))
         /\ RenderedAll(turns) \in Seq(Seq(Tokens))
         /\ Segments(system, turns) \in Seq(Seq(Tokens))
         /\ Len(Segments(system, turns)) = Len(turns) + 1
         /\ \A i \in 2..Len(turns) + 1 : Segments(system, turns)[i] \in TurnsOf(kind)
<1> DEFINE h == RenderHead(system)
           r == RenderedAll(turns)
           s == <<h>> \o r
<1>1. Segments(system, turns) = s
  BY DEF Segments, RenderedAll
<1>2. h \in Seq(Tokens) /\ TurnsOf(kind) \subseteq Seq(Tokens)
  BY WordsAssumption, HeadForwarded DEF TurnsOf
<1>3. r \in Seq(TurnsOf(kind)) /\ Len(r) = Len(turns) /\ Len(turns) \in Nat
  BY RenderedAllTyped
<1>4. r \in Seq(Seq(Tokens)) /\ <<h>> \in Seq(Seq(Tokens)) /\ Len(<<h>>) = 1
  BY <1>2, <1>3, SeqMonotonic
<1> HIDE DEF h, r
<1>5. /\ s \in Seq(Seq(Tokens)) /\ Len(s) = 1 + Len(turns)
      /\ \A i \in 1..1 + Len(turns) : s[i] = IF i <= 1 THEN <<h>>[i] ELSE r[i - 1]
  <2> DEFINE a == <<h>>
  <2>1. a \in Seq(Seq(Tokens)) /\ Len(a) = 1
    BY <1>4
  <2> HIDE DEF a
  <2>2. /\ a \o r \in Seq(Seq(Tokens)) /\ Len(a \o r) = Len(a) + Len(r)
        /\ \A i \in 1..Len(a) + Len(r) : (a \o r)[i] = IF i <= Len(a) THEN a[i] ELSE r[i - Len(a)]
    BY <1>4, <2>1, ConcatProperties
  <2> QED BY <1>3, <2>1, <2>2 DEF a
<1>6. ASSUME NEW i \in 2..Len(turns) + 1
      PROVE  s[i] \in TurnsOf(kind)
  <2>1. i \in 1..1 + Len(turns) /\ ~ (i <= 1) /\ i - 1 \in 1..Len(r)
    BY <1>3
  <2> QED BY <1>3, <1>5, <2>1, ElementOfSeq
<1> HIDE DEF s
<1> QED BY <1>1, <1>2, <1>3, <1>4, <1>5, <1>6 DEF h, r, s

LEMMA ShapeLong ==
  ASSUME NEW ids, Shape(ids), Len(ids) # 1
  PROVE  Len(ids) >= 3
BY DEF Shape

LEMMA FromScratch ==
  ASSUME NEW kind \in {"chat", "context"}, NEW system \in Systems, NEW turns \in Turns \cup {<<>>},
         kind = "context" \/ \A i \in 1..Len(turns) : turns[i].role # "assistant",
         system # <<>> \/ turns # <<>>
  PROVE  Checkpoint(IdOf(kind, FlattenSeq(Segments(system, turns))), ForwardSegments(Segments(system, turns)))
<1> DEFINE h == RenderHead(system)
           r == RenderedAll(turns)
           s == Segments(system, turns)
           ids == FlattenSeq(s)
<1>1. /\ s = <<h>> \o r /\ h \in Seq(Tokens) /\ r \in Seq(TurnsOf(kind))
      /\ r \in Seq(Seq(Tokens)) /\ <<h>> \in Seq(Seq(Tokens))
  <2>1. /\ s = <<h>> \o r /\ h \in Seq(Tokens) /\ r \in Seq(TurnsOf(kind))
        /\ r \in Seq(Seq(Tokens))
    BY SegmentsAre
  <2> HIDE DEF h, r, s
  <2> QED BY <2>1
<1>2. /\ Shape(h) /\ Canonical(kind, h, Chunks(h, CHUNK))
      /\ system # <<>> => Len(h) >= 3
  BY WordsAssumption, HeadForwarded
<1>3. Len(h) \in Nat \ {0}
  <2>1. Len(h) \in Nat
    BY <1>1, LenProperties
  <2>2. Len(h) # 0
    <3> HIDE DEF h
    <3> QED BY <1>2 DEF Shape
  <2> QED BY <2>1, <2>2
<1>4. turns # <<>> => r # <<>>
  <2>1. Len(r) = Len(turns)
    BY RenderedAllTyped
  <2>2. turns # <<>> => Len(turns) # 0
    BY TurnsTyped, EmptySeq
  <2>3. Len(<<>>) = 0
    BY EmptySeq
  <2> QED BY <2>1, <2>2, <2>3
<1> HIDE DEF h, r, s
<1>5. ids = h \o FlattenSeq(r)
  <2>1. FlattenSeq(<<h>>) = h
    BY <1>1, FlatOne
  <2>2. FlattenSeq(<<h>> \o r) = FlattenSeq(<<h>>) \o FlattenSeq(r)
    BY <1>1, FlatConcat
  <2> QED BY <1>1, <2>1, <2>2
<1>6. ForwardSegments(s) = Chunks(h, CHUNK) \o ForwardSegments(r)
  <2>1. ForwardSegments(<<h>>) = Chunks(h, CHUNK)
    BY <1>1, ForwardOne
  <2>2. ForwardSegments(<<h>> \o r) = ForwardSegments(<<h>>) \o ForwardSegments(r)
    BY <1>1, ForwardConcat
  <2> QED BY <1>1, <2>1, <2>2
<1>7. Shape(ids) /\ Canonical(kind, ids, ForwardSegments(s))
  BY <1>1, <1>2, <1>5, <1>6, CanonicalTurns
<1>8. Len(ids) # 1
  <2>1. FlattenSeq(r) \in Seq(Tokens) /\ Len(FlattenSeq(r)) \in Nat
    BY <1>1, FlatTyped, LenProperties
  <2>2. Len(ids) = Len(h) + Len(FlattenSeq(r))
    BY <1>1, <1>5, <2>1, ConcatProperties
  <2>3. r # <<>> => Len(FlattenSeq(r)) >= 4
    BY <1>1, TurnsNotEmpty
  <2> QED BY <1>2, <1>3, <1>4, <2>1, <2>2, <2>3
<1>9. ids \in Seq(Tokens) /\ Len(ids) >= 3
  BY <1>7, <1>8, ShapeLong DEF Shape
<1> QED BY <1>7, <1>9 DEF Checkpoint, IdOf, s

LEMMA CheckpointContinued ==
  ASSUME NEW kind, NEW ids, NEW path, NEW segments \in Seq(TurnsOf(kind)),
         Checkpoint(<<kind, ids>>, path)
  PROVE  Checkpoint(IdOf(kind, ids \o FlattenSeq(segments)), path \o ForwardSegments(segments))
<1>1. /\ kind \in {"chat", "context"} /\ ids \in Seq(Tokens)
      /\ Shape(ids) /\ Len(ids) >= 3 /\ Canonical(kind, ids, path)
  BY DEF Checkpoint
<1> DEFINE more == ids \o FlattenSeq(segments)
<1>2. Shape(more) /\ Canonical(kind, more, path \o ForwardSegments(segments))
  BY <1>1, CanonicalTurns
<1>3. segments \in Seq(Seq(Tokens))
  <2>1. TurnsOf(kind) \subseteq Seq(Tokens)
    BY DEF TurnsOf
  <2> QED BY <2>1, SeqMonotonic
<1>4. FlattenSeq(segments) \in Seq(Tokens) /\ Len(FlattenSeq(segments)) \in Nat /\ Len(ids) \in Nat
  BY <1>1, <1>3, FlatTyped, LenProperties
<1>5. more \in Seq(Tokens) /\ Len(more) = Len(ids) + Len(FlattenSeq(segments))
  BY <1>1, <1>4, ConcatProperties
<1>6. Len(more) >= 3
  BY <1>1, <1>4, <1>5
<1> HIDE DEF more
<1> QED BY <1>1, <1>2, <1>5, <1>6 DEF Checkpoint, IdOf, more

-----------------------------------------------------------------------------
(* What a warm read is answered from, given what is held.                  *)

LEMMA TextTyped ==
  ASSUME NEW spec \in Specs, NEW input \in Inputs
  PROVE  /\ Prefix(spec) \in Seq(Tokens)
         /\ TailHead(spec) \in Seq(Tokens)
         /\ UserTurn(State(spec, input)) \in Seq(Tokens)
         /\ TailTurn(spec, input) \in Seq(Tokens)
<1>1. Block[spec] \in Seq(Words) /\ Label[spec] \in Seq(Words) /\ input \in Seq(Words)
  BY WordsAssumption
<1>2. Block[spec] \in Seq(Tokens) /\ Label[spec] \in Seq(Tokens) /\ input \in Seq(Tokens)
  BY <1>1, WordsAreTokens
<1>3. /\ <<"start", "user">> \in Seq(Tokens) /\ <<"gap">> \in Seq(Tokens) /\ <<"end", "nl">> \in Seq(Tokens)
      /\ Opening \in Seq(Tokens)
  BY DEF Tokens, Opening
<1>4. State(spec, input) \in Seq(Tokens)
  BY <1>2, ConcatProperties DEF State
<1>5. TailHead(spec) \in Seq(Tokens)
  BY <1>2, <1>3, ConcatProperties DEF TailHead
<1>6. Block[spec] \o <<"gap">> \o State(spec, input) \in Seq(Tokens)
  BY <1>2, <1>3, <1>4, ConcatProperties
<1>7. ASSUME NEW text \in Seq(Tokens)
      PROVE  UserTurn(text) \in Seq(Tokens)
  <2>1. UserTurn(text) = <<"start", "user">> \o text \o <<"end", "nl">> \o Opening
    BY DEF UserTurn, Rendered
  <2>2. <<"start", "user">> \o text \in Seq(Tokens)
    BY <1>3, ConcatProperties
  <2>3. <<"start", "user">> \o text \o <<"end", "nl">> \in Seq(Tokens)
    BY <1>3, <2>2, ConcatProperties
  <2> QED BY <1>3, <2>1, <2>3, ConcatProperties
<1>8. Prefix(spec) \in Seq(Tokens)
  BY <1>1, HeadForwarded DEF Prefix
<1> QED BY <1>4, <1>5, <1>6, <1>7, <1>8 DEF TailTurn

LEMMA ReadsAre ==
  ASSUME NEW r \in Reads
  PROVE  /\ r.spec \in Specs /\ r.input \in Inputs /\ r.warm \in BOOLEAN
         /\ r.asked \subseteq Fields
         /\ r.context \in DOMAIN chats \cup {Nowhere}
BY DEF Reads

LEMMA NowhereIsFree ==
  ASSUME ChatsHold(chats)
  PROVE  Nowhere \notin DOMAIN chats
BY DEF ChatsHold, Checkpoint, Nowhere

LEMMA Preparing ==
  ASSUME NEW spec, NEW ids, StatesHold(states)
  PROVE  Prepared(spec, ids, TRUE) = PlainPath(spec, ids)
<1>1. ReadyKey(spec, ids) \in DOMAIN states => states[ReadyKey(spec, ids)] = PlainPath(spec, ids)
  BY DEF StatesHold, Cached, ReadyKey
<1> QED BY <1>1 DEF Prepared, PlainPath

LEMMA HeldCheckpoint ==
  ASSUME NEW id \in DOMAIN chats, ChatsHold(chats)
  PROVE  /\ chats[id] = Scratch(id[1], id[2])
         /\ id = <<id[1], id[2]>> /\ id[1] \in {"chat", "context"}
         /\ id[2] \in Seq(Tokens) /\ Len(id[2]) \in Nat /\ Len(id[2]) >= 3
<1>1. Checkpoint(id, chats[id])
  BY DEF ChatsHold
<1>2. /\ id = <<id[1], id[2]>> /\ id[1] \in {"chat", "context"}
      /\ id[2] \in Seq(Tokens) /\ Len(id[2]) >= 3 /\ Canonical(id[1], id[2], chats[id])
  BY <1>1 DEF Checkpoint
<1> QED BY <1>2, LenProperties, PathIsScratch

LEMMA TailPrefixes ==
  ASSUME NEW id \in DOMAIN chats, NEW spec \in Specs, ChatsHold(chats)
  PROVE  chats[id] \o ForwardSegments(<<TailHead(spec)>>) =
           Scratch(id[1], id[2]) \o Chunks(TailHead(spec), CHUNK)
<1>1. Block[spec] \in Seq(Tokens)
  BY WordsAssumption, WordsAreTokens
<1>2. <<"start", "user">> \in Seq(Tokens) /\ <<"gap">> \in Seq(Tokens)
  BY DEF Tokens
<1>3. TailHead(spec) \in Seq(Tokens)
  BY <1>1, <1>2, ConcatProperties DEF TailHead
<1> QED BY <1>3, ForwardOne, HeldCheckpoint

LEMMA TailOfRead ==
  ASSUME NEW r \in Reads, r.context # Nowhere, ChatsHold(chats), StatesHold(states)
  PROVE  TailOf(r) = Scratch(r.context[1], r.context[2]) \o Chunks(TailHead(r.spec), CHUNK)
<1>1. r.context \in DOMAIN chats /\ r.spec \in Specs
  BY ReadsAre
<1>2. TailKey(r.spec, r.context) \in DOMAIN states =>
        states[TailKey(r.spec, r.context)] =
          Scratch(r.context[1], r.context[2]) \o Chunks(TailHead(r.spec), CHUNK)
  BY DEF StatesHold, Cached, TailKey
<1>3. chats[r.context] \o ForwardSegments(<<TailHead(r.spec)>>) =
        Scratch(r.context[1], r.context[2]) \o Chunks(TailHead(r.spec), CHUNK)
  BY <1>1, TailPrefixes
<1> QED BY <1>2, <1>3 DEF TailOf

RestOf(r) == SubSeq(TailTurn(r.spec, r.input), Len(TailHead(r.spec)) + 1, Len(TailTurn(r.spec, r.input)))

LEMMA RestTyped ==
  ASSUME NEW r \in Reads
  PROVE  RestOf(r) \in Seq(Tokens)
<1> DEFINE t == TailTurn(r.spec, r.input)
           h == TailHead(r.spec)
<1>1. t \in Seq(Tokens) /\ h \in Seq(Tokens)
  BY ReadsAre, TextTyped
<1>2. Len(t) \in Nat /\ Len(h) \in Nat /\ \A i \in 1..Len(t) : t[i] \in Tokens
  BY <1>1, LenProperties, ElementOfSeq
<1> HIDE DEF t, h
<1>3. Len(h) + 1 \in Int /\ Len(t) \in Int /\ \A i \in Len(h) + 1..Len(t) : t[i] \in Tokens
  BY <1>2
<1>4. SubSeq(t, Len(h) + 1, Len(t)) \in Seq(Tokens)
  BY <1>3, SubSeqProperties
<1> QED BY <1>4 DEF RestOf, t, h

LEMMA PromptIsOwn ==
  ASSUME NEW r \in Reads, ChatsHold(chats), StatesHold(states)
  PROVE  PromptPath(r) = OwnPath(r)
<1>1. CASE ~ r.warm
  <2>1. Prepared(r.spec, ReadIds(r), r.warm) = Chunks(ReadIds(r), CHUNK)
    BY <1>1 DEF Prepared
  <2> QED BY <1>1, <2>1 DEF PromptPath, OwnPath
<1>2. CASE r.warm /\ r.context = Nowhere
  <2>1. r.warm = TRUE
    BY <1>2, ReadsAre
  <2>2. Prepared(r.spec, ReadIds(r), TRUE) = PlainPath(r.spec, ReadIds(r))
    BY Preparing
  <2> QED BY <1>2, <2>1, <2>2 DEF PromptPath, OwnPath
<1>3. CASE r.warm /\ r.context # Nowhere
  <2>1. TailOf(r) = Scratch(r.context[1], r.context[2]) \o Chunks(TailHead(r.spec), CHUNK)
    BY <1>3, TailOfRead
  <2>2. ForwardSegments(<<RestOf(r)>>) = Chunks(RestOf(r), CHUNK)
    BY RestTyped, ForwardOne
  <2>3. PromptPath(r) = TailOf(r) \o ForwardSegments(<<RestOf(r)>>)
    BY <1>3 DEF PromptPath, RestOf
  <2>4. OwnPath(r) = ForkedPath(r.spec, r.context, r.input)
    BY <1>3 DEF OwnPath
  <2>5. ForkedPath(r.spec, r.context, r.input) =
          Scratch(r.context[1], r.context[2]) \o Chunks(TailHead(r.spec), CHUNK) \o Chunks(RestOf(r), CHUNK)
    BY DEF ForkedPath, RestOf
  <2> QED BY <2>1, <2>2, <2>3, <2>4, <2>5
<1> QED BY <1>1, <1>2, <1>3

LEMMA ForkIsOneOfTheSame ==
  ASSUME NEW spec, NEW ids, NEW input \in Inputs, NEW kind \in {"chat", "context"},
         NEW n \in 3..Len(ids), ids = SubSeq(ids, 1, n) \o TailTurn(spec, input)
  PROVE  ForkedPath(spec, <<kind, SubSeq(ids, 1, n)>>, input) \in SameIdsPaths(spec, ids)
<1> DEFINE Forks(x) == {m \in 3..Len(ids) : ids = SubSeq(ids, 1, m) \o TailTurn(spec, x)}
           Of(k, x) == {ForkedPath(spec, <<k, SubSeq(ids, 1, m)>>, x) : m \in Forks(x)}
           Both(x) == UNION {Of(k, x) : k \in {"chat", "context"}}
           fork == ForkedPath(spec, <<kind, SubSeq(ids, 1, n)>>, input)
<1>1. n \in Forks(input)
  OBVIOUS
<1>2. fork \in Of(kind, input)
  <2> HIDE DEF Forks
  <2> QED BY <1>1
<1>3. SameIdsPaths(spec, ids) = {PlainPath(spec, ids)} \cup UNION {Both(x) : x \in Inputs}
  BY DEF SameIdsPaths
<1> HIDE DEF Of, fork
<1>4. fork \in Both(input)
  BY <1>2
<1> HIDE DEF Both
<1>5. fork \in UNION {Both(x) : x \in Inputs}
  BY <1>4
<1> QED BY <1>3, <1>5 DEF fork

LEMMA OwnIsOneOfTheSame ==
  ASSUME NEW r \in Reads, r.warm, ChatsHold(chats)
  PROVE  OwnPath(r) \in SameIdsPaths(r.spec, ReadIds(r))
<1>1. CASE r.context = Nowhere
  BY <1>1 DEF OwnPath, SameIdsPaths
<1>2. CASE r.context # Nowhere
  <2> DEFINE id == r.context
             base == id[2]
             t == TailTurn(r.spec, r.input)
             ids == ReadIds(r)
             n == Len(base)
  <2>1. id \in DOMAIN chats /\ r.input \in Inputs /\ r.spec \in Specs
    BY <1>2, ReadsAre
  <2>2. /\ id = <<id[1], base>> /\ id[1] \in {"chat", "context"}
        /\ base \in Seq(Tokens) /\ n \in Nat /\ n >= 3
    BY <2>1, HeldCheckpoint
  <2>3. t \in Seq(Tokens) /\ Len(t) \in Nat
    BY <2>1, TextTyped, LenProperties
  <2>4. ids = base \o t
    BY <1>2 DEF ReadIds
  <2>5. OwnPath(r) = ForkedPath(r.spec, id, r.input)
    BY <1>2 DEF OwnPath
  <2> HIDE DEF id, base, t, ids, n
  <2>6. SubSeq(ids, 1, n) = base
    <3>1. n \in 0..Len(base)
      BY <2>2 DEF n
    <3>2. SubSeq(ids, 1, n) = SubSeq(base, 1, n)
      BY <2>2, <2>3, <2>4, <3>1, PrefixOfConcat
    <3> QED BY <2>2, <3>2, SubSeqFull DEF n
  <2>7. n \in 3..Len(ids)
    <3>1. Len(ids) = Len(base) + Len(t)
      BY <2>2, <2>3, <2>4, ConcatProperties
    <3> QED BY <2>2, <2>3, <3>1 DEF n
  <2>8. ids = SubSeq(ids, 1, n) \o t
    BY <2>4, <2>6
  <2>9. ForkedPath(r.spec, <<id[1], SubSeq(ids, 1, n)>>, r.input) \in SameIdsPaths(r.spec, ids)
    BY <2>1, <2>2, <2>7, <2>8, ForkIsOneOfTheSame DEF t
  <2>10. <<id[1], SubSeq(ids, 1, n)>> = id
    BY <2>2, <2>6
  <2> QED BY <2>5, <2>9, <2>10 DEF ids
<1> QED BY <1>1, <1>2

-----------------------------------------------------------------------------
(* The steps.                                                              *)

LEMMA SlotPathIs ==
  ASSUME NEW r, NEW f \in r.asked
  PROVE  SlotPaths(r)[f] = IF DescribedHit(r) THEN states[DescribedKey(r.spec, ReadIds(r), f)]
                           ELSE PromptPath(r) \o Decoded(Description(f))
BY DEF SlotPaths

LEMMA ReadPutsHold ==
  ASSUME NEW r \in Reads, r.warm, ~ DescribedHit(r), ChatsHold(chats), StatesHold(states)
  PROVE  StatesHold(ReadPuts(r))
<1> DEFINE ids == ReadIds(r)
           prompt == IF r.context = Nowhere THEN ReadyKey(r.spec, ids) ELSE TailKey(r.spec, r.context)
           first == IF r.context = Nowhere THEN PromptPath(r) ELSE TailOf(r)
           keys == {prompt} \cup {DescribedKey(r.spec, ids, f) : f \in r.asked}
<1>1. ReadPuts(r) = [k \in keys |-> IF k # prompt THEN SlotPaths(r)[k[4]] ELSE first]
  BY DEF ReadPuts
<1>2. PromptPath(r) = OwnPath(r) /\ OwnPath(r) \in SameIdsPaths(r.spec, ids)
  BY PromptIsOwn, OwnIsOneOfTheSame
<1>3. Cached(prompt, first)
  <2>1. CASE r.context = Nowhere
    <3>1. first = PlainPath(r.spec, ids)
      BY <1>2, <2>1 DEF OwnPath
    <3>2. prompt = ReadyKey(r.spec, ids)
      BY <2>1
    <3> HIDE DEF first, prompt, ids
    <3> QED BY <3>1, <3>2 DEF Cached, ReadyKey
  <2>2. CASE r.context # Nowhere
    <3>1. first = Scratch(r.context[1], r.context[2]) \o Chunks(TailHead(r.spec), CHUNK)
      BY <2>2, TailOfRead
    <3>2. prompt = TailKey(r.spec, r.context)
      BY <2>2
    <3> HIDE DEF first, prompt, ids
    <3> QED BY <3>1, <3>2 DEF Cached, TailKey
  <2> QED BY <2>1, <2>2
<1>4. ASSUME NEW f \in r.asked
      PROVE  Cached(DescribedKey(r.spec, ids, f), SlotPaths(r)[DescribedKey(r.spec, ids, f)[4]])
  <2> DEFINE k == DescribedKey(r.spec, ids, f)
  <2>1. k[1] = "described" /\ k[2] = r.spec /\ k[3] = ids /\ k[4] = f
    BY DEF DescribedKey
  <2>2. SlotPaths(r)[f] = OwnPath(r) \o Decoded(Description(f))
    BY <1>2, SlotPathIs
  <2> HIDE DEF k, ids
  <2> QED BY <1>2, <2>1, <2>2 DEF Cached, k
<1>5. ASSUME NEW k \in keys
      PROVE  Cached(k, ReadPuts(r)[k])
  <2>1. CASE k = prompt
    <3>1. ReadPuts(r)[k] = first
      <4> HIDE DEF keys, prompt, first
      <4> QED BY <1>1, <2>1
    <3> HIDE DEF prompt, first
    <3> QED BY <1>3, <2>1, <3>1
  <2>2. CASE k # prompt
    <3>1. PICK f \in r.asked : k = DescribedKey(r.spec, ids, f)
      <4> HIDE DEF prompt
      <4> QED BY <2>2
    <3>2. ReadPuts(r)[k] = SlotPaths(r)[k[4]]
      <4> HIDE DEF keys, prompt, first
      <4> QED BY <1>1, <2>2
    <3> QED BY <1>4, <3>1, <3>2
  <2> QED BY <2>1, <2>2
<1> HIDE DEF keys, prompt, first
<1>6. DOMAIN ReadPuts(r) = keys
  BY <1>1
<1> QED BY <1>5, <1>6 DEF StatesHold

LEMMA ReadKeeps ==
  ASSUME Inv, Read
  PROVE  Inv'
<1>1. PICK r \in AdmittedReads :
        /\ IF DescribedHit(r) \/ ~ r.warm THEN UNCHANGED states
           ELSE states' \in Fitting(Put(states, ReadPuts(r)), MaxStates)
        /\ UNCHANGED <<chats, job>>
  BY DEF Read
<1>2. r \in Reads
  BY DEF AdmittedReads
<1>3. ChatsHold(chats) /\ StatesHold(states) /\ JobHolds(job)
  BY DEF Inv
<1>4. StatesHold(states')
  <2>1. CASE DescribedHit(r) \/ ~ r.warm
    BY <1>1, <1>3, <2>1
  <2>2. CASE ~ (DescribedHit(r) \/ ~ r.warm)
    <3>1. StatesHold(ReadPuts(r))
      BY <1>2, <1>3, <2>2, ReadPutsHold
    <3> QED BY <1>1, <1>3, <2>2, <3>1, PutHolds
  <2> QED BY <2>1, <2>2
<1>5. chats' = chats /\ job' = job
  BY <1>1
<1> QED BY <1>3, <1>4, <1>5 DEF Inv

LEMMA StartGenerateKeeps ==
  ASSUME Inv, StartGenerate
  PROVE  Inv'
<1>1. PICK g \in Generations :
        /\ job' = [op |-> "generate", spec |-> g.spec, ids |-> FullIds(g), path |-> Prepared(g.spec, FullIds(g), g.warm),
                   puts |-> g.warm /\ Resumed(g) = 0 /\ ReadyKey(g.spec, FullIds(g)) \notin DOMAIN states]
        /\ UNCHANGED <<chats, states>>
  BY DEF StartGenerate
<1>2. g.warm \in BOOLEAN
  BY DEF Generations
<1>3. ChatsHold(chats) /\ StatesHold(states)
  BY DEF Inv
<1>4. g.warm => Prepared(g.spec, FullIds(g), g.warm) = PlainPath(g.spec, FullIds(g))
  BY <1>2, <1>3, Preparing
<1>5. JobHolds(job')
  <2>1. job'.op = "generate" /\ job'.spec = g.spec /\ job'.ids = FullIds(g)
    BY <1>1
  <2>2. job'.path = Prepared(g.spec, FullIds(g), g.warm)
    BY <1>1
  <2>3. job'.puts => g.warm
    BY <1>1
  <2> QED BY <1>4, <2>1, <2>2, <2>3 DEF JobHolds
<1>6. chats' = chats /\ states' = states
  BY <1>1
<1> QED BY <1>3, <1>5, <1>6 DEF Inv

LEMMA IdleHolds ==
  JobHolds([op |-> "none"])
BY DEF JobHolds

LEMMA PutReadyKeeps ==
  ASSUME Inv, PutReady
  PROVE  Inv'
<1> DEFINE new == [k \in {ReadyKey(job.spec, job.ids)} |-> job.path]
<1>1. ChatsHold(chats) /\ StatesHold(states) /\ JobHolds(job)
  BY DEF Inv
<1>2. /\ job.op = "generate" /\ job' = [op |-> "none"] /\ chats' = chats
      /\ IF job.puts THEN states' \in Fitting(Put(states, new), MaxStates) ELSE states' = states
  BY DEF PutReady, Done
<1>3. StatesHold(states')
  <2>1. CASE job.puts
    <3>1. job.path = PlainPath(job.spec, job.ids)
      BY <1>1, <1>2, <2>1 DEF JobHolds
    <3>2. StatesHold(new)
      BY <3>1 DEF StatesHold, Cached, ReadyKey
    <3> HIDE DEF new
    <3> QED BY <1>1, <1>2, <2>1, <3>2, PutHolds
  <2>2. CASE ~ job.puts
    BY <1>1, <1>2, <2>2
  <2> QED BY <2>1, <2>2
<1> QED BY <1>1, <1>2, <1>3, IdleHolds DEF Inv

LEMMA LargestOf ==
  ASSUME NEW n \in Nat, NEW S \in SUBSET (1..n), S # {}
  PROVE  (CHOOSE k \in S : \A j \in S : j <= k) \in S
<1> DEFINE T == {n - k : k \in S}
<1>0. \A k \in S : k \in Nat /\ n - k \in Nat
  OBVIOUS
<1>1. T \in SUBSET Nat /\ T # {}
  <2>1. T \in SUBSET Nat
    BY <1>0
  <2>2. PICK k \in S : TRUE
    OBVIOUS
  <2>3. n - k \in T
    BY <2>2
  <2> QED BY <2>1, <2>3
<1>2. PICK d \in T : \A e \in T : d <= e
  BY <1>1, LeastNat
<1>3. PICK k \in S : d = n - k
  BY <1>2
<1>4. \A j \in S : j <= k
  <2> SUFFICES ASSUME NEW j \in S
               PROVE  j <= k
    OBVIOUS
  <2>1. n - j \in T
    OBVIOUS
  <2>2. n - k <= n - j
    BY <1>2, <1>3, <2>1
  <2>3. j \in Nat /\ k \in Nat
    BY <1>0, <1>3
  <2> HIDE DEF T
  <2> QED BY <2>2, <2>3
<1> QED BY <1>3, <1>4

LEMMA CoveredIs ==
  ASSUME NEW segments, Len(segments) \in Nat \ {0}
  PROVE  \/ Covered(segments) = 0
         \/ /\ Covered(segments) \in 1..Len(segments) - 1
            /\ IdOf("context", Through(segments, Covered(segments))) \in DOMAIN chats
<1> DEFINE held == {k \in 1..Len(segments) - 1 : IdOf("context", Through(segments, k)) \in DOMAIN chats}
<1>1. Covered(segments) = IF held = {} THEN 0 ELSE CHOOSE k \in held : \A j \in held : j <= k
  BY DEF Covered
<1>2. Len(segments) - 1 \in Nat /\ held \in SUBSET (1..Len(segments) - 1)
  OBVIOUS
<1> HIDE DEF held
<1>3. held # {} => Covered(segments) \in held
  BY <1>1, <1>2, LargestOf
<1> QED BY <1>1, <1>3 DEF held

LEMMA ContextForwarded ==
  ASSUME NEW system \in Systems, NEW turns \in Turns \cup {<<>>},
         system # <<>> \/ turns # <<>>, ChatsHold(chats)
  PROVE  LET s == Segments(system, turns)
         IN  Checkpoint(IdOf("context", FlattenSeq(s)),
                        BaseOf(s) \o ForwardSegments(SubSeq(s, Covered(s) + 1, Len(s))))
<1> DEFINE s == Segments(system, turns)
           k == Covered(s)
           n == Len(s)
           more == SubSeq(s, k + 1, n)
<1>1. /\ s \in Seq(Seq(Tokens)) /\ n = Len(turns) + 1 /\ Len(turns) \in Nat
      /\ \A i \in 2..Len(turns) + 1 : s[i] \in TurnsOf("context")
  BY SegmentsAre, RenderedAllTyped
<1> HIDE DEF s
<1>2. n \in Nat \ {0} /\ \A i \in 2..n : s[i] \in TurnsOf("context")
  BY <1>1
<1>3. CASE k = 0
  <2>1. BaseOf(s) = <<>> /\ more = s
    BY <1>1, <1>3, SubSeqFull DEF BaseOf
  <2>2. ForwardSegments(s) \in Paths(Tokens)
    BY <1>1, ChunksOfTyped
  <2>3. <<>> \o ForwardSegments(s) = ForwardSegments(s)
    BY <2>2, ConcatEmptySeq DEF Paths
  <2>4. Checkpoint(IdOf("context", FlattenSeq(s)), ForwardSegments(s))
    BY FromScratch DEF s
  <2> QED BY <2>1, <2>3, <2>4 DEF s
<1>4. CASE k # 0
  <2> DEFINE base == Through(s, k)
  <2>1. k \in 1..n - 1 /\ IdOf("context", base) \in DOMAIN chats
    BY <1>2, <1>4, CoveredIs
  <2>2. BaseOf(s) = chats[IdOf("context", base)]
    BY <1>4 DEF BaseOf
  <2>3. Checkpoint(<<"context", base>>, BaseOf(s))
    BY <2>1, <2>2 DEF ChatsHold, IdOf
  <2> HIDE DEF n, k
  <2>4. more \in Seq(TurnsOf("context"))
    <3>1. k + 1 \in Int /\ n \in Int /\ \A i \in k + 1..n : s[i] \in TurnsOf("context")
      BY <1>2, <2>1
    <3> QED BY <3>1, SubSeqProperties
  <2>5. SubSeq(s, 1, k) \o more = s /\ SubSeq(s, 1, k) \in Seq(Seq(Tokens))
    <3>1. 1 \in 1..n + 1 /\ k \in 1 - 1..n /\ n \in k..n /\ k \in 0..n
      BY <1>2, <2>1
    <3>2. SubSeq(s, 1, k) \o more = SubSeq(s, 1, n)
      BY <1>1, <3>1, ConcatAdjacentSubSeq DEF n
    <3>3. SubSeq(s, 1, k) \in Seq(Seq(Tokens))
      BY <1>1, <3>1, PrefixOfPath DEF n
    <3> QED BY <1>1, <3>2, <3>3, SubSeqFull DEF n
  <2> HIDE DEF more
  <2>6. base \o FlattenSeq(more) = FlattenSeq(s)
    <3>1. more \in Seq(Seq(Tokens))
      <4>1. TurnsOf("context") \subseteq Seq(Tokens)
        BY DEF TurnsOf
      <4> QED BY <2>4, <4>1, SeqMonotonic
    <3> QED BY <2>5, <3>1, FlatConcat DEF Through
  <2> HIDE DEF base
  <2>7. Checkpoint(IdOf("context", base \o FlattenSeq(more)), BaseOf(s) \o ForwardSegments(more))
    BY <2>3, <2>4, CheckpointContinued
  <2> QED BY <2>6, <2>7 DEF s, more, k, n
<1> QED BY <1>3, <1>4

LEMMA StartContextKeeps ==
  ASSUME Inv, StartContext
  PROVE  Inv'
<1>1. PICK system \in Systems, turns \in Turns \cup {<<>>} :
        LET s == Segments(system, turns)
        IN  /\ system # <<>> \/ turns # <<>>
            /\ job' = [op |-> "context", id |-> IdOf("context", FlattenSeq(s)),
                       path |-> BaseOf(s) \o ForwardSegments(SubSeq(s, Covered(s) + 1, Len(s)))]
            /\ UNCHANGED <<chats, states>>
  BY DEF StartContext
<1>2. ChatsHold(chats) /\ StatesHold(states)
  BY DEF Inv
<1>3. job'.op = "context" /\ Checkpoint(job'.id, job'.path)
  BY <1>1, <1>2, ContextForwarded
<1>4. JobHolds(job')
  BY <1>3 DEF JobHolds
<1>5. chats' = chats /\ states' = states
  BY <1>1
<1> QED BY <1>2, <1>4, <1>5 DEF Inv

LEMMA HoldContextKeeps ==
  ASSUME Inv, HoldContext
  PROVE  Inv'
<1>1. job.op = "context" /\ HoldCheckpoint(job.id, job.path) /\ job' = [op |-> "none"]
  BY DEF HoldContext, Done
<1>2. ChatsHold(chats) /\ StatesHold(states) /\ Checkpoint(job.id, job.path)
  BY <1>1 DEF Inv, JobHolds
<1>3. ChatsHold(chats') /\ StatesHold(states')
  BY <1>1, <1>2, HoldCheckpointHolds
<1> QED BY <1>1, <1>3, IdleHolds DEF Inv

LEMMA TurnForwarded ==
  ASSUME NEW from \in Bases, NEW system \in Systems, NEW turns \in Turns,
         \A i \in 1..Len(turns) : turns[i].role # "assistant", ChatsHold(chats)
  PROVE  LET s == IF from = Nowhere THEN Segments(system, turns)
                  ELSE [i \in 1..Len(turns) |-> Rendered(turns[i])]
         IN  Checkpoint(IdOf("chat", from[2] \o FlattenSeq(s)),
                        (IF from = Nowhere THEN <<>> ELSE chats[from]) \o ForwardSegments(s))
<1>1. turns # <<>>
  BY TurnsTyped
<1>2. CASE from = Nowhere
  <2> DEFINE s == Segments(system, turns)
  <2>1. Checkpoint(IdOf("chat", FlattenSeq(s)), ForwardSegments(s))
    BY <1>1, FromScratch
  <2>2. s \in Seq(Seq(Tokens))
    BY SegmentsAre
  <2> HIDE DEF s
  <2>3. FlattenSeq(s) \in Seq(Tokens) /\ ForwardSegments(s) \in Paths(Tokens)
    BY <2>2, FlatTyped, ChunksOfTyped
  <2>4. <<>> \o FlattenSeq(s) = FlattenSeq(s) /\ <<>> \o ForwardSegments(s) = ForwardSegments(s)
    BY <2>3, ConcatEmptySeq DEF Paths
  <2>5. from[2] = <<>>
    BY <1>2 DEF Nowhere
  <2> QED BY <1>2, <2>1, <2>4, <2>5 DEF s
<1>3. CASE from # Nowhere
  <2> DEFINE s == RenderedAll(turns)
  <2>1. from \in DOMAIN chats /\ from[1] # "context"
    BY <1>3 DEF Bases
  <2>2. Checkpoint(from, chats[from]) /\ from = <<from[1], from[2]>> /\ from[1] \in {"chat", "context"}
    BY <2>1, HeldCheckpoint DEF ChatsHold
  <2>3. from[1] = "chat"
    BY <2>1, <2>2
  <2>4. Checkpoint(<<"chat", from[2]>>, chats[from])
    BY <2>2, <2>3
  <2>5. s \in Seq(TurnsOf("chat"))
    BY RenderedAllTyped
  <2> HIDE DEF s
  <2>6. Checkpoint(IdOf("chat", from[2] \o FlattenSeq(s)), chats[from] \o ForwardSegments(s))
    BY <2>4, <2>5, CheckpointContinued
  <2> QED BY <1>3, <2>6 DEF s, RenderedAll
<1> QED BY <1>2, <1>3

LEMMA StartTurnKeeps ==
  ASSUME Inv, StartTurn
  PROVE  Inv'
<1>1. PICK from \in Bases, system \in Systems, turns \in Turns :
        LET s == IF from = Nowhere THEN Segments(system, turns)
                 ELSE [i \in 1..Len(turns) |-> Rendered(turns[i])]
            user == IdOf("chat", from[2] \o FlattenSeq(s))
        IN  /\ \A i \in 1..Len(turns) : turns[i].role # "assistant"
            /\ job' = [op |-> IF user \in DOMAIN chats THEN "reply" ELSE "turn", id |-> user,
                       path |-> IF user \in DOMAIN chats THEN chats[user]
                                ELSE (IF from = Nowhere THEN <<>> ELSE chats[from]) \o ForwardSegments(s)]
            /\ UNCHANGED <<chats, states>>
  BY ZenonT(30) DEF StartTurn
<1> DEFINE s == IF from = Nowhere THEN Segments(system, turns)
                ELSE [i \in 1..Len(turns) |-> Rendered(turns[i])]
           user == IdOf("chat", from[2] \o FlattenSeq(s))
           path == (IF from = Nowhere THEN <<>> ELSE chats[from]) \o ForwardSegments(s)
<1>2. ChatsHold(chats) /\ StatesHold(states)
  BY DEF Inv
<1>3. Checkpoint(user, path)
  BY <1>1, <1>2, TurnForwarded
<1>4. user[1] = "chat"
  BY DEF IdOf
<1>5. job' = [op |-> IF user \in DOMAIN chats THEN "reply" ELSE "turn", id |-> user,
              path |-> IF user \in DOMAIN chats THEN chats[user] ELSE path]
  BY <1>1
<1>6. chats' = chats /\ states' = states
  BY <1>1
<1> HIDE DEF user, path, s
<1>7. JobHolds(job')
  <2>1. CASE user \in DOMAIN chats
    <3>1. job'.op = "reply" /\ job'.id = user /\ job'.path = chats[user]
      BY <1>5, <2>1
    <3>2. Checkpoint(user, chats[user])
      BY <1>2, <2>1 DEF ChatsHold
    <3> QED BY <1>4, <3>1, <3>2 DEF JobHolds
  <2>2. CASE user \notin DOMAIN chats
    <3>1. job' = [op |-> "turn", id |-> user, path |-> path]
      BY <1>5, <2>2
    <3>2. job'.op = "turn" /\ job'.id = user /\ job'.path = path
      BY <3>1
    <3>3. job' = [op |-> "turn", id |-> job'.id, path |-> job'.path]
      BY <3>1, <3>2
    <3> QED BY <1>3, <1>4, <3>2, <3>3 DEF JobHolds
  <2> QED BY <2>1, <2>2
<1> QED BY <1>2, <1>6, <1>7 DEF Inv

LEMMA HoldUserKeeps ==
  ASSUME Inv, HoldUser
  PROVE  Inv'
<1>1. job.op = "turn" /\ HoldCheckpoint(job.id, job.path) /\ job' = [job EXCEPT !.op = "reply"]
  BY DEF HoldUser
<1>2. /\ ChatsHold(chats) /\ StatesHold(states) /\ Checkpoint(job.id, job.path)
      /\ job.id[1] = "chat" /\ job = [op |-> "turn", id |-> job.id, path |-> job.path]
  BY <1>1 DEF Inv, JobHolds
<1>3. ChatsHold(chats') /\ StatesHold(states')
  BY <1>1, <1>2, HoldCheckpointHolds
<1>4. job'.op = "reply" /\ job'.id = job.id /\ job'.path = job.path
  BY <1>1, <1>2
<1>5. JobHolds(job')
  BY <1>2, <1>4 DEF JobHolds
<1> QED BY <1>3, <1>5 DEF Inv

LEMMA AnswerKeeps ==
  ASSUME Inv, Answer
  PROVE  Inv'
<1> DEFINE ids == job.id[2]
           whole == ids \o Opening \o Reply \o AfterEos
<1>1. /\ job.op = "reply" /\ job' = [op |-> "none"]
      /\ \/ HoldCheckpoint(IdOf("chat", whole), AfterReply(job.path))
         \/ UNCHANGED <<chats, states>>
  BY DEF Answer, Done
<1>2. ChatsHold(chats) /\ StatesHold(states) /\ Checkpoint(job.id, job.path) /\ job.id[1] = "chat"
  BY <1>1 DEF Inv, JobHolds
<1>3. ids \in Seq(Tokens) /\ Shape(ids) /\ Len(ids) >= 3 /\ Canonical("chat", ids, job.path)
  BY <1>2 DEF Checkpoint
<1> HIDE DEF ids
<1>4. Shape(whole) /\ Canonical("chat", whole, AfterReply(job.path))
  BY <1>3, CanonicalReply
<1>5. whole \in Seq(Tokens)
  BY <1>4 DEF Shape
<1>6. Len(whole) >= 3
  <2>1. ids \o Opening \in Seq(Tokens) /\ Len(ids \o Opening) = Len(ids) + 2
    <3>1. ids \o Opening \in Seq(Tokens) /\ Len(ids \o Opening) = Len(ids) + Len(Opening)
      BY <1>3, ReplyIs, ConcatProperties
    <3>2. Len(Opening) = 2
      BY ReplyIs
    <3> QED BY <3>1, <3>2
  <2> DEFINE e == ids \o Opening
  <2>2. e \in Seq(Tokens) /\ Len(e) = Len(ids) + 2
    BY <2>1
  <2> HIDE DEF e
  <2>3. e \o Reply \o AfterEos \in Seq(Tokens) /\ IsWrapped(e \o Reply \o AfterEos, e, Reply, AfterEos)
    BY <2>2, ReplyIs, Wrapped
  <2>4. Len(e \o Reply \o AfterEos) = Len(e) + Len(Reply) + Len(AfterEos)
    BY <2>3 DEF IsWrapped
  <2>5. Len(ids) \in Nat /\ Len(Reply) \in Nat /\ Len(AfterEos) = 1
    BY <1>3, ReplyIs, LenProperties
  <2>6. Len(e \o Reply \o AfterEos) >= 3
    BY <1>3, <2>2, <2>4, <2>5
  <2> QED BY <2>6 DEF e
<1> HIDE DEF whole
<1>7. Checkpoint(IdOf("chat", whole), AfterReply(job.path))
  BY <1>4, <1>5, <1>6 DEF Checkpoint, IdOf
<1>8. ChatsHold(chats') /\ StatesHold(states')
  <2>1. CASE HoldCheckpoint(IdOf("chat", whole), AfterReply(job.path))
    BY <1>2, <1>7, <2>1, HoldCheckpointHolds
  <2>2. CASE UNCHANGED <<chats, states>>
    <3>1. chats' = chats /\ states' = states
      BY <2>2
    <3> QED BY <1>2, <3>1
  <2> QED BY <1>1, <2>1, <2>2
<1> QED BY <1>1, <1>8, IdleHolds DEF Inv

LEMMA TailPrefillKeeps ==
  ASSUME Inv, TailPrefill
  PROVE  Inv'
<1>1. PICK id \in DOMAIN chats, spec \in Specs \cap Described :
        /\ states' \in Fitting(Put(states, [k \in {TailKey(spec, id)} |->
                                              chats[id] \o ForwardSegments(<<TailHead(spec)>>)]), MaxStates)
        /\ UNCHANGED <<chats, job>>
  BY DEF TailPrefill
<1> DEFINE new == [k \in {TailKey(spec, id)} |-> chats[id] \o ForwardSegments(<<TailHead(spec)>>)]
<1>2. ChatsHold(chats) /\ StatesHold(states) /\ JobHolds(job)
  BY DEF Inv
<1>3. chats[id] \o ForwardSegments(<<TailHead(spec)>>) = Scratch(id[1], id[2]) \o Chunks(TailHead(spec), CHUNK)
  BY <1>2, TailPrefixes
<1>4. StatesHold(new)
  <2>1. DOMAIN new = {TailKey(spec, id)}
    OBVIOUS
  <2>2. new[TailKey(spec, id)] = Scratch(id[1], id[2]) \o Chunks(TailHead(spec), CHUNK)
    BY <1>3
  <2>3. TailKey(spec, id)[1] = "tail" /\ TailKey(spec, id)[2] = spec /\ TailKey(spec, id)[3] = id
    BY DEF TailKey
  <2> HIDE DEF new
  <2>4. Cached(TailKey(spec, id), new[TailKey(spec, id)])
    BY <2>2, <2>3 DEF Cached
  <2> QED BY <2>1, <2>4 DEF StatesHold
<1>5. states' \in Fitting(Put(states, new), MaxStates)
  BY <1>1
<1> HIDE DEF new
<1>6. StatesHold(states')
  BY <1>2, <1>4, <1>5, PutHolds
<1>7. chats' = chats /\ job' = job
  BY <1>1
<1> QED BY <1>2, <1>6, <1>7 DEF Inv

LEMMA DeleteContextKeeps ==
  ASSUME Inv, DeleteContext
  PROVE  Inv'
<1>1. PICK id \in DOMAIN chats :
        /\ chats' = [k \in DOMAIN chats \ {id} |-> chats[k]]
        /\ states' = Forgotten({id})
        /\ UNCHANGED job
  BY DEF DeleteContext
<1>2. ChatsHold(chats) /\ StatesHold(states) /\ JobHolds(job)
  BY DEF Inv
<1>3. ChatsHold(chats')
  BY <1>1, <1>2 DEF ChatsHold
<1>4. StatesHold(states')
  BY <1>1, <1>2, ForgottenHolds
<1>5. job' = job
  BY <1>1
<1> QED BY <1>2, <1>3, <1>4, <1>5 DEF Inv

LEMMA InvInitially == Init => Inv
<1> SUFFICES ASSUME Init
             PROVE  Inv
  OBVIOUS
<1>1. DOMAIN chats = {} /\ DOMAIN states = {} /\ job = [op |-> "none"]
  BY DEF Init
<1> QED BY <1>1, IdleHolds DEF Inv, ChatsHold, StatesHold

LEMMA InvKept == Inv /\ [Next]_vars => Inv'
<1> SUFFICES ASSUME Inv, [Next]_vars
             PROVE  Inv'
  OBVIOUS
<1>1. CASE Read
  BY <1>1, ReadKeeps
<1>2. CASE StartGenerate
  BY <1>2, StartGenerateKeeps
<1>3. CASE PutReady
  BY <1>3, PutReadyKeeps
<1>4. CASE StartContext
  BY <1>4, StartContextKeeps
<1>5. CASE HoldContext
  BY <1>5, HoldContextKeeps
<1>6. CASE StartTurn
  BY <1>6, StartTurnKeeps
<1>7. CASE HoldUser
  BY <1>7, HoldUserKeeps
<1>8. CASE Answer
  BY <1>8, AnswerKeeps
<1>9. CASE TailPrefill
  BY <1>9, TailPrefillKeeps
<1>10. CASE DeleteContext
  BY <1>10, DeleteContextKeeps
<1>11. CASE UNCHANGED vars
  <2>1. chats' = chats /\ states' = states /\ job' = job
    BY <1>11 DEF vars
  <2> QED BY <2>1 DEF Inv
<1> QED BY <1>1, <1>2, <1>3, <1>4, <1>5, <1>6, <1>7, <1>8, <1>9, <1>10, <1>11 DEF Next

LEMMA InvAlways == Spec => []Inv
<1> QED BY InvInitially, InvKept, PTL DEF Spec

-----------------------------------------------------------------------------
(* The properties.                                                         *)

LEMMA InvIsCanonical == Inv => HeldStatesCanonical
<1> SUFFICES ASSUME Inv
             PROVE  HeldStatesCanonical
  OBVIOUS
<1>1. ASSUME NEW k \in DOMAIN chats
      PROVE  Spells(chats[k], k[2]) /\ StartsOf(chats[k]) = ChunkStarts(k[1], k[2])
  BY DEF Inv, ChatsHold, Checkpoint, Canonical, Spells
<1>2. ASSUME NEW k \in DOMAIN states
      PROVE  /\ k[1] = "tail" => states[k] = Scratch(k[3][1], k[3][2]) \o Chunks(TailHead(k[2]), CHUNK)
             /\ k[1] = "ready" => states[k] = PlainPath(k[2], k[3])
  BY DEF Inv, StatesHold, Cached
<1> QED BY <1>1, <1>2 DEF HeldStatesCanonical

(* Every checkpoint, tail prefix and ready prompt held is the computation  *)
(* its key names: forward_segments, build_context, chat_turn, prepare.     *)
THEOREM HeldStatesAlwaysCanonical == Spec => []HeldStatesCanonical
<1> QED BY InvAlways, InvIsCanonical, PTL

LEMMA InvFixesReads == Inv => ReadsDoNotDependOnCaches
<1> SUFFICES ASSUME Inv, NEW r \in AdmittedReads, NEW f \in r.asked
             PROVE  \E prompt \in IF DescribedHit(r) THEN SameIdsPaths(r.spec, ReadIds(r)) ELSE {OwnPath(r)} :
                      SlotPaths(r)[f] = prompt \o Decoded(Description(f))
  BY DEF ReadsDoNotDependOnCaches
<1>1. r \in Reads /\ ChatsHold(chats) /\ StatesHold(states)
  BY DEF AdmittedReads, Inv
<1>2. CASE DescribedHit(r)
  <2> DEFINE k == DescribedKey(r.spec, ReadIds(r), f)
  <2>1. k \in DOMAIN states /\ SlotPaths(r)[f] = states[k]
    BY <1>2, SlotPathIs DEF DescribedHit
  <2>2. k[1] = "described" /\ k[2] = r.spec /\ k[3] = ReadIds(r) /\ k[4] = f
    BY DEF DescribedKey
  <2> HIDE DEF k
  <2>3. Cached(k, states[k])
    BY <1>1, <2>1 DEF StatesHold
  <2>4. \E prompt \in SameIdsPaths(r.spec, ReadIds(r)) : states[k] = prompt \o Decoded(Description(f))
    BY <2>2, <2>3 DEF Cached
  <2> QED BY <1>2, <2>1, <2>4
<1>3. CASE ~ DescribedHit(r)
  <2>1. SlotPaths(r)[f] = OwnPath(r) \o Decoded(Description(f))
    BY <1>1, <1>3, SlotPathIs, PromptIsOwn
  <2> QED BY <1>3, <2>1
<1> QED BY <1>2, <1>3

(* What a read is answered from does not depend on what is held:           *)
(* describe_then_read, whatever was evicted, continued or read before.     *)
THEOREM ReadsNeverDependOnCaches == Spec => []ReadsDoNotDependOnCaches
<1> QED BY InvAlways, InvFixesReads, PTL
-----------------------------------------------------------------------------
(* Where nothing is quoted: escalations and probes.                        *)

LEMMA Cut ==
  ASSUME NEW S, NEW p \in Seq(S), NEW q \in Seq(S)
  PROVE  /\ SubSeq(p \o q, 1, Len(p)) = p
         /\ SubSeq(p \o q, Len(p) + 1, Len(p \o q)) = q
<1>1. /\ p \o q \in Seq(S) /\ Len(p \o q) = Len(p) + Len(q) /\ Len(p) \in Nat /\ Len(q) \in Nat
      /\ \A i \in 1..Len(p) + Len(q) : (p \o q)[i] = IF i <= Len(p) THEN p[i] ELSE q[i - Len(p)]
  BY ConcatProperties, LenProperties
<1>2. SubSeq(p \o q, 1, Len(p)) = p
  BY <1>1, PrefixOfConcat, SubSeqFull
<1> DEFINE w == p \o q
           l == Len(p)
           m == Len(q)
           rest == SubSeq(w, l + 1, l + m)
<1>3. \A i \in l + 1..l + m : w[i] \in S
  BY <1>1, ElementOfSeq
<1>4. l \in Nat /\ m \in Nat /\ \A i \in 1..m : w[l + i] = q[i]
  <2>1. l \in Nat /\ m \in Nat
    BY <1>1
  <2>2. ASSUME NEW i \in 1..m
        PROVE  w[l + i] = q[i]
    <3>1. l + i \in 1..l + m /\ ~ (l + i <= l) /\ (l + i) - l = i
      BY <2>1
    <3> QED BY <1>1, <3>1
  <2> QED BY <2>1, <2>2
<1> HIDE DEF w, l, m
<1>5. /\ rest \in Seq(S) /\ Len(rest) = IF l + 1 <= l + m THEN (l + m) - (l + 1) + 1 ELSE 0
      /\ \A i \in 1..(l + m) - (l + 1) + 1 : rest[i] = w[(l + 1) + i - 1]
  <2>1. l + 1 \in Int /\ l + m \in Int
    BY <1>4
  <2> QED BY <1>3, <2>1, SubSeqProperties
<1> HIDE DEF rest
<1>6. Len(rest) = m /\ \A i \in 1..m : rest[i] = q[i]
  <2>1. Len(rest) = m
    BY <1>4, <1>5
  <2>2. ASSUME NEW i \in 1..m
        PROVE  rest[i] = q[i]
    <3>1. (l + m) - (l + 1) + 1 = m /\ (l + 1) + i - 1 = l + i
      BY <1>4
    <3>2. rest[i] = w[l + i]
      BY <1>5, <3>1
    <3> QED BY <1>4, <3>2
  <2> QED BY <2>1, <2>2
<1>7. rest = q
  <2>1. Len(rest) = Len(q)
    BY <1>6 DEF m
  <2> QED BY <1>5, <1>6, <2>1, SeqEqual DEF m
<1> QED BY <1>1, <1>2, <1>7 DEF rest, w, l, m

LEMMA DecodedIs ==
  ASSUME NEW T, NEW s \in Seq(T)
  PROVE  /\ Decoded(s) = [i \in 1..Len(s) |-> <<s[i]>>]
         /\ Decoded(s) \in Paths(T) /\ Len(Decoded(s)) = Len(s)
         /\ FlattenSeq(Decoded(s)) = s
<1>1. Len(s) \in Nat /\ (Len(s) + 1 - 1) \div 1 = Len(s)
  <2>1. Len(s) \in Nat
    BY LenProperties
  <2> QED BY <2>1
<1>2. ASSUME NEW i \in 1..Len(s)
      PROVE  SubSeq(s, (i - 1) * 1 + 1, IF i * 1 < Len(s) THEN i * 1 ELSE Len(s)) = <<s[i]>>
  <2>1. (i - 1) * 1 + 1 = i /\ (IF i * 1 < Len(s) THEN i * 1 ELSE Len(s)) = i /\ i \in Int
    BY <1>1
  <2>2. \A j \in i..i : s[j] \in T
    BY <1>1, ElementOfSeq
  <2>3. /\ SubSeq(s, i, i) \in Seq(T) /\ Len(SubSeq(s, i, i)) = 1
        /\ SubSeq(s, i, i)[1] = s[i]
    <3>1. /\ SubSeq(s, i, i) \in Seq(T)
          /\ Len(SubSeq(s, i, i)) = IF i <= i THEN i - i + 1 ELSE 0
          /\ \A j \in 1..i - i + 1 : SubSeq(s, i, i)[j] = s[i + j - 1]
      BY <2>1, <2>2, SubSeqProperties
    <3>2. i <= i /\ i - i + 1 = 1 /\ 1 \in 1..i - i + 1 /\ i + 1 - 1 = i
      BY <2>1
    <3> QED BY <3>1, <3>2
  <2>4. SubSeq(s, i, i) = <<s[i]>>
    <3>1. s[i] \in T
      BY ElementOfSeq
    <3>2. <<s[i]>> \in Seq(T) /\ Len(<<s[i]>>) = 1 /\ <<s[i]>>[1] = s[i]
      BY <3>1
    <3> DEFINE one == <<s[i]>>
               cut == SubSeq(s, i, i)
    <3>3. Len(cut) = Len(one) /\ \A j \in 1..Len(cut) : cut[j] = one[j]
      BY <2>3, <3>2
    <3>4. cut \in Seq(T) /\ one \in Seq(T)
      BY <2>3, <3>2
    <3> HIDE DEF one, cut
    <3>5. cut = one
      BY <3>3, <3>4, SeqEqual
    <3> QED BY <3>5 DEF cut, one
  <2> QED BY <2>1, <2>4
<1>3. Decoded(s) = [i \in 1..Len(s) |-> <<s[i]>>]
  BY <1>1, <1>2 DEF Decoded, Chunks
<1>4. Decoded(s) \in Paths(T) /\ FlattenSeq(Decoded(s)) = s
  BY ChunksSpell DEF Decoded
<1> QED BY <1>1, <1>3, <1>4

LEMMA DecodedConcat ==
  ASSUME NEW T, NEW a \in Seq(T), NEW b \in Seq(T)
  PROVE  Decoded(a \o b) = Decoded(a) \o Decoded(b)
<1>1. /\ a \o b \in Seq(T) /\ Len(a \o b) = Len(a) + Len(b) /\ Len(a) \in Nat /\ Len(b) \in Nat
      /\ \A i \in 1..Len(a) + Len(b) : (a \o b)[i] = IF i <= Len(a) THEN a[i] ELSE b[i - Len(a)]
  BY ConcatProperties, LenProperties
<1> DEFINE da == Decoded(a)
           db == Decoded(b)
           dw == Decoded(a \o b)
<1>2. /\ da \in Paths(T) /\ Len(da) = Len(a) /\ da = [i \in 1..Len(a) |-> <<a[i]>>]
      /\ db \in Paths(T) /\ Len(db) = Len(b) /\ db = [i \in 1..Len(b) |-> <<b[i]>>]
      /\ dw \in Paths(T) /\ Len(dw) = Len(a) + Len(b) /\ dw = [i \in 1..Len(a) + Len(b) |-> <<(a \o b)[i]>>]
  BY <1>1, DecodedIs
<1> HIDE DEF da, db, dw
<1>3. /\ da \o db \in Paths(T) /\ Len(da \o db) = Len(a) + Len(b)
      /\ \A i \in 1..Len(a) + Len(b) : (da \o db)[i] = IF i <= Len(a) THEN da[i] ELSE db[i - Len(a)]
  BY <1>2, ConcatProperties DEF Paths
<1>4. ASSUME NEW i \in 1..Len(a) + Len(b)
      PROVE  dw[i] = (da \o db)[i]
  <2>1. dw[i] = <<(a \o b)[i]>>
    BY <1>2
  <2>2. CASE i <= Len(a)
    <3>1. i \in 1..Len(a)
      BY <1>1, <2>2
    <3>2. (da \o db)[i] = da[i]
      BY <1>3, <2>2
    <3>3. da[i] = <<a[i]>>
      BY <1>2, <3>1
    <3>4. (a \o b)[i] = a[i]
      BY <1>1, <2>2, <3>1
    <3> QED BY <2>1, <3>2, <3>3, <3>4
  <2>3. CASE ~ (i <= Len(a))
    <3>1. i - Len(a) \in 1..Len(b)
      BY <1>1, <2>3
    <3>2. (da \o db)[i] = db[i - Len(a)]
      BY <1>3, <2>3
    <3>3. db[i - Len(a)] = <<b[i - Len(a)]>>
      BY <1>2, <3>1
    <3>4. (a \o b)[i] = b[i - Len(a)]
      BY <1>1, <2>3
    <3> QED BY <2>1, <3>2, <3>3, <3>4
  <2> QED BY <2>2, <2>3
<1>5. dw = da \o db
  <2>1. Len(dw) = Len(da \o db) /\ Len(dw) = Len(a) + Len(b)
    BY <1>2, <1>3
  <2>2. \A i \in 1..Len(dw) : dw[i] = (da \o db)[i]
    BY <1>4, <2>1
  <2>3. dw \in Seq(Seq(T)) /\ da \o db \in Seq(Seq(T))
    BY <1>2, <1>3 DEF Paths
  <2> QED BY <2>1, <2>2, <2>3, SeqEqual
<1> QED BY <1>5 DEF dw, da, db

LEMMA Piece ==
  ASSUME NEW S, NEW s \in Seq(S), NEW m \in Nat \ {0}, NEW n \in Nat, n <= Len(s)
  PROVE  SubSeq(s, m, n) \in Seq(S)
<1>1. Len(s) \in Nat
  BY LenProperties
<1>2. m \in Int /\ n \in Int /\ \A i \in m..n : i \in 1..Len(s)
  BY <1>1
<1>3. \A i \in m..n : s[i] \in S
  BY <1>2, ElementOfSeq
<1> QED BY <1>2, <1>3, SubSeqProperties

LEMMA SameIsPlain ==
  ASSUME NothingQuoted, NEW spec \in Specs, NEW input \in Inputs
  PROVE  LET ids == Prefix(spec) \o UserTurn(State(spec, input))
         IN  SameIdsPaths(spec, ids) = {PlainPath(spec, ids)}
<1> DEFINE ids == Prefix(spec) \o UserTurn(State(spec, input))
           Forks(x) == {m \in 3..Len(ids) : ids = SubSeq(ids, 1, m) \o TailTurn(spec, x)}
           Of(k, x) == {ForkedPath(spec, <<k, SubSeq(ids, 1, m)>>, x) : m \in Forks(x)}
           Both(x) == UNION {Of(k, x) : k \in {"chat", "context"}}
<1>1. \A x \in Inputs : Forks(x) = {}
  BY DEF NothingQuoted
<1>2. SameIdsPaths(spec, ids) = {PlainPath(spec, ids)} \cup UNION {Both(x) : x \in Inputs}
  BY DEF SameIdsPaths
<1> HIDE DEF Forks
<1>3. \A x \in Inputs : \A k \in {"chat", "context"} : Of(k, x) = {}
  BY <1>1
<1> HIDE DEF Of
<1>4. \A x \in Inputs : Both(x) = {}
  BY <1>3
<1> HIDE DEF Both, ids
<1>5. UNION {Both(x) : x \in Inputs} = {}
  BY <1>4
<1>6. SameIdsPaths(spec, ids) = {PlainPath(spec, ids)}
  BY <1>2, <1>5
<1> QED BY <1>6 DEF ids

LEMMA PlainIs ==
  ASSUME NEW spec \in Specs, NEW rest \in Seq(Tokens)
  PROVE  LET ids == Prefix(spec) \o rest
         IN  /\ ids \in Seq(Tokens)
             /\ PlainPath(spec, ids) = Chunks(Prefix(spec), CHUNK) \o Chunks(rest, CHUNK)
             /\ PlainPath(spec, ids) \in Paths(Tokens)
             /\ FlattenSeq(PlainPath(spec, ids)) = ids
<1> DEFINE pre == Prefix(spec)
           ids == pre \o rest
           a == Chunks(pre, CHUNK)
           b == Chunks(rest, CHUNK)
<1>1. pre \in Seq(Tokens)
  <2>1. Block[spec] \in Seq(Words)
    BY WordsAssumption
  <2> QED BY <2>1, HeadForwarded DEF Prefix
<1>2. PlainPath(spec, ids) = a \o Chunks(SubSeq(ids, Len(pre) + 1, Len(ids)), CHUNK)
  BY DEF PlainPath
<1> HIDE DEF pre
<1>3. ids \in Seq(Tokens) /\ SubSeq(ids, Len(pre) + 1, Len(ids)) = rest
  BY <1>1, Cut, ConcatProperties
<1>4. /\ a \in Paths(Tokens) /\ FlattenSeq(a) = pre
      /\ b \in Paths(Tokens) /\ FlattenSeq(b) = rest
  BY <1>1, CHUNKType, ChunksSpell
<1> HIDE DEF ids
<1>5. PlainPath(spec, ids) = a \o b
  BY <1>2, <1>3
<1> HIDE DEF a, b
<1>6. a \o b \in Paths(Tokens)
  BY <1>4, PathConcat
<1>7. FlattenSeq(a \o b) = FlattenSeq(a) \o FlattenSeq(b)
  <2>1. a \in Seq(Seq(Tokens)) /\ b \in Seq(Seq(Tokens))
    BY <1>4, PathsAreSeqs
  <2> QED BY <2>1, FlatConcat
<1>8. FlattenSeq(a \o b) = ids
  BY <1>4, <1>7 DEF ids
<1> QED BY <1>3, <1>5, <1>6, <1>8 DEF ids, pre, a, b

LEMMA DescriptionIs ==
  ASSUME NEW f \in Fields
  PROVE  /\ Description(f) \in Seq(Tokens) /\ Report \in Seq(Tokens)
         /\ \E rest \in Seq(Tokens) : Report = Description(f) \o rest
<1> DEFINE first == SubSeq(Slots, 1, f)
           more == SubSeq(Slots, f + 1, Len(Slots))
<1>1. Slots \in Seq(Seq(Tokens)) /\ Closing \in Seq(Tokens) /\ Len(Slots) \in Nat /\ f \in 1..Len(Slots)
  <2>1. Seq(Words) \subseteq Seq(Tokens) /\ Words \cup {"end"} \subseteq Tokens
    BY WordsAreTokens DEF Tokens
  <2>2. Slots \in Seq(Seq(Words)) /\ Closing \in Seq(Words \cup {"end"})
    BY WordsAssumption
  <2>3. Slots \in Seq(Seq(Tokens))
    BY <2>1, <2>2, SeqMonotonic
  <2>4. Closing \in Seq(Tokens)
    BY <2>1, <2>2, SeqMonotonic
  <2>5. Len(Slots) \in Nat
    BY <2>2, LenProperties
  <2> QED BY <2>3, <2>4, <2>5 DEF Fields
<1>2. first \in Seq(Seq(Tokens)) /\ more \in Seq(Seq(Tokens))
  <2>1. f \in Nat \ {0} /\ f + 1 \in Nat \ {0} /\ 1 \in Nat \ {0} /\ f <= Len(Slots) /\ Len(Slots) <= Len(Slots)
    BY <1>1
  <2> QED BY <1>1, <2>1, Piece
<1>3. first \o more = Slots
  <2>1. 1 \in 1..Len(Slots) + 1 /\ f \in 1 - 1..Len(Slots) /\ Len(Slots) \in f..Len(Slots)
    BY <1>1
  <2>2. first \o more = SubSeq(Slots, 1, Len(Slots))
    BY <1>1, <2>1, ConcatAdjacentSubSeq
  <2> QED BY <1>1, <2>2, SubSeqFull
<1> HIDE DEF first, more
<1>4. FlattenSeq(Slots) = FlattenSeq(first) \o FlattenSeq(more)
  BY <1>2, <1>3, FlatConcat
<1>5. FlattenSeq(first) \in Seq(Tokens) /\ FlattenSeq(more) \in Seq(Tokens)
  BY <1>2, FlatTyped
<1>6. FlattenSeq(more) \o Closing \in Seq(Tokens)
  BY <1>1, <1>5, ConcatProperties
<1>7. Associated(FlattenSeq(first), FlattenSeq(more), Closing)
  BY <1>1, <1>5, Associative
<1>8. Report = FlattenSeq(first) \o (FlattenSeq(more) \o Closing)
  BY <1>4, <1>7 DEF Report, Associated
<1>9. Description(f) = FlattenSeq(first)
  BY DEF Description, first
<1>10. Report \in Seq(Tokens)
  BY <1>5, <1>6, <1>8, ConcatProperties
<1> QED BY <1>5, <1>6, <1>8, <1>9, <1>10

LEMMA ContinuedFrom ==
  ASSUME NEW f \in Fields, NEW g, g.max \in 1..Len(Report), Len(Description(f)) < g.max
  PROVE  /\ Continued(<<>>, g) = Decoded(Description(f)) \o Continued(Description(f), g)
         /\ Continued(Description(f), g) \in Paths(Tokens)
<1> DEFINE d == Description(f)
           l == Len(d)
           max == g.max
           w == SubSeq(Report, 1, max)
           more == SubSeq(w, l + 1, max - 1)
<1>1. PICK rest \in Seq(Tokens) : Report = d \o rest
  BY DescriptionIs
<1>2. d \in Seq(Tokens) /\ Report \in Seq(Tokens) /\ l \in Nat /\ Len(Report) \in Nat
  BY DescriptionIs, LenProperties
<1>3. max \in Nat \ {0} /\ max <= Len(Report) /\ l < max /\ l <= max - 1 /\ max - 1 \in Nat
  <2> HIDE DEF d, max
  <2>1. max \in 1..Len(Report) /\ l < max
    BY DEF max, d
  <2> HIDE DEF l
  <2> QED BY <1>2, <2>1
<1> HIDE DEF d, max
<1>4. w \in Seq(Tokens) /\ Len(w) = max
  <2>1. max \in 0..Len(Report)
    BY <1>2, <1>3
  <2> QED BY <1>2, <2>1, PrefixOfPath
<1>5. SubSeq(w, 1, l) = d
  <2> DEFINE u == SubSeq(Report, max + 1, Len(Report))
  <2>1. u \in Seq(Tokens)
    <3>1. max + 1 \in Nat \ {0} /\ Len(Report) <= Len(Report)
      BY <1>2, <1>3
    <3> QED BY <1>2, <3>1, Piece
  <2>2. w \o u = Report
    <3>1. 1 \in 1..Len(Report) + 1 /\ max \in 1 - 1..Len(Report) /\ Len(Report) \in max..Len(Report)
      BY <1>2, <1>3
    <3>2. w \o u = SubSeq(Report, 1, Len(Report))
      BY <1>2, <3>1, ConcatAdjacentSubSeq
    <3> QED BY <1>2, <3>2, SubSeqFull
  <2>3. l \in 0..Len(w)
    <3> HIDE DEF l, w
    <3> QED BY <1>2, <1>3, <1>4
  <2> HIDE DEF u, w
  <2>4. SubSeq(w \o u, 1, l) = SubSeq(w, 1, l)
    BY <1>4, <2>1, <2>3, PrefixOfConcat
  <2>5. SubSeq(Report, 1, l) = d
    BY <1>1, <1>2, Cut
  <2> QED BY <2>2, <2>4, <2>5
<1> HIDE DEF w
<1>6. SubSeq(w, 1, max - 1) = d \o more
  <2>1. 1 \in 1..Len(w) + 1 /\ l \in 1 - 1..Len(w) /\ max - 1 \in l..Len(w)
    <3> HIDE DEF l
    <3> QED BY <1>2, <1>3, <1>4
  <2>2. SubSeq(w, 1, l) \o more = SubSeq(w, 1, max - 1)
    BY <1>4, <2>1, ConcatAdjacentSubSeq
  <2> QED BY <1>5, <2>2
<1>7. more \in Seq(Tokens)
  <2>1. l + 1 \in Nat \ {0} /\ max - 1 \in Nat /\ max - 1 <= Len(w)
    <3> HIDE DEF l
    <3> QED BY <1>2, <1>3, <1>4
  <2> QED BY <1>4, <2>1, Piece
<1> HIDE DEF l, more
<1>8. Continued(<<>>, g) = Decoded(SubSeq(w, 1, max - 1))
  <2>1. Len(<<>>) + 1 = 1
    OBVIOUS
  <2> QED BY <1>4, <2>1 DEF Continued, w, max
<1>9. Continued(d, g) = Decoded(more)
  BY <1>4 DEF Continued, w, max, more, l
<1>10. Decoded(d \o more) = Decoded(d) \o Decoded(more)
  BY <1>2, <1>7, DecodedConcat
<1>11. Decoded(more) \in Paths(Tokens)
  BY <1>7, DecodedIs
<1>12. Continued(<<>>, g) = Decoded(d) \o Continued(d, g) /\ Continued(d, g) \in Paths(Tokens)
  BY <1>6, <1>8, <1>9, <1>10, <1>11
<1> QED BY <1>12 DEF d

LEMMA ResumedIs ==
  ASSUME NEW g, g.max \in Nat, Resumed(g) # 0
  PROVE  /\ Resumed(g) \in Fields
         /\ DescribedKey(g.spec, FullIds(g), Resumed(g)) \in DOMAIN states
         /\ Len(Description(Resumed(g))) < g.max
<1> DEFINE held == {f \in Fields : DescribedKey(g.spec, FullIds(g), f) \in DOMAIN states}
           deepest == CHOOSE f \in held : \A e \in held : e <= f
<1>1. Resumed(g) = IF ~ g.warm \/ held = {} \/ Len(Description(deepest)) >= g.max THEN 0 ELSE deepest
  BY DEF Resumed
<1>2. Len(Slots) \in Nat /\ held \in SUBSET (1..Len(Slots))
  BY WordsAssumption, LenProperties DEF Fields
<1>3. held # {} => deepest \in held
  <2> HIDE DEF held
  <2> QED BY <1>2, LargestOf
<1> HIDE DEF deepest, held
<1>4. Resumed(g) = deepest /\ deepest \in held /\ ~ (Len(Description(deepest)) >= g.max)
  BY <1>1, <1>3
<1>5. deepest \in Fields /\ DescribedKey(g.spec, FullIds(g), deepest) \in DOMAIN states
  BY <1>4 DEF held
<1>6. Len(Description(deepest)) \in Nat
  BY <1>5, DescriptionIs, LenProperties
<1>7. Len(Description(deepest)) < g.max
  BY <1>4, <1>6
<1> QED BY <1>4, <1>5, <1>7

LEMMA InvFreshens == ASSUME NothingQuoted PROVE Inv => EscalationsAreFresh
<1> SUFFICES ASSUME Inv, NEW g \in Generations, Resumed(g) # 0
             PROVE  states[DescribedKey(g.spec, FullIds(g), Resumed(g))] \o Continued(Description(Resumed(g)), g)
                      = PlainPath(g.spec, FullIds(g)) \o Continued(<<>>, g)
  BY DEF EscalationsAreFresh
<1> DEFINE f == Resumed(g)
           ids == FullIds(g)
           k == DescribedKey(g.spec, ids, f)
           plain == PlainPath(g.spec, ids)
           d == Decoded(Description(f))
           c == Continued(Description(f), g)
<1>1. PICK input \in Inputs : g.spec \in Specs /\ g.input = State(g.spec, input) /\ g.max \in 1..Len(Report)
  BY DEF Generations
<1>2. g.max \in Nat
  BY <1>1
<1>3. f \in Fields /\ k \in DOMAIN states /\ Len(Description(f)) < g.max
  BY <1>2, ResumedIs
<1>4. ids = Prefix(g.spec) \o UserTurn(State(g.spec, input))
  BY <1>1 DEF FullIds
<1>5. SameIdsPaths(g.spec, ids) = {plain}
  <2> HIDE DEF ids
  <2> QED BY <1>1, <1>4, SameIsPlain DEF ids
<1>6. UserTurn(State(g.spec, input)) \in Seq(Tokens)
  BY <1>1, TextTyped
<1>7. plain \in Paths(Tokens)
  <2> HIDE DEF ids
  <2> QED BY <1>1, <1>4, <1>6, PlainIs DEF ids
<1>8. states[k] = plain \o d
  <2>1. k[1] = "described" /\ k[2] = g.spec /\ k[3] = ids /\ k[4] = f
    BY DEF DescribedKey
  <2> HIDE DEF k, plain, ids, f, d
  <2>2. Cached(k, states[k])
    BY <1>3 DEF Inv, StatesHold
  <2>3. \E prompt \in SameIdsPaths(g.spec, ids) : states[k] = prompt \o Decoded(Description(f))
    BY <2>1, <2>2 DEF Cached
  <2> QED BY <1>5, <2>3 DEF d
<1>9. Continued(<<>>, g) = d \o c /\ c \in Paths(Tokens)
  BY <1>1, <1>3, ContinuedFrom
<1>10. d \in Paths(Tokens)
  BY <1>3, DescriptionIs, DecodedIs
<1> HIDE DEF f, ids, k, plain, d, c
<1>11. Associated(plain, d, c)
  BY <1>7, <1>9, <1>10, Associative DEF Paths
<1>12. states[k] \o c = plain \o Continued(<<>>, g)
  BY <1>8, <1>9, <1>11 DEF Associated
<1> QED BY <1>12 DEF k, c, plain, ids, f

(* A report resumed from any held description forwards the tokens a fresh  *)
(* generation forwards and ends in its state, whatever read left the       *)
(* description, as long as no input quotes a spec's block (generate's      *)
(* resume from the deepest description).                                   *)
THEOREM EscalationsAlwaysFresh ==
  ASSUME NothingQuoted
  PROVE  Spec => []EscalationsAreFresh
<1> QED BY InvAlways, InvFreshens, PTL

LEMMA LongestLast ==
  ASSUME NEW n \in Nat, NEW fits \in SUBSET (1..n), fits # {}, NEW L \in Nat, NEW len \in [fits -> 0..L]
  PROVE  \E i \in fits : \A j \in fits : len[j] < len[i] \/ (len[j] = len[i] /\ j <= i)
<1> DEFINE short == {L - len[i] : i \in fits}
<1>1. \A i \in fits : len[i] \in Nat /\ L - len[i] \in Nat /\ i \in Nat /\ n - i \in Nat
  OBVIOUS
<1>2. PICK a \in fits : \A j \in fits : len[j] <= len[a]
  <2>1. short \in SUBSET Nat /\ short # {}
    <3>1. short \in SUBSET Nat
      BY <1>1
    <3>2. PICK i \in fits : TRUE
      OBVIOUS
    <3>3. L - len[i] \in short
      BY <3>2
    <3> QED BY <3>1, <3>3
  <2>2. PICK s \in short : \A t \in short : s <= t
    <3> HIDE DEF short
    <3> QED BY <2>1, LeastNat
  <2>3. PICK a \in fits : s = L - len[a]
    BY <2>2
  <2>4. ASSUME NEW j \in fits
        PROVE  len[j] <= len[a]
    <3>1. L - len[j] \in short
      OBVIOUS
    <3>2. L - len[a] <= L - len[j]
      BY <2>2, <2>3, <3>1
    <3> HIDE DEF short
    <3>3. len[a] \in Nat /\ len[j] \in Nat
      BY <1>1
    <3> QED BY <3>2, <3>3
  <2> QED BY <2>4
<1> HIDE DEF short
<1> DEFINE ties == {i \in fits : len[i] = len[a]}
           late == {n - i : i \in ties}
<1>3. PICK b \in ties : \A j \in ties : j <= b
  <2>1. late \in SUBSET Nat /\ late # {}
    <3>1. late \in SUBSET Nat
      BY <1>1
    <3>2. n - a \in late
      OBVIOUS
    <3> QED BY <3>1, <3>2
  <2>2. PICK s \in late : \A t \in late : s <= t
    <3> HIDE DEF late
    <3> QED BY <2>1, LeastNat
  <2>3. PICK b \in ties : s = n - b
    BY <2>2
  <2>4. ASSUME NEW j \in ties
        PROVE  j <= b
    <3>1. n - j \in late
      OBVIOUS
    <3>2. n - b <= n - j
      BY <2>2, <2>3, <3>1
    <3> HIDE DEF late
    <3>3. b \in Nat /\ j \in Nat
      BY <1>1
    <3> QED BY <3>2, <3>3
  <2> QED BY <2>4
<1>4. b \in fits /\ len[b] = len[a]
  BY <1>3
<1>5. ASSUME NEW j \in fits
      PROVE  len[j] < len[b] \/ (len[j] = len[b] /\ j <= b)
  <2>1. len[j] <= len[b]
    BY <1>2, <1>4
  <2>2. len[j] \in Nat /\ len[b] \in Nat
    BY <1>1, <1>4
  <2>3. len[j] = len[b] => j <= b
    BY <1>3, <1>4
  <2> HIDE DEF ties, late
  <2>4. len[j] < len[b] \/ len[j] = len[b]
    BY <2>1, <2>2
  <2> QED BY <2>3, <2>4
<1> QED BY <1>4, <1>5

LEMMA LoadedTyped ==
  /\ Len(Loaded) \in Nat
  /\ \A i \in 1..Len(Loaded) : Loaded[i] \in Specs
  /\ \A spec \in Specs : \E i \in 1..Len(Loaded) : Loaded[i] = spec
  /\ \A spec \in Specs : Prefix(spec) \in Seq(Tokens) /\ Len(Prefix(spec)) \in Nat
<1>1. Loaded \in Seq(Specs) /\ Specs = {Loaded[i] : i \in DOMAIN Loaded}
  BY WordsAssumption DEF Specs, Range
<1>2. Len(Loaded) \in Nat /\ DOMAIN Loaded = 1..Len(Loaded)
  BY <1>1, LenProperties
<1>3. \A i \in 1..Len(Loaded) : Loaded[i] \in Specs
  BY <1>1, <1>2
<1>4. \A spec \in Specs : \E i \in 1..Len(Loaded) : Loaded[i] = spec
  BY <1>1, <1>2
<1>5. ASSUME NEW spec \in Specs
      PROVE  Prefix(spec) \in Seq(Tokens) /\ Len(Prefix(spec)) \in Nat
  <2>1. Block[spec] \in Seq(Words)
    BY WordsAssumption
  <2>2. Prefix(spec) \in Seq(Tokens)
    BY <2>1, HeadForwarded DEF Prefix
  <2> QED BY <2>2, LenProperties
<1> QED BY <1>2, <1>3, <1>4, <1>5

Fits(ids) == {i \in 1..Len(Loaded) : IsStrictPrefix(Prefix(Loaded[i]), ids)}

LEMMA BestIs ==
  ASSUME NEW ids \in Seq(Tokens)
  PROVE  IF Fits(ids) = {} THEN BestPrefix(ids, Loaded) = 0
         ELSE /\ BestPrefix(ids, Loaded) \in Fits(ids) /\ BestPrefix(ids, Loaded) # 0
              /\ \A j \in Fits(ids) :
                   Len(Prefix(Loaded[j])) <= Len(Prefix(Loaded[BestPrefix(ids, Loaded)]))
<1> DEFINE Better(i, j) == \/ Len(Prefix(Loaded[j])) < Len(Prefix(Loaded[i]))
                           \/ Len(Prefix(Loaded[j])) = Len(Prefix(Loaded[i])) /\ j <= i
           best == CHOOSE i \in Fits(ids) : \A j \in Fits(ids) : Better(i, j)
           len == [i \in Fits(ids) |-> Len(Prefix(Loaded[i]))]
<1>1. BestPrefix(ids, Loaded) = IF Fits(ids) = {} THEN 0 ELSE best
  BY DEF BestPrefix, Fits
<1>2. Len(ids) \in Nat /\ Len(Loaded) \in Nat /\ Fits(ids) \in SUBSET (1..Len(Loaded))
  BY LenProperties, LoadedTyped DEF Fits
<1>3. \A i \in Fits(ids) : Len(Prefix(Loaded[i])) \in 0..Len(ids)
  <2> SUFFICES ASSUME NEW i \in Fits(ids)
               PROVE  Len(Prefix(Loaded[i])) \in 0..Len(ids)
    OBVIOUS
  <2>1. Len(Prefix(Loaded[i])) \in Nat
    BY LoadedTyped DEF Fits
  <2>2. Len(Prefix(Loaded[i])) <= Len(ids)
    BY DEF Fits, IsStrictPrefix, IsPrefix
  <2> QED BY <1>2, <2>1, <2>2
<1>4. len \in [Fits(ids) -> 0..Len(ids)]
  BY <1>3
<1>5. Fits(ids) # {} => \E i \in Fits(ids) : \A j \in Fits(ids) : len[j] < len[i] \/ (len[j] = len[i] /\ j <= i)
  <2> HIDE DEF len
  <2> QED BY <1>2, <1>4, LongestLast
<1>6. Fits(ids) # {} => \E i \in Fits(ids) : \A j \in Fits(ids) : Better(i, j)
  BY <1>5
<1>7. Fits(ids) # {} => best \in Fits(ids) /\ \A j \in Fits(ids) : Better(best, j)
  <2> HIDE DEF Better
  <2> QED BY <1>6
<1> HIDE DEF best
<1>8. ASSUME Fits(ids) # {}, NEW j \in Fits(ids)
      PROVE  Len(Prefix(Loaded[j])) <= Len(Prefix(Loaded[best]))
  <2>1. Better(best, j) /\ best \in Fits(ids)
    BY <1>7, <1>8
  <2>2. Len(Prefix(Loaded[j])) \in Nat /\ Len(Prefix(Loaded[best])) \in Nat
    BY <1>3, <2>1
  <2> QED BY <2>1, <2>2
<1>9. Fits(ids) # {} => best # 0
  BY <1>2, <1>7
<1> QED BY <1>1, <1>7, <1>8, <1>9

\* What a probe continues from is what its ids begin with.
BaseOfProbe(ids, split) ==
  LET best == BestPrefix(SubSeq(ids, 1, split), Loaded)
  IN  IF best # 0 THEN Prefix(Loaded[best]) ELSE <<>>

LEMMA ProbeBase ==
  ASSUME NEW ids \in Seq(Tokens), NEW split \in 0..Len(ids)
  PROVE  LET pre == BaseOfProbe(ids, split)
             best == BestPrefix(SubSeq(ids, 1, split), Loaded)
         IN  /\ pre \in Seq(Tokens) /\ Len(pre) \in 0..split
             /\ pre = SubSeq(ids, 1, Len(pre))
             /\ best # 0 => Len(pre) < split
<1> DEFINE head == SubSeq(ids, 1, split)
           best == BestPrefix(head, Loaded)
           pre == BaseOfProbe(ids, split)
<1>1. head \in Seq(Tokens) /\ Len(head) = split /\ split \in Nat /\ Len(ids) \in Nat
  <2>1. head \in Seq(Tokens) /\ Len(head) = split
    BY PrefixOfPath
  <2>2. Len(ids) \in Nat
    BY LenProperties
  <2> QED BY <2>1, <2>2
<1>2. \A i \in 0..split : SubSeq(head, 1, i) = SubSeq(ids, 1, i)
  <2> DEFINE more == SubSeq(ids, split + 1, Len(ids))
  <2>1. more \in Seq(Tokens)
    <3>1. split + 1 \in Nat \ {0} /\ Len(ids) <= Len(ids)
      BY <1>1
    <3> QED BY <1>1, <3>1, Piece
  <2>2. head \o more = ids
    <3>1. 1 \in 1..Len(ids) + 1 /\ split \in 1 - 1..Len(ids) /\ Len(ids) \in split..Len(ids)
      BY <1>1
    <3>2. head \o more = SubSeq(ids, 1, Len(ids))
      BY <3>1, ConcatAdjacentSubSeq
    <3> QED BY <3>2, SubSeqFull
  <2> HIDE DEF head, more
  <2> QED BY <1>1, <2>1, <2>2, PrefixOfConcat
<1>3. CASE best = 0
  <2>1. pre = <<>> /\ Len(pre) = 0
    BY <1>3 DEF BaseOfProbe
  <2>2. SubSeq(ids, 1, 0) = <<>> /\ <<>> \in Seq(Tokens)
    BY SubSeqEmpty
  <2> HIDE DEF pre
  <2> QED BY <1>1, <1>3, <2>1, <2>2 DEF pre
<1>4. CASE best # 0
  <2>1. best \in Fits(head)
    <3> HIDE DEF head
    <3> QED BY <1>1, <1>4, BestIs
  <2>2. pre = Prefix(Loaded[best]) /\ IsStrictPrefix(pre, head)
    BY <1>4, <2>1 DEF BaseOfProbe, Fits
  <2>3. pre \in Seq(Tokens) /\ Len(pre) \in Nat
    BY <2>1, <2>2, LoadedTyped DEF Fits
  <2> HIDE DEF pre, head, best
  <2>4. Len(pre) <= Len(head) /\ SubSeq(pre, 1, Len(pre)) = SubSeq(head, 1, Len(pre)) /\ pre # head
    BY <2>2 DEF IsStrictPrefix, IsPrefix
  <2>5. SubSeq(pre, 1, Len(pre)) = pre /\ SubSeq(head, 1, Len(head)) = head
    BY <1>1, <2>3, SubSeqFull
  <2>6. Len(pre) # Len(head)
    BY <2>4, <2>5
  <2>7. Len(pre) \in 0..split /\ Len(pre) < split
    BY <1>1, <2>3, <2>4, <2>6
  <2>8. pre = SubSeq(ids, 1, Len(pre))
    BY <1>2, <2>4, <2>5, <2>7
  <2> QED BY <2>3, <2>7, <2>8 DEF pre
<1> QED BY <1>3, <1>4

LEMMA ProbeSpells ==
  ASSUME NEW ids \in Seq(Tokens), NEW split \in 0..Len(ids)
  PROVE  Spells(ProbePath(ids, split, TRUE), ids)
<1> DEFINE pre == BaseOfProbe(ids, split)
           bulk == SubSeq(ids, Len(pre) + 1, split)
           rest == SubSeq(ids, split + 1, Len(ids))
           a == Chunks(pre, CHUNK)
           b == Chunks(bulk, CHUNK)
           c == Decoded(rest)
<1>1. ProbePath(ids, split, TRUE) = a \o b \o c
  BY DEF ProbePath, BaseOfProbe
<1>2. /\ pre \in Seq(Tokens) /\ Len(pre) \in 0..split /\ pre = SubSeq(ids, 1, Len(pre))
      /\ Len(ids) \in Nat /\ split \in Nat /\ Len(pre) \in Nat
  <2>1. Len(ids) \in Nat
    BY LenProperties
  <2> HIDE DEF pre
  <2> QED BY <2>1, ProbeBase DEF pre
<1> HIDE DEF pre
<1>3. bulk \in Seq(Tokens) /\ rest \in Seq(Tokens)
  <2>1. Len(pre) + 1 \in Nat \ {0} /\ split <= Len(ids) /\ split + 1 \in Nat \ {0} /\ Len(ids) <= Len(ids)
    BY <1>2
  <2>2. bulk \in Seq(Tokens)
    BY <1>2, <2>1, Piece
  <2>3. rest \in Seq(Tokens)
    BY <1>2, <2>1, Piece
  <2> QED BY <2>2, <2>3
<1>4. pre \o bulk = SubSeq(ids, 1, split)
  <2>1. 1 \in 1..Len(ids) + 1 /\ Len(pre) \in 1 - 1..Len(ids) /\ split \in Len(pre)..Len(ids)
    BY <1>2
  <2>2. SubSeq(ids, 1, Len(pre)) \o bulk = SubSeq(ids, 1, split)
    BY <2>1, ConcatAdjacentSubSeq
  <2> HIDE DEF bulk
  <2> QED BY <1>2, <2>2
<1>5. SubSeq(ids, 1, split) \o rest = ids
  <2>1. 1 \in 1..Len(ids) + 1 /\ split \in 1 - 1..Len(ids) /\ Len(ids) \in split..Len(ids)
    BY <1>2
  <2>2. SubSeq(ids, 1, split) \o rest = SubSeq(ids, 1, Len(ids))
    BY <2>1, ConcatAdjacentSubSeq
  <2> QED BY <2>2, SubSeqFull
<1> HIDE DEF bulk, rest
<1>6. /\ a \in Seq(Seq(Tokens)) /\ FlattenSeq(a) = pre
      /\ b \in Seq(Seq(Tokens)) /\ FlattenSeq(b) = bulk
      /\ c \in Seq(Seq(Tokens)) /\ FlattenSeq(c) = rest
  <2>1. a \in Paths(Tokens) /\ FlattenSeq(a) = pre
    BY <1>2, CHUNKType, ChunksSpell
  <2>2. b \in Paths(Tokens) /\ FlattenSeq(b) = bulk
    BY <1>3, CHUNKType, ChunksSpell
  <2>3. c \in Paths(Tokens) /\ FlattenSeq(c) = rest
    BY <1>3, DecodedIs
  <2> HIDE DEF a, b, c
  <2> QED BY <2>1, <2>2, <2>3, PathsAreSeqs
<1> HIDE DEF a, b, c
<1>7. a \o b \in Seq(Seq(Tokens))
  BY <1>6, ConcatProperties
<1>8. FlattenSeq(a \o b) = pre \o bulk
  BY <1>6, FlatConcat
<1> DEFINE ab == a \o b
<1>9. ab \in Seq(Seq(Tokens)) /\ FlattenSeq(ab) = pre \o bulk
  BY <1>7, <1>8
<1> HIDE DEF ab
<1>10. FlattenSeq(ab \o c) = FlattenSeq(ab) \o FlattenSeq(c)
  BY <1>6, <1>9, FlatConcat
<1>11. FlattenSeq(ab \o c) = ids
  BY <1>4, <1>5, <1>6, <1>9, <1>10
<1> QED BY <1>1, <1>11 DEF Spells, ab

\* A head is the first token alone, or ends at its only end of a turn.
HeadShape(p) ==
  /\ p \in Seq(Tokens)
  /\ \/ p = <<"bos">>
     \/ /\ Len(p) >= 5 /\ p[3] = "system" /\ p[Len(p) - 1] = "end"
        /\ \A i \in 1..Len(p) - 2 : p[i] # "end"

LEMMA HeadIs ==
  ASSUME NEW spec \in Specs
  PROVE  HeadShape(Prefix(spec))
<1> DEFINE b == Block[spec]
           p == Prefix(spec)
           x == <<"bos", "start", "system">>
           y == <<"end", "nl">>
<1>1. b \in Seq(Words) /\ b \in Seq(Tokens) /\ p \in Seq(Tokens)
  <2>1. b \in Seq(Words)
    BY WordsAssumption
  <2> QED BY <2>1, WordsAreTokens, LoadedTyped
<1>2. p = IF b = <<>> THEN <<"bos">> ELSE x \o b \o y
  BY DEF Prefix, RenderHead
<1>3. x \in Seq(Tokens) /\ y \in Seq(Tokens) /\ Len(x) = 3 /\ Len(y) = 2 /\ x[3] = "system" /\ y[1] = "end"
      /\ \A i \in 1..3 : x[i] # "end"
  BY DEF Tokens
<1>4. \A i \in 1..Len(b) : b[i] # "end"
  BY <1>1, ElementOfSeq, WordsAssumption
<1>5. b # <<>> => Len(b) \in Nat \ {0}
  BY <1>1, EmptySeq
<1> HIDE DEF b, p, x, y
<1>6. CASE b = <<>>
  BY <1>1, <1>2, <1>6 DEF HeadShape, p
<1>7. CASE b # <<>>
  <2>1. IsWrapped(p, x, b, y)
    <3>1. IsWrapped(x \o b \o y, x, b, y)
      BY <1>1, <1>3, Wrapped
    <3> QED BY <1>2, <1>7, <3>1
  <2> DEFINE n == Len(b)
  <2>2. n \in Nat \ {0}
    BY <1>5, <1>7
  <2>3. Len(p) = n + 5 /\ p[3] = x[3] /\ p[3 + n + 1] = y[1]
    <3>1. Len(p) = Len(x) + n + Len(y)
      BY <2>1 DEF IsWrapped
    <3>2. p[3] = x[3]
      <4>1. 3 \in 1..Len(x)
        BY <1>3
      <4> QED BY <2>1, <4>1 DEF IsWrapped
    <3>3. p[Len(x) + n + 1] = y[1]
      <4>1. 1 \in 1..Len(y)
        BY <1>3
      <4> QED BY <2>1, <4>1 DEF IsWrapped
    <3> HIDE DEF n
    <3> QED BY <1>3, <2>2, <3>1, <3>2, <3>3
  <2>4. ASSUME NEW i \in 1..Len(p) - 2
        PROVE  p[i] # "end"
    <3>1. CASE i <= 3
      <4>1. i \in 1..Len(x) /\ i \in 1..3
        BY <1>3, <3>1
      <4>2. p[i] = x[i]
        BY <2>1, <4>1 DEF IsWrapped
      <4> QED BY <1>3, <4>1, <4>2
    <3>2. CASE ~ (i <= 3)
      <4>1. i - 3 \in 1..n /\ i = 3 + (i - 3)
        <5> HIDE DEF n
        <5> QED BY <2>2, <2>3, <3>2
      <4>2. PICK k \in 1..n : i = Len(x) + k
        <5> HIDE DEF n
        <5> QED BY <1>3, <4>1
      <4>3. p[Len(x) + k] = b[k]
        BY <2>1 DEF IsWrapped
      <4> QED BY <1>4, <4>2, <4>3
    <3> QED BY <3>1, <3>2
  <2> HIDE DEF n
  <2>5. Len(p) >= 5 /\ Len(p) - 1 = 3 + n + 1
    BY <2>2, <2>3
  <2> QED BY <1>1, <1>3, <2>3, <2>4, <2>5 DEF HeadShape, p
<1> QED BY <1>6, <1>7

LEMMA HeadsAgree ==
  ASSUME NEW p, NEW q, NEW u \in Seq(Tokens), HeadShape(p), HeadShape(q),
         Len(u) >= 2, u[2] = "user",
         Len(q) <= Len(p \o u), q = SubSeq(p \o u, 1, Len(q)), Len(p) <= Len(q)
  PROVE  q = p
<1> DEFINE w == p \o u
<1>1. p \in Seq(Tokens) /\ q \in Seq(Tokens)
  BY DEF HeadShape
<1>2. /\ Len(p) \in Nat /\ Len(q) \in Nat /\ Len(u) \in Nat /\ w \in Seq(Tokens) /\ Len(w) = Len(p) + Len(u)
      /\ \A i \in 1..Len(p) + Len(u) : w[i] = IF i <= Len(p) THEN p[i] ELSE u[i - Len(p)]
  BY <1>1, ConcatProperties, LenProperties
<1>3. \A i \in 1..Len(q) : q[i] = w[i]
  <2>1. Len(q) \in 0..Len(w)
    BY <1>2
  <2>2. \A i \in 1..Len(q) : SubSeq(w, 1, Len(q))[i] = w[i]
    BY <1>2, <2>1, PrefixOfPath
  <2> QED BY <2>2
<1>4. q = SubSeq(w, 1, Len(q))
  OBVIOUS
<1> HIDE DEF w
<1>5. Len(p) = Len(q)
  <2>1. CASE q = <<"bos">>
    <3>1. Len(q) = 1
      BY <2>1
    <3>2. Len(p) = 1 \/ Len(p) >= 5
      BY DEF HeadShape
    <3> QED BY <1>2, <3>1, <3>2
  <2>2. CASE p = <<"bos">> /\ Len(q) >= 5 /\ q[3] = "system"
    <3>1. Len(p) = 1
      BY <2>2
    <3>2. 3 \in 1..Len(q) /\ 3 \in 1..Len(p) + Len(u) /\ ~ (3 <= Len(p)) /\ 3 - Len(p) = 2
      BY <1>2, <2>2, <3>1
    <3>3. w[3] = u[2]
      BY <1>2, <3>2
    <3>4. q[3] = "user"
      BY <1>3, <3>2, <3>3
    <3> QED BY <2>2, <3>4
  <2>3. CASE /\ Len(p) >= 5 /\ p[Len(p) - 1] = "end"
             /\ Len(q) >= 5 /\ \A i \in 1..Len(q) - 2 : q[i] # "end"
    <3> DEFINE k == Len(p) - 1
    <3>1. k \in 1..Len(q) /\ k \in 1..Len(p) + Len(u) /\ k <= Len(p)
      BY <1>2, <2>3
    <3>2. q[k] = w[k] /\ w[k] = p[k]
      BY <1>2, <1>3, <3>1
    <3>3. ~ (k \in 1..Len(q) - 2)
      BY <2>3, <3>2
    <3> QED BY <1>2, <3>1, <3>3
  <2> QED BY <2>1, <2>2, <2>3 DEF HeadShape
<1>6. SubSeq(p \o u, 1, Len(p)) = p
  BY <1>1, Cut
<1> QED BY <1>5, <1>6

LEMMA UserTurnIs ==
  ASSUME NEW spec \in Specs, NEW input \in Inputs
  PROVE  LET u == UserTurn(State(spec, input))
         IN  u \in Seq(Tokens) /\ Len(u) \in Nat /\ Len(u) >= 2 /\ u[2] = "user"
<1> DEFINE s == State(spec, input)
           u == UserTurn(s)
           x == <<"start", "user">>
           y == <<"end", "nl">>
<1>1. s \in Seq(Tokens)
  <2>1. Label[spec] \in Seq(Words) /\ input \in Seq(Words)
    BY WordsAssumption
  <2>2. Label[spec] \in Seq(Tokens) /\ input \in Seq(Tokens)
    BY <2>1, WordsAreTokens
  <2> QED BY <2>2, ConcatProperties DEF State
<1>2. u = x \o s \o y \o Opening
  BY DEF UserTurn, Rendered
<1>3. x \in Seq(Tokens) /\ y \in Seq(Tokens) /\ Opening \in Seq(Tokens) /\ Len(x) = 2 /\ Len(y) = 2 /\ x[2] = "user"
  BY ReplyIs DEF Tokens
<1> HIDE DEF x, y, s
<1>4. x \o s \in Seq(Tokens)
  BY <1>1, <1>3, ConcatProperties
<1> DEFINE xs == x \o s
           w == xs \o y \o Opening
<1>5. Len(xs) = 2 + Len(s) /\ Len(s) \in Nat /\ xs[2] = "user"
  <2>1. Len(xs) = Len(x) + Len(s) /\ Len(s) \in Nat
    BY <1>1, <1>3, ConcatProperties, LenProperties
  <2>2. \A i \in 1..Len(x) + Len(s) : xs[i] = IF i <= Len(x) THEN x[i] ELSE s[i - Len(x)]
    BY <1>1, <1>3, ConcatProperties
  <2>3. 2 \in 1..Len(x) + Len(s) /\ 2 <= Len(x)
    BY <1>3, <2>1
  <2> HIDE DEF xs
  <2> QED BY <1>3, <2>1, <2>2, <2>3
<1>6. xs \in Seq(Tokens)
  BY <1>4
<1> HIDE DEF xs
<1>7. w \in Seq(Tokens) /\ IsWrapped(w, xs, y, Opening)
  BY <1>3, <1>6, Wrapped
<1>8. Len(w) \in Nat /\ Len(w) = Len(xs) + Len(y) + Len(Opening) /\ Len(y) \in Nat /\ Len(Opening) \in Nat
  <2>1. Len(w) \in Nat /\ Len(y) \in Nat /\ Len(Opening) \in Nat
    BY <1>3, <1>7, LenProperties
  <2> QED BY <1>7, <2>1 DEF IsWrapped
<1>9. w[2] = xs[2]
  <2>1. 2 \in 1..Len(xs)
    BY <1>5
  <2> QED BY <1>7, <2>1 DEF IsWrapped
<1> HIDE DEF w
<1>10. Len(w) >= 2
  BY <1>5, <1>8
<1>11. u = w
  BY <1>2 DEF w, xs
<1> QED BY <1>5, <1>7, <1>8, <1>9, <1>10, <1>11 DEF s

LEMMA ReadReplayed ==
  ASSUME NothingQuoted, Inv, NEW r \in AdmittedReads, r.context = Nowhere, r.warm, NEW f \in r.asked
  PROVE  ProbePath(ReadIds(r) \o Description(f), Len(ReadIds(r)), TRUE) = SlotPaths(r)[f]
<1> DEFINE spec == r.spec
           p == Prefix(spec)
           u == UserTurn(State(spec, r.input))
           ids == ReadIds(r)
           d == Description(f)
           w == ids \o d
           best == BestPrefix(SubSeq(w, 1, Len(ids)), Loaded)
           q == Prefix(Loaded[best])
           plain == PlainPath(spec, ids)
<1>1. r \in Reads /\ spec \in Specs /\ r.input \in Inputs /\ f \in Fields
  <2>1. r \in Reads
    BY DEF AdmittedReads
  <2> QED BY <2>1, ReadsAre
<1>2. ids = p \o u
  BY DEF ReadIds
<1>3. /\ p \in Seq(Tokens) /\ Len(p) \in Nat /\ HeadShape(p)
      /\ u \in Seq(Tokens) /\ Len(u) \in Nat /\ Len(u) >= 2 /\ u[2] = "user"
      /\ d \in Seq(Tokens)
  <2>1. p \in Seq(Tokens) /\ Len(p) \in Nat /\ HeadShape(p)
    BY <1>1, LoadedTyped, HeadIs
  <2>2. u \in Seq(Tokens) /\ Len(u) \in Nat /\ Len(u) >= 2 /\ u[2] = "user"
    BY <1>1, UserTurnIs
  <2>3. d \in Seq(Tokens)
    BY <1>1, DescriptionIs
  <2> HIDE DEF p, u, d
  <2> QED BY <2>1, <2>2, <2>3
<1>4. SlotPaths(r)[f] = plain \o Decoded(d)
  <2>1. \E prompt \in IF DescribedHit(r) THEN SameIdsPaths(spec, ids) ELSE {OwnPath(r)} :
          SlotPaths(r)[f] = prompt \o Decoded(d)
    BY InvFixesReads DEF ReadsDoNotDependOnCaches
  <2>2. SameIdsPaths(spec, ids) = {plain}
    <3>1. SameIdsPaths(spec, p \o u) = {PlainPath(spec, p \o u)}
      BY <1>1, SameIsPlain
    <3> HIDE DEF ids, p, u
    <3> QED BY <1>2, <3>1
  <2>3. OwnPath(r) = plain
    BY DEF OwnPath
  <2> HIDE DEF plain, ids, d, spec
  <2> QED BY <2>1, <2>2, <2>3
<1>5. ProbePath(w, Len(ids), TRUE) =
        Chunks(IF best # 0 THEN q ELSE <<>>, CHUNK)
          \o Chunks(SubSeq(w, Len(IF best # 0 THEN q ELSE <<>>) + 1, Len(ids)), CHUNK)
          \o Decoded(SubSeq(w, Len(ids) + 1, Len(w)))
  BY DEF ProbePath
<1> HIDE DEF p, u, d, ids, spec
<1>6. ids \in Seq(Tokens) /\ Len(ids) = Len(p) + Len(u) /\ Len(ids) \in Nat /\ Len(ids) > Len(p)
  <2>1. ids \in Seq(Tokens) /\ Len(ids) = Len(p) + Len(u)
    BY <1>2, <1>3, ConcatProperties
  <2> QED BY <1>3, <2>1
<1>7. SubSeq(w, 1, Len(ids)) = ids /\ SubSeq(w, Len(ids) + 1, Len(w)) = d
  BY <1>3, <1>6, Cut
<1>8. best # 0 /\ q = p
  <2>1. best = BestPrefix(ids, Loaded)
    BY <1>7
  <2> HIDE DEF best, w
  <2>2. PICK i \in 1..Len(Loaded) : Loaded[i] = spec
    BY <1>1, LoadedTyped
  <2>3. IsStrictPrefix(p, ids)
    <3>1. SubSeq(ids, 1, Len(p)) = p /\ SubSeq(p, 1, Len(p)) = p
      BY <1>2, <1>3, Cut, SubSeqFull
    <3>2. Len(p) <= Len(ids) /\ p # ids
      BY <1>3, <1>6
    <3> QED BY <3>1, <3>2 DEF IsStrictPrefix, IsPrefix
  <2>4. i \in Fits(ids) /\ Prefix(Loaded[i]) = p
    BY <2>2, <2>3 DEF Fits, p
  <2>5. best # 0 /\ best \in Fits(ids) /\ Len(Prefix(Loaded[i])) <= Len(Prefix(Loaded[best]))
    BY <1>6, <2>1, <2>4, BestIs
  <2>6. Loaded[best] \in Specs /\ IsStrictPrefix(q, ids)
    BY <2>5, LoadedTyped DEF Fits
  <2>7. HeadShape(q) /\ q \in Seq(Tokens)
    BY <2>6, HeadIs DEF HeadShape
  <2>8. Len(p) <= Len(q)
    BY <2>4, <2>5
  <2> HIDE DEF q
  <2>9. Len(q) <= Len(ids) /\ SubSeq(q, 1, Len(q)) = SubSeq(ids, 1, Len(q))
    BY <2>6 DEF IsStrictPrefix, IsPrefix
  <2>10. q = SubSeq(ids, 1, Len(q))
    BY <2>7, <2>9, SubSeqFull
  <2>11. Len(q) <= Len(p \o u) /\ q = SubSeq(p \o u, 1, Len(q))
    BY <1>2, <2>9, <2>10
  <2>12. q = p
    BY <1>3, <2>7, <2>8, <2>11, HeadsAgree
  <2> QED BY <2>5, <2>12
<1>9. SubSeq(w, Len(p) + 1, Len(ids)) = SubSeq(ids, Len(p) + 1, Len(ids))
  <2>1. Len(p) + 1 \in 1..Len(ids) /\ Len(ids) \in 1..Len(ids)
    BY <1>3, <1>6
  <2> QED BY <1>3, <1>6, <2>1, SubSeqOfConcat1
<1> HIDE DEF best, q, w
<1>10. ProbePath(w, Len(ids), TRUE) =
         Chunks(p, CHUNK) \o Chunks(SubSeq(ids, Len(p) + 1, Len(ids)), CHUNK) \o Decoded(d)
  BY <1>5, <1>7, <1>8, <1>9
<1>11. plain = Chunks(p, CHUNK) \o Chunks(SubSeq(ids, Len(p) + 1, Len(ids)), CHUNK)
  BY DEF PlainPath, p
<1>12. ProbePath(w, Len(ids), TRUE) = SlotPaths(r)[f]
  BY <1>4, <1>10, <1>11
<1> QED BY <1>12 DEF w, ids, d

-----------------------------------------------------------------------------
(* What is cached under a spec is at least its prefix long.                *)

Filled(path, spec) == path \in Paths(Tokens) /\ Len(Prefix(spec)) <= Len(FlattenSeq(path))

StatesFilled(held) == \A k \in DOMAIN held : k[2] \in Specs /\ Filled(held[k], k[2])
JobFilled(j) == j.op = "generate" /\ j.puts => j.spec \in Specs /\ Filled(j.path, j.spec)
Whole == StatesFilled(states) /\ JobFilled(job)

LEMMA PutFills ==
  ASSUME NEW store, NEW new, NEW cap, NEW kept \in Fitting(Put(store, new), cap),
         StatesFilled(store), StatesFilled(new)
  PROVE  StatesFilled(kept)
<1> SUFFICES ASSUME NEW k \in DOMAIN kept
             PROVE  k[2] \in Specs /\ Filled(kept[k], k[2])
  BY DEF StatesFilled
<1>1. k \in DOMAIN Put(store, new) /\ kept[k] = Put(store, new)[k]
  BY FittingIs
<1>2. \/ k \in DOMAIN new /\ Put(store, new)[k] = new[k]
      \/ k \in DOMAIN store /\ Put(store, new)[k] = store[k]
  BY <1>1, PutIs
<1> QED BY <1>1, <1>2 DEF StatesFilled

LEMMA ForgottenFilled ==
  ASSUME NEW gone, StatesFilled(states)
  PROVE  StatesFilled(Forgotten(gone))
<1> DEFINE keep == {k \in DOMAIN states : ~(k[1] = "tail" /\ k[3] \in gone)}
<1>1. Forgotten(gone) = [k \in keep |-> states[k]] /\ keep \subseteq DOMAIN states
  BY DEF Forgotten
<1> HIDE DEF keep
<1> QED BY <1>1 DEF StatesFilled

LEMMA FilledLonger ==
  ASSUME NEW path, NEW spec, NEW more \in Paths(Tokens), Filled(path, spec), spec \in Specs
  PROVE  Filled(path \o more, spec)
<1>1. path \in Paths(Tokens) /\ path \in Seq(Seq(Tokens)) /\ more \in Seq(Seq(Tokens))
  BY PathsAreSeqs DEF Filled
<1>2. path \o more \in Paths(Tokens)
  BY <1>1, PathConcat
<1>3. FlattenSeq(path \o more) = FlattenSeq(path) \o FlattenSeq(more)
  BY <1>1, FlatConcat
<1>4. FlattenSeq(path) \in Seq(Tokens) /\ FlattenSeq(more) \in Seq(Tokens)
  BY <1>1, FlatTyped
<1> DEFINE a == FlattenSeq(path)
           b == FlattenSeq(more)
<1>5. Len(a \o b) = Len(a) + Len(b) /\ Len(a) \in Nat /\ Len(b) \in Nat
  <2> HIDE DEF a, b
  <2>1. a \in Seq(Tokens) /\ b \in Seq(Tokens)
    BY <1>4 DEF a, b
  <2> QED BY <2>1, ConcatProperties, LenProperties
<1>6. Len(Prefix(spec)) <= Len(a) /\ Len(Prefix(spec)) \in Nat
  BY LoadedTyped DEF Filled
<1> HIDE DEF a, b
<1>7. Len(Prefix(spec)) <= Len(a \o b)
  BY <1>5, <1>6
<1>8. FlattenSeq(path \o more) = a \o b
  BY <1>3 DEF a, b
<1> QED BY <1>2, <1>7, <1>8 DEF Filled

LEMMA PlainFilled ==
  ASSUME NEW spec \in Specs, NEW rest \in Seq(Tokens)
  PROVE  Filled(PlainPath(spec, Prefix(spec) \o rest), spec)
<1> DEFINE p == Prefix(spec)
           ids == p \o rest
<1>1. PlainPath(spec, ids) \in Paths(Tokens) /\ FlattenSeq(PlainPath(spec, ids)) = ids
  BY PlainIs
<1>2. p \in Seq(Tokens) /\ Len(p) \in Nat
  BY LoadedTyped
<1> HIDE DEF p
<1>3. Len(ids) = Len(p) + Len(rest) /\ Len(rest) \in Nat
  BY <1>2, ConcatProperties, LenProperties
<1> HIDE DEF ids
<1>4. Len(p) <= Len(ids)
  BY <1>2, <1>3
<1>5. Filled(PlainPath(spec, ids), spec)
  BY <1>1, <1>4 DEF Filled, p
<1> QED BY <1>5 DEF ids, p

LEMMA TailFilled ==
  ASSUME NEW id \in DOMAIN chats, NEW spec \in Specs, ChatsHold(chats)
  PROVE  Filled(Scratch(id[1], id[2]) \o Chunks(TailHead(spec), CHUNK), spec)
<1> DEFINE a == Scratch(id[1], id[2])
           h == TailHead(spec)
           b == Chunks(h, CHUNK)
           p == Prefix(spec)
<1>1. /\ a \in Paths(Tokens) /\ FlattenSeq(a) = id[2]
      /\ id[2] \in Seq(Tokens) /\ Len(id[2]) \in Nat /\ Len(id[2]) >= 3
  <2>1. Checkpoint(id, chats[id])
    BY DEF ChatsHold
  <2>2. chats[id] \in Paths(Tokens) /\ FlattenSeq(chats[id]) = id[2]
    BY <2>1 DEF Checkpoint, Canonical
  <2> QED BY <2>2, HeldCheckpoint
<1>2. h \in Seq(Tokens) /\ Len(h) = Len(Block[spec]) + 3 /\ Len(Block[spec]) \in Nat
  <2> DEFINE x == <<"start", "user">>
             y == <<"gap">>
             t == Block[spec]
  <2>1. t \in Seq(Tokens) /\ x \in Seq(Tokens) /\ y \in Seq(Tokens) /\ Len(x) = 2 /\ Len(y) = 1
    <3>1. t \in Seq(Words)
      BY WordsAssumption
    <3>2. t \in Seq(Tokens)
      BY <3>1, WordsAreTokens
    <3> HIDE DEF t
    <3> QED BY <3>2 DEF Tokens
  <2>2. h = x \o t \o y
    BY DEF TailHead
  <2> HIDE DEF x, y, t, h
  <2>3. h \in Seq(Tokens) /\ IsWrapped(h, x, t, y)
    BY <2>1, <2>2, Wrapped
  <2>4. Len(h) = Len(x) + Len(t) + Len(y) /\ Len(t) \in Nat
    BY <2>1, <2>3, LenProperties DEF IsWrapped
  <2>5. Len(h) = Len(t) + 3 /\ Len(t) \in Nat
    BY <2>1, <2>4
  <2> QED BY <2>3, <2>5 DEF t
<1>3. Len(p) <= Len(Block[spec]) + 5 /\ Len(p) \in Nat
  <2> DEFINE x == <<"bos", "start", "system">>
             y == <<"end", "nl">>
             t == Block[spec]
  <2>1. t \in Seq(Tokens) /\ x \in Seq(Tokens) /\ y \in Seq(Tokens) /\ Len(x) = 3 /\ Len(y) = 2
    <3>1. t \in Seq(Words)
      BY WordsAssumption
    <3>2. t \in Seq(Tokens)
      BY <3>1, WordsAreTokens
    <3> HIDE DEF t
    <3> QED BY <3>2 DEF Tokens
  <2>2. p = IF t = <<>> THEN <<"bos">> ELSE x \o t \o y
    BY DEF Prefix, RenderHead
  <2> HIDE DEF x, y, t, p
  <2>3. Len(x \o t \o y) = Len(x) + Len(t) + Len(y) /\ Len(t) \in Nat
    <3>1. IsWrapped(x \o t \o y, x, t, y)
      BY <2>1, Wrapped
    <3> QED BY <2>1, <3>1, LenProperties DEF IsWrapped
  <2>4. Len(<<"bos">>) = 1
    OBVIOUS
  <2>5. Len(p) = 1 \/ Len(p) = Len(t) + 5
    BY <2>1, <2>2, <2>3, <2>4
  <2> DEFINE l == Len(p)
             m == Len(t)
  <2>7. (l = 1 \/ l = m + 5) /\ m \in Nat
    BY <2>3, <2>5
  <2> HIDE DEF l, m
  <2>8. l <= m + 5 /\ l \in Nat
    BY <2>7
  <2>6. Len(p) <= Len(t) + 5 /\ Len(p) \in Nat
    BY <2>8 DEF l, m
  <2> QED BY <2>6 DEF t
<1> HIDE DEF a, h, p
<1>4. b \in Paths(Tokens) /\ FlattenSeq(b) = h
  BY <1>2, CHUNKType, ChunksSpell
<1> HIDE DEF b
<1>5. a \o b \in Paths(Tokens)
  BY <1>1, <1>4, PathConcat
<1>6. FlattenSeq(a \o b) = id[2] \o h
  <2>1. a \in Seq(Seq(Tokens)) /\ b \in Seq(Seq(Tokens))
    BY <1>1, <1>4, PathsAreSeqs
  <2>2. FlattenSeq(a \o b) = FlattenSeq(a) \o FlattenSeq(b)
    BY <2>1, FlatConcat
  <2> QED BY <1>1, <1>4, <2>2
<1>7. Len(id[2] \o h) = Len(id[2]) + Len(h)
  BY <1>1, <1>2, ConcatProperties
<1>8. Len(p) <= Len(id[2] \o h)
  <2> DEFINE l == Len(p)
             m == Len(Block[spec])
             n == Len(id[2])
  <2>1. l <= m + 5 /\ l \in Nat /\ m \in Nat /\ n \in Nat /\ n >= 3
    BY <1>1, <1>2, <1>3
  <2>2. Len(id[2] \o h) = n + (m + 3)
    BY <1>2, <1>7
  <2> HIDE DEF l, m, n
  <2>3. l <= n + (m + 3)
    BY <2>1
  <2> QED BY <2>2, <2>3 DEF l
<1> QED BY <1>5, <1>6, <1>8 DEF Filled, a, b, h, p

LEMMA OwnFilled ==
  ASSUME NEW r \in Reads, r.warm, ChatsHold(chats)
  PROVE  Filled(OwnPath(r), r.spec)
<1>1. r.spec \in Specs /\ r.input \in Inputs /\ r.context \in DOMAIN chats \cup {Nowhere}
  BY ReadsAre
<1>2. CASE r.context = Nowhere
  <2>1. OwnPath(r) = PlainPath(r.spec, Prefix(r.spec) \o UserTurn(State(r.spec, r.input)))
    BY <1>2 DEF OwnPath, ReadIds
  <2>2. UserTurn(State(r.spec, r.input)) \in Seq(Tokens)
    BY <1>1, UserTurnIs
  <2>3. Filled(PlainPath(r.spec, Prefix(r.spec) \o UserTurn(State(r.spec, r.input))), r.spec)
    BY <1>1, <2>2, PlainFilled
  <2> QED BY <2>1, <2>3
<1>3. CASE r.context # Nowhere
  <2> DEFINE base == Scratch(r.context[1], r.context[2]) \o Chunks(TailHead(r.spec), CHUNK)
             rest == Chunks(RestOf(r), CHUNK)
  <2>1. OwnPath(r) = base \o rest
    BY <1>3 DEF OwnPath, ForkedPath, RestOf
  <2>2. Filled(base, r.spec)
    BY <1>1, <1>3, TailFilled
  <2>3. rest \in Paths(Tokens)
    BY RestTyped, CHUNKType, ChunksSpell
  <2> HIDE DEF base, rest
  <2>4. Filled(base \o rest, r.spec)
    BY <1>1, <2>2, <2>3, FilledLonger
  <2> QED BY <2>1, <2>4
<1> QED BY <1>2, <1>3

LEMMA ReadPutsFill ==
  ASSUME NEW r \in Reads, r.warm, ~ DescribedHit(r), ChatsHold(chats), StatesHold(states)
  PROVE  StatesFilled(ReadPuts(r))
<1> DEFINE ids == ReadIds(r)
           prompt == IF r.context = Nowhere THEN ReadyKey(r.spec, ids) ELSE TailKey(r.spec, r.context)
           first == IF r.context = Nowhere THEN PromptPath(r) ELSE TailOf(r)
           keys == {prompt} \cup {DescribedKey(r.spec, ids, f) : f \in r.asked}
           Fine(k, path) == k[2] \in Specs /\ Filled(path, k[2])
<1>1. ReadPuts(r) = [k \in keys |-> IF k # prompt THEN SlotPaths(r)[k[4]] ELSE first]
  BY DEF ReadPuts
<1>2. /\ PromptPath(r) = OwnPath(r) /\ Filled(OwnPath(r), r.spec)
      /\ r.spec \in Specs /\ r.asked \subseteq Fields /\ r.context \in DOMAIN chats \cup {Nowhere}
  <2>1. r.spec \in Specs /\ r.asked \subseteq Fields /\ r.context \in DOMAIN chats \cup {Nowhere}
    BY ReadsAre
  <2>2. PromptPath(r) = OwnPath(r)
    BY PromptIsOwn
  <2>3. Filled(OwnPath(r), r.spec)
    BY OwnFilled
  <2> QED BY <2>1, <2>2, <2>3
<1>3. Fine(prompt, first)
  <2>1. prompt[2] = r.spec
    BY DEF ReadyKey, TailKey
  <2>2. Filled(first, r.spec)
    <3>1. CASE r.context = Nowhere
      BY <1>2, <3>1
    <3>2. CASE r.context # Nowhere
      <4>1. first = Scratch(r.context[1], r.context[2]) \o Chunks(TailHead(r.spec), CHUNK)
        BY <3>2, TailOfRead
      <4>2. Filled(Scratch(r.context[1], r.context[2]) \o Chunks(TailHead(r.spec), CHUNK), r.spec)
        BY <1>2, <3>2, TailFilled
      <4> HIDE DEF first
      <4> QED BY <4>1, <4>2
    <3> QED BY <3>1, <3>2
  <2> HIDE DEF prompt, first
  <2> QED BY <1>2, <2>1, <2>2
<1>4. ASSUME NEW f \in r.asked
      PROVE  Fine(DescribedKey(r.spec, ids, f), SlotPaths(r)[DescribedKey(r.spec, ids, f)[4]])
  <2> DEFINE k == DescribedKey(r.spec, ids, f)
  <2>1. k[2] = r.spec /\ k[4] = f
    BY DEF DescribedKey
  <2>2. SlotPaths(r)[f] = OwnPath(r) \o Decoded(Description(f))
    BY <1>2, SlotPathIs
  <2>3. Decoded(Description(f)) \in Paths(Tokens)
    BY <1>2, DescriptionIs, DecodedIs
  <2> HIDE DEF k, ids
  <2>4. Filled(OwnPath(r) \o Decoded(Description(f)), r.spec)
    BY <1>2, <2>3, FilledLonger
  <2> QED BY <1>2, <2>1, <2>2, <2>4 DEF k
<1> HIDE DEF Fine
<1>5. ASSUME NEW k \in keys
      PROVE  Fine(k, ReadPuts(r)[k])
  <2>1. CASE k = prompt
    <3>1. ReadPuts(r)[k] = first
      <4> HIDE DEF keys, prompt, first
      <4> QED BY <1>1, <2>1
    <3> HIDE DEF prompt, first
    <3> QED BY <1>3, <2>1, <3>1
  <2>2. CASE k # prompt
    <3>1. PICK f \in r.asked : k = DescribedKey(r.spec, ids, f)
      <4> HIDE DEF prompt
      <4> QED BY <2>2
    <3>2. ReadPuts(r)[k] = SlotPaths(r)[k[4]]
      <4> HIDE DEF keys, prompt, first
      <4> QED BY <1>1, <2>2
    <3> QED BY <1>4, <3>1, <3>2
  <2> QED BY <2>1, <2>2
<1> HIDE DEF keys, prompt, first
<1>6. DOMAIN ReadPuts(r) = keys
  BY <1>1
<1> QED BY <1>5, <1>6 DEF StatesFilled, Fine

LEMMA HoldCheckpointFilled ==
  ASSUME NEW id, NEW path, HoldCheckpoint(id, path), StatesFilled(states)
  PROVE  StatesFilled(states')
<1>1. \E gone : states' = Forgotten(gone)
  BY DEF HoldCheckpoint
<1> QED BY <1>1, ForgottenFilled

LEMMA ReadFills ==
  ASSUME Inv, Whole, Read
  PROVE  Whole'
<1>1. PICK r \in AdmittedReads :
        /\ IF DescribedHit(r) \/ ~ r.warm THEN UNCHANGED states
           ELSE states' \in Fitting(Put(states, ReadPuts(r)), MaxStates)
        /\ UNCHANGED <<chats, job>>
  BY DEF Read
<1>2. r \in Reads
  BY DEF AdmittedReads
<1>3. ChatsHold(chats) /\ StatesHold(states) /\ StatesFilled(states) /\ JobFilled(job)
  BY DEF Inv, Whole
<1>4. StatesFilled(states')
  <2>1. CASE DescribedHit(r) \/ ~ r.warm
    BY <1>1, <1>3, <2>1
  <2>2. CASE ~ (DescribedHit(r) \/ ~ r.warm)
    <3>1. StatesFilled(ReadPuts(r))
      BY <1>2, <1>3, <2>2, ReadPutsFill
    <3> QED BY <1>1, <1>3, <2>2, <3>1, PutFills
  <2> QED BY <2>1, <2>2
<1>5. job' = job
  BY <1>1
<1> QED BY <1>3, <1>4, <1>5 DEF Whole

LEMMA StartGenerateFills ==
  ASSUME Inv, Whole, StartGenerate
  PROVE  Whole'
<1>1. PICK g \in Generations :
        /\ job' = [op |-> "generate", spec |-> g.spec, ids |-> FullIds(g), path |-> Prepared(g.spec, FullIds(g), g.warm),
                   puts |-> g.warm /\ Resumed(g) = 0 /\ ReadyKey(g.spec, FullIds(g)) \notin DOMAIN states]
        /\ UNCHANGED <<chats, states>>
  BY DEF StartGenerate
<1>2. PICK input \in Inputs : g.spec \in Specs /\ g.input = State(g.spec, input) /\ g.warm \in BOOLEAN
  BY DEF Generations
<1>3. StatesHold(states) /\ StatesFilled(states)
  BY DEF Inv, Whole
<1>4. UserTurn(State(g.spec, input)) \in Seq(Tokens)
  BY <1>2, UserTurnIs
<1>5. Filled(PlainPath(g.spec, Prefix(g.spec) \o UserTurn(State(g.spec, input))), g.spec)
  BY <1>2, <1>4, PlainFilled
<1>6. FullIds(g) = Prefix(g.spec) \o UserTurn(State(g.spec, input))
  BY <1>2 DEF FullIds
<1>7. Filled(PlainPath(g.spec, FullIds(g)), g.spec)
  BY <1>5, <1>6
<1>8. g.warm => Prepared(g.spec, FullIds(g), g.warm) = PlainPath(g.spec, FullIds(g))
  BY <1>2, <1>3, Preparing
<1>9. JobFilled(job')
  <2>1. job'.spec = g.spec /\ job'.path = Prepared(g.spec, FullIds(g), g.warm)
    BY <1>1
  <2>2. job'.puts => g.warm
    BY <1>1
  <2> QED BY <1>2, <1>7, <1>8, <2>1, <2>2 DEF JobFilled
<1>10. states' = states
  BY <1>1
<1> QED BY <1>3, <1>9, <1>10 DEF Whole

LEMMA PutReadyFills ==
  ASSUME Whole, PutReady
  PROVE  Whole'
<1> DEFINE new == [k \in {ReadyKey(job.spec, job.ids)} |-> job.path]
<1>1. /\ job.op = "generate" /\ job' = [op |-> "none"]
      /\ IF job.puts THEN states' \in Fitting(Put(states, new), MaxStates) ELSE states' = states
  BY DEF PutReady, Done
<1>2. StatesFilled(states) /\ JobFilled(job)
  BY DEF Whole
<1>3. StatesFilled(states')
  <2>1. CASE job.puts
    <3>1. job.spec \in Specs /\ Filled(job.path, job.spec)
      BY <1>1, <1>2, <2>1 DEF JobFilled
    <3>2. ReadyKey(job.spec, job.ids)[2] = job.spec
      BY DEF ReadyKey
    <3>3. StatesFilled(new)
      <4>1. DOMAIN new = {ReadyKey(job.spec, job.ids)} /\ new[ReadyKey(job.spec, job.ids)] = job.path
        OBVIOUS
      <4> HIDE DEF new
      <4> QED BY <3>1, <3>2, <4>1 DEF StatesFilled
    <3> HIDE DEF new
    <3> QED BY <1>1, <1>2, <2>1, <3>3, PutFills
  <2>2. CASE ~ job.puts
    BY <1>1, <1>2, <2>2
  <2> QED BY <2>1, <2>2
<1>4. JobFilled(job')
  BY <1>1 DEF JobFilled
<1> QED BY <1>3, <1>4 DEF Whole

LEMMA TailPrefillFills ==
  ASSUME Inv, Whole, TailPrefill
  PROVE  Whole'
<1>1. PICK id \in DOMAIN chats, spec \in Specs \cap Described :
        /\ states' \in Fitting(Put(states, [k \in {TailKey(spec, id)} |->
                                              chats[id] \o ForwardSegments(<<TailHead(spec)>>)]), MaxStates)
        /\ UNCHANGED <<chats, job>>
  BY DEF TailPrefill
<1> DEFINE new == [k \in {TailKey(spec, id)} |-> chats[id] \o ForwardSegments(<<TailHead(spec)>>)]
<1>2. ChatsHold(chats) /\ StatesFilled(states) /\ JobFilled(job)
  BY DEF Inv, Whole
<1>3. chats[id] \o ForwardSegments(<<TailHead(spec)>>) = Scratch(id[1], id[2]) \o Chunks(TailHead(spec), CHUNK)
  BY <1>2, TailPrefixes
<1>4. StatesFilled(new)
  <2>1. DOMAIN new = {TailKey(spec, id)}
    OBVIOUS
  <2>2. new[TailKey(spec, id)] = Scratch(id[1], id[2]) \o Chunks(TailHead(spec), CHUNK)
    BY <1>3
  <2>3. TailKey(spec, id)[2] = spec
    BY DEF TailKey
  <2> HIDE DEF new
  <2>4. Filled(new[TailKey(spec, id)], spec)
    BY <1>2, <2>2, TailFilled
  <2> QED BY <2>1, <2>3, <2>4 DEF StatesFilled
<1>5. states' \in Fitting(Put(states, new), MaxStates)
  BY <1>1
<1> HIDE DEF new
<1>6. StatesFilled(states')
  BY <1>2, <1>4, <1>5, PutFills
<1>7. job' = job
  BY <1>1
<1> QED BY <1>2, <1>6, <1>7 DEF Whole

LEMMA WholeKept == Inv /\ Whole /\ [Next]_vars => Whole'
<1> SUFFICES ASSUME Inv, Whole, [Next]_vars
             PROVE  Whole'
  OBVIOUS
<1>0. StatesFilled(states) /\ JobFilled(job)
  BY DEF Whole
<1>1. CASE Read
  BY <1>1, ReadFills
<1>2. CASE StartGenerate
  BY <1>2, StartGenerateFills
<1>3. CASE PutReady
  BY <1>3, PutReadyFills
<1>4. CASE StartContext \/ StartTurn
  <2>1. states' = states /\ job'.op \in {"context", "turn", "reply"}
    <3>1. CASE StartContext
      <4>1. PICK id, path : job' = [op |-> "context", id |-> id, path |-> path] /\ states' = states
        BY <3>1, ZenonT(30) DEF StartContext
      <4> QED BY <4>1
    <3>2. CASE StartTurn
      <4>1. PICK from \in Bases, system \in Systems, turns \in Turns :
              LET s == IF from = Nowhere THEN Segments(system, turns)
                       ELSE [i \in 1..Len(turns) |-> Rendered(turns[i])]
                  user == IdOf("chat", from[2] \o FlattenSeq(s))
              IN  /\ job' = [op |-> IF user \in DOMAIN chats THEN "reply" ELSE "turn", id |-> user,
                             path |-> IF user \in DOMAIN chats THEN chats[user]
                                      ELSE (IF from = Nowhere THEN <<>> ELSE chats[from]) \o ForwardSegments(s)]
                  /\ states' = states
        BY <3>2, ZenonT(30) DEF StartTurn
      <4>2. job'.op \in {"turn", "reply"}
        BY <4>1
      <4> QED BY <4>1, <4>2
    <3> QED BY <1>4, <3>1, <3>2
  <2> QED BY <1>0, <2>1 DEF Whole, JobFilled
<1>5. CASE HoldContext
  <2>1. StatesFilled(states')
    BY <1>0, <1>5, HoldCheckpointFilled DEF HoldContext
  <2>2. job'.op = "none"
    BY <1>5 DEF HoldContext, Done
  <2> QED BY <2>1, <2>2 DEF Whole, JobFilled
<1>6. CASE HoldUser
  <2>1. StatesFilled(states')
    BY <1>0, <1>6, HoldCheckpointFilled DEF HoldUser
  <2>2. job'.op = "reply"
    <3>1. JobHolds(job) /\ job.op = "turn"
      BY <1>6 DEF Inv, HoldUser
    <3>2. job = [op |-> "turn", id |-> job.id, path |-> job.path]
      BY <3>1 DEF JobHolds
    <3> QED BY <1>6, <3>2 DEF HoldUser
  <2> QED BY <2>1, <2>2 DEF Whole, JobFilled
<1>7. CASE Answer
  <2>1. job' = [op |-> "none"]
    BY <1>7 DEF Answer, Done
  <2>2. \/ \E id, path : HoldCheckpoint(id, path)
        \/ states' = states
    BY <1>7 DEF Answer
  <2>3. StatesFilled(states')
    BY <1>0, <2>2, HoldCheckpointFilled
  <2> QED BY <2>1, <2>3 DEF Whole, JobFilled
<1>8. CASE TailPrefill
  BY <1>8, TailPrefillFills
<1>9. CASE DeleteContext
  <2>1. (\E gone : states' = Forgotten(gone)) /\ job' = job
    BY <1>9 DEF DeleteContext
  <2>2. StatesFilled(states')
    BY <1>0, <2>1, ForgottenFilled
  <2> QED BY <1>0, <2>1, <2>2 DEF Whole
<1>10. CASE UNCHANGED vars
  <2>1. states' = states /\ job' = job
    BY <1>10 DEF vars
  <2> QED BY <1>0, <2>1 DEF Whole
<1> QED BY <1>1, <1>2, <1>3, <1>4, <1>5, <1>6, <1>7, <1>8, <1>9, <1>10 DEF Next

LEMMA WholeAlways == Spec => []Whole
<1>1. Init => Whole
  <2> SUFFICES ASSUME Init
               PROVE  Whole
    OBVIOUS
  <2>1. DOMAIN states = {} /\ job = [op |-> "none"]
    BY DEF Init
  <2> QED BY <2>1 DEF Whole, StatesFilled, JobFilled
<1> QED BY <1>1, WholeKept, InvAlways, PTL DEF Spec

LEMMA HeldProbed ==
  ASSUME Whole, NEW k \in DOMAIN states, NEW n \in {Len(Prefix(k[2])), Len(FlattenSeq(states[k]))},
         NEW split \in 0..n
  PROVE  LET ids == SubSeq(FlattenSeq(states[k]), 1, n)
             best == BestPrefix(SubSeq(ids, 1, split), Loaded)
         IN  /\ Spells(ProbePath(ids, split, TRUE), ids)
             /\ best # 0 => Len(Prefix(Loaded[best])) < n
<1> DEFINE held == FlattenSeq(states[k])
           ids == SubSeq(held, 1, n)
           best == BestPrefix(SubSeq(ids, 1, split), Loaded)
<1>1. k[2] \in Specs /\ states[k] \in Paths(Tokens) /\ Len(Prefix(k[2])) <= Len(held)
  BY DEF Whole, StatesFilled, Filled
<1>2. held \in Seq(Tokens) /\ Len(held) \in Nat /\ Len(Prefix(k[2])) \in Nat
  BY <1>1, PathsAreSeqs, FlatTyped, LenProperties, LoadedTyped
<1> HIDE DEF held
<1>3. n \in Nat /\ n \in 0..Len(held)
  <2>1. n = Len(Prefix(k[2])) \/ n = Len(held)
    BY DEF held
  <2> QED BY <1>1, <1>2, <2>1
<1>4. ids \in Seq(Tokens) /\ Len(ids) = n
  BY <1>2, <1>3, PrefixOfPath
<1> HIDE DEF ids
<1>5. Spells(ProbePath(ids, split, TRUE), ids)
  BY <1>4, ProbeSpells
<1>6. best # 0 => Len(BaseOfProbe(ids, split)) < split /\ Len(BaseOfProbe(ids, split)) \in 0..split
  BY <1>4, ProbeBase
<1>7. best # 0 => BaseOfProbe(ids, split) = Prefix(Loaded[best])
  BY DEF BaseOfProbe
<1> HIDE DEF best
<1>8. best # 0 => Len(Prefix(Loaded[best])) < n
  BY <1>3, <1>6, <1>7
<1> QED BY <1>5, <1>8 DEF best, ids, held

LEMMA InvReplays == ASSUME NothingQuoted PROVE Inv /\ Whole => ProbesReplayReads
<1> SUFFICES ASSUME Inv, Whole
             PROVE  ProbesReplayReads
  OBVIOUS
<1>1. \A r \in {r \in AdmittedReads : r.context = Nowhere /\ r.warm} : \A f \in r.asked :
        ProbePath(ReadIds(r) \o Description(f), Len(ReadIds(r)), TRUE) = SlotPaths(r)[f]
  BY ReadReplayed
<1>2. \A k \in DOMAIN states :
        LET prefix == Len(Prefix(k[2]))
            held == FlattenSeq(states[k])
        IN  \A n \in {prefix, Len(held)} : \A split \in {0, prefix, prefix + 1, n} \cap 0 .. n :
              LET ids == SubSeq(held, 1, n)
                  best == BestPrefix(SubSeq(ids, 1, split), Loaded)
              IN  /\ Spells(ProbePath(ids, split, TRUE), ids)
                  /\ best # 0 => Len(Prefix(Loaded[best])) < n
  BY HeldProbed
<1> QED BY <1>1, <1>2 DEF ProbesReplayReads

(* A probe of a read's ids repeats the forwards the read made, whatever    *)
(* else is loaded, as long as no input quotes a spec's block; whatever     *)
(* held ids are probed, every token is forwarded once, from a strictly     *)
(* shorter prefix (probe_impl, best_prefix_match).                         *)
THEOREM ProbesAlwaysReplayReads ==
  ASSUME NothingQuoted
  PROVE  Spec => []ProbesReplayReads
<1> QED BY InvAlways, WholeAlways, InvReplays, PTL
=============================================================================
