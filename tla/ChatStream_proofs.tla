-------------------------- MODULE ChatStream_proofs --------------------------
(* What the client of a streaming chat hears, and how soon its turn stops,   *)
(* for every vocabulary, every max_tokens and however the texts decode.      *)
EXTENDS ChatStream, Subsequence_proofs

\* The texts a turn may generate, the bytes a stream may have carried of them
\* and the events it may carry.
Texts == {Decoded(tokens) : tokens \in Seq(Vocabulary)}
Reached == {0} \cup {Bytes(text) : text \in Texts}
Deltas(text) == {TextDelta(text, from) : from \in Reached}
Events == {Announced} \cup UNION {Deltas(text) : text \in Texts}

Typed ==
  /\ generated \in Seq(Vocabulary) /\ streamed \in Reached
  /\ sent \in Seq(Events) /\ channel \in Seq(Events) /\ heard \in Seq(Events)
  /\ reply \in Results \cup {None} /\ last \in Results \cup {None}
  /\ outcome \in Results \cup {None}
  /\ client \in BOOLEAN

\* Every event sent is on its way or was heard, as long as the task is there
\* to relay it and the client to hear it.
NothingLost == client /\ task # "ended" => heard \o channel = sent

\* The reply is the worker's last word, and a "done" is never made up: the
\* worker said it, and the client hears it once nothing else is on its way.
Concluding ==
  /\ reply # None => job = "replied"
  /\ last = "done" => reply = "done"
  /\ task = "draining" => last # None
  /\ task # "ended" => outcome = None
  /\ outcome = "done" => last = "done" /\ heard = sent
  /\ task = "ended" /\ client => outcome # None

\* Once the receiver of the reply is gone, the event under way is the last.
LettingGo ==
  /\ task \in {"relaying", "draining", "ended"}
  /\ task # "relaying" => ~listening
  /\ wasted \in {0, 1}
  /\ wasted = 1 => job \in {"boundary", "replied"} /\ task # "relaying"

IInv ==
  /\ Typed
  /\ NothingLost
  /\ IsPrefix(heard, sent)
  /\ Concluding
  /\ LettingGo
-----------------------------------------------------------------------------
(* Prefixes.                                                               *)

LEMMA PrefixByElement ==
  ASSUME NEW S, NEW s \in Seq(S), NEW t \in Seq(S)
  PROVE  IsPrefix(s, t) <=> Len(s) <= Len(t) /\ \A i \in 1..Len(s) : s[i] = t[i]
<1>1. Len(s) \in Nat /\ Len(t) \in Nat
  BY LenProperties
<1>2. SubSeq(s, 1, Len(s)) = s
  BY SubSeqFull
<1>3. ASSUME Len(s) <= Len(t)
      PROVE  /\ SubSeq(t, 1, Len(s)) \in Seq(S)
             /\ Len(SubSeq(t, 1, Len(s))) = Len(s)
             /\ \A i \in 1..Len(s) : SubSeq(t, 1, Len(s))[i] = t[i]
  BY <1>1, <1>3
<1> QED BY <1>1, <1>2, <1>3, SeqEqual DEF IsPrefix

LEMMA PrefixOfMore ==
  ASSUME NEW S, NEW s \in Seq(S), NEW t \in Seq(S), IsPrefix(s, t), NEW e \in S
  PROVE  IsPrefix(s, Append(t, e))
<1>1. Len(s) \in Nat /\ Len(t) \in Nat
  BY LenProperties
<1>2. /\ Append(t, e) \in Seq(S) /\ Len(Append(t, e)) = Len(t) + 1
      /\ \A i \in 1..Len(t) : Append(t, e)[i] = t[i]
  BY AppendProperties
<1>3. Len(s) <= Len(t) /\ \A i \in 1..Len(s) : s[i] = t[i]
  BY PrefixByElement
<1>4. Len(s) <= Len(Append(t, e)) /\ \A i \in 1..Len(s) : s[i] = Append(t, e)[i]
  BY <1>1, <1>2, <1>3
<1> QED BY <1>2, <1>4, PrefixByElement

\* What is heard and what is on its way: an event sent joins the end of it,
\* and one relayed goes over.
LEMMA Passing ==
  ASSUME NEW S, NEW h \in Seq(S), NEW c \in Seq(S)
  PROVE  /\ IsPrefix(h, h \o c)
         /\ \A e \in S : h \o Append(c, e) = Append(h \o c, e)
         /\ c # <<>> => Append(h, Head(c)) \o Tail(c) = h \o c
<1>1. /\ Len(h) \in Nat /\ Len(c) \in Nat
      /\ h \o c \in Seq(S) /\ Len(h \o c) = Len(h) + Len(c)
      /\ \A i \in 1..(Len(h) + Len(c)) :
           (h \o c)[i] = IF i <= Len(h) THEN h[i] ELSE c[i - Len(h)]
  BY LenProperties, ConcatProperties
<1>2. IsPrefix(h, h \o c)
  <2> DEFINE all == h \o c
  <2>1. /\ all \in Seq(S) /\ Len(h) <= Len(all)
        /\ \A i \in 1..Len(h) : h[i] = all[i]
    BY <1>1
  <2> HIDE DEF all
  <2>2. IsPrefix(h, all)
    BY <2>1, PrefixByElement
  <2> QED BY <2>2 DEF all
<1>3. ASSUME NEW e \in S
      PROVE  h \o Append(c, e) = Append(h \o c, e)
  <2>1. Append(c, e) = c \o <<e>> /\ Append(h \o c, e) = (h \o c) \o <<e>>
    BY <1>1, AppendIsConcat
  <2> QED BY <2>1, ConcatAssociative
<1>4. ASSUME c # <<>>
      PROVE  Append(h, Head(c)) \o Tail(c) = h \o c
  <2>1. /\ Head(c) \in S /\ Tail(c) \in Seq(S)
        /\ <<Head(c)>> \in Seq(S) /\ c = <<Head(c)>> \o Tail(c)
    <3>1. Len(c) \in 1..Len(c) /\ 1 \in 1..Len(c)
      BY <1>4, EmptySeq
    <3>2. SubSeq(c, 1, Len(c)) = <<c[1]>> \o SubSeq(c, 2, Len(c))
      BY <3>1, SubSeqRecursiveFirst
    <3>3. Head(c) = c[1] /\ Tail(c) = SubSeq(c, 2, Len(c)) /\ c = SubSeq(c, 1, Len(c))
      BY <1>4, <3>1, TailIsSubSeq, SubSeqFull
    <3> QED BY <1>4, <3>2, <3>3, HeadTailProperties
  <2>2. Append(h, Head(c)) = h \o <<Head(c)>>
    BY <2>1, AppendIsConcat
  <2> QED BY <2>1, <2>2, ConcatAssociative
<1> QED BY <1>2, <1>3, <1>4
-----------------------------------------------------------------------------
(* What the bytes of a text read as.                                       *)

LEMMA ConcatIndexed ==
  ASSUME NEW S, NEW s \in Seq(S), NEW t \in Seq(S), NEW p, NEW q, Len(s) = p, Len(t) = q
  PROVE  /\ s \o t \in Seq(S) /\ Len(s \o t) = p + q
         /\ \A i \in 1..p + q : (s \o t)[i] = IF i <= p THEN s[i] ELSE t[i - p]
BY ConcatProperties

LEMMA FlattenJoins ==
  ASSUME NEW p
  PROVE  FlattenSeq(p) = Seqs!FlattenSeq(p)
BY DEF FlattenSeq, Seqs!FlattenSeq

LEMMA FlatAppend ==
  ASSUME NEW T, NEW p \in Seq(Seq(T)), NEW c \in Seq(T)
  PROVE  /\ FlattenSeq(p) \in Seq(T)
         /\ FlattenSeq(Append(p, c)) = FlattenSeq(p) \o c
BY FlattenJoins, JoinAppend

LEMMA FlatTyped ==
  ASSUME NEW T, NEW p \in Seq(Seq(T))
  PROVE  FlattenSeq(p) \in Seq(T)
BY FlattenJoins, JoinTyped

LEMMA FlatConcat ==
  ASSUME NEW T, NEW p \in Seq(Seq(T)), NEW q \in Seq(Seq(T))
  PROVE  FlattenSeq(p \o q) = FlattenSeq(p) \o FlattenSeq(q)
BY FlattenJoins, JoinConcat

Parts(bytes) == [i \in 1..Len(bytes) |-> ReadAt(bytes, i)]

LEMMA ReadTyped ==
  ASSUME NEW bytes \in Seq(Characters)
  PROVE  /\ Parts(bytes) \in Seq(Seq(Characters)) /\ Len(Parts(bytes)) = Len(bytes)
         /\ \A i \in 1..Len(bytes) : Parts(bytes)[i] = ReadAt(bytes, i)
         /\ Read(bytes) = FlattenSeq(Parts(bytes))
         /\ Read(bytes) \in Seq(Characters)
<1>1. Len(bytes) \in Nat /\ \A i \in 1..Len(bytes) : bytes[i] \in Characters
  BY LenProperties, ElementOfSeq
<1>2. ASSUME NEW i \in 1..Len(bytes)
      PROVE  ReadAt(bytes, i) \in Seq(Characters)
  <2>1. Character(bytes, i) \in Characters
    BY <1>1 DEF Character, Characters
  <2>2. <<>> \in Seq(Characters) /\ <<Character(bytes, i)>> \in Seq(Characters)
    BY <2>1
  <2> QED BY <2>2 DEF ReadAt
<1>3. Parts(bytes) \in Seq(Seq(Characters)) /\ Len(Parts(bytes)) = Len(bytes)
  BY <1>1, <1>2, IsASeq, SMTT(30) DEF Parts
<1>4. Read(bytes) = FlattenSeq(Parts(bytes))
  BY DEF Read, Parts
<1>5. \A i \in 1..Len(bytes) : Parts(bytes)[i] = ReadAt(bytes, i)
  BY DEF Parts
<1> QED BY <1>3, <1>4, <1>5, FlatTyped

\* No character spans a cut but after its first half.
Whole(bytes) == bytes = <<>> \/ bytes[Len(bytes)] # "lead"

LEMMA ReadConcat ==
  ASSUME NEW a \in Seq(Characters), NEW b \in Seq(Characters), Whole(a)
  PROVE  Read(a \o b) = Read(a) \o Read(b)
<1> DEFINE m == Len(a)
           n == Len(b)
           c == a \o b
<1>1. m \in Nat /\ n \in Nat /\ (a = <<>> <=> m = 0)
  BY LenProperties, EmptySeq
<1>2. /\ c \in Seq(Characters) /\ Len(c) = m + n
      /\ \A i \in 1..m + n : c[i] = IF i <= m THEN a[i] ELSE b[i - m]
  BY ConcatProperties
<1>3. m # 0 => a[m] # "lead"
  BY <1>1 DEF Whole
<1> HIDE DEF c
<1>4. ASSUME NEW i \in 1..m
      PROVE  Ends(c, i) <=> Ends(a, i)
  <2>1. i \in 1..m + n /\ c[i] = a[i]
    BY <1>1, <1>2
  <2>2. CASE i = m
    <3>1. a[i] # "lead"
      BY <1>1, <1>3, <2>2
    <3> QED BY <2>1, <3>1 DEF Ends
  <2>3. CASE i < m
    <3>1. i + 1 \in 1..m + n /\ c[i + 1] = a[i + 1] /\ i < Len(c) /\ i < Len(a)
      BY <1>1, <1>2, <2>3
    <3> QED BY <2>1, <3>1 DEF Ends
  <2> QED BY <1>1, <2>2, <2>3
<1>5. ASSUME NEW j \in 1..n
      PROVE  /\ c[m + j] = b[j]
             /\ Ends(c, m + j) <=> Ends(b, j)
  <2>1. m + j \in 1..m + n /\ ~(m + j <= m) /\ (m + j) - m = j
    BY <1>1
  <2>2. c[m + j] = b[j]
    BY <1>2, <2>1
  <2>3. CASE j = n
    BY <1>1, <1>2, <2>1, <2>3 DEF Ends
  <2>4. CASE j < n
    <3>1. (m + j) + 1 \in 1..m + n /\ ~((m + j) + 1 <= m) /\ ((m + j) + 1) - m = j + 1
      BY <1>1, <2>4
    <3>2. c[(m + j) + 1] = b[j + 1] /\ m + j < Len(c) /\ j < Len(b)
      BY <1>1, <1>2, <2>4, <3>1
    <3> QED BY <2>2, <3>2 DEF Ends
  <2> QED BY <1>1, <2>2, <2>3, <2>4
<1>6. ASSUME NEW i \in 1..m
      PROVE  ReadAt(c, i) = ReadAt(a, i)
  <2>1. c[i] = a[i] /\ (Ends(c, i) <=> Ends(a, i))
    BY <1>1, <1>2, <1>4
  <2>2. i > 1 => (Ends(c, i - 1) <=> Ends(a, i - 1))
    BY <1>1, <1>4
  <2>3. Character(c, i) = Character(a, i)
    BY <2>1 DEF Character
  <2> QED BY <2>2, <2>3 DEF ReadAt
<1>7. ASSUME NEW j \in 1..n
      PROVE  ReadAt(c, m + j) = ReadAt(b, j)
  <2>1. c[m + j] = b[j] /\ (Ends(c, m + j) <=> Ends(b, j))
    BY <1>5
  <2>2. Character(c, m + j) = Character(b, j)
    BY <2>1 DEF Character
  <2>3. (m + j > 1 /\ Ends(c, (m + j) - 1)) <=> (j > 1 /\ Ends(b, j - 1))
    <3>1. CASE j > 1
      <4>1. j - 1 \in 1..n /\ m + (j - 1) = (m + j) - 1 /\ m + j > 1
        BY <1>1, <3>1
      <4> QED BY <1>5, <3>1, <4>1
    <3>2. CASE j = 1 /\ m = 0
      BY <3>2
    <3>3. CASE j = 1 /\ m # 0
      <4>1. (m + j) - 1 = m /\ m \in 1..m + n /\ m <= m
        BY <1>1, <3>3
      <4>2. c[m] # "lead"
        BY <1>2, <1>3, <3>3, <4>1
      <4> QED BY <3>3, <4>1, <4>2 DEF Ends
    <3> QED BY <1>1, <3>1, <3>2, <3>3
  <2> QED BY <2>2, <2>3 DEF ReadAt
<1>8. /\ Parts(a) \in Seq(Seq(Characters)) /\ Len(Parts(a)) = m
      /\ Parts(b) \in Seq(Seq(Characters)) /\ Len(Parts(b)) = n
      /\ Parts(c) \in Seq(Seq(Characters)) /\ Len(Parts(c)) = m + n
  BY <1>2, ReadTyped
<1>9. Parts(c) = Parts(a) \o Parts(b)
  <2>1. /\ Parts(a) \o Parts(b) \in Seq(Seq(Characters)) /\ Len(Parts(a) \o Parts(b)) = m + n
        /\ \A i \in 1..m + n : (Parts(a) \o Parts(b))[i] =
                                 IF i <= m THEN Parts(a)[i] ELSE Parts(b)[i - m]
    <3> DEFINE x == Parts(a)
               y == Parts(b)
    <3>1. x \in Seq(Seq(Characters)) /\ y \in Seq(Seq(Characters)) /\ Len(x) = m /\ Len(y) = n
      BY <1>8
    <3> HIDE DEF x, y, m, n
    <3>2. /\ x \o y \in Seq(Seq(Characters)) /\ Len(x \o y) = m + n
          /\ \A i \in 1..m + n : (x \o y)[i] = IF i <= m THEN x[i] ELSE y[i - m]
      BY <3>1, ConcatProperties
    <3> QED BY <3>2 DEF x, y
  <2>2. ASSUME NEW i \in 1..m + n
        PROVE  Parts(c)[i] = (Parts(a) \o Parts(b))[i]
    <3>1. Parts(c)[i] = ReadAt(c, i)
      BY <1>2, ReadTyped
    <3>2. CASE i <= m
      <4>1. i \in 1..m
        BY <1>1, <3>2
      <4>2. Parts(a)[i] = ReadAt(a, i)
        BY <4>1, ReadTyped
      <4>3. ReadAt(c, i) = ReadAt(a, i)
        BY <1>6, <4>1
      <4> QED BY <2>1, <3>1, <3>2, <4>2, <4>3
    <3>3. CASE ~(i <= m)
      <4>1. i - m \in 1..n /\ m + (i - m) = i
        BY <1>1, <3>3
      <4>2. Parts(b)[i - m] = ReadAt(b, i - m)
        BY <4>1, ReadTyped
      <4>3. ReadAt(c, m + (i - m)) = ReadAt(b, i - m)
        BY <1>7, <4>1
      <4> QED BY <2>1, <3>1, <3>3, <4>1, <4>2, <4>3
    <3> QED BY <3>2, <3>3
  <2> HIDE DEF m, n
  <2> QED BY <1>8, <2>1, <2>2, SeqEqual
<1>10. FlattenSeq(Parts(a) \o Parts(b)) = FlattenSeq(Parts(a)) \o FlattenSeq(Parts(b))
  BY <1>8, FlatConcat
<1>11. Read(c) = FlattenSeq(Parts(c)) /\ Read(a) = FlattenSeq(Parts(a)) /\ Read(b) = FlattenSeq(Parts(b))
  BY <1>2, ReadTyped
<1> QED BY <1>9, <1>10, <1>11 DEF c

\* A text whose bytes end inside a character shows it.
LEMMA CutShows ==
  ASSUME NEW bytes \in Seq(Characters), ~Whole(bytes)
  PROVE  Unfinished(Read(bytes))
<1> DEFINE n == Len(bytes)
           parts == Parts(bytes)
<1>1. n \in Nat \ {0} /\ bytes[n] = "lead"
  BY LenProperties, EmptySeq DEF Whole
<1>2. /\ parts \in Seq(Seq(Characters)) /\ Len(parts) = n
      /\ parts[n] = ReadAt(bytes, n) /\ Read(bytes) = FlattenSeq(parts)
  BY <1>1, ReadTyped
<1>3. ReadAt(bytes, n) = <<"U+FFFD">>
  <2>1. ~Ends(bytes, n) /\ (n > 1 => ~Ends(bytes, n - 1))
    BY <1>1 DEF Ends
  <2>2. Character(bytes, n) = "U+FFFD"
    BY <1>1, <2>1 DEF Character
  <2> QED BY <2>1, <2>2 DEF ReadAt
<1> HIDE DEF parts, n
<1>4. PICK p \in Seq(Seq(Characters)), c \in Seq(Characters) : parts = Append(p, c)
  <2>1. parts # <<>>
    BY <1>1, <1>2, EmptySeq
  <2> QED BY <1>2, <2>1, SequenceEmptyOrAppend
<1>5. c = <<"U+FFFD">>
  <2>1. Len(p) \in Nat /\ Len(Append(p, c)) = Len(p) + 1 /\ Append(p, c)[Len(p) + 1] = c
    BY AppendProperties, LenProperties
  <2> QED BY <1>2, <1>3, <1>4, <2>1
<1>6. FlattenSeq(parts) = FlattenSeq(p) \o c /\ FlattenSeq(p) \in Seq(Characters)
  BY <1>4, FlatAppend
<1> DEFINE s == FlattenSeq(p)
<1> HIDE DEF s
<1>7. s \in Seq(Characters) /\ Read(bytes) = s \o <<"U+FFFD">>
  BY <1>2, <1>5, <1>6 DEF s
<1>8. s \o <<"U+FFFD">> # <<>> /\ Last(s \o <<"U+FFFD">>) = "U+FFFD"
  BY <1>7 DEF Last
<1> QED BY <1>7, <1>8 DEF Unfinished
-----------------------------------------------------------------------------
(* How many bytes a text is of, and what is left of it after some.         *)

Of(text, c) == {i \in 1..Len(text) : text[i] = c}

LEMMA OfGrows ==
  ASSUME NEW text \in Seq(Characters), NEW l \in 0..Len(text), NEW k \in 0..l, NEW c
  PROVE  /\ Cardinality(Of(SubSeq(text, 1, k), c)) \in Nat
         /\ Cardinality(Of(SubSeq(text, 1, l), c)) \in Nat
         /\ Cardinality(Of(SubSeq(text, 1, k), c)) <= Cardinality(Of(SubSeq(text, 1, l), c))
<1> DEFINE s == SubSeq(text, 1, k)
           t == SubSeq(text, 1, l)
<1>1. k \in 0..Len(text) /\ Len(text) \in Nat /\ k \in Nat /\ l \in Nat /\ k <= l
  BY LenProperties
<1>2. /\ Len(s) = k /\ \A j \in 1..k : s[j] = text[j]
      /\ Len(t) = l /\ \A j \in 1..l : t[j] = text[j]
  BY <1>1, PrefixOfPath
<1> HIDE DEF s, t
<1>3. Of(t, c) \subseteq 1..l /\ Of(s, c) \subseteq Of(t, c)
  BY <1>1, <1>2 DEF Of
<1>4. IsFiniteSet(1..l)
  BY <1>1, FS_Interval
<1>5. IsFiniteSet(Of(t, c))
  BY <1>3, <1>4, FS_Subset
<1>6. IsFiniteSet(Of(s, c)) /\ Cardinality(Of(s, c)) <= Cardinality(Of(t, c))
  BY <1>3, <1>5, FS_Subset
<1> QED BY <1>5, <1>6, FS_CardinalityType DEF s, t

LEMMA BytesGrow ==
  ASSUME NEW text \in Seq(Characters), NEW l \in 0..Len(text), NEW k \in 0..l, k # l
  PROVE  Bytes(SubSeq(text, 1, k)) # Bytes(SubSeq(text, 1, l))
<1> DEFINE s == SubSeq(text, 1, k)
           t == SubSeq(text, 1, l)
           s1 == Cardinality(Of(s, "U+FFFD"))
           s2 == Cardinality(Of(s, "pair"))
           t1 == Cardinality(Of(t, "U+FFFD"))
           t2 == Cardinality(Of(t, "pair"))
<1>1. k \in 0..Len(text) /\ k \in Nat /\ l \in Nat /\ k < l
  BY LenProperties
<1>2. Len(s) = k /\ Len(t) = l
  BY <1>1, PrefixOfPath
<1>3. s1 \in Nat /\ s2 \in Nat /\ t1 \in Nat /\ t2 \in Nat /\ s1 <= t1 /\ s2 <= t2
  BY OfGrows
<1>4. Bytes(s) = k + 2 * s1 + s2 /\ Bytes(t) = l + 2 * t1 + t2
  BY <1>2, Zenon DEF Bytes, Of
<1> HIDE DEF s, t, s1, s2, t1, t2
<1>5. k + 2 * s1 + s2 # l + 2 * t1 + t2
  BY <1>1, <1>3
<1>6. Bytes(s) # Bytes(t)
  BY <1>4, <1>5
<1> QED BY <1>6 DEF s, t

LEMMA FromRest ==
  ASSUME NEW a \in Seq(Characters), NEW r \in Seq(Characters)
  PROVE  From(a \o r, Bytes(a)) = r
<1> DEFINE text == a \o r
           at == {k \in 0..Len(text) : Bytes(SubSeq(text, 1, k)) = Bytes(a)}
           m == Len(a)
<1>1. /\ m \in Nat /\ Len(r) \in Nat /\ text \in Seq(Characters) /\ Len(text) = m + Len(r)
      /\ \A i \in 1..m + Len(r) : text[i] = IF i <= m THEN a[i] ELSE r[i - m]
  BY LenProperties, ConcatProperties
<1>2. SubSeq(text, 1, m) = a
  BY <1>1, PrefixOfConcat, SubSeqFull
<1> HIDE DEF text
<1>3. m \in at
  <2>1. m \in 0..Len(text)
    BY <1>1
  <2> HIDE DEF m
  <2> QED BY <1>2, <2>1
<1>4. ASSUME NEW k \in at, k # m
      PROVE  FALSE
  <2>1. k \in 0..Len(text) /\ Bytes(SubSeq(text, 1, k)) = Bytes(SubSeq(text, 1, m)) /\ m \in 0..Len(text)
    <3>1. m \in 0..Len(text)
      BY <1>1
    <3> HIDE DEF m
    <3> QED BY <1>2, <3>1
  <2>2. CASE k < m
    <3>1. k \in 0..m
      BY <1>1, <2>1, <2>2
    <3> QED BY <1>1, <1>4, <2>1, <3>1, BytesGrow
  <2>3. CASE m < k
    <3>1. m \in 0..k
      BY <1>1, <2>1, <2>3
    <3> QED BY <1>1, <1>4, <2>1, <3>1, BytesGrow
  <2> QED BY <1>1, <1>4, <2>1, <2>2, <2>3
<1> HIDE DEF at
<1>5. at = {m}
  BY <1>3, <1>4
<1>6. From(text, Bytes(a)) = SubSeq(text, m + 1, Len(text))
  <2>1. at # {} /\ (CHOOSE k \in at : TRUE) = m
    BY <1>5
  <2>2. From(text, Bytes(a)) =
          IF at = {} THEN None ELSE SubSeq(text, (CHOOSE k \in at : TRUE) + 1, Len(text))
    BY Zenon DEF From, at
  <2> QED BY <2>1, <2>2
<1>7. SubSeq(text, m + 1, Len(text)) = r
  <2>1. /\ SubSeq(text, m + 1, Len(text)) \in Seq(Characters)
        /\ Len(SubSeq(text, m + 1, Len(text))) = Len(r)
        /\ \A i \in 1..Len(r) : SubSeq(text, m + 1, Len(text))[i] = text[m + i]
    <3> HIDE DEF m
    <3>1. /\ SubSeq(text, m + 1, Len(text)) \in Seq(Characters)
          /\ Len(SubSeq(text, m + 1, Len(text))) = Len(r)
      BY <1>1, SubSeqProperties
    <3>2. ASSUME NEW i \in 1..Len(r)
          PROVE  SubSeq(text, m + 1, Len(text))[i] = text[m + i]
      BY <1>1, SubSeqProperties
    <3> QED BY <3>1, <3>2
  <2>2. ASSUME NEW i \in 1..Len(r)
        PROVE  text[m + i] = r[i]
    <3>1. m + i \in 1..m + Len(r) /\ ~(m + i <= m) /\ (m + i) - m = i
      BY <1>1
    <3> QED BY <1>1, <3>1
  <2> HIDE DEF m
  <2> QED BY <2>1, <2>2, SeqEqual
<1> QED BY <1>6, <1>7 DEF text

\* A text split at the end of its reasoning renders to itself.
LEMMA SplitRenders ==
  ASSUME NEW text \in Seq(Characters), None \notin {SplitReasoning(text).thinking, SplitReasoning(text).content}
  PROVE  Rerendered(SplitReasoning(text)) \in {text, None}
<1> DEFINE rest == Tail(text)
           Found == {i \in 1..Len(rest) : rest[i] = "</think>"}
           k == SelectInSeq(rest, LAMBDA c : c = "</think>")
           thinking == SubSeq(rest, 1, k - 1)
           content == SubSeq(rest, k + 1, Len(rest))
<1>1. text # <<>> /\ Head(text) = "<think>" /\ k # 0
  <2>1. CASE text = <<>> \/ Head(text) # "<think>"
    <3>1. SplitReasoning(text).thinking = None
      BY <2>1 DEF SplitReasoning
    <3> QED BY <3>1
  <2>2. CASE ~(text = <<>> \/ Head(text) # "<think>") /\ k = 0
    <3>1. SplitReasoning(text).content = None
      BY <2>2 DEF SplitReasoning
    <3> QED BY <3>1
  <2> QED BY <2>1, <2>2
<1>2. SplitReasoning(text) = [thinking |-> thinking, content |-> content]
  BY <1>1 DEF SplitReasoning
<1>3. k \in Found
  <2>1. k = IF Found # {} THEN Min(Found) ELSE 0
    BY DEF SelectInSeq
  <2>2. Found # {} /\ k = Min(Found)
    BY <1>1, <2>1
  <2>3. PICK n \in Found : \A j \in Found : n <= j
    <3>1. Found \in SUBSET Nat
      OBVIOUS
    <3> HIDE DEF Found
    <3> QED BY <2>2, <3>1, LeastNat
  <2> HIDE DEF Found, k
  <2>4. Min(Found) \in Found
    BY <2>3 DEF Min
  <2> QED BY <2>2, <2>4
<1> HIDE DEF k
<1>4. /\ rest \in Seq(Characters) /\ Len(text) \in Nat \ {0} /\ Len(rest) = Len(text) - 1
      /\ \A i \in 1..Len(rest) : rest[i] = text[i + 1]
      /\ text[1] = "<think>"
  BY <1>1, LenProperties, EmptySeq, HeadTailProperties
<1> HIDE DEF rest
<1>5. k \in 1..Len(rest) /\ rest[k] = "</think>" /\ Len(rest) \in Nat /\ k \in Nat
  BY <1>3, <1>4
<1>6. /\ thinking \in Seq(Characters) /\ Len(thinking) = k - 1
      /\ \A i \in 1..k - 1 : thinking[i] = rest[i]
  <2>1. k - 1 \in 0..Len(rest)
    BY <1>5
  <2> QED BY <1>4, <2>1, PrefixOfPath
<1>7. /\ content \in Seq(Characters) /\ Len(content) = Len(rest) - k
      /\ \A i \in 1..Len(rest) - k : content[i] = rest[k + i]
  BY <1>4, <1>5, SubSeqProperties
<1> HIDE DEF thinking, content
<1> DEFINE turn == <<"<think>">> \o thinking \o <<"</think>">> \o content
<1>8. turn = text
  <2> DEFINE u == <<"<think>">> \o thinking
             v == u \o <<"</think>">>
  <2>1. u \in Seq(Characters) /\ Len(u) = k /\ u[1] = "<think>"
        /\ \A i \in 2..k : u[i] = thinking[i - 1]
    <3>1. <<"<think>">> \in Seq(Characters) /\ Len(<<"<think>">>) = 1 /\ <<"<think>">>[1] = "<think>"
      BY DEF Characters, Markers
    <3>2. /\ u \in Seq(Characters) /\ Len(u) = 1 + (k - 1)
          /\ \A i \in 1..1 + (k - 1) : u[i] = IF i <= 1 THEN <<"<think>">>[i] ELSE thinking[i - 1]
      BY <1>6, <3>1, ConcatProperties
    <3> HIDE DEF u
    <3> QED BY <1>5, <3>1, <3>2
  <2> HIDE DEF u
  <2>2. v \in Seq(Characters) /\ Len(v) = k + 1 /\ v[k + 1] = "</think>"
        /\ \A i \in 1..k : v[i] = u[i]
    <3>1. <<"</think>">> \in Seq(Characters) /\ Len(<<"</think>">>) = 1 /\ <<"</think>">>[1] = "</think>"
      BY DEF Characters, Markers
    <3>2. /\ v \in Seq(Characters) /\ Len(v) = k + 1
          /\ \A i \in 1..k + 1 : v[i] = IF i <= k THEN u[i] ELSE <<"</think>">>[i - k]
      BY <2>1, <3>1, ConcatProperties
    <3> HIDE DEF v
    <3> QED BY <1>5, <3>1, <3>2
  <2> HIDE DEF v
  <2>3. /\ v \o content \in Seq(Characters) /\ Len(v \o content) = (k + 1) + (Len(rest) - k)
        /\ \A i \in 1..(k + 1) + (Len(rest) - k) :
             (v \o content)[i] = IF i <= k + 1 THEN v[i] ELSE content[i - (k + 1)]
    <3> DEFINE p == k + 1
               q == Len(rest) - k
    <3>1. Len(v) = p /\ Len(content) = q
      BY <1>7, <2>2
    <3> HIDE DEF p, q
    <3>2. /\ v \o content \in Seq(Characters) /\ Len(v \o content) = p + q
          /\ \A i \in 1..p + q :
               (v \o content)[i] = IF i <= p THEN v[i] ELSE content[i - p]
      <4>1. v \in Seq(Characters) /\ content \in Seq(Characters)
        BY <1>7, <2>2
      <4> HIDE DEF turn
      <4> QED BY <3>1, <4>1, ConcatIndexed, SMTT(30)
    <3> QED BY <3>2 DEF p, q
  <2>4. turn = v \o content
    BY DEF v, u
  <2>5. (k + 1) + (Len(rest) - k) = Len(text)
    BY <1>4, <1>5
  <2>6. ASSUME NEW i \in 1..Len(text)
        PROVE  (v \o content)[i] = text[i]
    <3>1. CASE i = 1
      <4>1. 1 \in 1..Len(text) /\ 1 <= k + 1 /\ 1 \in 1..k
        BY <1>4, <1>5
      <4>2. (v \o content)[1] = v[1] /\ v[1] = u[1]
        BY <2>2, <2>3, <2>5, <4>1
      <4> QED BY <1>4, <2>1, <3>1, <4>2
    <3>2. CASE i \in 2..k
      <4>1. i - 1 \in 1..k - 1 /\ i - 1 \in 1..Len(rest) /\ (i - 1) + 1 = i /\ i \in 1..k /\ i <= k + 1
        BY <1>5, <3>2
      <4>2. (v \o content)[i] = v[i] /\ v[i] = u[i] /\ u[i] = thinking[i - 1]
        <5>1. (v \o content)[i] = v[i]
          BY <2>3, <2>5, <4>1
        <5>2. v[i] = u[i]
          BY <2>2, <4>1
        <5>3. u[i] = thinking[i - 1]
          BY <2>1, <3>2
        <5> QED BY <5>1, <5>2, <5>3
      <4>3. thinking[i - 1] = rest[i - 1] /\ rest[i - 1] = text[i]
        BY <1>4, <1>6, <4>1
      <4> QED BY <4>2, <4>3
    <3>3. CASE i = k + 1
      <4>1. (v \o content)[i] = v[k + 1]
        <5>1. k + 1 \in 1..Len(text) /\ k + 1 <= k + 1
          BY <1>5, <3>3
        <5> QED BY <2>3, <2>5, <3>3, <5>1
      <4>2. rest[k] = text[k + 1]
        BY <1>4, <1>5
      <4> QED BY <1>5, <2>2, <3>3, <4>1, <4>2
    <3>4. CASE i > k + 1
      <4>1. i - (k + 1) \in 1..Len(rest) - k /\ i - 1 \in 1..Len(rest)
            /\ k + (i - (k + 1)) = i - 1 /\ (i - 1) + 1 = i /\ ~(i <= k + 1)
        BY <1>4, <1>5, <3>4
      <4>2. (v \o content)[i] = content[i - (k + 1)]
        BY <2>3, <2>5, <4>1
      <4>3. content[i - (k + 1)] = rest[i - 1] /\ rest[i - 1] = text[i]
        BY <1>4, <1>7, <4>1
      <4> QED BY <4>2, <4>3
    <3>5. i = 1 \/ i \in 2..k \/ i = k + 1 \/ i > k + 1
      BY <1>4, <1>5
    <3> QED BY <3>1, <3>2, <3>3, <3>4, <3>5
  <2>7. v \o content = text
    BY <2>3, <2>5, <2>6, SeqEqual
  <2> QED BY <2>4, <2>7
<1>9. Rerendered(SplitReasoning(text)) \in {turn, None}
  <2>1. SplitReasoning(text).thinking = thinking /\ SplitReasoning(text).content = content
    BY <1>2
  <2> HIDE DEF turn
  <2>2. Rerendered(SplitReasoning(text)) =
          IF Refused(thinking) \/ Refused(content) THEN None ELSE turn
    BY <2>1 DEF Rerendered, turn
  <2> QED BY <2>2
<1> QED BY <1>8, <1>9
-----------------------------------------------------------------------------
LEMMA InitIInv == Init => IInv
<1> SUFFICES ASSUME Init PROVE IInv
  OBVIOUS
<1>1. <<>> \in Seq(Vocabulary) /\ <<>> \in Seq(Events) /\ 0 \in Reached
  BY EmptySeq DEF Reached
<1>2. Typed
  BY <1>1 DEF Init, Typed
<1>3. heard \o channel = sent /\ IsPrefix(heard, sent)
  <2> DEFINE none == <<>>
  <2>1. none \in Seq(Events) /\ heard = none /\ channel = none /\ sent = none
    BY <1>1 DEF Init
  <2>2. none \o none = none
    BY <2>1, ConcatEmptySeq
  <2> HIDE DEF none
  <2>3. IsPrefix(none, none \o none)
    BY <2>1, Passing
  <2> QED BY <2>1, <2>2, <2>3
<1> QED
  BY <1>2, <1>3, ChatStreamAssumption
     DEF Init, IInv, NothingLost, Concluding, LettingGo, Results

\* The worker answers, and sends no event.
LEMMA AnswerStep ==
  ASSUME IInv, NEW result \in Results, job # "replied", Answer(result)
  PROVE  IInv'
<1>1. Typed' /\ NothingLost' /\ IsPrefix(heard, sent)'
  BY DEF IInv, Typed, NothingLost, Answer, relay, around
<1>2. reply = None /\ last # "done"
  BY ChatStreamAssumption DEF IInv, Concluding, Results
<1>3. Concluding'
  BY <1>2 DEF IInv, Concluding, Answer, relay, around
<1>4. LettingGo'
  BY DEF IInv, LettingGo, Answer, relay, around
<1> QED BY <1>1, <1>3, <1>4 DEF IInv

\* The worker sends an event of the step it computed.
LEMMA SendStep ==
  ASSUME IInv, NEW event \in Events, job = "computing", SendEvent(event),
         generated' \in Seq(Vocabulary), streamed' \in Reached
  PROVE  IInv'
<1>1. Typed
  BY DEF IInv
<1>2. /\ sent' = Append(sent, event)
      /\ channel' = IF task = "ended" THEN <<>> ELSE Append(channel, event)
      /\ UNCHANGED <<reply, listening, task, last, heard, outcome, client>>
  BY DEF SendEvent, relay, around
<1>3. Typed'
  <2>1. sent' \in Seq(Events)
    BY <1>1, <1>2, AppendProperties DEF Typed
  <2>2. channel' \in Seq(Events)
    <3>1. Append(channel, event) \in Seq(Events) /\ <<>> \in Seq(Events)
      BY <1>1, AppendProperties, EmptySeq DEF Typed
    <3> QED BY <1>2, <3>1
  <2> QED BY <1>1, <1>2, <2>1, <2>2 DEF Typed
<1>4. NothingLost'
  <2> SUFFICES ASSUME client, task # "ended" PROVE heard \o channel' = sent'
    BY <1>2 DEF NothingLost
  <2>1. heard \o channel = sent
    BY DEF IInv, NothingLost
  <2>2. heard \o Append(channel, event) = Append(heard \o channel, event)
    BY <1>1, Passing DEF Typed
  <2> QED BY <1>2, <2>1, <2>2
<1>5. IsPrefix(heard, sent)'
  BY <1>1, <1>2, PrefixOfMore DEF IInv, Typed
<1>6. reply = None /\ last # "done"
  BY ChatStreamAssumption DEF IInv, Concluding, Results
<1>7. Concluding'
  BY <1>2, <1>6, ChatStreamAssumption DEF IInv, Concluding, SendEvent
<1>8. LettingGo'
  BY <1>2 DEF IInv, LettingGo, SendEvent
<1> QED BY <1>3, <1>4, <1>5, <1>7, <1>8 DEF IInv

LEMMA TurnKeeps == IInv /\ Turn => IInv'
<1> SUFFICES ASSUME IInv, Turn PROVE IInv'
  OBVIOUS
<1>1. generated \in Seq(Vocabulary) /\ streamed \in Reached
  BY DEF IInv, Typed
<1>2. CASE Unwanted
  <2>1. job # "replied" /\ (Answer("cancelled") \/ Answer("deadline"))
    BY <1>2 DEF Unwanted
  <2> QED BY <2>1, AnswerStep DEF Results
<1>3. CASE Proceed
  <2>1. /\ job \in {"queued", "boundary"} /\ listening /\ job' = "computing"
        /\ UNCHANGED <<generated, streamed, sent, channel, reply, wasted>>
        /\ UNCHANGED <<listening, task, last, heard, outcome, client>>
    BY <1>3 DEF Proceed, Wanted, relay, around
  <2>2. Typed' /\ NothingLost' /\ IsPrefix(heard, sent)'
    BY <2>1 DEF IInv, Typed, NothingLost
  <2>3. reply = None
    BY <2>1 DEF IInv, Concluding
  <2>4. Concluding'
    BY <2>1, <2>3 DEF IInv, Concluding
  <2>5. LettingGo'
    BY <2>1 DEF IInv, LettingGo
  <2> QED BY <2>2, <2>4, <2>5 DEF IInv
<1>4. CASE Announce
  <2>1. /\ job = "computing" /\ SendEvent(Announced) /\ Announced \in Events
        /\ generated' \in Seq(Vocabulary) /\ streamed' \in Reached
    BY <1>1, <1>4 DEF Announce, Events
  <2> QED BY <2>1, SendStep
<1>5. CASE Generate
  <2> PICK token \in Vocabulary :
         LET text == Decoded(Append(generated, token))
         IN  /\ generated' = Append(generated, token)
             /\ streamed' = StreamedTo(text, streamed)
             /\ IF TextDelta(text, streamed) = None
                  THEN /\ job' = "replied" /\ reply' = "shrank"
                       /\ UNCHANGED <<sent, channel, wasted, relay, around>>
                  ELSE SendEvent(TextDelta(text, streamed))
    BY <1>5 DEF Generate
  <2>1. job = "computing" /\ generated' = Append(generated, token)
        /\ Append(generated, token) \in Seq(Vocabulary)
    BY <1>1, <1>5, AppendProperties DEF Generate
  <2> DEFINE text == Decoded(Append(generated, token))
             event == TextDelta(text, streamed)
  <2>2. text \in Texts
    BY <2>1 DEF Texts
  <2> HIDE DEF text
  <2>3. event \in Events /\ StreamedTo(text, streamed) \in Reached
    <3>1. event \in Deltas(text)
      BY <1>1 DEF Deltas
    <3> HIDE DEF event
    <3>2. event \in Events
      BY <2>2, <3>1 DEF Events
    <3>3. StreamedTo(text, streamed) \in Reached
      BY <1>1, <2>2 DEF StreamedTo, Reached
    <3> QED BY <3>2, <3>3
  <2> USE DEF text
  <2>4. CASE event # None
    BY <2>1, <2>3, <2>4, SendStep
  <2>5. CASE event = None
    <3>1. /\ job' = "replied" /\ reply' = "shrank"
          /\ UNCHANGED <<sent, channel, wasted>>
          /\ UNCHANGED <<listening, task, last, heard, outcome, client>>
      BY <2>5 DEF relay, around
    <3>2. Typed' /\ NothingLost' /\ IsPrefix(heard, sent)'
      BY <2>1, <2>3, <3>1 DEF IInv, Typed, NothingLost, Results
    <3>3. reply = None /\ last # "done"
      BY <2>1, ChatStreamAssumption DEF IInv, Concluding, Results
    <3>4. Concluding'
      BY <3>1, <3>3 DEF IInv, Concluding
    <3>5. LettingGo'
      BY <2>1, <3>1 DEF IInv, LettingGo
    <3> QED BY <3>2, <3>4, <3>5 DEF IInv
  <2> QED BY <2>4, <2>5
<1>6. CASE FinishTurn \/ TurnFails
  <2>1. job # "replied" /\ (Answer("done") \/ Answer("failed"))
    BY <1>6 DEF FinishTurn, TurnFails
  <2> QED BY <2>1, AnswerStep DEF Results
<1> QED BY <1>2, <1>3, <1>4, <1>5, <1>6 DEF Turn

\* The task ends: with its last event, or because the client is gone.
LEMMA EndStep ==
  ASSUME IInv, End, UNCHANGED <<worker, last, heard, client>>,
         outcome' \in Results \cup {None},
         client => outcome' # None,
         outcome' = "done" => last = "done" /\ heard = sent
  PROVE  IInv'
<1>1. /\ task' = "ended" /\ ~listening' /\ channel' = <<>>
      /\ UNCHANGED <<job, generated, streamed, sent, reply, wasted>>
  BY DEF End, worker
<1>2. Typed' /\ NothingLost' /\ IsPrefix(heard, sent)'
  BY <1>1, EmptySeq DEF IInv, Typed, NothingLost
<1>3. Concluding'
  BY <1>1 DEF IInv, Concluding
<1>4. LettingGo'
  BY <1>1 DEF IInv, LettingGo
<1> QED BY <1>2, <1>3, <1>4 DEF IInv

\* The task stops relaying for a result it was given, or for its timeout.
LEMMA ConcludeStep ==
  ASSUME IInv, NEW result \in Results, Conclude(result),
         result = "done" => reply = "done"
  PROVE  IInv'
<1>1. /\ task = "relaying" /\ task' = "draining" /\ last' = result /\ ~listening'
      /\ UNCHANGED <<job, generated, streamed, sent, reply, wasted>>
      /\ UNCHANGED <<channel, heard, outcome, client>>
  BY DEF Conclude, worker, around
<1>2. Typed' /\ NothingLost' /\ IsPrefix(heard, sent)'
  BY <1>1 DEF IInv, Typed, NothingLost
<1>3. outcome = None /\ None # "done"
  BY <1>1, ChatStreamAssumption DEF IInv, Concluding, Results
<1>4. Concluding'
  BY <1>1, <1>3, ChatStreamAssumption DEF IInv, Concluding
<1>5. LettingGo'
  BY <1>1 DEF IInv, LettingGo
<1> QED BY <1>2, <1>4, <1>5 DEF IInv

LEMMA TaskKeeps == IInv /\ Task => IInv'
<1> SUFFICES ASSUME IInv, Task PROVE IInv'
  OBVIOUS
<1>1. /\ sent \in Seq(Events) /\ channel \in Seq(Events) /\ heard \in Seq(Events)
      /\ reply \in Results \cup {None} /\ last \in Results \cup {None}
      /\ outcome \in Results \cup {None}
  BY DEF IInv, Typed
<1>2. CASE Relay /\ client
  <2>1. /\ task = "relaying" /\ channel # <<>>
        /\ heard' = Append(heard, Head(channel)) /\ channel' = Tail(channel)
        /\ UNCHANGED <<job, generated, streamed, sent, reply, wasted>>
        /\ UNCHANGED <<listening, task, last, outcome, client>>
    BY <1>2 DEF Relay, worker, around
  <2>2. /\ heard \o channel = sent /\ Head(channel) \in Events
        /\ heard' \in Seq(Events) /\ channel' \in Seq(Events)
    BY <1>1, <1>2, <2>1, HeadTailProperties, AppendProperties DEF IInv, NothingLost
  <2>3. heard' \o channel' = sent'
    BY <1>1, <2>1, <2>2, Passing
  <2>4. IsPrefix(heard', sent')
    BY <2>2, <2>3, Passing
  <2>5. outcome = None /\ None # "done"
    BY <2>1, ChatStreamAssumption DEF IInv, Concluding, Results
  <2>6. Typed' /\ Concluding' /\ LettingGo'
    BY <2>1, <2>2, <2>5 DEF IInv, Typed, Concluding, LettingGo
  <2> QED BY <2>3, <2>4, <2>6 DEF IInv, NothingLost
<1>3. CASE Relay /\ ~client
  <2>1. End /\ task = "relaying" /\ UNCHANGED <<worker, last, heard, outcome, client>>
    BY <1>3 DEF Relay, around
  <2>2. outcome = None /\ None # "done"
    BY <2>1, ChatStreamAssumption DEF IInv, Concluding, Results
  <2> QED BY <1>1, <1>3, <2>1, <2>2, EndStep
<1>4. CASE Replied
  BY <1>1, <1>4, ConcludeStep DEF Replied
<1>5. CASE TimesOut
  <2>1. "deadline" \in Results /\ Conclude("deadline")
    BY <1>5 DEF TimesOut, Results
  <2> QED BY <2>1, ConcludeStep
<1>6. CASE ClientGone
  <2>1. End /\ task = "relaying" /\ ~client
        /\ UNCHANGED <<worker, last, heard, outcome, client>>
    BY <1>6 DEF ClientGone, around
  <2>2. outcome = None /\ None # "done"
    BY <2>1, ChatStreamAssumption DEF IInv, Concluding, Results
  <2> QED BY <1>1, <2>1, <2>2, EndStep
<1>7. CASE Drain
  <2>1. /\ task = "draining" /\ channel # <<>> /\ channel' = Tail(channel)
        /\ heard' = IF client THEN Append(heard, Head(channel)) ELSE heard
        /\ UNCHANGED <<job, generated, streamed, sent, reply, wasted>>
        /\ UNCHANGED <<listening, task, last, outcome, client>>
    BY <1>7 DEF Drain, worker, around
  <2>2. Head(channel) \in Events /\ channel' \in Seq(Events)
        /\ Append(heard, Head(channel)) \in Seq(Events)
    BY <1>1, <2>1, HeadTailProperties, AppendProperties
  <2>3. heard' \in Seq(Events)
    BY <1>1, <2>1, <2>2
  <2>4. NothingLost' /\ IsPrefix(heard, sent)'
    <3>1. CASE client
      <4>1. heard \o channel = sent
        BY <2>1, <3>1 DEF IInv, NothingLost
      <4>2. heard' \o channel' = sent'
        BY <1>1, <2>1, <3>1, <4>1, Passing
      <4>3. IsPrefix(heard', sent')
        BY <2>2, <2>3, <4>2, Passing
      <4> QED BY <4>2, <4>3 DEF NothingLost
    <3>2. CASE ~client
      BY <2>1, <3>2 DEF IInv, NothingLost
    <3> QED BY <3>1, <3>2
  <2>5. outcome = None /\ None # "done"
    BY <2>1, ChatStreamAssumption DEF IInv, Concluding, Results
  <2>6. Typed' /\ Concluding' /\ LettingGo'
    BY <2>1, <2>2, <2>3, <2>5 DEF IInv, Typed, Concluding, LettingGo
  <2> QED BY <2>4, <2>6 DEF IInv
<1>8. CASE SendLast
  <2>1. /\ task = "draining" /\ channel = <<>> /\ End
        /\ outcome' = IF client THEN last ELSE None
        /\ UNCHANGED <<worker, last, heard, client>>
    BY <1>8 DEF SendLast, around
  <2>2. last # None /\ None # "done"
    BY <2>1, ChatStreamAssumption DEF IInv, Concluding, Results
  <2>3. client => heard = sent
    BY <1>1, <2>1, ConcatEmptySeq DEF IInv, NothingLost
  <2> QED BY <1>1, <2>1, <2>2, <2>3, EndStep
<1> QED BY <1>2, <1>3, <1>4, <1>5, <1>6, <1>7, <1>8 DEF Task

LEMMA NextIInv == IInv /\ [Next]_vars => IInv'
<1> SUFFICES ASSUME IInv, [Next]_vars PROVE IInv'
  OBVIOUS
<1>1. CASE Turn
  BY <1>1, TurnKeeps
<1>2. CASE Task
  BY <1>2, TaskKeeps
<1>3. CASE HangUp
  <2>1. client' = FALSE /\ client
        /\ UNCHANGED <<job, generated, streamed, sent, reply, wasted, channel>>
        /\ UNCHANGED <<listening, task, last, heard, outcome>>
    BY <1>3 DEF HangUp, worker, relay
  <2> QED BY <2>1 DEF IInv, Typed, NothingLost, Concluding, LettingGo
<1>4. CASE TimePasses \/ Stop \/ Over \/ UNCHANGED vars
  <2>1. /\ UNCHANGED <<job, generated, streamed, sent, reply, wasted, channel>>
        /\ UNCHANGED <<listening, task, last, heard, outcome, client>>
    BY <1>4 DEF TimePasses, Stop, Over, vars, worker, relay, around
  <2> QED BY <2>1 DEF IInv, Typed, NothingLost, Concluding, LettingGo
<1> QED BY <1>1, <1>2, <1>3, <1>4 DEF Next

LEMMA AlwaysIInv == Spec => []IInv
BY InitIInv, NextIInv, PTL DEF Spec

\* Whichever of the two channels the task looks at first, and whenever the
\* timeout passes: the client hears a beginning of what the worker sent, a
\* "done" after all of it, and if it stays it is told how the turn ended
\* (chat_stream: the channel is drained before the result is sent).
THEOREM AlwaysHearsTheWholeTurn == Spec => []HearsTheWholeTurn
<1>1. IInv => HearsTheWholeTurn
  BY DEF IInv, Concluding, HearsTheWholeTurn
<1> QED BY <1>1, AlwaysIInv, PTL

\* A turn nobody waits for any more sends one event at most: the closed reply
\* channel is seen at the boundary after it (the stop check of chat_turn's loop).
THEOREM AlwaysStopsAtNextBoundary == Spec => []StopsAtNextBoundary
<1>1. IInv => StopsAtNextBoundary
  BY DEF IInv, LettingGo, StopsAtNextBoundary
<1> QED BY <1>1, AlwaysIInv, PTL
-----------------------------------------------------------------------------
(* What the events carry of the text.                                      *)

\* What was carried is what the bytes so far read as, up to the end of a
\* character.
Spells(carried, bytes) ==
  \E whole, rest \in Seq(Characters) :
    Whole(whole) /\ bytes = whole \o rest /\ carried = Read(whole)

LEMMA SpellsBeginning ==
  ASSUME NEW bytes \in Seq(Characters), NEW carried, Spells(carried, bytes)
  PROVE  carried \in Seq(Characters) /\ IsPrefix(carried, Read(bytes))
<1>1. PICK whole \in Seq(Characters), rest \in Seq(Characters) :
        Whole(whole) /\ bytes = whole \o rest /\ carried = Read(whole)
  BY Zenon DEF Spells
<1>2. Read(whole) \in Seq(Characters) /\ Read(rest) \in Seq(Characters)
  BY ReadTyped
<1>3. Read(bytes) = Read(whole) \o Read(rest)
  BY <1>1, ReadConcat
<1>4. IsPrefix(Read(whole), Read(whole) \o Read(rest))
  BY <1>2, Passing
<1> QED BY <1>1, <1>2, <1>3, <1>4

Delivers(delta, text, carried, bytes) ==
  /\ delta \in Seq(Characters) /\ delta # None
  /\ Spells(carried \o delta, bytes)
  /\ StreamedTo(text, Bytes(carried)) = Bytes(carried \o delta)
  /\ carried \o delta # text => Unfinished(text)

\* The delta of a text that grew is what was not carried of it, unless the
\* text ends inside a character; it never fails.
LEMMA DeltaSpells ==
  ASSUME NEW bytes \in Seq(Characters), NEW more \in Seq(Characters), NEW carried,
         Spells(carried, bytes)
  PROVE  LET text == Read(bytes \o more)
         IN  Delivers(TextDelta(text, Bytes(carried)), text, carried, bytes \o more)
<1> DEFINE text == Read(bytes \o more)
           delta == TextDelta(text, Bytes(carried))
<1>1. PICK whole \in Seq(Characters), rest \in Seq(Characters) :
        Whole(whole) /\ bytes = whole \o rest /\ carried = Read(whole)
  BY Zenon DEF Spells
<1> DEFINE after == rest \o more
           r == Read(after)
<1>2. after \in Seq(Characters) /\ bytes \o more \in Seq(Characters)
  BY ConcatProperties
<1>3. bytes \o more = whole \o after
  <2>1. Associated(whole, rest, more)
    BY Associative
  <2> QED BY <1>1, <2>1, Zenon DEF Associated
<1> HIDE DEF after
<1>4. text = carried \o r /\ carried \in Seq(Characters) /\ r \in Seq(Characters)
  <2>1. Read(whole \o after) = Read(whole) \o r
    BY <1>1, <1>2, ReadConcat
  <2> QED BY <1>1, <1>2, <1>3, <2>1, ReadTyped
<1> HIDE DEF r, text
<1>5. <<>> \in Seq(Characters) /\ carried \o <<>> = carried
      /\ (bytes \o more) \o <<>> = bytes \o more
  BY <1>2, <1>4, ConcatEmptySeq, EmptySeq
<1>6. ASSUME Unfinished(text)
      PROVE  Delivers(delta, text, carried, bytes \o more)
  <2>1. delta = <<>> /\ StreamedTo(text, Bytes(carried)) = Bytes(carried)
    BY <1>6, Zenon DEF TextDelta, StreamedTo
  <2>2. Spells(carried, bytes \o more)
    BY <1>1, <1>2, <1>3, Zenon DEF Spells
  <2> QED BY <1>5, <1>6, <2>1, <2>2, ChatStreamAssumption DEF Delivers
<1>7. ASSUME ~Unfinished(text)
      PROVE  Delivers(delta, text, carried, bytes \o more)
  <2>1. From(text, Bytes(carried)) = r
    BY <1>4, FromRest
  <2>2. delta = r
    BY <1>7, <2>1, Zenon DEF TextDelta
  <2>3. Whole(bytes \o more)
    BY <1>2, <1>7, CutShows DEF text
  <2>4. Spells(text, bytes \o more)
    BY <1>2, <1>5, <2>3, Zenon DEF Spells, text
  <2>5. StreamedTo(text, Bytes(carried)) = Bytes(text)
    <3>1. StreamedTo(text, Bytes(carried)) = IF r = <<>> THEN Bytes(carried) ELSE Bytes(text)
      BY <2>2, Zenon DEF StreamedTo
    <3>2. r = <<>> => text = carried
      BY <1>4, <1>5
    <3> QED BY <3>1, <3>2
  <2> HIDE DEF delta
  <2> QED BY <1>4, <2>2, <2>4, <2>5, ChatStreamAssumption DEF Delivers
<1>8. Delivers(delta, text, carried, bytes \o more)
  BY <1>6, <1>7
<1> QED BY <1>8 DEF text

LEMMA TokensTyped ==
  ASSUME NEW tokens \in Seq(Vocabulary)
  PROVE  tokens \in Seq(Seq(Characters)) /\ FlattenSeq(tokens) \in Seq(Characters)
<1>1. Vocabulary \subseteq Seq(Characters)
  BY ChatStreamAssumption
<1> DEFINE Strings == Seq(Characters)
<1> HIDE DEF Strings
<1>2. Vocabulary \subseteq Strings
  BY <1>1 DEF Strings
<1>3. tokens \in Seq(Strings)
  BY <1>2
<1> QED BY <1>3, FlatTyped DEF Strings

Carried == FlattenSeq(IF sent = <<>> THEN <<>> ELSE Tail(sent))

Spelled ==
  /\ generated \in Seq(Vocabulary)
  /\ reply # "shrank"
  /\ sent = <<>> => generated = <<>>
  /\ sent # <<>> => Tail(sent) \in Seq(Seq(Characters))
  /\ Spells(Carried, FlattenSeq(generated))
  /\ streamed = Bytes(Carried)
  /\ Carried # Decoded(generated) => Unfinished(Decoded(generated))

LEMMA InitSpelled == Init => Spelled
<1> SUFFICES ASSUME Init PROVE Spelled
  OBVIOUS
<1>1. generated = <<>> /\ sent = <<>> /\ streamed = 0 /\ reply = None
  BY DEF Init
<1> DEFINE none == <<>>
<1>2. none \in Seq(Vocabulary) /\ none \in Seq(Characters) /\ Len(none) = 0
  BY EmptySeq
<1>3. FlattenSeq(none) = none
  BY FlattenJoins, JoinEmpty
<1>4. Carried = none /\ FlattenSeq(generated) = none
  BY <1>1, <1>3 DEF Carried
<1>5. Read(none) = none
  <2>1. Parts(none) \in Seq(Seq(Characters)) /\ Len(Parts(none)) = 0 /\ Read(none) = FlattenSeq(Parts(none))
    BY <1>2, ReadTyped
  <2>2. Parts(none) = none
    BY <2>1, EmptySeq
  <2> QED BY <1>3, <2>1, <2>2
<1>6. Decoded(generated) = none
  BY <1>4, <1>5 DEF Decoded
<1>7. Bytes(none) = 0
  <2>1. Of(none, "U+FFFD") = {} /\ Of(none, "pair") = {}
    BY <1>2 DEF Of
  <2>2. Cardinality({}) = 0
    BY FS_EmptySet
  <2>3. Bytes(none) = Len(none) + 2 * Cardinality(Of(none, "U+FFFD")) + Cardinality(Of(none, "pair"))
    BY Zenon DEF Bytes, Of
  <2>4. Cardinality(Of(none, "U+FFFD")) = 0 /\ Cardinality(Of(none, "pair")) = 0
    BY <2>1, <2>2
  <2> DEFINE z == Bytes(none)
  <2>5. z = 0 + 2 * 0 + 0
    BY <1>2, <2>3, <2>4
  <2> HIDE DEF z
  <2>6. z = 0
    BY <2>5
  <2> QED BY <2>6 DEF z
<1>8. Spells(none, none)
  <2>1. none \o none = none /\ Whole(none)
    BY <1>2, ConcatEmptySeq DEF Whole
  <2> HIDE DEF none
  <2> QED BY <1>2, <1>5, <2>1 DEF Spells
<1>9. reply # "shrank"
  BY <1>1, ChatStreamAssumption DEF Results
<1> QED BY <1>1, <1>2, <1>4, <1>6, <1>7, <1>8, <1>9 DEF Spelled

LEMMA TailAppend ==
  ASSUME NEW S, NEW seq \in Seq(S), seq # <<>>, NEW e
  PROVE  Append(seq, e) # <<>> /\ Tail(Append(seq, e)) = Append(Tail(seq), e)
<1> DEFINE T == S \cup {e}
           more == Append(seq, e)
           rest == Tail(seq)
<1>1. seq \in Seq(T) /\ e \in T /\ Len(seq) \in Nat \ {0}
  BY EmptySeq, LenProperties
<1> HIDE DEF T
<1>2. /\ more \in Seq(T) /\ Len(more) = Len(seq) + 1 /\ more[Len(seq) + 1] = e
      /\ \A i \in 1..Len(seq) : more[i] = seq[i]
  BY <1>1, AppendProperties
<1>3. /\ rest \in Seq(T) /\ Len(rest) = Len(seq) - 1
      /\ \A i \in 1..Len(rest) : rest[i] = seq[i + 1]
  BY <1>1, HeadTailProperties
<1> HIDE DEF more, rest
<1>4. more # <<>>
  BY <1>1, <1>2, EmptySeq
<1>5. /\ Tail(more) \in Seq(T) /\ Len(Tail(more)) = Len(seq)
      /\ \A i \in 1..Len(seq) : Tail(more)[i] = more[i + 1]
  BY <1>1, <1>2, <1>4, HeadTailProperties
<1>6. /\ Append(rest, e) \in Seq(T) /\ Len(Append(rest, e)) = Len(seq)
      /\ Append(rest, e)[Len(seq)] = e
      /\ \A i \in 1..Len(seq) - 1 : Append(rest, e)[i] = rest[i]
  BY <1>1, <1>3, AppendProperties
<1>7. ASSUME NEW i \in 1..Len(seq)
      PROVE  Tail(more)[i] = Append(rest, e)[i]
  <2>1. CASE i = Len(seq)
    BY <1>1, <1>2, <1>5, <1>6, <2>1
  <2>2. CASE i # Len(seq)
    <3>1. i \in 1..Len(seq) - 1 /\ i + 1 \in 1..Len(seq)
      BY <1>1, <2>2
    <3> QED BY <1>2, <1>3, <1>5, <1>6, <3>1
  <2> QED BY <2>1, <2>2
<1>8. Tail(more) = Append(rest, e)
  BY <1>5, <1>6, <1>7, SeqEqual
<1> QED BY <1>4, <1>8 DEF more, rest

\* A token generated: the event carries what it adds.
LEMMA GenerateSpells ==
  ASSUME Spelled, NEW token \in Vocabulary, sent # <<>>, sent \in Seq(Events)
  PROVE  LET text == Decoded(Append(generated, token))
             delta == TextDelta(text, streamed)
         IN  /\ delta # None
             /\ generated' = Append(generated, token) /\ streamed' = StreamedTo(text, streamed)
                /\ SendEvent(delta) => Spelled'
<1> DEFINE text == Decoded(Append(generated, token))
           delta == TextDelta(text, streamed)
           bytes == FlattenSeq(generated)
           carried == Carried
<1>1. /\ generated \in Seq(Vocabulary) /\ Append(generated, token) \in Seq(Vocabulary)
      /\ token \in Seq(Characters)
  BY AppendProperties, ChatStreamAssumption DEF Spelled
<1>2. /\ generated \in Seq(Seq(Characters)) /\ bytes \in Seq(Characters)
      /\ FlattenSeq(Append(generated, token)) = bytes \o token
  BY <1>1, TokensTyped, FlatAppend
<1>3. text = Read(bytes \o token)
  BY <1>2 DEF Decoded
<1>4. Spells(carried, bytes) /\ streamed = Bytes(carried)
  BY DEF Spelled
<1>5. delta = TextDelta(text, Bytes(carried))
  BY <1>4
<1> HIDE DEF text, delta, bytes, carried
<1>6. /\ delta \in Seq(Characters) /\ delta # None
      /\ Spells(carried \o delta, bytes \o token)
      /\ StreamedTo(text, Bytes(carried)) = Bytes(carried \o delta)
      /\ carried \o delta # text => Unfinished(text)
  <2>1. token \in Seq(Characters) /\ bytes \in Seq(Characters)
    BY <1>1, <1>2
  <2>2. LET t == Read(bytes \o token)
        IN  Delivers(TextDelta(t, Bytes(carried)), t, carried, bytes \o token)
    BY <1>4, <2>1, DeltaSpells
  <2>3. Delivers(delta, text, carried, bytes \o token)
    BY <1>3, <1>5, <2>2, Zenon
  <2> QED BY <2>3, Zenon DEF Delivers
<1>7. ASSUME generated' = Append(generated, token), streamed' = StreamedTo(text, streamed), SendEvent(delta)
      PROVE  Spelled'
  <2>1. sent' = Append(sent, delta) /\ reply' = reply
    BY <1>7 DEF SendEvent
  <2>2. Tail(sent) \in Seq(Seq(Characters)) /\ carried = FlattenSeq(Tail(sent))
    BY DEF Spelled, carried, Carried
  <2>3. Append(sent, delta) # <<>> /\ Tail(Append(sent, delta)) = Append(Tail(sent), delta)
    BY TailAppend
  <2>4. Carried' = carried \o delta
    <3>1. Append(Tail(sent), delta) \in Seq(Seq(Characters))
          /\ FlattenSeq(Append(Tail(sent), delta)) = carried \o delta
      BY <1>6, <2>2, FlatAppend, AppendProperties
    <3> QED BY <2>1, <2>3, <3>1 DEF Carried
  <2>5. Tail(sent') \in Seq(Seq(Characters)) /\ sent' # <<>>
    BY <1>6, <2>1, <2>2, <2>3, AppendProperties
  <2>6. /\ Decoded(generated)' = text
        /\ FlattenSeq(generated)' = bytes \o token
    BY <1>2, <1>7 DEF text
  <2> QED BY <1>1, <1>4, <1>6, <1>7, <2>1, <2>4, <2>5, <2>6 DEF Spelled
<1> QED BY <1>6, <1>7 DEF text, delta

\* Neither the text nor its events change.
LEMMA StillSpelled ==
  ASSUME Spelled, UNCHANGED <<generated, streamed, sent>>, reply' # "shrank"
  PROVE  Spelled'
BY DEF Spelled, Carried

LEMMA NextSpelled == IInv /\ Spelled /\ [Next]_vars => Spelled'
<1> SUFFICES ASSUME IInv, Spelled, [Next]_vars PROVE Spelled'
  OBVIOUS
<1>1. reply # "shrank" /\ sent \in Seq(Events)
  BY DEF Spelled, IInv, Typed
<1>2. CASE Unwanted \/ FinishTurn \/ TurnFails
  <2>1. PICK result \in {"cancelled", "deadline", "done", "failed"} : Answer(result)
    BY <1>2 DEF Unwanted, FinishTurn, TurnFails
  <2> QED BY <2>1, StillSpelled DEF Answer
<1>3. CASE Proceed
  BY <1>1, <1>3, StillSpelled DEF Proceed
<1>4. CASE Announce
  <2>1. sent = <<>> /\ sent' = Append(sent, Announced) /\ reply' = reply
        /\ UNCHANGED <<generated, streamed>>
    BY <1>4 DEF Announce, SendEvent
  <2>2. sent' # <<>> /\ Tail(sent') = <<>>
    BY <2>1
  <2>3. Carried' = Carried
    BY <2>1, <2>2 DEF Carried
  <2>4. <<>> \in Seq(Seq(Characters))
    BY EmptySeq
  <2> QED BY <1>1, <2>1, <2>2, <2>3, <2>4 DEF Spelled
<1>5. CASE Generate
  <2>1. PICK token \in Vocabulary :
          LET text == Decoded(Append(generated, token))
          IN  /\ generated' = Append(generated, token)
              /\ streamed' = StreamedTo(text, streamed)
              /\ IF TextDelta(text, streamed) = None
                   THEN /\ job' = "replied" /\ reply' = "shrank"
                        /\ UNCHANGED <<sent, channel, wasted, relay, around>>
                   ELSE SendEvent(TextDelta(text, streamed))
    BY <1>5 DEF Generate
  <2>2. sent # <<>>
    BY <1>5 DEF Generate
  <2> QED BY <1>1, <2>1, <2>2, GenerateSpells
<1>6. CASE Task
  <2>1. UNCHANGED worker
    BY <1>6 DEF Task, Relay, Replied, TimesOut, ClientGone, Drain, SendLast, Conclude
  <2> QED BY <1>1, <2>1, StillSpelled DEF worker
<1>7. CASE HangUp \/ TimePasses \/ Stop \/ Over \/ UNCHANGED vars
  <2>1. UNCHANGED worker
    BY <1>7 DEF HangUp, TimePasses, Stop, Over, vars
  <2> QED BY <1>1, <2>1, StillSpelled DEF worker
<1> QED BY <1>2, <1>3, <1>4, <1>5, <1>6, <1>7 DEF Next, Turn

\* However the tokens cut their characters, and whatever the text: text_delta
\* never finds what it sent changed, what the token events carry is a beginning
\* of the reply's text and all of it unless that ends inside a character, and a
\* turn split at its reasoning renders back to its text or is refused for its
\* control tokens (text_delta, split_reasoning, Message::render).
THEOREM AlwaysSpellsTheText == Spec => []TokensSpellTheText
<1>1. Spec => []Spelled
  BY AlwaysIInv, InitSpelled, NextSpelled, PTL DEF Spec
<1>2. Spelled => TokensSpellTheText
  <2> SUFFICES ASSUME Spelled PROVE TokensSpellTheText
    OBVIOUS
  <2>1. generated \in Seq(Vocabulary) /\ FlattenSeq(generated) \in Seq(Characters)
    BY TokensTyped DEF Spelled
  <2>2. IsPrefix(Carried, Decoded(generated))
    BY <2>1, SpellsBeginning DEF Spelled, Decoded
  <2>3. TurnText \in Seq(Characters)
    <3>1. ASSUME NEW tokens \in Seq(Vocabulary)
          PROVE  Decoded(tokens) \in Seq(Characters)
      BY TokensTyped, ReadTyped DEF Decoded
    <3>2. generated # <<>> => Front(generated) \in Seq(Vocabulary)
      <4>1. ASSUME generated # <<>> PROVE Len(generated) - 1 \in 0..Len(generated)
        BY <2>1, <4>1, EmptySeq, LenProperties
      <4> QED BY <2>1, <4>1, PrefixOfPath DEF Front
    <3> QED BY <2>1, <3>1, <3>2 DEF TurnText, Stopped
  <2>4. None \notin {SplitReasoning(TurnText).thinking, SplitReasoning(TurnText).content}
          => Rerendered(SplitReasoning(TurnText)) \in {TurnText, None}
    BY <2>3, SplitRenders
  <2> QED BY <2>2, <2>4, Zenon DEF Spelled, TokensSpellTheText, Carried
<1> QED BY <1>1, <1>2, PTL
=============================================================================
