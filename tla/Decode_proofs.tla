---------------------------- MODULE Decode_proofs ----------------------------
(* Constrained decoding never comes to a place without a token, is where its *)
(* text leads, and accepts what its mask permits: for every schema, every    *)
(* vocabulary that has a token for each byte, and whatever the model picks.  *)
EXTENDS Documents, Subsequence_proofs

\* What a literal or a choice spells, and the segments compile() makes.
Spellings == Seq(Byte) \ {<<>>}
Segments ==
  [free : {TRUE}, spellings : {<<>>}]
    \cup [free : {FALSE}, spellings : Seq(Spellings) \ {<<>>}]
Programs == Seq(Segments)

\* The cursor is at a place some document goes on from: before or inside a
\* free string, where a character begun can be finished, or short of the end of
\* a spelling.
Live(prog, c) ==
  /\ c \in Cursors /\ c.segment \in 1..Len(prog) + 1
  /\ c.cont > 0 => c.width \in 2..4 /\ Reachable(c.scalar, c.cont, c.width)
  /\ c.segment \in 1..Len(prog) =>
       LET s == prog[c.segment]
       IN  IF s.free THEN c.written \in {<<>>, <<Quote>>}
           ELSE \E i \in 1..Len(s.spellings) :
                  IsPrefix(c.written, s.spellings[i]) /\ c.written # s.spellings[i]

\* What a decode loop relies on between steps: the program is the compiled
\* schema, the cursor is at a live place or the generation has failed, and a
\* described slot is a number of tokens.
Decoding ==
  /\ schema \in Schemas
  /\ \/ program = <<>> /\ phase \in {"boot", "refused"}
     \/ program = Compile(schema) /\ ~GrammarRefuses(schema) /\ phase \notin {"boot", "refused"}
  /\ program = <<>> => cursor = Start
  /\ program # <<>> => cursor = None \/ Live(program, cursor)
  /\ tokens \in Seq(Nat) /\ slots \in Seq(1..Len(tokens))
  /\ record # NoRecord => record.token \in record.permitted
-----------------------------------------------------------------------------
(* Characters.                                                             *)

Lowest(width) == CASE width = 2 -> 128 [] width = 3 -> 2048 [] OTHER -> 65536
Legal(x, width) == x \in Lowest(width)..1114111 /\ x \notin 55296..57343

\* The bits so far begin x.
Begun(scalar, cont, x) ==
  scalar * 64 ^ cont <= x /\ x <= scalar * 64 ^ cont + 64 ^ cont - 1

LEMMA Powers == 64 ^ 0 = 1 /\ 64 ^ 1 = 64 /\ 64 ^ 2 = 64 * 64 /\ 64 ^ 3 = 64 * (64 * 64)
<1>1. 64 ^ 0 = 1
  BY SMT
<1>2. 64 ^ 1 = 64
  BY SMT
<1>3. 64 ^ 2 = 64 * 64
  BY SMT
<1>4. 64 ^ 3 = 64 * (64 * 64)
  BY SMT
<1> QED BY <1>1, <1>2, <1>3, <1>4

\* A character begun can be finished exactly when one of the scalars its bits
\* begin is legal.
LEMMA ReachableIs ==
  ASSUME NEW scalar \in Nat, NEW cont \in 0..3, NEW width \in 2..4
  PROVE  Reachable(scalar, cont, width)
           <=> \E x \in Nat : Legal(x, width) /\ Begun(scalar, cont, x)
<1> DEFINE low == scalar * 64 ^ cont
           high == low + 64 ^ cont - 1
           floor == Lowest(width)
           first == IF low > floor THEN low ELSE floor
           last == IF high < 1114111 THEN high ELSE 1114111
<1>1. 64 ^ cont \in Nat \ {0} /\ low \in Nat
  <2>2. cont = 0 \/ cont = 1 \/ cont = 2 \/ cont = 3
    OBVIOUS
  <2>3. 64 ^ cont \in Nat \ {0}
    <3>1. CASE cont = 0
      BY <3>1, Powers, SMT
    <3>2. CASE cont = 1
      BY <3>2, Powers, SMT
    <3>3. CASE cont = 2
      BY <3>3, Powers, SMT
    <3>4. CASE cont = 3
      BY <3>4, Powers, SMT
    <3> QED BY <2>2, <3>1, <3>2, <3>3, <3>4
  <2> QED BY <2>3, SMT
<1>2. floor \in {128, 2048, 65536}
  BY SMT DEF Lowest
<1>3. Reachable(scalar, cont, width) <=> first <= last /\ ~(first >= 55296 /\ last <= 57343)
  BY DEF Reachable, Lowest
<1> HIDE DEF low, floor
<1> DEFINE span == 64 ^ cont
<1> HIDE DEF span
<1>4. span \in Nat \ {0} /\ high = low + span - 1
  BY <1>1 DEF span
<1> HIDE DEF high
<1>5. high \in Nat /\ low <= high
  BY <1>1, <1>4
<1>12. floor \in Nat /\ low \in Nat
  <2>1. floor \in Nat
    BY <1>2, SMT
  <2>2. low \in Nat
    BY <1>1, Zenon
  <2> QED BY <2>1, <2>2, Zenon
<1>6. first \in Nat /\ last \in Nat
  <2>1. first \in {low, floor} /\ last \in {high, 1114111}
    OBVIOUS
  <2> QED BY <1>5, <1>12, <2>1, SMT
<1>7. \A x \in Nat : first <= x /\ x <= last
        <=> low <= x /\ x <= high /\ floor <= x /\ x <= 1114111
  <2>1. \A x \in Nat : first <= x <=> low <= x /\ floor <= x
    BY <1>12, SMT
  <2>2. \A x \in Nat : x <= last <=> x <= high /\ x <= 1114111
    BY <1>5, SMT
  <2> QED BY <2>1, <2>2, SMT
<1> HIDE DEF first, last
<1>8. (first <= last /\ ~(first >= 55296 /\ last <= 57343))
        <=> \E x \in Nat : first <= x /\ x <= last /\ x \notin 55296..57343
  <2>1. ASSUME first <= last, ~(first >= 55296 /\ last <= 57343)
        PROVE  \E x \in Nat : first <= x /\ x <= last /\ x \notin 55296..57343
    <3>1. CASE first < 55296
      BY <1>6, <2>1, <3>1
    <3>2. CASE last > 57343
      BY <1>6, <2>1, <3>2
    <3> QED BY <1>6, <2>1, <3>1, <3>2
  <2>2. ASSUME NEW x \in Nat, first <= x, x <= last, x \notin 55296..57343
        PROVE  first <= last /\ ~(first >= 55296 /\ last <= 57343)
    BY <1>6, <2>2
  <2> QED BY <2>1, <2>2
<1>9. \A x \in Nat : first <= x /\ x <= last /\ x \notin 55296..57343
        <=> Legal(x, width) /\ low <= x /\ x <= high
  <2>1. \A x \in Nat : Legal(x, width) <=> floor <= x /\ x <= 1114111 /\ x \notin 55296..57343
    <3>1. \A x \in Nat : x \in floor..1114111 <=> floor <= x /\ x <= 1114111
      BY <1>12, SMT
    <3> QED BY <3>1, SMT DEF Legal, floor
  <2> QED BY <1>7, <2>1, SMT
<1>10. high = scalar * 64 ^ cont + 64 ^ cont - 1 /\ low = scalar * 64 ^ cont
  BY DEF high, low
<1>11. \A x \in Nat : Begun(scalar, cont, x) <=> low <= x /\ x <= high
  BY <1>10 DEF Begun
<1> QED BY <1>3, <1>8, <1>9, <1>11

\* A character begun has a next byte.
LEMMA ReachableGoes ==
  ASSUME NEW scalar \in Nat, NEW cont \in 1..3, NEW width \in 2..4,
         Reachable(scalar, cont, width)
  PROVE  \E d \in 0..63 : Reachable(scalar * 64 + d, cont - 1, width)
<1> DEFINE span == 64 ^ (cont - 1)
<1>1. span \in {1, 64, 4096} /\ 64 ^ cont = 64 * span
  <2>2. (cont = 1 /\ cont - 1 = 0) \/ (cont = 2 /\ cont - 1 = 1) \/ (cont = 3 /\ cont - 1 = 2)
    OBVIOUS
  <2>3. CASE cont = 1 /\ cont - 1 = 0
    BY <2>3, Powers, SMT
  <2>4. CASE cont = 2 /\ cont - 1 = 1
    BY <2>4, Powers, SMT
  <2>5. CASE cont = 3 /\ cont - 1 = 2
    BY <2>5, Powers, SMT
  <2> QED BY <2>2, <2>3, <2>4, <2>5
<1>2. PICK x \in Nat : /\ Legal(x, width)
                       /\ scalar * 64 ^ cont <= x
                       /\ x <= scalar * 64 ^ cont + 64 ^ cont - 1
  <2>1. cont \in 0..3
    OBVIOUS
  <2>2. \E x \in Nat : Legal(x, width) /\ Begun(scalar, cont, x)
    BY <2>1, ReachableIs, Zenon
  <2> QED BY <2>2, Zenon DEF Begun
<1> HIDE DEF span
<1>3. PICK d \in 0..63 : /\ (scalar * 64 + d) * span <= x
                         /\ x <= (scalar * 64 + d) * span + span - 1
  <2>1. CASE span = 1
    <3>1. x - scalar * 64 \in 0..63
      BY <1>1, <1>2, <2>1
    <3> QED BY <2>1, <3>1
  <2>2. CASE span = 64
    <3> DEFINE e == (x - scalar * 4096) \div 64
    <3>1. x - scalar * 4096 \in 0..4095
      BY <1>1, <1>2, <2>2
    <3>2. e \in 0..63 /\ e * 64 <= x - scalar * 4096 /\ x - scalar * 4096 <= e * 64 + 63
      BY <3>1
    <3> HIDE DEF e
    <3>3. (scalar * 64 + e) * 64 = scalar * 4096 + e * 64
      BY <3>2
    <3>4. (scalar * 64 + e) * 64 <= x /\ x <= (scalar * 64 + e) * 64 + 64 - 1
      BY <3>2, <3>3
    <3> QED BY <2>2, <3>2, <3>4
  <2>3. CASE span = 4096
    <3> DEFINE y == x - scalar * 262144
               e == y \div 4096
    <3>1. 64 ^ cont = 262144
      BY <1>1, <2>3, SMT
    <3>5. scalar * 262144 <= x /\ x < scalar * 262144 + 262144
      BY <1>2, <3>1, SMT
    <3>6. y \in Nat /\ y < 262144 /\ x = scalar * 262144 + y
      BY <3>5, SMT
    <3> HIDE DEF y
    <3>2. e \in 0..63 /\ e * 4096 <= y /\ y <= e * 4096 + 4095
      BY <3>6, SMT
    <3> HIDE DEF e
    <3>3. (scalar * 64 + e) * 4096 = scalar * 262144 + e * 4096
      BY <3>2, SMT
    <3>4. (scalar * 64 + e) * 4096 <= x /\ x <= (scalar * 64 + e) * 4096 + 4096 - 1
      BY <3>2, <3>3, <3>6, SMT
    <3> QED BY <2>3, <3>2, <3>4, SMT
  <2> QED BY <1>1, <2>1, <2>2, <2>3
<1>4. scalar * 64 + d \in Nat /\ cont - 1 \in 0..3
  OBVIOUS
<1>5. Reachable(scalar * 64 + d, cont - 1, width)
  <2> DEFINE next == scalar * 64 + d
             left == cont - 1
  <2>1. next \in Nat /\ left \in 0..3 /\ Begun(next, left, x)
    BY <1>3, <1>4 DEF span, Begun
  <2> HIDE DEF next, left
  <2>2. Reachable(next, left, width)
    BY <1>2, <2>1, ReachableIs, Zenon
  <2> QED BY <2>2 DEF next, left
<1> QED BY <1>5
-----------------------------------------------------------------------------
(* Places.                                                                 *)

LEMMA PrefixByElement ==
  ASSUME NEW S, NEW s \in Seq(S), NEW t \in Seq(S)
  PROVE  IsPrefix(s, t) <=> Len(s) <= Len(t) /\ \A i \in 1..Len(s) : s[i] = t[i]
<1>1. Len(s) \in Nat /\ Len(t) \in Nat
  BY LenProperties
<1>2. SubSeq(s, 1, Len(s)) = s
  BY SubSeqFull
<1>3. ASSUME Len(s) <= Len(t)
      PROVE  /\ SubSeq(t, 1, Len(s)) \in Seq(S)
             /\ Len(SubSeq(t, 1, Len(s))) = Len(s)
             /\ \A i \in 1..Len(s) : SubSeq(t, 1, Len(s))[i] = t[i]
  BY <1>1, <1>3
<1> QED BY <1>1, <1>2, <1>3, SeqEqual DEF IsPrefix

\* The two kinds of segment.
LEMMA SegmentIs ==
  ASSUME NEW prog \in Programs, NEW k \in 1..Len(prog)
  PROVE  \/ prog[k].free = TRUE
         \/ /\ prog[k].free = FALSE
            /\ prog[k].spellings \in Seq(Spellings) /\ prog[k].spellings # <<>>
            /\ Len(prog[k].spellings) \in Nat \ {0}
            /\ \A i \in 1..Len(prog[k].spellings) :
                 prog[k].spellings[i] \in Seq(Byte) /\ prog[k].spellings[i] # <<>>
<1>1. prog[k] \in Segments
  BY ElementOfSeq DEF Programs
<1>2. CASE prog[k] \in [free : {TRUE}, spellings : {<<>>}]
  BY <1>2
<1>3. CASE prog[k] \in [free : {FALSE}, spellings : Seq(Spellings) \ {<<>>}]
  <2>1. prog[k].free = FALSE /\ prog[k].spellings \in Seq(Spellings) /\ prog[k].spellings # <<>>
    BY <1>3
  <2>2. Len(prog[k].spellings) \in Nat \ {0}
    BY <2>1, EmptySeq
  <2>3. \A i \in 1..Len(prog[k].spellings) : prog[k].spellings[i] \in Spellings
    BY <2>1, ElementOfSeq
  <2> QED BY <2>1, <2>2, <2>3 DEF Spellings
<1> QED BY <1>1, <1>2, <1>3 DEF Segments

LEMMA CursorTyped ==
  ASSUME NEW k \in Nat, NEW s \in Seq(Byte)
  PROVE  /\ Cursor(k, s) \in Cursors /\ Cursor(k, s).segment = k /\ Cursor(k, s).written = s
         /\ Cursor(k, s).cont = 0
BY DEF Cursor, Cursors

\* A cursor in another place of its character.
At(c, scalar, cont, width) == [c EXCEPT !.scalar = scalar, !.cont = cont, !.width = width]

Placed(c, d, scalar, cont, width) ==
  /\ d \in Cursors /\ d.segment = c.segment /\ d.written = c.written
  /\ d.scalar = scalar /\ d.cont = cont /\ d.width = width

LEMMA CursorAt ==
  ASSUME NEW c \in Cursors, NEW scalar \in Nat, NEW cont \in 0..3, NEW width \in 0..4
  PROVE  Placed(c, At(c, scalar, cont, width), scalar, cont, width)
<1> DEFINE d == [c EXCEPT !.scalar = scalar]
           e == [d EXCEPT !.cont = cont]
           f == [e EXCEPT !.width = width]
<1>1. /\ d \in Cursors /\ d.segment = c.segment /\ d.written = c.written /\ d.scalar = scalar
  BY DEF Cursors
<1> HIDE DEF d
<1>2. /\ e \in Cursors /\ e.segment = d.segment /\ e.written = d.written /\ e.scalar = d.scalar
      /\ e.cont = cont
  BY <1>1 DEF Cursors
<1> HIDE DEF e
<1>3. /\ f \in Cursors /\ f.segment = e.segment /\ f.written = e.written /\ f.scalar = e.scalar
      /\ f.cont = e.cont /\ f.width = width
  BY <1>2 DEF Cursors
<1>4. At(c, scalar, cont, width) = f
  BY Zenon DEF At, d, e
<1> HIDE DEF f
<1> QED BY <1>1, <1>2, <1>3, <1>4 DEF Placed

\* The start of a segment is live.
LEMMA FreshLive ==
  ASSUME NEW prog \in Programs, NEW k \in 1..Len(prog) + 1
  PROVE  Live(prog, Cursor(k, <<>>))
<1> DEFINE c == Cursor(k, <<>>)
<1>1. Len(prog) \in Nat /\ k \in Nat /\ <<>> \in Seq(Byte)
  BY LenProperties, EmptySeq DEF Programs
<1>2. c \in Cursors /\ c.segment = k /\ c.written = <<>> /\ c.cont = 0
  BY <1>1, CursorTyped
<1> HIDE DEF c
<1>3. ASSUME k \in 1..Len(prog), prog[k].free # TRUE
      PROVE  \E i \in 1..Len(prog[k].spellings) :
               IsPrefix(<<>>, prog[k].spellings[i]) /\ <<>> # prog[k].spellings[i]
  <2>1. /\ 1 \in 1..Len(prog[k].spellings)
        /\ prog[k].spellings[1] \in Seq(Byte) /\ prog[k].spellings[1] # <<>>
    <3>1. /\ Len(prog[k].spellings) \in Nat \ {0}
          /\ \A i \in 1..Len(prog[k].spellings) :
               prog[k].spellings[i] \in Seq(Byte) /\ prog[k].spellings[i] # <<>>
      BY <1>3, SegmentIs, Zenon
    <3>2. 1 \in 1..Len(prog[k].spellings)
      BY <3>1
    <3> QED BY <3>1, <3>2, Zenon
  <2>2. IsPrefix(<<>>, prog[k].spellings[1])
    <3> DEFINE t == prog[k].spellings[1]
    <3>1. Len(<<>>) = 0 /\ Len(t) \in Nat /\ 1..0 = {}
      BY <2>1, LenProperties, EmptySeq
    <3> HIDE DEF t
    <3>2. t \in Seq(Byte)
      BY <2>1 DEF t
    <3>3. Len(<<>>) <= Len(t) /\ \A i \in 1..Len(<<>>) : <<>>[i] = t[i]
      BY <3>1
    <3>4. IsPrefix(<<>>, t)
      BY <1>1, <3>2, <3>3, PrefixByElement, Zenon
    <3> QED BY <3>4 DEF t
  <2> QED BY <2>1, <2>2
<1>4. ~(c.cont > 0)
  BY <1>2
<1>5. Live(prog, c)
  <2>1. c \in Cursors /\ c.segment \in 1..Len(prog) + 1
    BY <1>2
  <2>2. ASSUME c.segment \in 1..Len(prog), prog[c.segment].free
        PROVE  c.written \in {<<>>, <<Quote>>}
    BY <1>2
  <2>3. ASSUME c.segment \in 1..Len(prog), ~prog[c.segment].free
        PROVE  \E i \in 1..Len(prog[c.segment].spellings) :
                 IsPrefix(c.written, prog[c.segment].spellings[i])
                   /\ c.written # prog[c.segment].spellings[i]
    <3>1. prog[k].free # TRUE /\ k \in 1..Len(prog)
      BY <1>2, <2>3
    <3> QED BY <1>2, <1>3, <3>1, Zenon
  <2> QED BY <1>4, <2>1, <2>2, <2>3, Zenon DEF Live
<1> QED BY <1>5 DEF c

\* Another place in the same free string.
Inside(c, d) ==
  /\ d \in Cursors /\ d.segment = c.segment /\ d.written = c.written
  /\ d.cont > 0 => d.width \in 2..4 /\ Reachable(d.scalar, d.cont, d.width)

LEMMA InsideLive ==
  ASSUME NEW prog, NEW c, NEW d, Live(prog, c), Inside(c, d)
  PROVE  Live(prog, d)
BY DEF Live, Inside

\* Byte by byte, a free string's body leads to another place of it or past its
\* closing quote.
LEMMA ContinueInside ==
  ASSUME NEW c \in Cursors, c.cont > 0, c.width \in 2..4, NEW b \in Byte
  PROVE  /\ Continue(c, b) = None \/ Inside(c, Continue(c, b))
         /\ b \in 128..191 /\ Reachable(c.scalar * 64 + (b % 64), c.cont - 1, c.width)
              => Inside(c, Continue(c, b))
<1> DEFINE scalar == c.scalar * 64 + (b % 64)
           cont == c.cont - 1
<1>1. c.scalar \in Nat /\ c.cont \in 1..3 /\ c.segment \in Nat /\ c.written \in Seq(Byte)
      /\ c.nonws \in BOOLEAN /\ c.escape \in BOOLEAN
  BY DEF Cursors
<1>2. scalar \in Nat /\ cont \in 0..2
  BY <1>1 DEF Byte
<1> HIDE DEF scalar, cont
<1>3. CASE b \notin 128..191 \/ ~Reachable(scalar, cont, c.width)
  <2>1. ~(b \in 128..191 /\ Reachable(c.scalar * 64 + (b % 64), c.cont - 1, c.width))
    BY <1>3 DEF scalar, cont
  <2>2. Continue(c, b) = None
    BY <1>3 DEF Continue, scalar, cont
  <2> QED BY <2>1, <2>2, Zenon
<1>4. CASE ~(b \notin 128..191 \/ ~Reachable(scalar, cont, c.width)) /\ cont > 0
  <2> DEFINE d == At(c, scalar, cont, c.width)
  <2>1. Continue(c, b) = d
    <3>1. Continue(c, b) = [c EXCEPT !.scalar = scalar, !.cont = cont]
      BY <1>4 DEF Continue, scalar, cont
    <3>2. [c EXCEPT !.scalar = scalar, !.cont = cont] = d
      BY DEF At, Cursors
    <3> QED BY <3>1, <3>2
  <2>2. /\ d \in Cursors /\ d.segment = c.segment /\ d.written = c.written
        /\ d.scalar = scalar /\ d.cont = cont /\ d.width = c.width
    <3>1. cont \in 0..3
      BY <1>2
    <3>2. c.width \in 0..4
      BY DEF Cursors
    <3>3. Placed(c, d, scalar, cont, c.width)
      BY <1>2, <3>1, <3>2, CursorAt, Zenon
    <3> HIDE DEF d
    <3> QED BY <3>3, Zenon DEF Placed
  <2> HIDE DEF d
  <2>3. Inside(c, d)
    BY <1>4, <2>2 DEF Inside
  <2> QED BY <2>1, <2>3
<1>5. CASE ~(b \notin 128..191 \/ ~Reachable(scalar, cont, c.width)) /\ ~(cont > 0)
  <2> DEFINE d == [c EXCEPT !.scalar = 0, !.cont = 0, !.width = 0,
                            !.nonws = c.nonws \/ ~IsWhitespace(scalar)]
  <2>1. Continue(c, b) = d
    BY <1>5 DEF Continue, scalar, cont
  <2>2. d \in Cursors /\ d.segment = c.segment /\ d.written = c.written /\ d.cont = 0
    <3> DEFINE e == At(c, 0, 0, 0)
    <3>1. e \in Cursors /\ e.segment = c.segment /\ e.written = c.written /\ e.cont = 0
      BY CursorAt DEF Placed
    <3>2. d = [e EXCEPT !.nonws = c.nonws \/ ~IsWhitespace(scalar)]
      BY Zenon DEF At
    <3> HIDE DEF e, d
    <3>3. (c.nonws \/ ~IsWhitespace(scalar)) \in BOOLEAN
      OBVIOUS
    <3> QED BY <3>1, <3>2, <3>3 DEF Cursors
  <2> HIDE DEF d
  <2>3. Inside(c, d)
    BY <2>2 DEF Inside
  <2> QED BY <2>1, <2>3
<1> QED BY <1>3, <1>4, <1>5

LEMMA LeadInside ==
  ASSUME NEW c \in Cursors, NEW b \in Byte, b \in 194..244
  PROVE  Lead(c, b) = None \/ Inside(c, Lead(c, b))
<1> DEFINE cont == CASE b \in 194..223 -> 1 [] b \in 224..239 -> 2 [] OTHER -> 3
           scalar == b % (CASE cont = 1 -> 32 [] cont = 2 -> 16 [] OTHER -> 8)
           d == At(c, scalar, cont, cont + 1)
<1>1. cont \in 1..3
  BY SMT
<1>2. Lead(c, b) = IF Reachable(scalar, cont, cont + 1) THEN d ELSE None
  BY Zenon DEF Lead, At
<1> HIDE DEF cont
<1>3. scalar \in Nat
  <2>1. CASE cont = 1
    BY <2>1 DEF Byte
  <2>2. CASE cont = 2
    BY <2>2 DEF Byte
  <2>3. CASE cont = 3
    BY <2>3 DEF Byte
  <2> QED BY <1>1, <2>1, <2>2, <2>3
<1> HIDE DEF scalar
<1>4. c.segment \in Nat /\ c.written \in Seq(Byte) /\ c.nonws \in BOOLEAN /\ c.escape \in BOOLEAN
  BY DEF Cursors
<1>5. /\ d \in Cursors /\ d.segment = c.segment /\ d.written = c.written
      /\ d.scalar = scalar /\ d.cont = cont /\ d.width = cont + 1
  <2>1. cont \in 0..3 /\ cont + 1 \in 0..4
    BY <1>1
  <2>2. Placed(c, d, scalar, cont, cont + 1)
    BY <1>3, <2>1, CursorAt, Zenon
  <2> HIDE DEF d
  <2> QED BY <2>2, Zenon DEF Placed
<1> HIDE DEF d
<1>6. ASSUME Reachable(scalar, cont, cont + 1)
      PROVE  Inside(c, d)
  <2>1. d.width \in 2..4 /\ d.segment = c.segment /\ d.written = c.written /\ d \in Cursors
    BY <1>1, <1>5
  <2>2. Reachable(d.scalar, d.cont, d.width)
    BY <1>5, <1>6, Zenon
  <2> QED BY <2>1, <2>2 DEF Inside
<1> QED BY <1>2, <1>6

LEMMA EscapedInside ==
  ASSUME NEW c \in Cursors, c.cont = 0, NEW b \in Byte
  PROVE  /\ Escaped(c, b) = None \/ Inside(c, Escaped(c, b))
         /\ b = 110 => Inside(c, Escaped(c, b))
<1> DEFINE d == [c EXCEPT !.escape = FALSE, !.nonws = c.nonws \/ b \notin {102, 110, 114, 116}]
<1>1. (Escaped(c, b) = None /\ b # 110) \/ Escaped(c, b) = d
  BY DEF Escaped
<1>2. c.segment \in Nat /\ c.written \in Seq(Byte) /\ c.nonws \in BOOLEAN /\ c.width \in 0..4
      /\ c.scalar \in Nat
  BY DEF Cursors
<1>3. d \in Cursors /\ d.segment = c.segment /\ d.written = c.written /\ d.cont = 0
  BY <1>2 DEF Cursors
<1> HIDE DEF d
<1>4. Inside(c, d)
  BY <1>3 DEF Inside
<1> QED BY <1>1, <1>4

LEMMA FreshInside ==
  ASSUME NEW c \in Cursors, c.cont = 0, NEW b \in Byte
  PROVE  /\ \/ Fresh(c, b) = None
            \/ Fresh(c, b) = Cursor(c.segment + 1, <<>>)
            \/ Inside(c, Fresh(c, b))
         /\ b = 97 => Inside(c, Fresh(c, b))
<1>1. c.segment \in Nat /\ c.written \in Seq(Byte) /\ c.nonws \in BOOLEAN /\ c.width \in 0..4
      /\ c.scalar \in Nat /\ c.escape \in BOOLEAN
  BY DEF Cursors
<1>2. CASE b = Quote
  <2>1. Fresh(c, b) = IF c.nonws THEN Cursor(c.segment + 1, <<>>) ELSE None
    BY <1>2 DEF Fresh, Quote, Backslash
  <2> QED BY <1>2, <2>1 DEF Quote
<1>3. CASE b = Backslash
  <2> DEFINE d == [c EXCEPT !.escape = TRUE]
  <2>1. Fresh(c, b) = d
    BY <1>3 DEF Fresh, Quote, Backslash
  <2>2. d \in Cursors /\ d.segment = c.segment /\ d.written = c.written /\ d.cont = 0
    BY <1>1 DEF Cursors
  <2> HIDE DEF d
  <2>3. Inside(c, d)
    BY <2>2 DEF Inside
  <2> QED BY <2>1, <2>3
<1>4. CASE b \in (32..127) \ {Quote, Backslash}
  <2> DEFINE d == [c EXCEPT !.nonws = c.nonws \/ ~IsWhitespace(b)]
  <2>1. b # Quote /\ b # Backslash /\ b \in (32..127) \ {Quote, Backslash} /\ b \notin 194..244
    BY <1>4, SMT
  <2>2. Fresh(c, b) = d
    BY <2>1, SMT DEF Fresh
  <2>3. d \in Cursors /\ d.segment = c.segment /\ d.written = c.written /\ d.cont = 0
    BY <1>1 DEF Cursors
  <2> HIDE DEF d
  <2>4. Inside(c, d)
    BY <2>3 DEF Inside
  <2> QED BY <2>2, <2>4
<1>5. CASE b \in 194..244
  <2>1. b # Quote /\ b # Backslash /\ b \notin (32..127) \ {Quote, Backslash}
    BY <1>5 DEF Quote, Backslash
  <2>2. Fresh(c, b) = Lead(c, b)
    BY <1>5, <2>1, SMT DEF Fresh
  <2>3. b # 97
    BY <1>5
  <2> QED BY <1>5, <2>2, <2>3, LeadInside, Zenon
<1>6. CASE b # Quote /\ b # Backslash /\ b \notin (32..127) \ {Quote, Backslash} /\ b \notin 194..244
  BY <1>6 DEF Fresh
<1>7. b = 97 => b \in (32..127) \ {Quote, Backslash} /\ b # Quote /\ b # Backslash /\ b \notin 194..244
  BY DEF Quote, Backslash
<1> QED BY <1>2, <1>3, <1>4, <1>5, <1>6, <1>7, Zenon
-----------------------------------------------------------------------------
(* Steps.                                                                  *)

\* The spelling a byte goes on with, when there is one.
First(seq, next) == SelectInSeq(seq, LAMBDA s : IsPrefix(next, s))

LEMMA Picks ==
  ASSUME NEW seq, Len(seq) \in Nat, NEW next
  PROVE  LET on == First(seq, next) IN
         IF \E i \in 1..Len(seq) : IsPrefix(next, seq[i])
         THEN on \in 1..Len(seq) /\ IsPrefix(next, seq[on])
         ELSE on = 0
<1> DEFINE I == {i \in 1..Len(seq) : IsPrefix(next, seq[i])}
           on == First(seq, next)
<1>1. on = IF I # {} THEN Min(I) ELSE 0
  BY Zenon DEF SelectInSeq, First
<1>2. I # {} => Min(I) \in I
  <2> SUFFICES ASSUME I # {}
               PROVE  Min(I) \in I
    OBVIOUS
  <2>1. I \in SUBSET Nat
    OBVIOUS
  <2> HIDE DEF I
  <2>2. \E i \in I : \A j \in I : i <= j
    BY <2>1, LeastNat
  <2> QED BY <2>2, Zenon DEF Min
<1> HIDE DEF on
<1>3. CASE \E i \in 1..Len(seq) : IsPrefix(next, seq[i])
  <2>1. on \in I
    BY <1>1, <1>2, <1>3, Zenon
  <2> QED BY <1>3, <2>1 DEF on
<1>4. CASE ~ \E i \in 1..Len(seq) : IsPrefix(next, seq[i])
  BY <1>1, <1>4 DEF on
<1> QED BY <1>3, <1>4

\* What a segment that is no body offers.
Offered(prog, c) == IF prog[c.segment].free THEN <<<<Quote>>>> ELSE prog[c.segment].spellings
Goes(prog, c, b) ==
  \E i \in 1..Len(Offered(prog, c)) : IsPrefix(Append(c.written, b), Offered(prog, c)[i])

LEMMA LiveSegment ==
  ASSUME NEW prog \in Programs, NEW c, Live(prog, c), ~IsDone(prog, c)
  PROVE  c \in Cursors /\ c.segment \in 1..Len(prog) /\ c.written \in Seq(Byte) /\ c.segment + 1 \in 1..Len(prog) + 1
<1>1. c \in Cursors /\ c.segment \in 1..Len(prog) + 1
  BY DEF Live
<1>2. Len(prog) \in Nat
  BY LenProperties DEF Programs
<1> QED BY <1>1, <1>2 DEF IsDone, Cursors

LEMMA BytesLive ==
  ASSUME NEW prog \in Programs, NEW c, Live(prog, c), ~IsDone(prog, c), ~InBody(prog, c),
         NEW b \in Byte
  PROVE  IF Goes(prog, c, b) THEN Live(prog, StepBytes(prog, c, b))
         ELSE StepBytes(prog, c, b) = None
<1> DEFINE next == Append(c.written, b)
           k == c.segment
           s == Offered(prog, c)
           on == First(s, next)
           fresh == Cursor(k + 1, <<>>)
           more == Cursor(k, next)
<1>1. c \in Cursors /\ k \in 1..Len(prog) /\ c.written \in Seq(Byte) /\ k + 1 \in 1..Len(prog) + 1
  BY LiveSegment
<1>2. next \in Seq(Byte) /\ Len(next) \in Nat
  BY <1>1, AppendProperties, LenProperties
<1>3. Len(s) \in Nat
  <2>1. CASE prog[k].free
    <3>1. s = <<<<Quote>>>>
      BY <2>1 DEF Offered
    <3> HIDE DEF s
    <3> QED BY <3>1
  <2>2. CASE ~prog[k].free
    <3>1. s = prog[k].spellings
      BY <2>2 DEF Offered
    <3> HIDE DEF s
    <3> QED BY <1>1, <2>2, <3>1, SegmentIs
  <2> QED BY <2>1, <2>2
<1>4. StepBytes(prog, c, b) =
        IF on = 0 THEN None
        ELSE IF Len(s[on]) = Len(next) /\ ~prog[k].free THEN fresh ELSE more
  BY Zenon DEF StepBytes, Offered, First
<1>5. IF \E i \in 1..Len(s) : IsPrefix(next, s[i])
      THEN on \in 1..Len(s) /\ IsPrefix(next, s[on])
      ELSE on = 0
  <2> HIDE DEF s, next
  <2> QED BY <1>3, Picks, Zenon
<1> HIDE DEF on
<1>6. Live(prog, fresh)
  BY <1>1, FreshLive
<1>7. ASSUME on \in 1..Len(s), IsPrefix(next, s[on]),
             ~(Len(s[on]) = Len(next) /\ ~prog[k].free)
      PROVE  Live(prog, more)
  <2>1. /\ more \in Cursors /\ more.segment = k /\ more.written = next /\ more.cont = 0
    <3>1. k \in Nat
      BY <1>1
    <3> HIDE DEF k, next
    <3> QED BY <1>2, <3>1, CursorTyped
  <2>2. k \in 1..Len(prog) + 1
    BY <1>1
  <2>3. CASE prog[k].free
    <3>1. c.written = <<>>
      BY <1>1, <2>3 DEF Live, InBody
    <3>2. s = <<<<Quote>>>>
      BY <2>3 DEF Offered
    <3>3. IsPrefix(next, <<Quote>>)
      <4>1. on = 1
        BY <1>7, <3>2
      <4>2. s[on] = <<Quote>>
        BY <3>2, <4>1
      <4> QED BY <1>7, <4>2
    <3>4. Len(next) = 1 /\ next[1] = b /\ next = <<b>>
      BY <3>1
    <3>5. <<Quote>> \in Seq(Byte) /\ <<Quote>>[1] = Quote
      BY DEF Quote, Byte
    <3>6. \A i \in 1..Len(next) : next[i] = <<Quote>>[i]
      <4> DEFINE q == <<Quote>>
      <4>1. q \in Seq(Byte) /\ IsPrefix(next, q)
        BY <3>3, <3>5
      <4> HIDE DEF next, q
      <4>2. \A i \in 1..Len(next) : next[i] = q[i]
        BY <1>2, <4>1, PrefixByElement
      <4> QED BY <4>2 DEF q
    <3>7. next[1] = Quote
      <4> HIDE DEF next
      <4> QED BY <3>4, <3>5, <3>6
    <3>8. next = <<Quote>>
      BY <3>4, <3>7
    <3> HIDE DEF more, next
    <3> QED BY <2>1, <2>2, <2>3, <3>8 DEF Live
  <2>4. CASE ~prog[k].free
    <3>1. s = prog[k].spellings
      BY <2>4 DEF Offered
    <3>2. IsPrefix(next, prog[k].spellings[on]) /\ next # prog[k].spellings[on]
          /\ on \in 1..Len(prog[k].spellings)
      <4> HIDE DEF s, next
      <4> QED BY <1>7, <2>4, <3>1
    <3> HIDE DEF more, next, s
    <3>3. \E i \in 1..Len(prog[k].spellings) :
            IsPrefix(next, prog[k].spellings[i]) /\ next # prog[k].spellings[i]
      BY <3>2, Zenon
    <3>4. ~(more.cont > 0)
      BY <2>1
    <3> QED BY <2>1, <2>2, <2>4, <3>3, <3>4, Zenon DEF Live
  <2> QED BY <2>3, <2>4
<1>8. Goes(prog, c, b) <=> \E i \in 1..Len(s) : IsPrefix(next, s[i])
  BY Zenon DEF Goes
<1> HIDE DEF s, next, fresh, more
<1>9. CASE Goes(prog, c, b)
  <2>1. on \in 1..Len(s) /\ IsPrefix(next, s[on])
    BY <1>5, <1>8, <1>9, Zenon
  <2>2. on # 0
    BY <1>3, <2>1
  <2> QED BY <1>4, <1>6, <1>7, <1>9, <2>1, <2>2, Zenon
<1>10. CASE ~Goes(prog, c, b)
  BY <1>4, <1>5, <1>8, <1>10, Zenon
<1> QED BY <1>9, <1>10, Zenon

\* A byte leads from a live place to a live place, or is refused.
LEMMA StepLive ==
  ASSUME NEW prog \in Programs, NEW c, Live(prog, c), NEW b \in Byte
  PROVE  Step(prog, c, b) = None \/ Live(prog, Step(prog, c, b))
<1>1. CASE IsDone(prog, c)
  BY <1>1 DEF Step
<1>2. CASE ~IsDone(prog, c) /\ InBody(prog, c)
  <2>1. c \in Cursors /\ c.segment + 1 \in 1..Len(prog) + 1
    BY <1>2, LiveSegment
  <2>2. Step(prog, c, b) = StepBody(c, b)
    BY <1>2 DEF Step
  <2>3. CASE c.cont > 0
    <3>1. c.width \in 2..4
      BY <2>3 DEF Live
    <3>2. Step(prog, c, b) = Continue(c, b)
      BY <2>2, <2>3 DEF StepBody
    <3> QED BY <2>1, <2>3, <3>1, <3>2, ContinueInside, InsideLive
  <2>4. CASE ~(c.cont > 0)
    <3>1. c.cont = 0
      BY <2>1, <2>4 DEF Cursors
    <3>2. CASE c.escape
      <4>1. Step(prog, c, b) = Escaped(c, b)
        BY <2>2, <2>4, <3>2 DEF StepBody
      <4> QED BY <2>1, <3>1, <4>1, EscapedInside, InsideLive
    <3>3. CASE ~c.escape
      <4>1. Step(prog, c, b) = Fresh(c, b)
        BY <2>2, <2>4, <3>3 DEF StepBody
      <4>2. Live(prog, Cursor(c.segment + 1, <<>>))
        BY <2>1, FreshLive
      <4> QED BY <2>1, <3>1, <4>1, <4>2, FreshInside, InsideLive
    <3> QED BY <3>2, <3>3
  <2> QED BY <2>3, <2>4
<1>3. CASE ~IsDone(prog, c) /\ ~InBody(prog, c)
  <2>1. Step(prog, c, b) = StepBytes(prog, c, b)
    BY <1>3 DEF Step
  <2> QED BY <1>3, <2>1, BytesLive
<1> QED BY <1>1, <1>2, <1>3

LEMMA LiveIsSome ==
  ASSUME NEW prog, NEW c, Live(prog, c)
  PROVE  c # None
BY ConstrainAssumption DEF Live

\* From a live place some byte goes on.
LEMMA StepGoes ==
  ASSUME NEW prog \in Programs, NEW c, Live(prog, c), ~IsDone(prog, c)
  PROVE  \E b \in Byte : Live(prog, Step(prog, c, b))
<1>1. c \in Cursors /\ c.segment \in 1..Len(prog) /\ c.written \in Seq(Byte)
  BY LiveSegment
<1>2. CASE InBody(prog, c) /\ c.cont > 0
  <2>1. c.width \in 2..4 /\ Reachable(c.scalar, c.cont, c.width)
    BY <1>2 DEF Live
  <2>2. c.scalar \in Nat /\ c.cont \in 1..3
    BY <1>1, <1>2 DEF Cursors
  <2>3. PICK d \in 0..63 : Reachable(c.scalar * 64 + d, c.cont - 1, c.width)
    BY <2>1, <2>2, ReachableGoes, Zenon
  <2> DEFINE b == 128 + d
  <2>4. b \in Byte /\ b \in 128..191 /\ b % 64 = d
    BY DEF Byte
  <2>5. Step(prog, c, b) = Continue(c, b)
    BY <1>2 DEF Step, StepBody
  <2> HIDE DEF b
  <2>6. Inside(c, Continue(c, b))
    <3>1. Reachable(c.scalar * 64 + (b % 64), c.cont - 1, c.width)
      BY <2>3, <2>4
    <3> QED BY <1>1, <1>2, <2>1, <2>4, <3>1, ContinueInside, Zenon
  <2>7. Live(prog, Step(prog, c, b))
    BY <2>5, <2>6, InsideLive
  <2> QED BY <2>4, <2>7
<1>3. CASE InBody(prog, c) /\ ~(c.cont > 0) /\ c.escape
  <2>1. c.cont = 0 /\ 110 \in Byte
    BY <1>1, <1>3 DEF Cursors, Byte
  <2>2. Step(prog, c, 110) = Escaped(c, 110)
    BY <1>3 DEF Step, StepBody
  <2>3. Inside(c, Escaped(c, 110))
    BY <1>1, <2>1, EscapedInside
  <2>4. Live(prog, Step(prog, c, 110))
    BY <2>2, <2>3, InsideLive
  <2> QED BY <2>1, <2>4
<1>4. CASE InBody(prog, c) /\ ~(c.cont > 0) /\ ~c.escape
  <2>1. c.cont = 0 /\ 97 \in Byte
    BY <1>1, <1>4 DEF Cursors, Byte
  <2>2. Step(prog, c, 97) = Fresh(c, 97)
    BY <1>4 DEF Step, StepBody
  <2>3. Inside(c, Fresh(c, 97))
    BY <1>1, <2>1, FreshInside
  <2>4. Live(prog, Step(prog, c, 97))
    BY <2>2, <2>3, InsideLive
  <2> QED BY <2>1, <2>4
<1>5. CASE ~InBody(prog, c)
  <2>1. ASSUME NEW b \in Byte, Goes(prog, c, b)
        PROVE  Live(prog, Step(prog, c, b))
    BY <1>5, <2>1, BytesLive DEF Step
  <2>2. CASE prog[c.segment].free
    <3>1. c.written = <<>>
      BY <1>1, <1>5, <2>2 DEF Live, InBody
    <3>2. Append(c.written, Quote) = <<Quote>>
      BY <3>1
    <3>3. Offered(prog, c) = <<<<Quote>>>>
      BY <2>2 DEF Offered
    <3>4. <<Quote>> \in Seq(Byte) /\ Quote \in Byte
      BY DEF Quote, Byte
    <3>5. IsPrefix(<<Quote>>, <<Quote>>)
      BY <3>4 DEF IsPrefix
    <3>6. 1 \in 1..Len(Offered(prog, c)) /\ Offered(prog, c)[1] = <<Quote>>
      BY <3>3
    <3>7. Goes(prog, c, Quote)
      BY <3>2, <3>5, <3>6, Zenon DEF Goes
    <3> QED BY <2>1, <3>4, <3>7, Zenon
  <2>3. CASE ~prog[c.segment].free
    <3> DEFINE s == prog[c.segment].spellings
               n == Len(c.written)
    <3>1. PICK i \in 1..Len(s) : IsPrefix(c.written, s[i]) /\ c.written # s[i]
      BY <1>1, <2>3 DEF Live
    <3>2. s[i] \in Seq(Byte)
      BY <1>1, <2>3, SegmentIs
    <3> DEFINE t == s[i]
    <3> HIDE DEF s
    <3>3. t \in Seq(Byte) /\ IsPrefix(c.written, t) /\ c.written # t
      BY <3>1, <3>2
    <3> HIDE DEF t
    <3>4. n \in Nat /\ Len(t) \in Nat
      BY <1>1, <3>3, LenProperties
    <3>5. n <= Len(t) /\ \A j \in 1..n : c.written[j] = t[j]
      BY <1>1, <3>3, PrefixByElement
    <3>6. n # Len(t)
      BY <1>1, <3>3, <3>5, SeqEqual
    <3>7. n + 1 \in 1..Len(t) /\ t[n + 1] \in Byte
      <4>1. n + 1 \in 1..Len(t)
        BY <3>4, <3>5, <3>6
      <4> QED BY <3>3, <4>1, ElementOfSeq
    <3> DEFINE b == t[n + 1]
               next == Append(c.written, b)
    <3>8. /\ next \in Seq(Byte) /\ Len(next) = n + 1 /\ next[n + 1] = b
          /\ \A j \in 1..n : next[j] = c.written[j]
      <4> HIDE DEF b
      <4>1. b \in Byte
        BY <3>7 DEF b
      <4> QED BY <1>1, <4>1, AppendProperties
    <3> HIDE DEF next
    <3>9. Len(next) <= Len(t) /\ \A j \in 1..Len(next) : next[j] = t[j]
      BY <3>4, <3>5, <3>7, <3>8
    <3>10. IsPrefix(next, t)
      BY <3>3, <3>8, <3>9, PrefixByElement, Zenon
    <3>11. Goes(prog, c, b)
      <4>1. Offered(prog, c) = s
        BY <2>3 DEF Offered, s
      <4> QED BY <3>1, <3>10, <4>1, Zenon DEF Goes, next, t
    <3> HIDE DEF b
    <3>12. b \in Byte
      BY <3>7 DEF b
    <3> QED BY <2>1, <3>11, <3>12, Zenon
  <2> QED BY <2>2, <2>3
<1> QED BY <1>2, <1>3, <1>4, <1>5
-----------------------------------------------------------------------------
(* Walks.                                                                  *)

\* Live places of a program, and none.
Places(prog) == {c \in Cursors : Live(prog, c)} \cup {None}

LEMMA PlacesAre ==
  ASSUME NEW prog
  PROVE  /\ None \in Places(prog)
         /\ \A c : Live(prog, c) => c \in Places(prog)
         /\ \A c \in Places(prog) : c # None => Live(prog, c)
BY DEF Places, Live

\* The places a walk passes, one per byte.
After(prog, x, b) == IF x = None THEN None ELSE Step(prog, x, b)
Passes(prog, c, bytes, g) ==
  /\ g \in [0..Len(bytes) -> Places(prog)]
  /\ g[0] = c /\ g[Len(bytes)] = Walk(prog, c, bytes)
  /\ \A i \in 1..Len(bytes) : g[i] = After(prog, g[i - 1], bytes[i])

LEMMA WalkPasses ==
  ASSUME NEW prog \in Programs, NEW c \in Places(prog), NEW bytes \in Seq(Byte)
  PROVE  \E g : Passes(prog, c, bytes, g)
<1> DEFINE n == Len(bytes)
           S == Places(prog)
           next(i, x) == IF x = None THEN None ELSE Step(prog, x, bytes[i])
           F == [y \in (1..n) \X S |-> next(y[1], y[2])]
           f == CHOOSE f : f = [i \in 0..n |->
                  IF i = 0 THEN c
                  ELSE LET before == f[i - 1]
                       IN  IF before = None THEN None ELSE Step(prog, before, bytes[i])]
<1>1. n \in Nat /\ \A i \in 1..n : bytes[i] \in Byte
  BY LenProperties, ElementOfSeq
<1>2. Walk(prog, c, bytes) = f[n]
  BY DEF Walk
<1>3. \A i \in 1..n, x \in S : next(i, x) \in S
  <2> SUFFICES ASSUME NEW i \in 1..n, NEW x \in S
               PROVE  next(i, x) \in S
    OBVIOUS
  <2>1. CASE x = None
    BY <2>1
  <2>2. CASE x # None
    <3>1. Live(prog, x) /\ bytes[i] \in Byte
      BY <1>1, <2>2, PlacesAre
    <3>2. Step(prog, x, bytes[i]) = None \/ Live(prog, Step(prog, x, bytes[i]))
      BY <3>1, StepLive
    <3> QED BY <2>2, <3>2, PlacesAre
  <2> QED BY <2>1, <2>2
<1> HIDE DEF next, S
<1>4. F \in [(1..n) \X S -> S]
  BY <1>3
<1>5. PICK g \in [0..n -> S] : g[0] = c /\ \A i \in 1..n : g[i] = F[<<i, g[i - 1]>>]
  <2>1. c \in S
    BY DEF S
  <2> HIDE DEF n, F
  <2>2. Iterations(S, n, F, c) # {}
    BY <1>1, <1>4, <2>1, Iterated
  <2> QED BY <2>2, Zenon DEF Iterations
<1>6. \A i \in 1..n : i - 1 \in 0..n /\ g[i - 1] \in S /\ g[i] = next(i, g[i - 1])
  <2> SUFFICES ASSUME NEW i \in 1..n
               PROVE  i - 1 \in 0..n /\ g[i - 1] \in S /\ g[i] = next(i, g[i - 1])
    OBVIOUS
  <2>1. i - 1 \in 0..n
    BY <1>1
  <2>2. g[i - 1] \in S
    BY <1>5, <2>1
  <2>3. <<i, g[i - 1]>> \in (1..n) \X S
    BY <2>2
  <2>4. F[<<i, g[i - 1]>>] = next(i, g[i - 1])
    BY <2>3
  <2> QED BY <1>5, <2>1, <2>2, <2>4
<1>7. g = [i \in 0..n |->
             IF i = 0 THEN c
             ELSE LET before == g[i - 1]
                  IN  IF before = None THEN None ELSE Step(prog, before, bytes[i])]
  <2>1. \A i \in 0..n : g[i] = IF i = 0 THEN c
                               ELSE IF g[i - 1] = None THEN None ELSE Step(prog, g[i - 1], bytes[i])
    <3> SUFFICES ASSUME NEW i \in 0..n, i # 0
                 PROVE  g[i] = IF g[i - 1] = None THEN None ELSE Step(prog, g[i - 1], bytes[i])
      BY <1>5
    <3>1. i \in 1..n
      BY <1>1
    <3> QED BY <1>6, <3>1 DEF next
  <2> QED BY <1>5, <2>1
<1>8. f = [i \in 0..n |->
             IF i = 0 THEN c
             ELSE LET before == f[i - 1]
                  IN  IF before = None THEN None ELSE Step(prog, before, bytes[i])]
  BY <1>7, Zenon
<1> HIDE DEF f
<1>9. /\ f[0] = c
      /\ \A i \in 1..n : f[i] = next(i, f[i - 1])
  <2>1. 0 \in 0..n /\ \A i \in 1..n : i \in 0..n /\ i # 0
    BY <1>1
  <2>2. \A i \in 0..n : f[i] = IF i = 0 THEN c
                               ELSE IF f[i - 1] = None THEN None ELSE Step(prog, f[i - 1], bytes[i])
    BY <1>8, Zenon
  <2> QED BY <2>1, <2>2, Zenon DEF next
<1> DEFINE G == {i \in Nat : i \in 0..n => f[i] \in S}
<1>10. 0 \in G
  BY <1>9 DEF S
<1>11. ASSUME NEW i \in Nat, i \in G
       PROVE  i + 1 \in G
  <2> SUFFICES ASSUME i + 1 \in 0..n
               PROVE  f[i + 1] \in S
    OBVIOUS
  <2>1. i \in 0..n /\ i + 1 \in 1..n /\ (i + 1) - 1 = i
    BY <1>1
  <2>2. f[i] \in S /\ f[i + 1] = next(i + 1, f[i])
    BY <1>9, <1>11, <2>1
  <2> QED BY <1>3, <2>1, <2>2
<1>12. \A i \in Nat : i \in G
  <2> HIDE DEF G, n
  <2> QED BY <1>10, <1>11, NatInduct
<1>13. \A i \in 0..n : f[i] \in S
  BY <1>1, <1>12
<1>14. f \in [0..n -> S]
  <2> HIDE DEF n, S
  <2>1. f = [i \in 0..n |-> f[i]]
    BY <1>8, Zenon
  <2> QED BY <1>13, <2>1
<1>15. \A i \in 1..n : f[i] = After(prog, f[i - 1], bytes[i])
  BY <1>9, Zenon DEF next, After
<1> QED BY <1>2, <1>9, <1>14, <1>15, Zenon DEF S, n, Passes

\* A walk goes from place to place, one byte at a time.
LEMMA WalkRun ==
  ASSUME NEW prog \in Programs, NEW c \in Places(prog), NEW bytes \in Seq(Byte)
  PROVE  /\ Walk(prog, c, bytes) \in Places(prog)
         /\ bytes = <<>> => Walk(prog, c, bytes) = c
<1>1. PICK g : Passes(prog, c, bytes, g)
  BY WalkPasses
<1>2. Len(bytes) \in 0..Len(bytes) /\ (bytes = <<>> => Len(bytes) = 0)
  BY LenProperties, EmptySeq
<1> QED BY <1>1, <1>2 DEF Passes

\* Two runs that take the same steps from the same place agree.
LEMMA RunsAgree ==
  ASSUME NEW g, NEW h, NEW n \in Nat, g[0] = h[0],
         \A i \in 1..n : g[i - 1] = h[i - 1] => g[i] = h[i]
  PROVE  g[n] = h[n]
<1> DEFINE G == {i \in Nat : i <= n => g[i] = h[i]}
<1>1. 0 \in G
  OBVIOUS
<1>2. ASSUME NEW i \in Nat, i \in G
      PROVE  i + 1 \in G
  <2> SUFFICES ASSUME i + 1 <= n
               PROVE  g[i + 1] = h[i + 1]
    OBVIOUS
  <2>1. i + 1 \in 1..n /\ (i + 1) - 1 = i /\ g[i] = h[i]
    BY <1>2
  <2> QED BY <2>1
<1> HIDE DEF G
<1>3. n \in G
  BY <1>1, <1>2, NatInduct
<1> QED BY <1>3 DEF G

LEMMA WalkAppend ==
  ASSUME NEW prog \in Programs, NEW c \in Places(prog), NEW bytes \in Seq(Byte), NEW b \in Byte
  PROVE  Walk(prog, c, Append(bytes, b)) = After(prog, Walk(prog, c, bytes), b)
<1> DEFINE n == Len(bytes)
           more == Append(bytes, b)
<1>1. /\ n \in Nat /\ more \in Seq(Byte) /\ Len(more) = n + 1 /\ more[n + 1] = b
      /\ \A i \in 1..n : more[i] = bytes[i]
  BY AppendProperties, LenProperties
<1> HIDE DEF more
<1>2. PICK g : Passes(prog, c, bytes, g)
  BY WalkPasses
<1>3. PICK h : Passes(prog, c, more, h)
  BY <1>1, WalkPasses
<1>4. \A i \in 1..n : i \in 1..(n + 1) /\ n + 1 \in 1..(n + 1) /\ (n + 1) - 1 = n
  BY <1>1
<1>5. \A i \in 1..n : g[i - 1] = h[i - 1] => g[i] = h[i]
  <2> SUFFICES ASSUME NEW i \in 1..n, g[i - 1] = h[i - 1]
               PROVE  g[i] = h[i]
    OBVIOUS
  <2>1. g[i] = After(prog, g[i - 1], bytes[i])
    BY <1>2, Zenon DEF Passes, n
  <2>2. i \in 1..Len(more) /\ more[i] = bytes[i]
    BY <1>1, <1>4
  <2>3. h[i] = After(prog, h[i - 1], bytes[i])
    BY <1>3, <2>2, Zenon DEF Passes
  <2> QED BY <2>1, <2>3
<1>6. g[0] = c /\ h[0] = c /\ g[n] = Walk(prog, c, bytes) /\ h[n + 1] = Walk(prog, c, more)
  BY <1>1, <1>2, <1>3 DEF Passes, n
<1>7. g[n] = h[n]
  <2> HIDE DEF n
  <2>1. n \in Nat /\ g[0] = h[0]
    BY <1>1, <1>6
  <2> QED BY <1>5, <2>1, RunsAgree, Zenon
<1>8. h[n + 1] = After(prog, h[n], b)
  <2>1. n + 1 \in 1..Len(more) /\ (n + 1) - 1 = n
    BY <1>1
  <2>2. h[n + 1] = After(prog, h[(n + 1) - 1], more[n + 1])
    BY <1>3, <2>1, Zenon DEF Passes
  <2> QED BY <1>1, <2>1, <2>2
<1> QED BY <1>6, <1>7, <1>8 DEF more

\* A walk over joined texts is a walk over one and then the other.
LEMMA WalkConcat ==
  ASSUME NEW prog \in Programs, NEW c \in Places(prog), NEW p \in Seq(Byte), NEW q \in Seq(Byte)
  PROVE  Walk(prog, c, p \o q) = Walk(prog, Walk(prog, c, p), q)
<1> DEFINE mid == Walk(prog, c, p)
           G == {r \in Seq(Byte) : Walk(prog, c, p \o r) = Walk(prog, mid, r)}
<1>1. mid \in Places(prog)
  BY WalkRun
<1> HIDE DEF mid
<1>2. <<>> \in G
  <2>1. <<>> \in Seq(Byte) /\ p \o <<>> = p
    BY EmptySeq, ConcatEmptySeq
  <2>2. Walk(prog, mid, <<>>) = mid
    BY <1>1, <2>1, WalkRun
  <2> QED BY <2>1, <2>2 DEF mid
<1>3. ASSUME NEW r \in Seq(Byte), NEW b \in Byte, r \in G
      PROVE  Append(r, b) \in G
  <2>1. p \o Append(r, b) = Append(p \o r, b) /\ p \o r \in Seq(Byte) /\ Append(r, b) \in Seq(Byte)
    BY ConcatAppend, ConcatProperties, AppendProperties
  <2>2. Walk(prog, c, Append(p \o r, b)) = After(prog, Walk(prog, c, p \o r), b)
    BY <2>1, WalkAppend
  <2>3. Walk(prog, mid, Append(r, b)) = After(prog, Walk(prog, mid, r), b)
    BY <1>1, WalkAppend
  <2> QED BY <1>3, <2>1, <2>2, <2>3
<1> HIDE DEF G
<1>4. q \in G
  BY <1>2, <1>3, SeqInduct
<1> QED BY <1>4 DEF G, mid
-----------------------------------------------------------------------------
(* Tokens.                                                                 *)

LEMMA FlattenJoins == \A p : FlattenSeq(p) = Seqs!FlattenSeq(p)
BY DEF FlattenSeq, Seqs!FlattenSeq

LEMMA ExpansionTyped ==
  /\ DOMAIN Expansion \subseteq 0..Width - 1
  /\ \A id \in DOMAIN Expansion : Expansion[id] \in Seq(Byte) /\ Expansion[id] # <<>>
<1>1. DOMAIN Expansion \subseteq 0..Width - 1
  BY ConstrainAssumption DEF Expansion
<1>2. ASSUME NEW id \in DOMAIN Expansion
      PROVE  Expansion[id] \in Seq(Byte) /\ Expansion[id] # <<>>
  <2>1. id \in DOMAIN Rows /\ Usable(Rows[id])
    BY DEF Expansion
  <2>2. Expansion[id] = [i \in DOMAIN Rows[id] |-> CharToByte(Rows[id][i])]
    BY DEF Expansion
  <2>3. Rows[id] \in Seq(Nat) /\ Rows[id] # <<>>
    BY <2>1, ConstrainAssumption DEF Usable
  <2>4. \A i \in DOMAIN Rows[id] : CharToByte(Rows[id][i]) \in Byte
    <3> SUFFICES ASSUME NEW i \in DOMAIN Rows[id]
                 PROVE  CharToByte(Rows[id][i]) \in Byte
      OBVIOUS
    <3>1. CharToByte(Rows[id][i]) # None
      BY <2>1 DEF Usable
    <3> QED BY <3>1, Zenon DEF CharToByte
  <2>5. DOMAIN Rows[id] = 1..Len(Rows[id]) /\ Len(Rows[id]) \in Nat \ {0}
    BY <2>3, LenProperties, EmptySeq
  <2> DEFINE e == [i \in 1..Len(Rows[id]) |-> CharToByte(Rows[id][i])]
  <2>6. e \in Seq(Byte) /\ Len(e) = Len(Rows[id])
    <3> DEFINE m == Len(Rows[id])
               h(i) == CharToByte(Rows[id][i])
    <3>1. m \in Nat /\ \A i \in 1..m : h(i) \in Byte
      BY <2>4, <2>5
    <3> HIDE DEF m, h
    <3>2. [i \in 1..m |-> h(i)] \in Seq(Byte) /\ Len([i \in 1..m |-> h(i)]) = m
      BY <3>1, IsASeq, LenProperties
    <3> QED BY <3>2 DEF m, h
  <2>7. Expansion[id] = e
    BY <2>2, <2>5
  <2> HIDE DEF e
  <2>8. e # <<>>
    BY <2>5, <2>6, EmptySeq
  <2> QED BY <2>6, <2>7, <2>8
<1> QED BY <1>1, <1>2

\* A token leads from a live place to a live place, or is refused.
LEMMA AcceptPlaces ==
  ASSUME NEW prog \in Programs, NEW c \in Places(prog), NEW id
  PROVE  Accept(prog, c, id) \in Places(prog)
<1>1. id \in DOMAIN Expansion => Walk(prog, c, Expansion[id]) \in Places(prog)
  BY ExpansionTyped, WalkRun
<1>2. None \in Places(prog)
  BY PlacesAre
<1> QED BY <1>1, <1>2 DEF Accept

\* The places a sequence of tokens passes, one per token.
Then(prog, x, id) == IF x = None THEN None ELSE Accept(prog, x, id)
Visits(prog, ids, g) ==
  /\ g \in [0..Len(ids) -> Places(prog)]
  /\ g[0] = Start /\ g[Len(ids)] = Advance(prog, ids)
  /\ \A i \in 1..Len(ids) : g[i] = Then(prog, g[i - 1], ids[i])

LEMMA AdvanceVisits ==
  ASSUME NEW prog \in Programs, NEW ids \in Seq(Nat)
  PROVE  \E g : Visits(prog, ids, g)
<1> DEFINE n == Len(ids)
           S == Places(prog)
           next(i, x) == IF x = None THEN None ELSE Accept(prog, x, ids[i])
           F == [y \in (1..n) \X S |-> next(y[1], y[2])]
           f == CHOOSE f : f = [i \in 0..n |->
                  IF i = 0 THEN Start
                  ELSE LET before == f[i - 1]
                       IN  IF before = None THEN None ELSE Accept(prog, before, ids[i])]
<1>1. n \in Nat
  BY LenProperties
<1>2. Advance(prog, ids) = f[n]
  BY DEF Advance
<1>3. Start \in S
  <2>1. 1 \in 1..Len(prog) + 1
    BY LenProperties DEF Programs
  <2> QED BY <2>1, FreshLive, PlacesAre DEF Start
<1>4. \A i \in 1..n, x \in S : next(i, x) \in S
  BY AcceptPlaces, PlacesAre
<1> HIDE DEF next, S
<1>5. F \in [(1..n) \X S -> S]
  BY <1>4
<1>6. PICK g \in [0..n -> S] : g[0] = Start /\ \A i \in 1..n : g[i] = F[<<i, g[i - 1]>>]
  <2> HIDE DEF n, F
  <2>1. Iterations(S, n, F, Start) # {}
    BY <1>1, <1>3, <1>5, Iterated
  <2> QED BY <2>1, Zenon DEF Iterations
<1>7. \A i \in 1..n : i - 1 \in 0..n /\ g[i - 1] \in S /\ g[i] = next(i, g[i - 1])
  <2> SUFFICES ASSUME NEW i \in 1..n
               PROVE  i - 1 \in 0..n /\ g[i - 1] \in S /\ g[i] = next(i, g[i - 1])
    OBVIOUS
  <2>1. i - 1 \in 0..n
    BY <1>1
  <2>2. g[i - 1] \in S
    BY <1>6, <2>1
  <2>3. <<i, g[i - 1]>> \in (1..n) \X S
    BY <2>2
  <2>4. F[<<i, g[i - 1]>>] = next(i, g[i - 1])
    BY <2>3
  <2> QED BY <1>6, <2>1, <2>2, <2>4
<1>8. g = [i \in 0..n |->
             IF i = 0 THEN Start
             ELSE LET before == g[i - 1]
                  IN  IF before = None THEN None ELSE Accept(prog, before, ids[i])]
  <2>1. \A i \in 0..n : g[i] = IF i = 0 THEN Start
                               ELSE IF g[i - 1] = None THEN None ELSE Accept(prog, g[i - 1], ids[i])
    <3> SUFFICES ASSUME NEW i \in 0..n, i # 0
                 PROVE  g[i] = IF g[i - 1] = None THEN None ELSE Accept(prog, g[i - 1], ids[i])
      BY <1>6
    <3>1. i \in 1..n
      BY <1>1
    <3> QED BY <1>7, <3>1 DEF next
  <2> QED BY <1>6, <2>1
<1>9. f = [i \in 0..n |->
             IF i = 0 THEN Start
             ELSE LET before == f[i - 1]
                  IN  IF before = None THEN None ELSE Accept(prog, before, ids[i])]
  BY <1>8, Zenon
<1> HIDE DEF f
<1>10. /\ f[0] = Start
       /\ \A i \in 1..n : f[i] = next(i, f[i - 1])
  <2>1. 0 \in 0..n /\ \A i \in 1..n : i \in 0..n /\ i # 0
    BY <1>1
  <2>2. \A i \in 0..n : f[i] = IF i = 0 THEN Start
                               ELSE IF f[i - 1] = None THEN None ELSE Accept(prog, f[i - 1], ids[i])
    BY <1>9, Zenon
  <2> QED BY <2>1, <2>2, Zenon DEF next
<1> DEFINE G == {i \in Nat : i \in 0..n => f[i] \in S}
<1>11. 0 \in G
  BY <1>3, <1>10
<1>12. ASSUME NEW i \in Nat, i \in G
       PROVE  i + 1 \in G
  <2> SUFFICES ASSUME i + 1 \in 0..n
               PROVE  f[i + 1] \in S
    OBVIOUS
  <2>1. i \in 0..n /\ i + 1 \in 1..n /\ (i + 1) - 1 = i
    BY <1>1
  <2>2. f[i] \in S /\ f[i + 1] = next(i + 1, f[i])
    BY <1>10, <1>12, <2>1
  <2> QED BY <1>4, <2>1, <2>2
<1>13. \A i \in Nat : i \in G
  <2> HIDE DEF G, n
  <2> QED BY <1>11, <1>12, NatInduct
<1>14. \A i \in 0..n : f[i] \in S
  BY <1>1, <1>13
<1>15. f \in [0..n -> S]
  <2> HIDE DEF n, S
  <2>1. f = [i \in 0..n |-> f[i]]
    BY <1>9, Zenon
  <2> QED BY <1>14, <2>1
<1>16. \A i \in 1..n : f[i] = Then(prog, f[i - 1], ids[i])
  BY <1>10, Zenon DEF next, Then
<1> QED BY <1>2, <1>10, <1>15, <1>16, Zenon DEF S, n, Visits

\* A description resumed from leads to a place, and none to the start.
LEMMA AdvancePlaces ==
  ASSUME NEW prog \in Programs, NEW ids \in Seq(Nat)
  PROVE  /\ Advance(prog, ids) \in Places(prog)
         /\ ids = <<>> => Advance(prog, ids) = Start
<1>1. PICK g : Visits(prog, ids, g)
  BY AdvanceVisits
<1>2. Len(ids) \in 0..Len(ids) /\ (ids = <<>> => Len(ids) = 0)
  BY LenProperties, EmptySeq
<1> QED BY <1>1, <1>2 DEF Visits

LEMMA AdvanceAppend ==
  ASSUME NEW prog \in Programs, NEW ids \in Seq(Nat), NEW id \in Nat
  PROVE  Advance(prog, Append(ids, id)) = Then(prog, Advance(prog, ids), id)
<1> DEFINE n == Len(ids)
           more == Append(ids, id)
<1>1. /\ n \in Nat /\ more \in Seq(Nat) /\ Len(more) = n + 1 /\ more[n + 1] = id
      /\ \A i \in 1..n : more[i] = ids[i]
  BY AppendProperties, LenProperties
<1> HIDE DEF more
<1>2. PICK g : Visits(prog, ids, g)
  BY AdvanceVisits
<1>3. PICK h : Visits(prog, more, h)
  BY <1>1, AdvanceVisits
<1>4. \A i \in 1..n : g[i - 1] = h[i - 1] => g[i] = h[i]
  <2> SUFFICES ASSUME NEW i \in 1..n, g[i - 1] = h[i - 1]
               PROVE  g[i] = h[i]
    OBVIOUS
  <2>1. g[i] = Then(prog, g[i - 1], ids[i])
    BY <1>2, Zenon DEF Visits, n
  <2>2. i \in 1..Len(more) /\ more[i] = ids[i]
    BY <1>1
  <2>3. h[i] = Then(prog, h[i - 1], more[i])
    BY <1>3, <2>2, Zenon DEF Visits
  <2> QED BY <2>1, <2>2, <2>3
<1>5. g[0] = h[0] /\ g[n] = Advance(prog, ids) /\ h[n + 1] = Advance(prog, more)
  BY <1>1, <1>2, <1>3 DEF Visits, n
<1>6. g[n] = h[n]
  <2> HIDE DEF n
  <2>1. n \in Nat /\ g[0] = h[0]
    BY <1>1, <1>5
  <2> QED BY <1>4, <2>1, RunsAgree, Zenon
<1>7. h[n + 1] = Then(prog, h[n], id)
  <2>1. n + 1 \in 1..Len(more) /\ (n + 1) - 1 = n
    BY <1>1
  <2>2. h[n + 1] = Then(prog, h[(n + 1) - 1], more[n + 1])
    BY <1>3, <2>1, Zenon DEF Visits
  <2> QED BY <1>1, <2>1, <2>2
<1> QED BY <1>5, <1>6, <1>7 DEF more

\* Where tokens lead somewhere, every prefix of them does.
LEMMA AdvancePrefix ==
  ASSUME NEW prog \in Programs, NEW ids \in Seq(Nat), NEW n \in 0..Len(ids),
         Advance(prog, ids) # None
  PROVE  Advance(prog, SubSeq(ids, 1, n)) # None
<1> DEFINE G == {p \in Seq(Nat) : Advance(prog, p) # None =>
                   \A k \in 0..Len(p) : Advance(prog, SubSeq(p, 1, k)) # None}
<1>1. <<>> \in G
  <2> DEFINE none == <<>>
  <2>1. none \in Seq(Nat) /\ Len(none) = 0 /\ SubSeq(none, 1, 0) = none
    OBVIOUS
  <2> HIDE DEF none
  <2>2. \A k \in 0..Len(none) : SubSeq(none, 1, k) = none
    BY <2>1
  <2>3. none \in G
    BY <2>1, <2>2
  <2> QED BY <2>3 DEF none
<1>2. ASSUME NEW p \in Seq(Nat), NEW x \in Nat, p \in G
      PROVE  Append(p, x) \in G
  <2> DEFINE more == Append(p, x)
  <2>1. more \in Seq(Nat) /\ Len(more) = Len(p) + 1 /\ Len(p) \in Nat
    BY AppendProperties, LenProperties
  <2> SUFFICES ASSUME Advance(prog, more) # None, NEW k \in 0..Len(more)
               PROVE  Advance(prog, SubSeq(more, 1, k)) # None
    BY <2>1
  <2>2. Advance(prog, p) # None
    BY AdvanceAppend DEF Then
  <2>3. CASE k = Len(more)
    <3>1. SubSeq(more, 1, k) = more
      BY <2>1, <2>3
    <3> QED BY <3>1
  <2>4. CASE k # Len(more)
    <3>1. k \in 0..Len(p)
      BY <2>1, <2>4
    <3>2. SubSeq(more, 1, k) = SubSeq(p, 1, k)
      <4>1. more = p \o <<x>> /\ <<x>> \in Seq(Nat)
        BY AppendIsConcat
      <4> HIDE DEF more
      <4> QED BY <3>1, <4>1, PrefixOfConcat
    <3> QED BY <1>2, <2>2, <3>1, <3>2
  <2> QED BY <2>3, <2>4
<1> HIDE DEF G
<1>3. ids \in G
  BY <1>1, <1>2, SeqInduct
<1> QED BY <1>3 DEF G

\* What a token writes, and what tokens without the end write.
Worth(id) == IF id \in DOMAIN Expansion THEN Expansion[id] ELSE <<>>
Texts == Nat \ {Eos}

LEMMA WrittenAppend ==
  ASSUME NEW ids \in Seq(Nat), NEW id \in Nat
  PROVE  /\ Written(ids) \in Seq(Byte)
         /\ Written(Append(ids, id)) = Written(ids) \o Worth(id)
<1> DEFINE n == Len(ids)
           more == Append(ids, id)
           parts(p) == [i \in DOMAIN p |-> Worth(p[i])]
<1>1. \A x : Worth(x) \in Seq(Byte)
  BY ExpansionTyped, EmptySeq DEF Worth
<1>2. /\ n \in Nat /\ more \in Seq(Nat) /\ Len(more) = n + 1 /\ more[n + 1] = id
      /\ \A i \in 1..n : more[i] = ids[i]
      /\ DOMAIN ids = 1..n /\ DOMAIN more = 1..(n + 1)
  BY AppendProperties, LenProperties
<1>3. \A p : Written(p) = Seqs!FlattenSeq(parts(p))
  <2> TAKE p
  <2>1. Written(p) = FlattenSeq(parts(p))
    BY DEF Written, Worth
  <2> QED BY <2>1, FlattenJoins
<1> HIDE DEF more, n
<1>4. parts(ids) \in Seq(Seq(Byte)) /\ Len(parts(ids)) = n
  <2>1. parts(ids) = [i \in 1..n |-> Worth(ids[i])]
    BY <1>2
  <2>2. [i \in 1..n |-> Worth(ids[i])] \in Seq(Seq(Byte)) /\ Len([i \in 1..n |-> Worth(ids[i])]) = n
    BY <1>1, <1>2, IsASeq, LenProperties
  <2> QED BY <2>1, <2>2
<1>5. parts(more) \in Seq(Seq(Byte)) /\ Len(parts(more)) = n + 1
  <2>1. parts(more) = [i \in 1..(n + 1) |-> Worth(more[i])]
    BY <1>2
  <2>2. [i \in 1..(n + 1) |-> Worth(more[i])] \in Seq(Seq(Byte)) /\ Len([i \in 1..(n + 1) |-> Worth(more[i])]) = n + 1
    BY <1>1, <1>2, IsASeq, LenProperties
  <2> QED BY <2>1, <2>2
<1>6. parts(more) = Append(parts(ids), Worth(id))
  <2> DEFINE a == parts(ids)
             b == Append(a, Worth(id))
  <2>1. \A i \in 1..n : a[i] = Worth(ids[i])
    BY <1>2
  <2>2. /\ b \in Seq(Seq(Byte)) /\ Len(b) = n + 1 /\ b[n + 1] = Worth(id)
        /\ \A i \in 1..n : b[i] = a[i]
    <3> HIDE DEF a
    <3>1. a \in Seq(Seq(Byte)) /\ Len(a) = n /\ Worth(id) \in Seq(Byte)
      BY <1>1, <1>4 DEF a
    <3> QED BY <3>1, AppendProperties
  <2>3. \A i \in 1..(n + 1) : parts(more)[i] = Worth(more[i])
    BY <1>2
  <2> HIDE DEF a, b, parts
  <2>4. \A i \in 1..(n + 1) : parts(more)[i] = b[i]
    <3> SUFFICES ASSUME NEW i \in 1..(n + 1)
                 PROVE  parts(more)[i] = b[i]
      OBVIOUS
    <3>1. i = n + 1 \/ i \in 1..n
      BY <1>2
    <3> QED BY <1>2, <2>1, <2>2, <2>3, <3>1
  <2>5. parts(more) = b
    BY <1>5, <2>2, <2>4, SeqEqual
  <2> QED BY <2>5 DEF b, a
<1>7. Worth(id) \in Seq(Byte)
  BY <1>1
<1>8. Written(ids) = Seqs!FlattenSeq(parts(ids)) /\ Written(more) = Seqs!FlattenSeq(parts(more))
  BY <1>3
<1> HIDE DEF parts
<1>9. Seqs!FlattenSeq(Append(parts(ids), Worth(id))) = Seqs!FlattenSeq(parts(ids)) \o Worth(id)
      /\ Seqs!FlattenSeq(parts(ids)) \in Seq(Byte)
  BY <1>4, <1>7, JoinAppend
<1> QED BY <1>6, <1>8, <1>9 DEF more

\* The text decides the place: tokens lead where the text they write leads,
\* however it is split.
LEMMA AdvanceText ==
  ASSUME NEW prog \in Programs, NEW ids \in Seq(Texts), Advance(prog, ids) # None
  PROVE  Advance(prog, ids) = Walk(prog, Start, Written(ids))
<1> DEFINE G == {p \in Seq(Texts) : Advance(prog, p) # None => Advance(prog, p) = Walk(prog, Start, Written(p))}
<1>1. \A p \in Seq(Texts) : p \in Seq(Nat)
  BY ElementOfSeq, LenProperties, IsASeq DEF Texts
<1>2. Start \in Places(prog)
  <2>1. 1 \in 1..Len(prog) + 1
    BY LenProperties DEF Programs
  <2> QED BY <2>1, FreshLive, PlacesAre DEF Start
<1>3. <<>> \in G
  <2>1. <<>> \in Seq(Texts) /\ <<>> \in Seq(Nat) /\ <<>> \in Seq(Byte) /\ DOMAIN <<>> = {}
    BY EmptySeq
  <2>2. Written(<<>>) = <<>>
    <3>1. [i \in DOMAIN <<>> |-> IF <<>>[i] \in DOMAIN Expansion THEN Expansion[<<>>[i]] ELSE <<>>] = <<>>
      BY <2>1
    <3> QED BY <3>1, FlattenJoins, JoinEmpty DEF Written
  <2>3. Advance(prog, <<>>) = Start /\ Walk(prog, Start, <<>>) = Start
    BY <1>2, <2>1, AdvancePlaces, WalkRun
  <2> QED BY <2>1, <2>2, <2>3
<1>4. ASSUME NEW p \in Seq(Texts), NEW x \in Texts, p \in G
      PROVE  Append(p, x) \in G
  <2>1. Append(p, x) \in Seq(Texts) /\ p \in Seq(Nat) /\ x \in Nat /\ x # Eos
    BY <1>1, AppendProperties DEF Texts
  <2>2. CASE Advance(prog, Append(p, x)) = None
    BY <2>1, <2>2
  <2>3. CASE Advance(prog, Append(p, x)) # None
    <3> DEFINE at == Advance(prog, p)
               text == Written(p)
    <3>1. Advance(prog, Append(p, x)) = Then(prog, at, x)
      BY <2>1, AdvanceAppend
    <3>2. at # None /\ Accept(prog, at, x) # None /\ Advance(prog, Append(p, x)) = Accept(prog, at, x)
      BY <2>3, <3>1 DEF Then
    <3>3. x \in DOMAIN Expansion /\ Accept(prog, at, x) = Walk(prog, at, Expansion[x])
      BY <2>1, <3>2 DEF Accept
    <3>4. text \in Seq(Byte) /\ Expansion[x] \in Seq(Byte) /\ Written(Append(p, x)) = text \o Expansion[x]
      BY <2>1, <3>3, WrittenAppend, ExpansionTyped DEF Worth
    <3>5. at = Walk(prog, Start, text)
      BY <1>4, <3>2
    <3> HIDE DEF at, text
    <3>6. Walk(prog, Start, text \o Expansion[x]) = Walk(prog, at, Expansion[x])
      BY <1>2, <3>4, <3>5, WalkConcat
    <3> QED BY <2>1, <3>2, <3>3, <3>4, <3>6
  <2> QED BY <2>2, <2>3
<1> HIDE DEF G
<1>5. ids \in G
  BY <1>3, <1>4, SeqInduct
<1> QED BY <1>5 DEF G

\* What the mask admits the automaton accepts.
LEMMA AllowedAccepts ==
  ASSUME NEW prog \in Programs, NEW c, Live(prog, c), NEW id \in Allowed(prog, c), EndIsUnwritten
  PROVE  Accept(prog, c, id) # None
<1>1. CASE IsDone(prog, c)
  <2>1. id = Eos
    BY <1>1 DEF Allowed
  <2> QED BY <1>1, <2>1, LiveIsSome DEF Accept
<1>2. CASE ~IsDone(prog, c)
  <2>1. PICK b \in Byte : /\ Step(prog, c, b) # None /\ id \in ByFirst[b]
                          /\ Walk(prog, Step(prog, c, b), Tail(Expansion[id])) # None
    BY <1>2 DEF Allowed
  <2> DEFINE after == Step(prog, c, b)
             e == Expansion[id]
  <2>2. id \in DOMAIN Expansion /\ e[1] = b /\ e \in Seq(Byte) /\ e # <<>> /\ id # Eos
    BY <2>1, ExpansionTyped DEF ByFirst, EndIsUnwritten
  <2>3. Accept(prog, c, id) = Walk(prog, c, e)
    BY <2>2 DEF Accept
  <2>4. /\ Tail(e) \in Seq(Byte) /\ <<b>> \in Seq(Byte) /\ <<>> \in Seq(Byte)
        /\ <<b>> = Append(<<>>, b) /\ e = <<b>> \o Tail(e)
    <3> HIDE DEF e
    <3>1. Tail(e) \in Seq(Byte) /\ <<b>> \in Seq(Byte) /\ <<>> \in Seq(Byte) /\ <<b>> = Append(<<>>, b)
      BY <2>2, HeadTailProperties
    <3>2. e = <<b>> \o Tail(e)
      BY <2>2, <3>1
    <3> QED BY <3>1, <3>2
  <2>5. c \in Places(prog) /\ c # None
    BY PlacesAre, LiveIsSome
  <2>6. Walk(prog, c, <<b>>) = after
    <3>1. Walk(prog, c, <<>>) = c
      BY <2>4, <2>5, WalkRun
    <3>2. Walk(prog, c, Append(<<>>, b)) = After(prog, Walk(prog, c, <<>>), b)
      BY <2>4, <2>5, WalkAppend
    <3> QED BY <2>4, <2>5, <3>1, <3>2 DEF After
  <2>7. Walk(prog, c, <<b>> \o Tail(e)) = Walk(prog, Walk(prog, c, <<b>>), Tail(e))
    BY <2>4, <2>5, WalkConcat
  <2> QED BY <2>1, <2>3, <2>4, <2>6, <2>7
<1> QED BY <1>1, <1>2


\* The tokens allowed are rows of the model.
LEMMA AllowedRows ==
  ASSUME NEW prog, NEW c
  PROVE  Allowed(prog, c) \subseteq 0..Width - 1
<1>1. CASE IsDone(prog, c)
  BY <1>1, ConstrainAssumption DEF Allowed
<1>2. CASE ~IsDone(prog, c)
  <2>1. \A b \in Byte : ByFirst[b] \subseteq 0..Width - 1
    BY ExpansionTyped DEF ByFirst
  <2> QED BY <1>2, <2>1 DEF Allowed
<1> QED BY <1>1, <1>2

\* With a token for every byte, a live place allows one.
LEMMA LiveAllows ==
  ASSUME NEW prog \in Programs, NEW c, Live(prog, c), UncoveredBytes = {}
  PROVE  Allowed(prog, c) # {}
<1>1. CASE IsDone(prog, c)
  BY <1>1 DEF Allowed
<1>2. CASE ~IsDone(prog, c)
  <2>1. PICK b \in Byte : Live(prog, Step(prog, c, b))
    BY <1>2, StepGoes
  <2> DEFINE after == Step(prog, c, b)
  <2>2. PICK id \in ByFirst[b] : Len(Expansion[id]) = 1
    BY DEF UncoveredBytes
  <2>3. Expansion[id] \in Seq(Byte) /\ id \in DOMAIN Expansion
    BY <2>2, ExpansionTyped DEF ByFirst
  <2>4. Tail(Expansion[id]) = <<>> /\ <<>> \in Seq(Byte)
    <3>1. Expansion[id] # <<>>
      BY <2>2, EmptySeq
    <3>2. Tail(Expansion[id]) \in Seq(Byte) /\ Len(Tail(Expansion[id])) = 0
      BY <2>2, <2>3, <3>1, HeadTailProperties
    <3> QED BY <3>2, EmptySeq
  <2>5. after # None /\ after \in Places(prog)
    BY <2>1, LiveIsSome, PlacesAre
  <2> HIDE DEF after
  <2>6. Walk(prog, after, <<>>) = after
    BY <2>4, <2>5, WalkRun
  <2>7. id \in {i \in ByFirst[b] : Walk(prog, after, Tail(Expansion[i])) # None}
    BY <2>2, <2>4, <2>5, <2>6
  <2>8. id \in Allowed(prog, c)
    BY <1>2, <2>5, <2>7 DEF Allowed, after
  <2> QED BY <2>8
<1> QED BY <1>1, <1>2

\* Reading a plan back gives the tokens it was made of.
LEMMA PlanPermits ==
  ASSUME NEW prog, NEW c
  PROVE  Permitted(Plan(prog, c)) = Allowed(prog, c)
<1> DEFINE allowed == Allowed(prog, c)
           rows == 0..(Width - 1)
<1>1. allowed \subseteq rows
  BY AllowedRows
<1>2. \/ Plan(prog, c) = [legal |-> FALSE, exceptions |-> rows \ allowed]
      \/ Plan(prog, c) = [legal |-> TRUE, exceptions |-> allowed]
  BY Zenon DEF Plan
<1> HIDE DEF allowed, rows
<1>3. Permitted(Plan(prog, c)) = {id \in rows : (id \in Plan(prog, c).exceptions) = Plan(prog, c).legal}
  BY Zenon DEF Permitted, rows
<1>4. CASE Plan(prog, c) = [legal |-> FALSE, exceptions |-> rows \ allowed]
  <2>1. Plan(prog, c).legal = FALSE /\ Plan(prog, c).exceptions = rows \ allowed
    BY <1>4
  <2>2. Permitted(Plan(prog, c)) = {id \in rows : (id \in rows \ allowed) = FALSE}
    BY <1>3, <2>1
  <2>3. Permitted(Plan(prog, c)) = allowed
    BY <1>1, <2>2
  <2> QED BY <2>3 DEF allowed
<1>5. CASE Plan(prog, c) = [legal |-> TRUE, exceptions |-> allowed]
  <2>1. Plan(prog, c).legal = TRUE /\ Plan(prog, c).exceptions = allowed
    BY <1>5
  <2>2. Permitted(Plan(prog, c)) = {id \in rows : (id \in allowed) = TRUE}
    BY <1>3, <2>1
  <2>3. Permitted(Plan(prog, c)) = allowed
    BY <1>1, <2>2
  <2> QED BY <2>3 DEF allowed
<1> QED BY <1>2, <1>4, <1>5
-----------------------------------------------------------------------------
(* What compile() makes is a program.                                      *)

LEMMA ConcatTyped ==
  ASSUME NEW T, NEW s \in Seq(T), NEW t \in Seq(T)
  PROVE  /\ s \o t \in Seq(T) /\ Len(s \o t) \in Nat
         /\ s # <<>> \/ t # <<>> => s \o t # <<>>
<1>1. Len(s) \in Nat /\ Len(t) \in Nat
  BY LenProperties
<1>2. s \o t \in Seq(T) /\ Len(s \o t) = Len(s) + Len(t)
  BY ConcatProperties
<1>3. (s # <<>> => Len(s) # 0) /\ (t # <<>> => Len(t) # 0) /\ Len(<<>>) = 0
  BY EmptySeq
<1> QED BY <1>1, <1>2, <1>3

LEMMA EscapedByteTyped ==
  ASSUME NEW b \in Byte
  PROVE  EscapedByte(b) \in Seq(Byte)
<1>1. CASE b \in DOMAIN ShortEscape
  <2>1. DOMAIN ShortEscape = {8, 9, 10, 12, 13, Quote, Backslash}
    BY DEF ShortEscape
  <2>2. ShortEscape[b] \in Byte
    <3>1. b \in {8, 9, 10, 12, 13, Quote, Backslash}
      BY <1>1, <2>1
    <3>2. ShortEscape[b] = CASE b = 8 -> 98 [] b = 9 -> 116 [] b = 10 -> 110
                             [] b = 12 -> 102 [] b = 13 -> 114 [] OTHER -> b
      BY <3>1, Zenon DEF ShortEscape
    <3>3. ShortEscape[b] \in {98, 116, 110, 102, 114, b}
      BY <3>1, <3>2, SMT DEF Quote, Backslash
    <3> QED BY <3>3 DEF Byte
  <2>3. EscapedByte(b) = <<Backslash, ShortEscape[b]>>
    BY <1>1 DEF EscapedByte
  <2>4. Backslash \in Byte
    BY DEF Backslash, Byte
  <2> QED BY <2>2, <2>3, <2>4
<1>2. CASE b \notin DOMAIN ShortEscape /\ b < 32
  <2> DEFINE h == HexDigit(b \div 16)
             l == HexDigit(b % 16)
  <2>1. h \in Byte /\ l \in Byte
    BY <1>2, SMT DEF HexDigit, Byte
  <2>2. EscapedByte(b) = <<Backslash, 117, 48, 48, h, l>>
    BY <1>2 DEF EscapedByte
  <2> HIDE DEF h, l
  <2>3. Backslash \in Byte /\ 117 \in Byte /\ 48 \in Byte
    BY DEF Backslash, Byte
  <2> QED BY <2>1, <2>2, <2>3
<1>3. CASE b \notin DOMAIN ShortEscape /\ ~(b < 32)
  BY <1>3 DEF EscapedByte
<1> QED BY <1>1, <1>2, <1>3

LEMMA EncodedTyped ==
  ASSUME NEW bytes \in Seq(Byte)
  PROVE  Encoded(bytes) \in Spellings
<1> DEFINE n == Len(bytes)
           parts == [i \in 1..n |-> EscapedByte(bytes[i])]
           body == FlattenSeq(parts)
           q == <<Quote>>
<1>1. n \in Nat /\ DOMAIN bytes = 1..n /\ \A i \in 1..n : bytes[i] \in Byte
  BY LenProperties, ElementOfSeq
<1>2. Encoded(bytes) = q \o body \o q
  <2>1. [i \in DOMAIN bytes |-> EscapedByte(bytes[i])] = parts
    BY <1>1
  <2> HIDE DEF parts
  <2> QED BY <2>1 DEF Encoded
<1>3. parts \in Seq(Seq(Byte))
  <2>1. \A i \in 1..n : EscapedByte(bytes[i]) \in Seq(Byte)
    BY <1>1, EscapedByteTyped
  <2> HIDE DEF n
  <2> QED BY <1>1, <2>1, IsASeq
<1>4. body \in Seq(Byte)
  <2> HIDE DEF parts
  <2> QED BY <1>3, FlattenJoins, JoinTyped
<1>5. q \in Seq(Byte) /\ q # <<>>
  BY DEF Quote, Byte
<1> HIDE DEF q, body
<1>6. q \o body \in Seq(Byte)
  BY <1>4, <1>5, ConcatTyped
<1>7. (q \o body) \o q \in Seq(Byte) /\ (q \o body) \o q # <<>>
  BY <1>5, <1>6, ConcatTyped
<1> QED BY <1>2, <1>7 DEF Spellings

LEMMA SpellingTyped ==
  /\ \A v \in Value : Spelling(v) \in Spellings
  /\ True \in Spellings /\ False \in Spellings
<1>1. True \in Spellings /\ False \in Spellings
  BY DEF True, False, Spellings, Byte
<1>2. ASSUME NEW v \in Value
      PROVE  Spelling(v) \in Spellings
  <2>1. CASE v \in [kind : {"string"}, text : Seq(Byte)]
    BY <2>1, EncodedTyped DEF Spelling
  <2>2. CASE v \in [kind : {"boolean"}, text : {True, False}]
    BY <1>1, <2>2 DEF Spelling
  <2> QED BY <2>1, <2>2 DEF Value
<1> QED BY <1>1, <1>2

\* Spellings without their repetitions are spellings still, and not none.
LEMMA DedupTyped ==
  ASSUME NEW T, NEW s \in Seq(T), s # <<>>
  PROVE  Dedup(s) \in Seq(T) \ {<<>>}
<1> DEFINE n == Len(s)
           S == Seq(T)
           next(i, x) == IF s[i] \in Range(x) THEN x ELSE Append(x, s[i])
           F == [y \in (1..n) \X S |-> next(y[1], y[2])]
           f == CHOOSE f : f = [i \in 0..n |->
                  IF i = 0 THEN <<>>
                  ELSE LET before == f[i - 1]
                       IN  IF s[i] \in Range(before) THEN before ELSE Append(before, s[i])]
<1>1. n \in Nat \ {0} /\ \A i \in 1..n : s[i] \in T
  BY LenProperties, ElementOfSeq, EmptySeq
<1>2. Dedup(s) = f[n]
  BY DEF Dedup
<1>3. \A i \in 1..n, x \in S : next(i, x) \in S /\ next(i, x) # <<>>
  <2> SUFFICES ASSUME NEW i \in 1..n, NEW x \in S
               PROVE  next(i, x) \in S /\ next(i, x) # <<>>
    OBVIOUS
  <2>1. CASE s[i] \in Range(x)
    <3>1. x # <<>>
      <4>1. Range(<<>>) = {}
        BY DEF Range
      <4> QED BY <2>1, <4>1
    <3> QED BY <2>1, <3>1
  <2>2. CASE s[i] \notin Range(x)
    <3>1. Append(x, s[i]) \in S /\ Len(Append(x, s[i])) = Len(x) + 1 /\ Len(x) \in Nat
      BY <1>1, AppendProperties, LenProperties
    <3>2. Append(x, s[i]) # <<>>
      BY <3>1, EmptySeq
    <3> QED BY <2>2, <3>1, <3>2
  <2> QED BY <2>1, <2>2
<1>4. <<>> \in S
  BY EmptySeq
<1> HIDE DEF next, S
<1>5. F \in [(1..n) \X S -> S]
  BY <1>3
<1>6. PICK g \in [0..n -> S] : g[0] = <<>> /\ \A i \in 1..n : g[i] = F[<<i, g[i - 1]>>]
  <2> HIDE DEF n, F
  <2>1. Iterations(S, n, F, <<>>) # {}
    BY <1>1, <1>4, <1>5, Iterated
  <2> QED BY <2>1, Zenon DEF Iterations
<1>7. \A i \in 1..n : i - 1 \in 0..n /\ g[i - 1] \in S /\ g[i] = next(i, g[i - 1])
  <2> SUFFICES ASSUME NEW i \in 1..n
               PROVE  i - 1 \in 0..n /\ g[i - 1] \in S /\ g[i] = next(i, g[i - 1])
    OBVIOUS
  <2>1. i - 1 \in 0..n
    BY <1>1
  <2>2. g[i - 1] \in S
    BY <1>6, <2>1
  <2>3. <<i, g[i - 1]>> \in (1..n) \X S
    BY <2>2
  <2>4. F[<<i, g[i - 1]>>] = next(i, g[i - 1])
    BY <2>3
  <2> QED BY <1>6, <2>1, <2>2, <2>4
<1>8. g = [i \in 0..n |->
             IF i = 0 THEN <<>>
             ELSE LET before == g[i - 1]
                  IN  IF s[i] \in Range(before) THEN before ELSE Append(before, s[i])]
  <2>1. \A i \in 0..n : g[i] = IF i = 0 THEN <<>>
                               ELSE IF s[i] \in Range(g[i - 1]) THEN g[i - 1] ELSE Append(g[i - 1], s[i])
    <3> SUFFICES ASSUME NEW i \in 0..n, i # 0
                 PROVE  g[i] = IF s[i] \in Range(g[i - 1]) THEN g[i - 1] ELSE Append(g[i - 1], s[i])
      BY <1>6
    <3>1. i \in 1..n
      BY <1>1
    <3> QED BY <1>7, <3>1 DEF next
  <2> QED BY <1>6, <2>1
<1>9. f = [i \in 0..n |->
             IF i = 0 THEN <<>>
             ELSE LET before == f[i - 1]
                  IN  IF s[i] \in Range(before) THEN before ELSE Append(before, s[i])]
  BY <1>8, Zenon
<1> HIDE DEF f
<1>10. /\ f[0] = <<>>
       /\ \A i \in 1..n : f[i] = next(i, f[i - 1])
  <2>1. 0 \in 0..n /\ \A i \in 1..n : i \in 0..n /\ i # 0
    BY <1>1
  <2>2. \A i \in 0..n : f[i] = IF i = 0 THEN <<>>
                               ELSE IF s[i] \in Range(f[i - 1]) THEN f[i - 1] ELSE Append(f[i - 1], s[i])
    BY <1>9, Zenon
  <2> QED BY <2>1, <2>2, Zenon DEF next
<1> DEFINE G == {i \in Nat : i \in 0..n => f[i] \in S}
<1>11. 0 \in G
  BY <1>4, <1>10
<1>12. ASSUME NEW i \in Nat, i \in G
       PROVE  i + 1 \in G
  <2> SUFFICES ASSUME i + 1 \in 0..n
               PROVE  f[i + 1] \in S
    OBVIOUS
  <2>1. i \in 0..n /\ i + 1 \in 1..n /\ (i + 1) - 1 = i
    BY <1>1
  <2>2. f[i] \in S /\ f[i + 1] = next(i + 1, f[i])
    BY <1>10, <1>12, <2>1
  <2> QED BY <1>3, <2>1, <2>2
<1>13. n - 1 \in G
  <2>1. n - 1 \in Nat
    BY <1>1
  <2> HIDE DEF G, n
  <2> QED BY <1>11, <1>12, <2>1, NatInduct
<1>14. n - 1 \in 0..n /\ n \in 1..n
  BY <1>1
<1>15. f[n - 1] \in S /\ f[n] = next(n, f[n - 1])
  BY <1>10, <1>13, <1>14
<1>16. f[n] \in S /\ f[n] # <<>>
  BY <1>3, <1>14, <1>15
<1> QED BY <1>2, <1>16 DEF S

LEMMA ChoiceTyped ==
  ASSUME NEW s \in Seq(Spellings) \ {<<>>}
  PROVE  Choice(s) \in Segments
BY DEF Choice, Segments

LEMMA ValueSegmentTyped ==
  ASSUME NEW p, p.enum \in Seq(Value) \cup {None}, ~ValueRefused(p)
  PROVE  ValueSegment(p) \in Segments
<1>1. CASE p.enum # None
  <2> DEFINE n == Len(p.enum)
             s == [i \in 1..n |-> Spelling(p.enum[i])]
  <2>1. p.enum \in Seq(Value) /\ p.enum # <<>>
    BY <1>1 DEF ValueRefused
  <2>2. n \in Nat \ {0} /\ DOMAIN p.enum = 1..n /\ \A i \in 1..n : p.enum[i] \in Value
    BY <2>1, LenProperties, ElementOfSeq, EmptySeq
  <2>3. ValueSegment(p) = Choice(Dedup(s))
    <3>1. [i \in DOMAIN p.enum |-> Spelling(p.enum[i])] = s
      BY <2>2
    <3> HIDE DEF s
    <3> QED BY <1>1, <3>1 DEF ValueSegment
  <2>4. s \in Seq(Spellings) /\ Len(s) = n
    <3>1. \A i \in 1..n : Spelling(p.enum[i]) \in Spellings
      BY <2>2, SpellingTyped
    <3> HIDE DEF n
    <3> QED BY <2>2, <3>1, IsASeq, LenProperties
  <2> HIDE DEF s
  <2>5. s # <<>>
    BY <2>2, <2>4, EmptySeq
  <2>6. Dedup(s) \in Seq(Spellings) \ {<<>>}
    BY <2>4, <2>5, DedupTyped
  <2> QED BY <2>3, <2>6, ChoiceTyped
<1>2. CASE p.enum = None /\ p.type = "string"
  BY <1>2 DEF ValueSegment, FreeString, Segments
<1>3. CASE p.enum = None /\ p.type # "string"
  <2>1. ValueSegment(p) = Choice(<<True, False>>)
    BY <1>3 DEF ValueSegment
  <2>2. <<True, False>> \in Seq(Spellings) \ {<<>>}
    BY SpellingTyped
  <2> QED BY <2>1, <2>2, ChoiceTyped
<1> QED BY <1>1, <1>2, <1>3

LEMMA CompileTyped ==
  ASSUME NEW s \in Schemas, ~CompileRefuses(s)
  PROVE  Compile(s) \in Programs /\ Compile(s) # <<>>
<1> DEFINE n == Len(s.required)
           key(i) == (IF i = 1 THEN <<123>> ELSE <<44, 32>>)
                       \o Encoded(s.required[i]) \o <<58, 32>>
           value(i) == ValueSegment(s.properties[s.required[i]])
           field(i) == <<Choice(<<key(i)>>), value(i)>>
           fields == [i \in 1..n |-> field(i)]
           end == <<Choice(<<<<125>>>>)>>
<1>1. /\ s.required \in Seq(Seq(Byte))
      /\ \A m \in DOMAIN s.properties : s.properties[m].enum \in Seq(Value) \cup {None}
  BY DecodeAssumption
<1>2. n \in Nat /\ DOMAIN s.required = 1..n /\ \A i \in 1..n : s.required[i] \in Seq(Byte)
  BY <1>1, LenProperties, ElementOfSeq
<1>3. Compile(s) = FlattenSeq(fields) \o end
  <2>1. [i \in DOMAIN s.required |-> field(i)] = fields
    BY <1>2
  <2>2. Compile(s) = FlattenSeq([i \in DOMAIN s.required |-> field(i)]) \o end
    BY Zenon DEF Compile
  <2> HIDE DEF fields, field, end
  <2> QED BY <2>1, <2>2
<1>4. ASSUME NEW i \in 1..n
      PROVE  field(i) \in Seq(Segments)
  <2>1. key(i) \in Spellings
    <3> DEFINE open == IF i = 1 THEN <<123>> ELSE <<44, 32>>
               name == Encoded(s.required[i])
               sep == <<58, 32>>
    <3>1. name \in Seq(Byte) /\ name # <<>>
      BY <1>2, EncodedTyped DEF Spellings
    <3>2. open \in Seq(Byte) /\ sep \in Seq(Byte) /\ sep # <<>>
      <4>1. <<123>> \in Seq(Byte) /\ <<44, 32>> \in Seq(Byte) /\ <<58, 32>> \in Seq(Byte)
        BY DEF Byte
      <4>2. open = <<123>> \/ open = <<44, 32>>
        OBVIOUS
      <4> QED BY <4>1, <4>2
    <3>3. key(i) = open \o name \o sep
      OBVIOUS
    <3> HIDE DEF open, name, sep, key
    <3>4. open \o name \in Seq(Byte)
      BY <3>1, <3>2, ConcatTyped
    <3>5. (open \o name) \o sep \in Seq(Byte) /\ (open \o name) \o sep # <<>>
      BY <3>2, <3>4, ConcatTyped
    <3> QED BY <3>3, <3>5 DEF Spellings
  <2> HIDE DEF key
  <2>2. Choice(<<key(i)>>) \in Segments
    <3>1. <<key(i)>> \in Seq(Spellings) \ {<<>>}
      BY <2>1
    <3> QED BY <3>1, ChoiceTyped
  <2>3. value(i) \in Segments
    <3>1. s.required[i] \in Names(s)
      BY <1>2 DEF Names, Range
    <3>2. s.required[i] \in DOMAIN s.properties /\ ~ValueRefused(s.properties[s.required[i]])
      BY <3>1 DEF CompileRefuses
    <3>3. s.properties[s.required[i]].enum \in Seq(Value) \cup {None}
      BY <1>1, <3>2
    <3> QED BY <3>2, <3>3, ValueSegmentTyped
  <2> HIDE DEF value
  <2> QED BY <2>2, <2>3
<1> HIDE DEF field
<1>5. fields \in Seq(Seq(Segments))
  <2> HIDE DEF n
  <2> QED BY <1>2, <1>4, IsASeq
<1> HIDE DEF fields
<1>6. FlattenSeq(fields) \in Seq(Segments)
  BY <1>5, FlattenJoins, JoinTyped
<1>7. end \in Seq(Segments) /\ end # <<>>
  <2>1. <<125>> \in Spellings
    BY DEF Spellings, Byte
  <2>2. <<<<125>>>> \in Seq(Spellings) \ {<<>>}
    BY <2>1
  <2>3. Choice(<<<<125>>>>) \in Segments
    BY <2>2, ChoiceTyped
  <2> QED BY <2>3
<1> HIDE DEF end
<1>8. FlattenSeq(fields) \o end \in Seq(Segments) /\ FlattenSeq(fields) \o end # <<>>
  BY <1>6, <1>7, ConcatTyped
<1> QED BY <1>3, <1>8 DEF Programs
-----------------------------------------------------------------------------
(* The decode loop.                                                        *)

LEMMA Compiled ==
  ASSUME Decoding, phase \notin {"boot", "refused"} \/ program # <<>>
  PROVE  /\ program = Compile(schema) /\ ~GrammarRefuses(schema)
         /\ phase \notin {"boot", "refused"}
         /\ program \in Programs /\ program # <<>> /\ UncoveredBytes = {}
         /\ cursor \in Places(program)
<1>1. program = Compile(schema) /\ ~GrammarRefuses(schema) /\ phase \notin {"boot", "refused"}
  BY DEF Decoding
<1>2. ~CompileRefuses(schema) /\ UncoveredBytes = {} /\ schema \in Schemas
  BY <1>1 DEF GrammarRefuses, Decoding
<1>3. program \in Programs /\ program # <<>>
  BY <1>1, <1>2, CompileTyped
<1>4. cursor \in Places(program)
  BY <1>3, PlacesAre DEF Decoding
<1> QED BY <1>1, <1>2, <1>3, <1>4

LEMMA BeginKeeps ==
  ASSUME Decoding, phase \notin {"boot", "refused"}, phase' \notin {"boot", "refused"},
         NEW ids \in Seq(Nat), NEW n, Begin(ids, n)
  PROVE  Decoding'
<1>1. /\ program = Compile(schema) /\ ~GrammarRefuses(schema)
      /\ program \in Programs /\ program # <<>>
  BY Compiled
<1>2. /\ tokens' = ids /\ cursor' = Advance(program, ids) /\ slots' = <<>> /\ record' = NoRecord
      /\ schema' = schema /\ program' = program
  BY DEF Begin
<1>3. cursor' = None \/ Live(program, cursor')
  BY <1>1, <1>2, AdvancePlaces, PlacesAre
<1>4. slots' \in Seq(1..Len(tokens'))
  BY <1>2, EmptySeq
<1>5. schema \in Schemas
  BY DEF Decoding
<1> QED BY <1>1, <1>2, <1>3, <1>4, <1>5 DEF Decoding, Live, IsPrefix

LEMMA TakeKeeps ==
  ASSUME Decoding, phase \notin {"boot", "refused"}, phase' \notin {"boot", "refused"},
         NEW id \in Pickable, Take(id), slots' = slots \/ slots' = Append(slots, Len(tokens'))
  PROVE  Decoding'
<1>1. /\ program = Compile(schema) /\ ~GrammarRefuses(schema)
      /\ program \in Programs /\ program # <<>> /\ cursor \in Places(program)
  BY Compiled
<1>2. id \in Nat /\ id \in Permitted(Plan(program, cursor))
  BY ConstrainAssumption DEF Pickable, Permitted
<1>3. /\ tokens' = Append(tokens, id) /\ cursor' = Accept(program, cursor, id)
      /\ record' = StepRecord(id) /\ schema' = schema /\ program' = program
  BY DEF Take
<1>4. cursor' = None \/ Live(program, cursor')
  BY <1>1, <1>3, AcceptPlaces, PlacesAre
<1>5. /\ tokens \in Seq(Nat) /\ slots \in Seq(1..Len(tokens)) /\ schema \in Schemas
      /\ Len(tokens) \in Nat
  BY LenProperties DEF Decoding
<1>6. tokens' \in Seq(Nat) /\ Len(tokens') = Len(tokens) + 1
  BY <1>2, <1>3, <1>5, AppendProperties
<1>7. slots' \in Seq(1..Len(tokens'))
  <2> DEFINE T == 1..Len(tokens')
  <2>1. 1..Len(tokens) \subseteq T /\ Len(tokens') \in T
    BY <1>5, <1>6
  <2> HIDE DEF T
  <2>2. slots \in Seq(T)
    <3>1. Len(slots) \in Nat /\ slots = [i \in 1..Len(slots) |-> slots[i]]
      BY <1>5, LenProperties
    <3>2. \A i \in 1..Len(slots) : slots[i] \in T
      BY <1>5, <2>1, ElementOfSeq
    <3> QED BY <3>1, <3>2, IsASeq
  <2>3. Append(slots, Len(tokens')) \in Seq(T)
    BY <2>1, <2>2, AppendProperties
  <2>4. slots' \in Seq(T)
    BY <2>2, <2>3
  <2> QED BY <2>4 DEF T
<1>8. record'.token = id /\ record'.permitted = Permitted(Plan(program, cursor))
  BY <1>3 DEF StepRecord
<1>9. record'.token \in record'.permitted
  BY <1>2, <1>8
<1>10. Live(program, cursor') => Live(program, cursor)'
  BY <1>3 DEF Live, IsPrefix
<1> QED BY <1>1, <1>3, <1>4, <1>5, <1>6, <1>7, <1>9, <1>10 DEF Decoding

LEMMA DecodingInit == Init => Decoding
BY EmptySeq DEF Init, Decoding, NoRecord

LEMMA DecodingNext == Decoding /\ [Next]_vars => Decoding'
<1> SUFFICES ASSUME Decoding, [Next]_vars
             PROVE  Decoding'
  OBVIOUS
<1>e. <<>> \in Seq(Nat)
  BY EmptySeq
<1>1. CASE Load
  <2>1. /\ phase = "boot" /\ schema' = schema /\ tokens' = tokens /\ cursor' = cursor
        /\ slots' = slots /\ record' = record
    BY <1>1 DEF Load, generation
  <2>2. /\ program = <<>> /\ cursor = Start /\ schema \in Schemas
        /\ tokens \in Seq(Nat) /\ slots \in Seq(1..Len(tokens))
        /\ record # NoRecord => record.token \in record.permitted
    BY <2>1 DEF Decoding
  <2>3. CASE LoadRefuses(schema)
    <3>1. phase' = "refused" /\ program' = program
      BY <1>1, <2>3 DEF Load
    <3> QED BY <2>1, <2>2, <3>1 DEF Decoding
  <2>4. CASE ~LoadRefuses(schema)
    <3>1. phase' = "ready" /\ program' = Compile(schema)
      BY <1>1, <2>4 DEF Load
    <3>2. ~GrammarRefuses(schema) /\ ~CompileRefuses(schema)
      BY <2>4 DEF LoadRefuses, GrammarRefuses
    <3>3. Compile(schema) \in Programs /\ Compile(schema) # <<>>
      BY <2>2, <3>2, CompileTyped
    <3>4. Live(program', cursor')
      <4> DEFINE prog == Compile(schema)
      <4>1. 1 \in 1..Len(prog) + 1
        BY <3>3, LenProperties DEF Programs
      <4>2. Live(prog, Start)
        <5> HIDE DEF prog
        <5>1. prog \in Programs
          BY <3>3 DEF prog
        <5> QED BY <4>1, <5>1, FreshLive DEF Start
      <4> QED BY <2>1, <2>2, <3>1, <4>2
    <3>5. Live(program', cursor') => Live(program, cursor)'
      BY DEF Live, IsPrefix
    <3> QED BY <2>1, <2>2, <3>1, <3>2, <3>3, <3>4, <3>5 DEF Decoding
  <2> QED BY <2>3, <2>4
<1>2. CASE Generate
  BY <1>2, <1>e, BeginKeeps DEF Generate
<1>3. CASE Resume
  <2> DEFINE ids == SubSeq(tokens, 1, slots[Len(slots)])
  <2>1. /\ phase = "answered" /\ phase' = "report" /\ slots # <<>>
        /\ \/ Begin(ids, MaxTokens - Len(ids))
           \/ Begin(<<>>, MaxTokens)
    BY <1>3, Zenon DEF Resume
  <2>2. /\ tokens \in Seq(Nat) /\ slots \in Seq(1..Len(tokens)) /\ Len(tokens) \in Nat
    BY LenProperties DEF Decoding
  <2>3. slots[Len(slots)] \in 1..Len(tokens)
    <3>1. Len(slots) \in 1..Len(slots)
      BY <2>1, <2>2, EmptySeq
    <3> QED BY <2>2, <3>1, ElementOfSeq
  <2>4. ids \in Seq(Nat)
    <3>1. slots[Len(slots)] \in 0..Len(tokens)
      BY <2>2, <2>3
    <3> QED BY <2>2, <3>1, PrefixOfPath
  <2> HIDE DEF ids
  <2> QED BY <1>e, <2>1, <2>4, BeginKeeps
<1>4. CASE Again
  BY <1>4, <1>e, BeginKeeps DEF Again
<1>5. ASSUME NEW qs \in Asked, NEW left \in Remaining, Describe(qs, left)
      PROVE  Decoding'
  <2>1. phase = "ready" /\ phase' = "describe" /\ Begin(<<>>, DescribeBudget(Last(questions').place, left))
    BY <1>5 DEF Describe
  <2> QED BY <1>e, <2>1, BeginKeeps
<1>6. ASSUME NEW id \in Pickable, StepReport(id)
      PROVE  Decoding'
  <2>1. phase = "report" /\ Take(id) /\ slots' = slots
    BY <1>6 DEF StepReport
  <2>2. phase' \in {"failed", "stop", "length", "report"}
    BY <1>6, Zenon DEF StepReport
  <2>3. phase' \notin {"boot", "refused"} /\ phase \notin {"boot", "refused"}
    BY <2>1, <2>2
  <2> QED BY <2>1, <2>3, TakeKeeps
<1>7. ASSUME NEW id \in Pickable, StepDescribe(id)
      PROVE  Decoding'
  <2>1. phase = "describe" /\ Take(id) /\ (slots' = slots \/ slots' = Append(slots, Len(tokens')))
    BY <1>7, Zenon DEF StepDescribe
  <2>2. phase' \in {"failed", "ended", "wrote past", "answered", "overran", "describe"}
    BY <1>7, Zenon DEF StepDescribe, EndDescribe
  <2>3. phase' \notin {"boot", "refused"} /\ phase \notin {"boot", "refused"}
    BY <2>1, <2>2
  <2> QED BY <2>1, <2>3, TakeKeeps
<1>8. CASE UNCHANGED vars
  BY <1>8 DEF vars, generation, Decoding, Live, IsPrefix
<1> QED BY <1>1, <1>2, <1>3, <1>4, <1>5, <1>6, <1>7, <1>8 DEF Next

LEMMA AlwaysDecoding == Spec => []Decoding
<1> QED BY DecodingInit, DecodingNext, PTL DEF Spec

-----------------------------------------------------------------------------
(* The text decides the place.                                             *)

\* A generation under way, or one that ended before its document did.
Going == {"ready", "report", "describe", "answered", "overran", "wrote past", "length"}

\* The cursor is where the tokens lead; none of them is the end while the
\* generation goes on, and one that chose the end was at the end.
Following ==
  /\ phase = "boot" => tokens = <<>>
  /\ phase \in Going => tokens \in Seq(Texts) /\ cursor # None
  /\ program # <<>> => cursor = Advance(program, tokens)
  /\ phase \in {"stop", "ended"} => cursor # None /\ IsDone(program, cursor)

LEMMA TextsAreTokens == \A p \in Seq(Texts) : p \in Seq(Nat)
BY ElementOfSeq, LenProperties, IsASeq DEF Texts

LEMMA BeginFollows ==
  ASSUME Decoding, phase \notin {"boot", "refused"}, phase' \in Going,
         NEW ids \in Seq(Texts), NEW n, Begin(ids, n), Advance(program, ids) # None
  PROVE  Following'
<1>1. tokens' = ids /\ cursor' = Advance(program, ids) /\ program' = program
  BY DEF Begin
<1>2. tokens' \in Seq(Texts) /\ cursor' # None /\ cursor' = Advance(program', tokens')
  BY <1>1
<1>3. phase' \notin {"boot", "stop", "ended"}
  BY DEF Going
<1> QED BY <1>2, <1>3 DEF Following

LEMMA StartIsSome == Start # None
<1>1. 1 \in Nat /\ <<>> \in Seq(Byte)
  BY EmptySeq
<1>2. Cursor(1, <<>>) \in Cursors
  BY <1>1, CursorTyped
<1> QED BY <1>2, ConstrainAssumption DEF Start

LEMMA BeginAfresh ==
  ASSUME Decoding, phase \notin {"boot", "refused"}, phase' \in Going, NEW n, Begin(<<>>, n)
  PROVE  Following'
<1>1. program \in Programs /\ <<>> \in Seq(Texts) /\ <<>> \in Seq(Nat)
  BY Compiled, EmptySeq
<1>2. Advance(program, <<>>) = Start
  BY <1>1, AdvancePlaces
<1> QED BY <1>1, <1>2, StartIsSome, BeginFollows

\* A token taken leads where the tokens so far and it lead.
LEMMA TakeFollows ==
  ASSUME Decoding, Following, phase \in Going, NEW id \in Pickable, Take(id)
  PROVE  /\ cursor' = Advance(program, tokens') /\ program' = program
         /\ id # Eos => tokens' \in Seq(Texts)
         /\ id = Eos /\ cursor' # None => IsDone(program, cursor')
         /\ cursor' = Accept(program, cursor, id)
<1>1. program \in Programs /\ program # <<>>
  BY Compiled DEF Going
<1>2. id \in Nat
  BY ConstrainAssumption DEF Pickable, Permitted
<1>3. tokens' = Append(tokens, id) /\ cursor' = Accept(program, cursor, id) /\ program' = program
  BY DEF Take
<1>4. tokens \in Seq(Texts) /\ tokens \in Seq(Nat) /\ cursor # None /\ cursor = Advance(program, tokens)
  BY <1>1 DEF Following, Decoding
<1>5. Advance(program, Append(tokens, id)) = Then(program, cursor, id)
  BY <1>1, <1>2, <1>4, AdvanceAppend
<1>6. cursor' = Advance(program, tokens')
  BY <1>3, <1>4, <1>5 DEF Then
<1>7. id # Eos => tokens' \in Seq(Texts)
  BY <1>2, <1>3, <1>4, AppendProperties DEF Texts
<1>8. id = Eos /\ cursor' # None => IsDone(program, cursor')
  BY <1>3 DEF Accept
<1> QED BY <1>3, <1>6, <1>7, <1>8

LEMMA FollowingInit == Init => Following
BY DEF Init, Following, Going

LEMMA FollowingNext == Decoding /\ Following /\ [Next]_vars => Following'
<1> SUFFICES ASSUME Decoding, Following, [Next]_vars
             PROVE  Following'
  OBVIOUS
<1>1. CASE Load
  <2>1. /\ phase = "boot" /\ tokens' = tokens /\ cursor' = cursor /\ tokens = <<>>
    BY <1>1 DEF Load, generation, Following
  <2>2. /\ program = <<>> /\ cursor = Start /\ schema \in Schemas
    BY <2>1 DEF Decoding
  <2>3. CASE LoadRefuses(schema)
    <3>1. phase' = "refused" /\ program' = program
      BY <1>1, <2>3 DEF Load
    <3> QED BY <2>1, <2>2, <3>1 DEF Following, Going
  <2>4. CASE ~LoadRefuses(schema)
    <3>1. phase' = "ready" /\ program' = Compile(schema)
      BY <1>1, <2>4 DEF Load
    <3>2. ~CompileRefuses(schema)
      BY <2>4 DEF LoadRefuses, GrammarRefuses
    <3>3. Compile(schema) \in Programs /\ <<>> \in Seq(Nat) /\ <<>> \in Seq(Texts)
      BY <2>2, <3>2, CompileTyped, EmptySeq
    <3>4. Advance(Compile(schema), <<>>) = Start
      BY <3>3, AdvancePlaces
    <3>5. cursor' = Advance(program', tokens') /\ cursor' # None /\ tokens' \in Seq(Texts)
      BY <2>1, <2>2, <3>1, <3>3, <3>4, StartIsSome
    <3> QED BY <3>1, <3>5 DEF Following
  <2> QED BY <2>3, <2>4
<1>2. CASE Generate
  BY <1>2, BeginAfresh DEF Generate, Going
<1>3. CASE Resume
  <2> DEFINE k == slots[Len(slots)]
             ids == SubSeq(tokens, 1, k)
  <2>1. /\ phase = "answered" /\ phase' = "report" /\ slots # <<>>
        /\ \/ Begin(ids, MaxTokens - Len(ids))
           \/ Begin(<<>>, MaxTokens)
    BY <1>3, Zenon DEF Resume
  <2>2. /\ tokens \in Seq(Texts) /\ tokens \in Seq(Nat) /\ cursor # None
        /\ slots \in Seq(1..Len(tokens))
        /\ program \in Programs /\ cursor = Advance(program, tokens)
    BY <2>1, Compiled DEF Decoding, Following, Going
  <2>3. k \in 0..Len(tokens)
    <3>1. Len(slots) \in 1..Len(slots) /\ Len(tokens) \in Nat
      BY <2>1, <2>2, EmptySeq, LenProperties
    <3>2. k \in 1..Len(tokens)
      BY <2>2, <3>1, ElementOfSeq
    <3> QED BY <3>1, <3>2
  <2> HIDE DEF k
  <2>4. ids \in Seq(Texts)
    BY <2>2, <2>3, PrefixOfPath
  <2>5. Advance(program, ids) # None
    BY <2>2, <2>3, AdvancePrefix
  <2> HIDE DEF ids
  <2>6. phase \notin {"boot", "refused"} /\ phase' \in Going
    BY <2>1 DEF Going
  <2>7. CASE Begin(ids, MaxTokens - Len(ids))
    BY <2>4, <2>5, <2>6, <2>7, BeginFollows
  <2>8. CASE Begin(<<>>, MaxTokens)
    BY <2>6, <2>8, BeginAfresh
  <2> QED BY <2>1, <2>7, <2>8
<1>4. CASE Again
  BY <1>4, BeginAfresh DEF Again, Going
<1>5. ASSUME NEW qs \in Asked, NEW left \in Remaining, Describe(qs, left)
      PROVE  Following'
  <2>1. phase = "ready" /\ phase' = "describe" /\ Begin(<<>>, DescribeBudget(Last(questions').place, left))
    BY <1>5 DEF Describe
  <2> QED BY <2>1, BeginAfresh DEF Going
<1>6. ASSUME NEW id \in Pickable, StepReport(id)
      PROVE  Following'
  <2>1. phase = "report" /\ Take(id) /\ phase \in Going
    BY <1>6 DEF StepReport, Going
  <2>2. /\ phase' \in {"failed", "stop", "length", "report"}
        /\ cursor' = None => phase' = "failed"
        /\ id = Eos => phase' \in {"failed", "stop"}
        /\ id # Eos => phase' # "stop"
        /\ phase' \in {"stop", "length", "report"} => cursor' # None
    BY <1>6 DEF StepReport
  <2>3. /\ cursor' = Advance(program', tokens') /\ program' = program
        /\ id # Eos => tokens' \in Seq(Texts)
        /\ id = Eos /\ cursor' # None => IsDone(program', cursor')
    BY <2>1, TakeFollows
  <2>4. phase' \in Going => tokens' \in Seq(Texts) /\ cursor' # None
    BY <2>2, <2>3 DEF Going
  <2>5. phase' \in {"stop", "ended"} => cursor' # None /\ IsDone(program', cursor')
    BY <2>2, <2>3
  <2>6. phase' # "boot"
    BY <2>2
  <2> QED BY <2>3, <2>4, <2>5, <2>6 DEF Following, IsDone
<1>7. ASSUME NEW id \in Pickable, StepDescribe(id)
      PROVE  Following'
  <2>1. phase = "describe" /\ Take(id) /\ phase \in Going
    BY <1>7 DEF StepDescribe, Going
  <2>2. /\ phase' \in {"failed", "ended", "wrote past", "answered", "overran", "describe"}
        /\ cursor' = None => phase' = "failed"
        /\ id = Eos => phase' \in {"failed", "ended"}
        /\ phase' = "ended" => id = Eos /\ cursor' # None
        /\ phase' \in {"wrote past", "answered", "overran", "describe"} => cursor' # None
    <3>1. \E past \in BOOLEAN :
            phase' = IF cursor' = None THEN "failed" ELSE IF id = Eos THEN "ended"
                     ELSE IF past THEN "wrote past" ELSE EndDescribe(Len(slots'))
      <4> DEFINE text == Written(tokens')
                 past == ~(id # Eos /\ IsSuffix(Slot, text)) /\ WrotePast(Len(Doc), text)
      <4>1. phase' = IF cursor' = None THEN "failed" ELSE IF id = Eos THEN "ended"
                     ELSE IF past THEN "wrote past" ELSE EndDescribe(Len(slots'))
        BY <1>7, Zenon DEF StepDescribe
      <4>2. past \in BOOLEAN
        OBVIOUS
      <4> HIDE DEF past
      <4> QED BY <4>1, <4>2
    <3>2. EndDescribe(Len(slots')) \in {"answered", "overran", "describe"}
      BY DEF EndDescribe
    <3>3. CASE cursor' = None
      BY <3>1, <3>3
    <3>4. CASE cursor' # None /\ id = Eos
      BY <3>1, <3>4
    <3>5. CASE cursor' # None /\ id # Eos
      BY <3>1, <3>2, <3>5
    <3> QED BY <3>3, <3>4, <3>5
  <2>3. /\ cursor' = Advance(program', tokens') /\ program' = program
        /\ id # Eos => tokens' \in Seq(Texts)
        /\ id = Eos /\ cursor' # None => IsDone(program', cursor')
    BY <2>1, TakeFollows
  <2>4. phase' \in Going => tokens' \in Seq(Texts) /\ cursor' # None
    BY <2>2, <2>3 DEF Going
  <2>5. phase' \in {"stop", "ended"} => cursor' # None /\ IsDone(program', cursor')
    BY <2>2, <2>3
  <2>6. phase' # "boot"
    BY <2>2
  <2> QED BY <2>3, <2>4, <2>5, <2>6 DEF Following, IsDone
<1>8. CASE UNCHANGED vars
  <2>1. phase' = phase /\ tokens' = tokens /\ cursor' = cursor /\ program' = program
    BY <1>8 DEF vars, generation
  <2>2. program' # <<>> => cursor' = Advance(program', tokens')
    BY <2>1 DEF Following
  <2> QED BY <2>1, <2>2 DEF Following, IsDone
<1> QED BY <1>1, <1>2, <1>3, <1>4, <1>5, <1>6, <1>7, <1>8 DEF Next

LEMMA AlwaysFollowing == Spec => [](Decoding /\ Following)
<1>1. Init => Decoding /\ Following
  BY DecodingInit, FollowingInit
<1>2. Decoding /\ Following /\ [Next]_vars => Decoding' /\ Following'
  BY DecodingNext, FollowingNext
<1> QED BY <1>1, <1>2, PTL DEF Spec

\* What the grammar admits next depends on the text alone: while a generation
\* goes on the cursor is where its text leads from the start, however the text
\* is split into tokens and whether it was generated or resumed from a
\* description; and a report that stops has written a whole document
\* (Masker::accept, Program::walk, resume of a described slot).
TextDecidesThePlace ==
  /\ phase \in Going /\ program # <<>> => cursor # None /\ cursor = Walk(program, Start, Doc)
  /\ phase = "stop" => cursor # None /\ IsDone(program, cursor)

THEOREM TextAlwaysDecidesThePlace == Spec => []TextDecidesThePlace
<1>1. Decoding /\ Following => TextDecidesThePlace
  <2> SUFFICES ASSUME Decoding, Following, phase \in Going, program # <<>>
               PROVE  cursor # None /\ cursor = Walk(program, Start, Doc)
    BY DEF TextDecidesThePlace, Following
  <2>1. program \in Programs
    BY Compiled
  <2>2. tokens \in Seq(Texts) /\ cursor # None /\ cursor = Advance(program, tokens)
    BY DEF Following
  <2>3. Advance(program, tokens) = Walk(program, Start, Written(tokens))
    BY <2>1, <2>2, AdvanceText
  <2> QED BY <2>2, <2>3 DEF Doc
<1> QED BY <1>1, AlwaysFollowing, PTL

\* The mask and the automaton agree: a token sampled under the mask is never
\* refused, so no generation ends in one of accept's errors.  EndIsUnwritten is
\* what the code says of the tokenizer: its base vocabulary does not list
\* the end of text (Vocabulary::from_tokenizer), which would else be a text a
\* free string admits and accept refuses.
NeverRefused == phase # "failed"

THEOREM MaskNeverRefused ==
  ASSUME EndIsUnwritten
  PROVE  Spec => []NeverRefused
<1>1. Init => NeverRefused
  BY DEF Init, NeverRefused
<1>2. Decoding /\ Following /\ NeverRefused /\ [Next]_vars => NeverRefused'
  <2> SUFFICES ASSUME Decoding, Following, phase # "failed", [Next]_vars
               PROVE  phase' # "failed"
    BY DEF NeverRefused
  <2>1. ASSUME NEW id \in Pickable, Take(id), phase \in Going
        PROVE  cursor' # None
    <3>1. /\ program \in Programs /\ cursor \in Places(program) /\ cursor # None
      BY <2>1, Compiled DEF Going, Following
    <3>2. Live(program, cursor)
      BY <3>1, PlacesAre
    <3>3. id \in Allowed(program, cursor)
      BY <2>1, PlanPermits DEF Pickable
    <3>4. Accept(program, cursor, id) # None
      BY <3>1, <3>2, <3>3, AllowedAccepts
    <3> QED BY <2>1, <3>4 DEF Take
  <2>2. ASSUME NEW id \in Pickable, StepReport(id)
        PROVE  phase' # "failed"
    <3>1. Take(id) /\ phase \in Going /\ (phase' = "failed" => cursor' = None)
      BY <2>2, Zenon DEF StepReport, Going
    <3> QED BY <2>1, <3>1
  <2>3. ASSUME NEW id \in Pickable, StepDescribe(id)
        PROVE  phase' # "failed"
    <3>1. Take(id) /\ phase \in Going /\ (phase' = "failed" => cursor' = None)
      BY <2>3, Zenon DEF StepDescribe, EndDescribe, Going
    <3> QED BY <2>1, <3>1
  <2>4. CASE Load
    BY <2>4 DEF Load
  <2>5. CASE Generate \/ Resume \/ Again
    BY <2>5, Zenon DEF Generate, Resume, Again
  <2>6. ASSUME NEW qs \in Asked, NEW left \in Remaining, Describe(qs, left)
        PROVE  phase' # "failed"
    BY <2>6 DEF Describe
  <2>7. CASE UNCHANGED vars
    BY <2>7 DEF vars
  <2> QED BY <2>2, <2>3, <2>4, <2>5, <2>6, <2>7 DEF Next
<1> QED BY <1>1, <1>2, AlwaysFollowing, PTL DEF Spec

\* A generation never reaches a place where the mask leaves no token: the
\* start of plan()'s error is unreachable once Grammar::compile has accepted
\* the schema, for every schema, every vocabulary and every choice of tokens.
THEOREM NeverStuckAlways == Spec => []NeverStuck
<1>1. Decoding => NeverStuck
  <2> SUFFICES ASSUME Decoding, program # <<>>, cursor # None
               PROVE  Allowed(program, cursor) # {}
    BY DEF NeverStuck, Loaded
  <2>1. program \in Programs /\ UncoveredBytes = {} /\ cursor \in Places(program)
    BY Compiled
  <2>2. Live(program, cursor)
    BY <2>1, PlacesAre
  <2> QED BY <2>1, <2>2, LiveAllows
<1> QED BY <1>1, AlwaysDecoding, PTL

\* The mask read back from its smaller side is the tokens the grammar admits,
\* and a step's record is of the mask its token was picked under.
THEOREM MaskAlwaysTheGrammar == Spec => []MaskIsTheGrammar
<1>1. Decoding => MaskIsTheGrammar
  BY PlanPermits DEF Decoding, MaskIsTheGrammar
<1> QED BY <1>1, AlwaysDecoding, PTL
=============================================================================
