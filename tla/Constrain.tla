------------------------------ MODULE Constrain ------------------------------
(***************************************************************************)
(* The output grammar (constrain.rs): a schema compiled to a byte automaton *)
(* for exactly one JSON document, and the token masks it gives over a       *)
(* vocabulary.  A node is named by its segment and the bytes of it written. *)
(***************************************************************************)
EXTENDS Schemas

CONSTANTS
  Rows,          \* the tokenizer's base vocabulary: token id -> its chars
  Width,         \* rows of the model's output, ids 0..Width-1
  Eos

\* A place in the document: how much of its segment is written, and inside a
\* free string the character or the escape in flight.
Cursors ==
  [segment : Nat, written : Seq(Byte),
   nonws : BOOLEAN, cont : 0..3, width : 0..4, escape : BOOLEAN, scalar : Nat]

ASSUME ConstrainAssumption ==
  /\ Width \in Nat \ {0} /\ Eos \in 0..(Width - 1)
  /\ DOMAIN Rows \subseteq Nat /\ \A id \in DOMAIN Rows : Rows[id] \in Seq(Nat)
  /\ None \notin Cursors
-----------------------------------------------------------------------------
(* The vocabulary.                                                         *)

\* The byte-level alphabet: a byte that prints stands for itself, the others
\* are numbered from 256 on.  Inverted: the byte a char stands for, or None.
Printable == (33..126) \cup (161..172) \cup (174..255)
CharOf ==
  [b \in Byte |-> IF b \in Printable THEN b
                  ELSE 256 + Cardinality({d \in 0..(b - 1) : d \notin Printable})]
CharToByte(c) ==
  IF \E b \in Byte : CharOf[b] = c THEN CHOOSE b \in Byte : CharOf[b] = c ELSE None

\* from_tokenizer: added tokens and padding rows have no expansion, nor has
\* a token with a char outside the alphabet or with no chars.
Usable(chars) == chars # <<>> /\ \A i \in DOMAIN chars : CharToByte(chars[i]) # None
Expansion ==
  [id \in {r \in DOMAIN Rows : r < Width /\ Usable(Rows[r])} |->
     [i \in DOMAIN Rows[id] |-> CharToByte(Rows[id][i])]]
ByFirst == [b \in Byte |-> {id \in DOMAIN Expansion : Expansion[id][1] = b}]
UncoveredBytes == {b \in Byte : \A id \in ByFirst[b] : Len(Expansion[id]) # 1}
-----------------------------------------------------------------------------
(* The program: literals and choices hold the spellings they admit.        *)

FreeString == [free |-> TRUE, spellings |-> <<>>]
Choice(spellings) == [free |-> FALSE, spellings |-> spellings]

Dedup(s) ==
  LET kept[i \in 0..Len(s)] ==
        IF i = 0 THEN <<>>
        ELSE LET before == kept[i - 1]
             IN  IF s[i] \in Range(before) THEN before ELSE Append(before, s[i])
  IN  kept[Len(s)]
ValueSegment(p) ==
  IF p.enum # None THEN Choice(Dedup([i \in DOMAIN p.enum |-> Spelling(p.enum[i])]))
  ELSE IF p.type = "string" THEN FreeString
  ELSE Choice(<<True, False>>)

\* value_segment refuses these: above all a blank enum value, which no valid
\* report may hold.
ValueRefused(p) ==
  \/ p.type \notin {"string", "boolean"}
  \/ /\ p.enum # None
     /\ \/ p.enum = <<>>
        \/ \E i \in DOMAIN p.enum :
             p.enum[i].kind # p.type
               \/ (p.type = "string" /\ IsBlank(p.enum[i].text))

CompileRefuses(schema) ==
  \/ schema.required = <<>>
  \/ Cardinality(DOMAIN schema.properties) # Len(schema.required)
  \/ ~IsInjective(schema.required)
  \/ ~(Names(schema) \subseteq DOMAIN schema.properties)
  \/ \E n \in Names(schema) : ValueRefused(schema.properties[n])

\* compile: per field the key, spaced as the model writes it, then the value.
Compile(schema) ==
  LET key(i) == (IF i = 1 THEN <<123>> ELSE <<44, 32>>)
                  \o Encoded(schema.required[i]) \o <<58, 32>>
      field(i) == <<Choice(<<key(i)>>), ValueSegment(schema.properties[schema.required[i]])>>
  IN FlattenSeq([i \in DOMAIN schema.required |-> field(i)]) \o <<Choice(<<<<125>>>>)>>

Cursor(segment, written) ==
  [segment |-> segment, written |-> written,
   nonws |-> FALSE, cont |-> 0, width |-> 0, escape |-> FALSE, scalar |-> 0]
Start == Cursor(1, <<>>)
IsDone(program, c) == c.segment > Len(program)
InBody(program, c) == program[c.segment].free /\ c.written = <<Quote>>
-----------------------------------------------------------------------------
(* Bytes.                                                                  *)

\* Can the bits so far still become a scalar that is in range, not a
\* surrogate and not an overlong form?
Reachable_NoFloor(scalar, cont, width) ==
  LET low == scalar * 64 ^ cont
      high == low + 64 ^ cont - 1
      last == IF high < 1114111 THEN high ELSE 1114111
  IN low <= last /\ ~(low >= 55296 /\ last <= 57343)
Reachable_Surrogates(scalar, cont, width) ==
  LET low == scalar * 64 ^ cont
      high == low + 64 ^ cont - 1
      floor == CASE width = 2 -> 128 [] width = 3 -> 2048 [] OTHER -> 65536
      first == IF low > floor THEN low ELSE floor
      last == IF high < 1114111 THEN high ELSE 1114111
  IN first <= last /\ (cont = 0 => ~(first >= 55296 /\ last <= 57343))
Reachable(scalar, cont, width) ==
  LET low == scalar * 64 ^ cont
      high == low + 64 ^ cont - 1
      floor == CASE width = 2 -> 128 [] width = 3 -> 2048 [] OTHER -> 65536
      first == IF low > floor THEN low ELSE floor
      last == IF high < 1114111 THEN high ELSE 1114111
  IN first <= last /\ ~(first >= 55296 /\ last <= 57343)

Continue(c, b) ==
  LET scalar == c.scalar * 64 + (b % 64)
      cont == c.cont - 1
  IN IF b \notin 128..191 \/ ~Reachable(scalar, cont, c.width) THEN None
     ELSE IF cont > 0 THEN [c EXCEPT !.scalar = scalar, !.cont = cont]
     ELSE [c EXCEPT !.scalar = 0, !.cont = 0, !.width = 0,
                    !.nonws = @ \/ ~IsWhitespace(scalar)]

Lead(c, b) ==
  LET cont == CASE b \in 194..223 -> 1 [] b \in 224..239 -> 2 [] OTHER -> 3
      scalar == b % (CASE cont = 1 -> 32 [] cont = 2 -> 16 [] OTHER -> 8)
  IN IF Reachable(scalar, cont, cont + 1)
     THEN [c EXCEPT !.scalar = scalar, !.cont = cont, !.width = cont + 1]
     ELSE None

\* The byte after a backslash; \u is not admitted.
Escaped_Visible(c, b) ==
  CASE b \notin {Quote, Backslash, 47, 98, 102, 110, 114, 116} -> None
    [] OTHER -> [c EXCEPT !.escape = FALSE, !.nonws = TRUE]
Escaped(c, b) ==
  CASE b \notin {Quote, Backslash, 47, 98, 102, 110, 114, 116} -> None
    [] OTHER -> [c EXCEPT !.escape = FALSE, !.nonws = @ \/ b \notin {102, 110, 114, 116}]

\* A byte outside a character and an escape.
Fresh(c, b) ==
  CASE b = Quote -> IF c.nonws THEN Cursor(c.segment + 1, <<>>) ELSE None
    [] b = Backslash -> [c EXCEPT !.escape = TRUE]
    [] b \in (32..127) \ {Quote, Backslash} -> [c EXCEPT !.nonws = @ \/ ~IsWhitespace(b)]
    [] b \in 194..244 -> Lead(c, b)
    [] OTHER -> None
StepBody(c, b) ==
  IF c.cont > 0 THEN Continue(c, b) ELSE IF c.escape THEN Escaped(c, b) ELSE Fresh(c, b)

\* An arm of a literal or of a choice's trie: the first spelling that goes on
\* with this byte.
StepBytes(program, c, b) ==
  LET next == Append(c.written, b)
      segment == program[c.segment]
      spellings == IF segment.free THEN <<<<Quote>>>> ELSE segment.spellings
      on == SelectInSeq(spellings, LAMBDA s : IsPrefix(next, s))
  IN IF on = 0 THEN None
     ELSE IF Len(spellings[on]) = Len(next) /\ ~segment.free THEN Cursor(c.segment + 1, <<>>)
     ELSE Cursor(c.segment, next)

Step(program, c, b) ==
  IF IsDone(program, c) THEN None
  ELSE IF InBody(program, c) THEN StepBody(c, b)
  ELSE StepBytes(program, c, b)

Walk(program, c, bytes) ==
  LET at[i \in 0..Len(bytes)] ==
        IF i = 0 THEN c
        ELSE LET before == at[i - 1]
             IN  IF before = None THEN None ELSE Step(program, before, bytes[i])
  IN  at[Len(bytes)]
-----------------------------------------------------------------------------
(* Tokens.                                                                 *)

Allowed(program, c) ==
  IF IsDone(program, c) THEN {Eos}
  ELSE UNION {LET after == Step(program, c, b) IN
              IF after = None THEN {}
              ELSE {id \in ByFirst[b] : Walk(program, after, Tail(Expansion[id])) # None}
              : b \in Byte}

\* plan: the mask, stored as the smaller side; permitted reads it back.
Plan_EitherSide(program, c) ==
  LET allowed == Allowed(program, c) IN
  IF Cardinality(allowed) * 2 > Width
  THEN [legal |-> FALSE, exceptions |-> allowed]
  ELSE [legal |-> TRUE, exceptions |-> allowed]
Plan(program, c) ==
  LET allowed == Allowed(program, c) IN
  IF Cardinality(allowed) * 2 > Width
  THEN [legal |-> FALSE, exceptions |-> (0..(Width - 1)) \ allowed]
  ELSE [legal |-> TRUE, exceptions |-> allowed]
Permitted(plan) ==
  {id \in 0..(Width - 1) : (id \in plan.exceptions) = plan.legal}

\* accept: the cursor after a token, or None where it raises an error.
Accept(program, c, id) ==
  IF id = Eos THEN IF IsDone(program, c) THEN c ELSE None
  ELSE IF id \in DOMAIN Expansion THEN Walk(program, c, Expansion[id]) ELSE None
Advance(program, ids) ==
  LET at[i \in 0..Len(ids)] ==
        IF i = 0 THEN Start
        ELSE LET before == at[i - 1]
             IN  IF before = None THEN None ELSE Accept(program, before, ids[i])
  IN  at[Len(ids)]

\* Grammar::compile: every byte has a token of its own, and a first token
\* exists.
GrammarRefuses(schema) ==
  \/ CompileRefuses(schema)
  \/ UncoveredBytes # {}
  \/ Allowed(Compile(schema), Start) = {}
=============================================================================
