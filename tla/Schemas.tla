------------------------------- MODULE Schemas -------------------------------
(***************************************************************************)
(* Output schemas: what a prompt spec may declare, what the menu makes of   *)
(* it, which questions may be asked, and when a report satisfies it.  Text  *)
(* is a sequence of bytes, since escaping decides where a slot is.          *)
(***************************************************************************)
EXTENDS Naturals, Sequences, SequencesExt, FiniteSets

CONSTANT None

Byte == 0..255
Quote == 34
Backslash == 92
Text(bytes) == [kind |-> "string", text |-> bytes]
Truth(spelling) == [kind |-> "boolean", text |-> spelling]
True == <<116, 114, 117, 101>>
False == <<102, 97, 108, 115, 101>>
Value == [kind : {"string"}, text : Seq(Byte)] \cup [kind : {"boolean"}, text : {True, False}]

\* serde_json's string escapes: short ones where JSON has them, \u00XX for
\* the other controls, everything else as it is.
HexDigit(n) == IF n < 10 THEN 48 + n ELSE 87 + n
ShortEscape == [c \in {8, 9, 10, 12, 13, Quote, Backslash} |->
                 CASE c = 8 -> 98 [] c = 9 -> 116 [] c = 10 -> 110
                   [] c = 12 -> 102 [] c = 13 -> 114 [] OTHER -> c]
EscapedByte(b) ==
  IF b \in DOMAIN ShortEscape THEN <<Backslash, ShortEscape[b]>>
  ELSE IF b < 32 THEN <<Backslash, 117, 48, 48, HexDigit(b \div 16), HexDigit(b % 16)>>
  ELSE <<b>>
Encoded(bytes) ==
  <<Quote>> \o FlattenSeq([i \in DOMAIN bytes |-> EscapedByte(bytes[i])]) \o <<Quote>>
Spelling(value) == IF value.kind = "string" THEN Encoded(value.text) ELSE value.text

\* The chars of a text (char::is_whitespace) and whether trim leaves anything.
IsWhitespace(c) ==
  c \in (9..13) \cup {32, 133, 160, 5760} \cup (8192..8202) \cup {8232, 8233, 8239, 8287, 12288}
Starts(s) == {i \in DOMAIN s : s[i] \notin 128..191}
CharAt(s, i) ==
  LET bits(k) == IF (i + k) \in DOMAIN s THEN s[i + k] % 64 ELSE 0
  IN CASE s[i] < 128 -> s[i]
       [] s[i] \in 192..223 -> ((s[i] % 32) * 64) + bits(1)
       [] s[i] \in 224..239 -> (((s[i] % 16) * 64 + bits(1)) * 64) + bits(2)
       [] OTHER -> (((s[i] % 8) * 64 + bits(1)) * 64 + bits(2)) * 64 + bits(3)
IsBlank(s) == \A i \in Starts(s) : IsWhitespace(CharAt(s, i))
-----------------------------------------------------------------------------
(* The schema.                                                             *)

SchemaKeys ==
  <<"type", "additionalProperties", "title", "description", "required", "properties">>

Names(schema) == Range(schema.required)
ValidProperty(p) ==
  /\ ~p.constrained
  /\ p.type \in {"string", "boolean"}
  /\ p.enum # None =>
       p.enum # <<>> /\ \A i \in DOMAIN p.enum : p.enum[i].kind = p.type

\* validate_schema: a closed object whose properties are each required once.
ValidSchema(schema) ==
  /\ schema.keywords \subseteq Range(SchemaKeys)
  /\ schema.closed
  /\ DOMAIN schema.properties # {}
  /\ Cardinality(Names(schema)) = Len(schema.required)
  /\ Names(schema) = DOMAIN schema.properties
  /\ \A n \in DOMAIN schema.properties : ValidProperty(schema.properties[n])

\* What the system prompt states, and in which order: the grammar's.
StatedKeys(schema) == SelectSeq(SchemaKeys, LAMBDA k : k \in schema.keywords)
StatedFields(schema) == schema.required

\* validate_report, of a parsed object (a function) and its finish reason.
ValidReport(report, schema, finish) ==
  /\ finish = "stop"
  /\ DOMAIN report = DOMAIN schema.properties
  /\ \A n \in DOMAIN report :
       LET p == schema.properties[n] IN
       /\ report[n].kind = p.type
       /\ p.type = "string" => ~IsBlank(report[n].text)
       /\ p.enum # None => report[n] \in Range(p.enum)
-----------------------------------------------------------------------------
(* The menu and its questions.                                             *)

FieldKind(p) ==
  IF p.type = "boolean" THEN "boolean" ELSE IF p.enum # None THEN "choice" ELSE "text"

MenuRefuses_Nothing(schema) == FALSE

\* A quote or backslash in a key: an earlier key could end like a later slot.
MenuRefuses(schema) ==
  \E n \in Names(schema) : \E i \in DOMAIN n : n[i] \in {Quote, Backslash}

Menu(schema) ==
  [i \in DOMAIN schema.required |->
     LET p == schema.properties[schema.required[i]] IN
     [field |-> schema.required[i], kind |-> FieldKind(p),
      options |-> IF FieldKind(p) = "choice" THEN p.enum ELSE <<>>]]

\* resolve: a choice field, its options (narrowed, in the spec's order), and
\* what the grammar writes after one.
Place(menu, field) == CHOOSE i \in DOMAIN menu : menu[i].field = field
Narrowed(options, subset) ==
  IF subset = None THEN options
  ELSE SelectSeq(options, LAMBDA o : o \in Range(subset))
Resolvable(menu, q) ==
  \E i \in DOMAIN menu :
    /\ menu[i].field = q.field /\ menu[i].kind = "choice"
    /\ q.options # None =>
         Range(q.options) \subseteq Range(menu[i].options) /\ IsInjective(q.options)
    /\ Len(Narrowed(menu[i].options, q.options)) >= 2
Resolved(menu, q) ==
  LET i == Place(menu, q.field) IN
  [field |-> q.field, place |-> i,
   describe |-> [k \in 1..(i - 1) |-> menu[k].field],
   options |-> Narrowed(menu[i].options, q.options),
   close |-> IF i = Len(menu) THEN <<Quote, 125>> ELSE <<Quote, 44>>]

ResolvableAll(menu, qs) ==
  /\ qs # <<>>
  /\ \A i, j \in DOMAIN qs : qs[i].field = qs[j].field => i = j
  /\ \A i \in DOMAIN qs : Resolvable(menu, qs[i])

\* resolve_all: in emission order, whatever order they were asked in.
ResolveAll(menu, qs) ==
  SortSeq([i \in DOMAIN qs |-> Resolved(menu, qs[i])],
          LAMBDA p, q : Len(p.describe) < Len(q.describe))

\* slot_text: what the text ends with at a question's slot.
SlotText(q) == Encoded(q.field) \o <<58, 32, Quote>>

\* parse_described: the fields before the slot, or None when the text is not
\* complete fields, a separator and the slot.  object is what serde_json reads
\* from DescribedObject, or None.
DescribedBody(text, slot) == SubSeq(text, 1, Len(text) - Len(slot))
DescribedObject(text, slot) ==
  LET body == DescribedBody(text, slot) IN SubSeq(body, 1, Len(body) - 2) \o <<125>>
ParseDescribed(text, slot, fields, object) ==
  CASE ~IsSuffix(slot, text) -> None
    [] fields = <<>> -> IF DescribedBody(text, slot) = <<123>> THEN <<>> ELSE None
    [] ~IsSuffix(<<44, 32>>, DescribedBody(text, slot)) -> None
    [] object = None -> None
    [] DOMAIN object # Range(fields) -> None
    [] OTHER -> [i \in DOMAIN fields |-> object[fields[i]]]
=============================================================================
