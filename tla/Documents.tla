----------------------------- MODULE Documents -------------------------------
(***************************************************************************)
(* What the grammar is for, stated without the automaton: which byte        *)
(* strings are documents of a schema, and what a JSON parser reads in one.  *)
(***************************************************************************)
EXTENDS Decode

CONSTANT ProbeBytes  \* bound: the bytes tried at every place of a document

\* The Unicode table of well-formed UTF-8, by the bytes allowed in second
\* place; later bytes are any continuation.
Tails == 128..191
SecondOf(b) ==
  CASE b = 224 -> 160..191 [] b = 237 -> 128..159
    [] b = 240 -> 144..191 [] b = 244 -> 128..143
    [] b \in 194..244 -> Tails [] OTHER -> {}
WidthOf(b) == CASE b < 128 -> 1 [] b < 224 -> 2 [] b < 240 -> 3 [] OTHER -> 4

\* One unit of a JSON string: an escape or a character.
Escapes == {Quote, Backslash, 47, 98, 102, 110, 114, 116}
Plain == (32..127) \ {Quote, Backslash}
IsUnit(u) ==
  \/ Len(u) = 1 /\ u[1] \in Plain
  \/ Len(u) = 2 /\ u[1] = Backslash /\ u[2] \in Escapes
  \/ /\ Len(u) \in 2..4 /\ Len(u) = WidthOf(u[1])
     /\ u[2] \in SecondOf(u[1])
     /\ \A i \in 3..Len(u) : u[i] \in Tails
BeginsUnit(u) ==
  \/ u = <<Backslash>>
  \/ /\ u # <<>> /\ Len(u) < WidthOf(u[1])
     /\ Len(u) = 1 => SecondOf(u[1]) # {}
     /\ Len(u) > 1 => u[2] \in SecondOf(u[1])
     /\ \A i \in 3..Len(u) : u[i] \in Tails

\* The White_Space characters a unit may be, by their bytes.
WhiteUnits ==
  {<<32>>, <<Backslash, 102>>, <<Backslash, 110>>, <<Backslash, 114>>,
   <<Backslash, 116>>, <<194, 133>>, <<194, 160>>, <<225, 154, 128>>,
   <<226, 128, 168>>, <<226, 128, 169>>, <<226, 128, 175>>, <<226, 129, 159>>,
   <<227, 128, 128>>} \cup {<<226, 128, k>> : k \in 128..138}

\* Where a body can be cut into whole units, and the units between cuts.
Cuts(body) ==
  FoldLeft(LAMBDA at, j :
             IF \E k \in at : j - k \in 1..4 /\ IsUnit(SubSeq(body, k + 1, j))
             THEN at \cup {j} ELSE at,
           {0}, [j \in DOMAIN body |-> j])
UnitsOf(body, cuts) == {u \in {SubSeq(body, k + 1, j) : k, j \in cuts} : IsUnit(u)}

\* The parts of a document, in order: what is written, or a free string.
DocumentParts(s) ==
  FlattenSeq([i \in DOMAIN s.required |->
    LET p == s.properties[s.required[i]] IN
    <<{(IF i = 1 THEN <<123>> ELSE <<44, 32>>) \o Encoded(s.required[i]) \o <<58, 32>>},
      IF p.enum # None THEN {Spelling(p.enum[k]) : k \in DOMAIN p.enum}
      ELSE IF p.type = "string" THEN {} ELSE {True, False}>>]) \o <<{<<125>>}>>

\* How far the parts of a document match a text: the place reached, Open when
\* the text ends inside a part, Bad when it cannot go on.
Open == -1
Bad == -2
MatchFree(rest, at) ==
  LET body == Tail(rest)
      cuts == Cuts(body)
      closes == {k \in cuts : k < Len(body) /\ body[k + 1] = Quote}
      close == CHOOSE k \in closes : TRUE
      content == SubSeq(body, 1, close)
  IN CASE rest = <<>> -> Open
       [] rest[1] # Quote -> Bad
       [] closes # {} ->
            IF UnitsOf(content, Cuts(content)) \subseteq WhiteUnits THEN Bad ELSE at + close + 2
       [] \E k \in cuts : k = Len(body) \/ BeginsUnit(SubSeq(body, k + 1, Len(body))) -> Open
       [] OTHER -> Bad
MatchPart(part, rest, at) ==
  IF part = {} THEN MatchFree(rest, at)
  ELSE LET whole == {w \in part : IsPrefix(w, rest)} IN
       IF whole # {} THEN at + Len(CHOOSE w \in whole : TRUE)
       ELSE IF \E w \in part : IsPrefix(rest, w) THEN Open ELSE Bad
Match(s, text) ==
  FoldLeft(LAMBDA at, part :
             IF at < 0 THEN at ELSE MatchPart(part, SubSeq(text, at + 1, Len(text)), at),
           0, DocumentParts(s))
Begins(s, text) == LET at == Match(s, text) IN at = Open \/ at = Len(text)
IsDocument(s, text) == Match(s, text) = Len(text)
-----------------------------------------------------------------------------
(* What serde_json reads in a complete object of strings and booleans.      *)

RunBefore(text, i) ==
  Cardinality({j \in 1..(i - 1) : \A k \in j..(i - 1) : text[k] = Backslash})
Quotes(text) ==
  SelectSeq([i \in DOMAIN text |-> i],
            LAMBDA i : text[i] = Quote /\ RunBefore(text, i) % 2 = 0)

Unescape == [e \in Escapes |->
  CASE e = 98 -> 8 [] e = 102 -> 12 [] e = 110 -> 10 [] e = 114 -> 13
    [] e = 116 -> 9 [] OTHER -> e]
Unescaped(s) ==
  FlattenSeq([i \in DOMAIN s |->
    CASE s[i] = Backslash /\ RunBefore(s, i) % 2 = 0 -> <<>>
      [] i > 1 /\ RunBefore(s, i) % 2 = 1 -> <<Unescape[s[i]]>>
      [] OTHER -> <<s[i]>>])

\* The i-th string of the text; it is a key when a colon follows it.
StringAt(text, quotes, i) ==
  Unescaped(SubSeq(text, quotes[2 * i - 1] + 1, quotes[2 * i] - 1))
ParseObject(text) ==
  LET quotes == Quotes(text)
      strings == 1..(Len(quotes) \div 2)
      isKey(i) == quotes[2 * i] < Len(text) /\ text[quotes[2 * i] + 1] = 58
      value(i) ==
        LET at == quotes[2 * i] + 3 IN
        IF text[at] = Quote THEN Text(StringAt(text, quotes, i + 1))
        ELSE Truth(IF text[at] = True[1] THEN True ELSE False)
      keys == {i \in strings : isKey(i)}
      names == {StringAt(text, quotes, i) : i \in keys}
  IN IF \/ text = <<>> \/ text[1] # 123 \/ Last(text) # 125
        \/ Len(quotes) % 2 # 0 \/ Cardinality(names) # Cardinality(keys)
     THEN None
     ELSE [n \in names |-> value(CHOOSE i \in keys : StringAt(text, quotes, i) = n)]
-----------------------------------------------------------------------------
\* From a successful load on: before, during and after each generation.
Loaded == program # <<>> /\ cursor # None

\* The end of text is no text: the base vocabulary does not list it.
EndIsUnwritten == Eos \notin DOMAIN Expansion

\* A byte is admitted exactly when the document so far and it begin a document
\* of the schema, and the end exactly after a whole one: whatever the split
\* into tokens, the escapes and the UTF-8 sequences (Program::step, reachable).
AdmitsExactlyDocuments ==
  Loaded =>
    LET text == Doc IN
    /\ \A b \in ProbeBytes :
         (Step(program, cursor, b) # None) <=> Begins(schema, Append(text, b))
    /\ IsDone(program, cursor) <=> IsDocument(schema, text)

\* A generation never reaches a place where the mask leaves no token: plan()'s
\* refusal is unreachable once Grammar::compile has accepted.
NeverStuck == Loaded => Allowed(program, cursor) # {}

\* The mask, stored as its smaller side, admits what the grammar admits and no
\* row besides: control, padding and unusable rows are never sampled; and a
\* step's record is of the mask its token was picked under, not of the next
\* (Grammar::plan, Masker::permitted, Decoder::step).
MaskIsTheGrammar ==
  /\ Loaded => Permitted(Plan(program, cursor)) = Allowed(program, cursor)
  /\ record # NoRecord => record.token \in record.permitted

\* A report that ends by itself satisfies validate_report, whatever the model
\* picked and wherever it was resumed from: no report_error under a grammar.
FinishedReportsValidate ==
  phase = "stop" =>
    LET report == ParseObject(Doc) IN
    report # None /\ ValidReport(report, schema, phase)

\* A question is read at its own value's opening quote, and the text before it
\* parses to exactly the fields the question describes.  In the grammar's
\* order, whatever order they were asked in, no slot is passed before it is
\* read: a description never runs off the document with a question unread
\* (SpecMenuEntry::resolve_all, describe_then_read).
SlotsAreSlots ==
  /\ \A k \in DOMAIN slots :
      LET q == questions[k]
          ids == SubSeq(tokens, 1, slots[k])
          object == ParseObject(DescribedObject(Written(ids), SlotText(q)))
      IN /\ Advance(program, ids) = Cursor(2 * q.place, <<Quote>>)
         /\ ParseDescribed(Written(ids), SlotText(q), q.describe, object) # None
  /\ phase # "ended"
=============================================================================
