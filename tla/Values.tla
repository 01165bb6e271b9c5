------------------------------- MODULE Values --------------------------------
(***************************************************************************)
(* The values a tool schema and a tool call's arguments are made of, and    *)
(* the two ways a turn spells them: transformers' tojson and Python's repr  *)
(* (src/lfm2d/src/chat.rs).  A text is a sequence of one-character strings. *)
(***************************************************************************)
EXTENDS Integers, Sequences, SequencesExt

DQ == "\""
SQ == "'"
BS == "\\"
NL == "\n"
Symbol == "emoji"    \* neither ASCII nor a letter or a digit
Control == "control" \* a C0 control without a short escape

\* A node: its kind, the text of a leaf, the items of a list or of a map, and
\* a map's keys beside them.
Leaf(kind, text) == [kind |-> kind, text |-> text, keys |-> <<>>, items |-> <<>>]
Str(text) == Leaf("str", text)
List(items) == [Leaf("list", <<>>) EXCEPT !.items = items]
Map(keys, items) == [List(items) EXCEPT !.kind = "map", !.keys = keys]

\* What the visitor refuses: a key given twice, at any depth.
RECURSIVE Deserializes(_)
Deserializes(v) ==
  /\ IsInjective(v.keys)
  /\ \A i \in DOMAIN v.items : Deserializes(v.items[i])

Joined(parts) ==
  IF parts = <<>> THEN <<>>
  ELSE parts[1] \o FlattenSeq([i \in 1..(Len(parts) - 1) |-> <<",", " ">> \o parts[i + 1]])

Escaped(c, short) ==
  CASE c \in short -> <<BS, c>>
    [] c = NL -> <<BS, "n">>
    [] OTHER -> <<c>>
Literal(text, quote, control) ==
  <<quote>> \o
  FlattenSeq([i \in DOMAIN text |-> IF text[i] = Control THEN control
                                    ELSE Escaped(text[i], {quote, BS})])
  \o <<quote>>

\* json.dumps(ensure_ascii=False): short escapes, \u for the other controls.
JsonString(text) == Literal(text, DQ, <<BS, "u", Control>>)
RECURSIVE ToJson(_)
ToJson(v) ==
  LET item(i) == ToJson(v.items[i])
      entry(i) == JsonString(v.keys[i]) \o <<":", " ">> \o item(i)
  IN CASE v.kind = "str" -> JsonString(v.text)
       [] v.kind = "list" -> <<"[">> \o Joined([i \in DOMAIN v.items |-> item(i)]) \o <<"]">>
       [] v.kind = "map" -> <<"{">> \o Joined([i \in DOMAIN v.items |-> entry(i)]) \o <<"}">>
       [] OTHER -> v.text

\* Python's repr of a string: single quotes, unless it holds one and no
\* double quote; a symbol's escape depends on the Python, so it is refused.
PyQuote(text) ==
  IF SQ \in Range(text) /\ DQ \notin Range(text) THEN DQ ELSE SQ
PyString(text) == Literal(text, PyQuote(text), <<BS, "x", Control>>)
RECURSIVE PyRefused(_)
PyRefused(v) ==
  \/ v.kind = "str" /\ Symbol \in Range(v.text)
  \/ \E i \in DOMAIN v.keys : Symbol \in Range(v.keys[i])
  \/ \E i \in DOMAIN v.items : PyRefused(v.items[i])
RECURSIVE PyRepr(_)
PyRepr(v) ==
  LET item(i) == PyRepr(v.items[i])
      entry(i) == PyString(v.keys[i]) \o <<":", " ">> \o item(i)
  IN CASE v.kind = "str" -> PyString(v.text)
       [] v.kind = "list" -> <<"[">> \o Joined([i \in DOMAIN v.items |-> item(i)]) \o <<"]">>
       [] v.kind = "map" -> <<"{">> \o Joined([i \in DOMAIN v.items |-> entry(i)]) \o <<"}">>
       [] OTHER -> v.text

\* One argument: a string raw between single quotes, a map through tojson,
\* the rest through str().
ArgumentRefused(v) == v.kind \notin {"str", "map"} /\ PyRefused(v)
Argument(v) ==
  CASE v.kind = "str" -> <<SQ>> \o v.text \o <<SQ>>
    [] v.kind = "map" -> ToJson(v)
    [] OTHER -> PyRepr(v)

----------------------------------------------------------------------------
(* Floats: the shortest digits (a sequence over 0..9 without trailing      *)
(* zeros, external: Rust's {:e}) and the exponent of the first.            *)

Digit == <<"0", "1", "2", "3", "4", "5", "6", "7", "8", "9">>
Digits(ns) == [i \in DOMAIN ns |-> Digit[ns[i] + 1]]
Zeros(n) == [i \in 1..n |-> "0"]
TwoDigits(n) == Digits(<<n \div 10, n % 10>>)
AbsOf(n) == IF n < 0 THEN -n ELSE n

\* A whole number from 2^64 up, or from -2^63 down: an integer written there
\* would arrive as a float too, so it is refused.
TwoTo64 == [digits |-> <<1, 8, 4, 4, 6, 7, 4, 4, 0, 7, 3, 7, 0, 9, 5, 5, 2>>, exponent |-> 19]
TwoTo63 == [digits |-> <<9, 2, 2, 3, 3, 7, 2, 0, 3, 6, 8, 5, 4, 7, 7, 6>>, exponent |-> 18]
Reaches(f, bound) ==
  LET padded(ds, i) == IF i \in DOMAIN ds THEN ds[i] ELSE 0
      differs == {i \in 1..17 : padded(f.digits, i) # padded(bound.digits, i)}
      first == CHOOSE i \in differs : \A j \in differs : i <= j
  IN \/ f.exponent > bound.exponent
     \/ /\ f.exponent = bound.exponent
        /\ differs = {} \/ padded(f.digits, first) > padded(bound.digits, first)
FloatRefused(f) ==
  /\ Len(f.digits) <= f.exponent + 1
  /\ Reaches(f, IF f.negative THEN TwoTo63 ELSE TwoTo64)

Positional(f) ==
  LET n == Len(f.digits)
      point == f.exponent + 1
  IN IF point <= 0 THEN <<"0", ".">> \o Zeros(-point) \o Digits(f.digits)
     ELSE IF point >= n THEN Digits(f.digits) \o Zeros(point - n) \o <<".", "0">>
     ELSE Digits(SubSeq(f.digits, 1, point)) \o <<".">> \o Digits(SubSeq(f.digits, point + 1, n))
Scientific(f) ==
  LET n == Len(f.digits)
      fraction == IF n > 1 THEN <<".">> \o Digits(SubSeq(f.digits, 2, n)) ELSE <<>>
      sign == IF f.exponent < 0 THEN "-" ELSE "+"
  IN Digits(<<f.digits[1]>>) \o fraction \o <<"e", sign>> \o TwoDigits(AbsOf(f.exponent))
PyFloat(f) ==
  (IF f.negative THEN <<"-">> ELSE <<>>) \o
  (IF f.exponent + 1 \in -3..16 THEN Positional(f) ELSE Scientific(f))

----------------------------------------------------------------------------
(* Python's own reading of what was written (the reference).               *)

\* A string literal, read to its closing quote: the text, or a failure.
Unescape(c) == CASE c = "n" -> NL [] OTHER -> c
ReadStep(s, c) ==
  CASE s.closed -> [s EXCEPT !.ok = FALSE]
    [] s.escape /\ c \in {"x", "u"} -> [s EXCEPT !.escape = FALSE]
    [] s.escape -> [s EXCEPT !.escape = FALSE, !.text = Append(@, Unescape(c))]
    [] c = BS -> [s EXCEPT !.escape = TRUE]
    [] c = s.quote -> [s EXCEPT !.closed = TRUE]
    [] c = NL -> [s EXCEPT !.ok = FALSE]
    [] OTHER -> [s EXCEPT !.text = Append(@, c)]
ReadLiteral(literal) ==
  FoldLeft(ReadStep, [quote |-> literal[1], escape |-> FALSE, closed |-> FALSE,
                      ok |-> TRUE, text |-> <<>>], Tail(literal))
ReadsAs(literal, text) ==
  LET s == ReadLiteral(literal) IN s.ok /\ s.closed /\ s.text = text

\* A float literal has a point or an exponent, or Python reads an int; its
\* significant digits, and the power of ten of the first of them.
DigitsIn(text) ==
  LET ds == SelectSeq(text, LAMBDA c : c \in Range(Digit))
  IN [i \in DOMAIN ds |-> (CHOOSE d \in 0..9 : Digit[d + 1] = ds[i])]
Number(ds) == FoldLeft(LAMBDA n, d : 10 * n + d, 0, ds)
Part(text, chars, after) ==
  LET at == SelectInSeq(text, LAMBDA c : c \in chars)
  IN IF at = 0 THEN IF after THEN <<>> ELSE text
     ELSE IF after THEN SubSeq(text, at + 1, Len(text)) ELSE SubSeq(text, 1, at - 1)
ReadFloat(text) ==
  LET mantissa == Part(text, {"e"}, FALSE)
      power == Part(text, {"e"}, TRUE)
      ds == DigitsIn(mantissa)
      first == SelectInSeq(ds, LAMBDA d : d # 0)
      last == SelectLastInSeq(ds, LAMBDA d : d # 0)
      scale == IF "-" \in Range(power) THEN -Number(DigitsIn(power)) ELSE Number(DigitsIn(power))
  IN [isFloat |-> {".", "e"} \cap Range(text) # {},
      negative |-> text[1] = "-",
      digits |-> IF first = 0 THEN <<0>> ELSE SubSeq(ds, first, last),
      exponent |-> IF first = 0 THEN 0
                   ELSE Len(DigitsIn(Part(mantissa, {"."}, FALSE))) - first + scale]
ReadsAsFloat(text, f) ==
  ReadFloat(text) = [isFloat |-> TRUE, negative |-> f.negative,
                     digits |-> f.digits, exponent |-> f.exponent]
=============================================================================
