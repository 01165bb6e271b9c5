------------------------------- MODULE Encoder ------------------------------
(***************************************************************************)
(* The encoder heads (src/src): entity spans from per-token labels, routes  *)
(* pooled over the bytes of a prompt, clauses united, late-interaction      *)
(* queries and documents, labels by id.  The trunk and the tokenizer are    *)
(* external: a token is its byte span, a label and a confidence, a text is  *)
(* a sequence of characters, and a wide character has two bytes.            *)
(***************************************************************************)
EXTENDS Integers, Sequences, SequencesExt, FiniteSets

WideChars == {"wide"}
Bytes1(c) == IF c \in WideChars THEN <<<<c, 1>>, <<c, 2>>>> ELSE <<<<c, 1>>>>
BytesOf(text) == FlattenSeq([i \in DOMAIN text |-> Bytes1(text[i])])
ByteLen(text) == Len(BytesOf(text))
IsCharBoundary(text, at) ==
  \/ at = ByteLen(text)
  \/ at \in 0..(ByteLen(text) - 1) /\ BytesOf(text)[at + 1][2] = 1
Invalid == [ok |-> FALSE]

----------------------------------------------------------------------------
(* Token classification                                                    *)

\* A token: its bytes (empty for a special one), label and confidence.
Live(t) == t.end > t.start /\ t.entity # "O"
Starts(t, current) == t.prefix \in {"B", "S"} \/ current = <<>> \/ current[1].entity # t.entity
Fresh(t) == [start |-> t.start, end |-> t.end, entity |-> t.entity, score |-> t.score]
LabelledFirst(s, t) ==
  CASE ~Live(t) -> [spans |-> s.spans \o s.current, current |-> <<>>]
    [] Live(t) /\ Starts(t, s.current) ->
         [spans |-> s.spans \o s.current, current |-> <<Fresh(t)>>]
    [] OTHER -> [s EXCEPT !.current[1].end = t.end]
Labelled(s, t) ==
  CASE ~Live(t) -> [spans |-> s.spans \o s.current, current |-> <<>>]
    [] Live(t) /\ Starts(t, s.current) ->
         [spans |-> s.spans \o s.current, current |-> <<Fresh(t)>>]
    [] OTHER -> [s EXCEPT !.current[1].end = t.end,
                          !.current[1].score = Min({@, t.score})]
Trimmed(span, text) ==
  LET solid == {b \in (span.start + 1)..span.end : BytesOf(text)[b][1] # " "}
  IN IF solid = {} THEN [span EXCEPT !.end = span.start]
     ELSE [span EXCEPT !.start = Min(solid) - 1, !.end = Max(solid)]
Predict(tokens, text) ==
  LET s == FoldLeft(Labelled, [spans |-> <<>>, current |-> <<>>], tokens)
      spans == s.spans \o s.current
  IN SelectSeq([i \in DOMAIN spans |-> Trimmed(spans[i], text)], LAMBDA p : p.end > p.start)
SECRET_ENTITY_TYPES == {"login"}
CredentialFamily == {"credential.a"}
IsSecretLabel(label) == label \in CredentialFamily \cup SECRET_ENTITY_TYPES
Credentials(tokens, text) == SelectSeq(Predict(tokens, text), LAMBDA p : IsSecretLabel(p.entity))

\* order_labels: the labels by id, which must be 0 up to one less than their
\* count.  A map is a sequence of [key, label]; -1 is a key that is no number.
OrderLabels(map) ==
  LET n == Len(map)
      entry(id) == {i \in DOMAIN map : map[i].key = id}
  IN IF \E i \in DOMAIN map : map[i].key \notin 0..(n - 1) THEN Invalid
     ELSE IF \E id \in 0..(n - 1) : entry(id) = {} THEN Invalid
     ELSE [ok |-> TRUE, labels |-> [k \in 1..n |-> map[CHOOSE i \in entry(k - 1) : TRUE].label]]

\* predict_label: the last of equal maxima.
PredictLabel(probs) == IF probs = <<>> THEN Invalid
  ELSE [ok |-> TRUE, at |-> Max({i \in DOMAIN probs : \A j \in DOMAIN probs : probs[j] <= probs[i]})]

----------------------------------------------------------------------------
(* Routing                                                                 *)

CATEGORIES_HEADER == <<"C", "\n">>
TEXT_HEADER == <<"\n", "\n", "T", "\n">>
Line(route) == <<"-", " ">> \o route
BuildPrefix(routes) ==
  CATEGORIES_HEADER
    \o FlattenSeq([i \in DOMAIN routes |-> (IF i = 1 THEN <<>> ELSE <<"\n">>) \o Line(routes[i])])
    \o TEXT_HEADER
RECURSIVE RangesFrom(_, _)
RangesFrom(routes, pos) ==
  IF routes = <<>> THEN <<>>
  ELSE LET start == pos + 2
           end == start + ByteLen(routes[1])
       IN <<<<start, end>>>> \o RangesFrom(Tail(routes), end + 1)
CategoryRanges(routes) == RangesFrom(routes, Len(CATEGORIES_HEADER))
Overlapping_Contained(spans, range) ==
  {i \in DOMAIN spans : spans[i][1] >= range[1] /\ spans[i][2] <= range[2] /\ spans[i][1] # spans[i][2]}
Overlapping(spans, range) ==
  {i \in DOMAIN spans : spans[i][1] < range[2] /\ spans[i][2] > range[1] /\ spans[i][1] # spans[i][2]}

FocusAccepted(text, focus) ==
  /\ focus[1] < focus[2]
  /\ focus[2] <= ByteLen(text)
  /\ IsCharBoundary(text, focus[1]) /\ IsCharBoundary(text, focus[2])
\* compute_focused up to the pooling: which tokens make the query, and which
\* each category.  spans is the tokenization of the whole prompt.
ComputeFocused(text, focus, routes, spans) ==
  LET at == ByteLen(BuildPrefix(routes))
      query == Overlapping(spans, <<at + focus[1], at + focus[2]>>)
      ranges == CategoryRanges(routes)
  IN IF routes = <<>> \/ ~FocusAccepted(text, focus) \/ query = {} THEN Invalid
     ELSE [ok |-> TRUE, query |-> query,
           categories |-> [i \in DOMAIN routes |-> Overlapping(spans, ranges[i])]]

\* windowed_focus: the history joined by newlines, and its last entry's bytes.
WindowedFocus(history) ==
  LET text == FlattenSeq([i \in DOMAIN history |-> (IF i = 1 THEN <<>> ELSE <<"\n">>) \o history[i]])
  IN IF history = <<>> THEN Invalid
     ELSE [ok |-> TRUE, text |-> text,
           focus |-> <<ByteLen(text) - ByteLen(Last(history)), ByteLen(text)>>]

\* route: what reaches the threshold, best first, in the routes' order on ties.
Stable(scores, i, j) == scores[i] > scores[j] \/ (scores[i] = scores[j] /\ i < j)
BestFirst(scores, threshold) ==
  SetToSortSeq({i \in DOMAIN scores : threshold = -1 \/ scores[i] >= threshold},
               LAMBDA i, j : Stable(scores, i, j))
\* route_clauses: a lane's best clause; and the last clause that gives it.
RouteClauses(clauses, lanes) ==
  IF clauses = <<>> \/ lanes = 0 THEN Invalid
  ELSE [ok |-> TRUE, clauses |-> clauses,
        union |-> [lane \in 1..lanes |-> Max({clauses[c][lane] : c \in DOMAIN clauses})]]
FiringClause(routing, lane) ==
  Max({c \in DOMAIN routing.clauses :
         \A d \in DOMAIN routing.clauses : routing.clauses[d][lane] <= routing.clauses[c][lane]})

----------------------------------------------------------------------------
(* Late interaction                                                        *)

\* A query is cut at its length, then filled up to it; a filler position is no
\* key, unless the checkpoint attends to it.
EncodeQuery(ids, s) ==
  LET cut == SubSeq(ids, 1, Min({Len(ids), s.query_length}))
      filled == IF ~s.do_query_expansion THEN cut
                ELSE cut \o [i \in 1..(s.query_length - Len(cut)) |-> s.expansion_id]
  IN [ids |-> filled,
      mask |-> [i \in DOMAIN filled |-> i <= Len(cut) \/ s.attend_to_expansion_tokens]]
EncodeDocument(ids, s) ==
  SelectSeq(SubSeq(ids, 1, Min({Len(ids), s.document_length})), LAMBDA id : id \notin s.skiplist)
MaxSim(query, doc, cosine) ==
  IF doc = <<>> THEN 0
  ELSE SumFunction([i \in DOMAIN query |-> Max({cosine[query[i]][doc[j]] : j \in DOMAIN doc})])
=============================================================================
