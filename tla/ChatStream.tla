----------------------------- MODULE ChatStream -----------------------------
(* One streaming chat: the events and the reply of the turn, which the      *)
(* worker thread sends over two channels, and the task that relays them to   *)
(* the client over a third.  The first event announces the user checkpoint,  *)
(* the ones after it carry what each generated token adds to the decoded     *)
(* text.  Other work of the worker thread appears as the time it takes.      *)
EXTENDS Naturals, Sequences, SequencesExt, FiniteSets

CONSTANTS MaxTokens,   \* the request's max_tokens
          Vocabulary,  \* the tokens the model may generate, each the bytes it
                       \* decodes to
          None         \* nothing yet

\* A character is one of one byte, a pair "lead", "tail" of two, or a control
\* token the tokenizer decodes to its name.
Markers == {"<think>", "</think>", "<|im_end|>"}
Eos == <<"<|im_end|>">>
Announced == <<"checkpoint">>

\* What a text is of.
Characters == {"pair", "U+FFFD"} \cup Markers \cup UNION {Range(token) : token \in Vocabulary}

\* How a turn, or the stream of one, ends.
Results == {"done", "failed", "shrank", "cancelled", "deadline"}

ASSUME ChatStreamAssumption ==
  /\ MaxTokens \in Nat \ {0}
  /\ Eos \in Vocabulary /\ Vocabulary \subseteq Seq(Characters)
  /\ None \notin Results /\ None \notin Seq(Characters)

VARIABLES
  job,        \* "queued", "boundary", "computing", "replied": the worker's side
  generated,  \* the tokens generated
  streamed,   \* how many bytes of their text the token events carry
  sent,       \* the events the worker sent
  channel,    \* events_tx .. events_rx
  reply,      \* what the worker put in the oneshot channel
  listening,  \* the receiver of the oneshot channel is alive
  task,       \* "relaying", "draining", "ended": the task of chat_stream
  last,       \* the result the task ends with
  heard,      \* the events the client was sent
  outcome,    \* the "done" or "error" event it was sent
  client,     \* the client is connected
  late,       \* the job's timeout has passed
  stopping,   \* the handle's stop flag
  wasted      \* events sent since the task stopped relaying

worker == <<job, generated, streamed, sent, reply, wasted>>
relay == <<listening, task, last, heard, outcome>>
around == <<client, late, stopping>>
vars == <<worker, channel, relay, around>>

\* The request is valid and its job was queued: what is refused before is
\* refused with its status and never becomes a stream.
Init ==
  /\ job = "queued" /\ sent = <<>> /\ channel = <<>> /\ reply = None
  /\ generated = <<>> /\ streamed = 0
  /\ listening = TRUE /\ task = "relaying" /\ last = None
  /\ heard = <<>> /\ outcome = None
  /\ client = TRUE /\ late = FALSE /\ stopping = FALSE
  /\ wasted = 0
-----------------------------------------------------------------------------
(* Text.                                                                   *)

\* Tokenizer::decode: a byte that is no character, or not yet, is U+FFFD.
Ends(bytes, i) == bytes[i] = "lead" /\ i < Len(bytes) /\ bytes[i + 1] = "tail"
Character(bytes, i) ==
  CASE Ends(bytes, i) -> "pair"
    [] bytes[i] \in {"lead", "tail"} /\ ~Ends(bytes, i) -> "U+FFFD"
    [] OTHER -> bytes[i]
ReadAt(bytes, i) ==
  IF i > 1 /\ Ends(bytes, i - 1) THEN <<>> ELSE <<Character(bytes, i)>>
Read(bytes) == FlattenSeq([i \in 1..Len(bytes) |-> ReadAt(bytes, i)])
Decoded(tokens) == Read(FlattenSeq(tokens))

\* U+FFFD is of three bytes, a pair of two.
Bytes(text) ==
  LET Of(c) == {i \in 1..Len(text) : text[i] = c}
  IN  Len(text) + 2 * Cardinality(Of("U+FFFD")) + Cardinality(Of("pair"))
Unfinished(text) == text # <<>> /\ Last(text) = "U+FFFD"

\* text_delta: what the text adds to the bytes sent, with a last U+FFFD kept
\* back; None when what was sent is no longer its beginning.
From(text, from) ==
  LET at == {k \in 0..Len(text) : Bytes(SubSeq(text, 1, k)) = from}
  IN  IF at = {} THEN None ELSE SubSeq(text, (CHOOSE k \in at : TRUE) + 1, Len(text))
TextDelta_Unheld(text, from) == From(text, from)
TextDelta(text, from) == IF Unfinished(text) THEN <<>> ELSE From(text, from)
StreamedTo(text, from) == IF TextDelta(text, from) = <<>> THEN from ELSE Bytes(text)

\* The turn's text, without the token that ended it.
Stopped == generated # <<>> /\ Last(generated) = Eos
TurnText == Decoded(IF Stopped THEN Front(generated) ELSE generated)

SplitReasoning(text) ==
  LET rest == Tail(text)
      closing == SelectInSeq(rest, LAMBDA c : c = "</think>")
  IN  IF text = <<>> \/ Head(text) # "<think>" THEN [thinking |-> None, content |-> text]
      ELSE IF closing = 0 THEN [thinking |-> rest, content |-> None]
      ELSE [thinking |-> SubSeq(rest, 1, closing - 1),
            content |-> SubSeq(rest, closing + 1, Len(rest))]

\* Message::render of an assistant turn of both, but for its opening and end;
\* refuse_control refuses either carrying a control token.
Refused(text) == \E i \in DOMAIN text : text[i] \in Markers
Rerendered(turn) ==
  IF Refused(turn.thinking) \/ Refused(turn.content) THEN None
  ELSE <<"<think>">> \o turn.thinking \o <<"</think>">> \o turn.content
-----------------------------------------------------------------------------
(* The worker thread.                                                      *)

\* The check of Worker::run, made before the turn, at every boundary of it
\* and before it is answered.
Wanted == listening /\ ~stopping /\ ~late

Answer(result) ==
  /\ job' = "replied" /\ reply' = result
  /\ UNCHANGED <<generated, streamed, sent, channel, wasted, relay, around>>

Unwanted ==
  /\ job \in {"queued", "boundary"}
  /\ \/ (~listening \/ stopping) /\ Answer("cancelled")
     \/ listening /\ ~stopping /\ late /\ Answer("deadline")

Proceed ==
  /\ job \in {"queued", "boundary"} /\ Wanted
  /\ job' = "computing"
  /\ UNCHANGED <<generated, streamed, sent, channel, reply, wasted, relay, around>>

\* An event, once what it reports is computed.  The receiver goes with the
\* task; sending to nobody is not an error.
SendEvent(event) ==
  /\ sent' = Append(sent, event)
  /\ channel' = IF task = "ended" THEN <<>> ELSE Append(channel, event)
  /\ wasted' = IF task = "relaying" THEN wasted ELSE wasted + 1
  /\ job' = "boundary"
  /\ UNCHANGED <<reply, relay, around>>

Announce ==
  /\ job = "computing" /\ sent = <<>>
  /\ SendEvent(Announced)
  /\ UNCHANGED <<generated, streamed>>

Ended == Stopped \/ Len(generated) = MaxTokens

Generate ==
  /\ job = "computing" /\ sent # <<>> /\ ~Ended
  /\ \E token \in Vocabulary :
       LET text == Decoded(Append(generated, token))
       IN  /\ generated' = Append(generated, token)
           /\ streamed' = StreamedTo(text, streamed)
           /\ IF TextDelta(text, streamed) = None
                THEN /\ job' = "replied" /\ reply' = "shrank"
                     /\ UNCHANGED <<sent, channel, wasted, relay, around>>
                ELSE SendEvent(TextDelta(text, streamed))

\* The turn ends, by eos or by its length, after a last check.
FinishTurn == job = "computing" /\ Ended /\ Answer("done")

\* An unknown checkpoint, a context too long, a failed forward.
TurnFails == job = "computing" /\ Answer("failed")
-----------------------------------------------------------------------------
(* The task that relays.                                                   *)

End ==
  /\ task' = "ended" /\ listening' = FALSE
  /\ channel' = <<>>

\* An event to the client; when it is gone, the task returns and drops the
\* reply's receiver.
Relay ==
  /\ task = "relaying" /\ channel # <<>>
  /\ IF client
       THEN /\ heard' = Append(heard, Head(channel))
            /\ channel' = Tail(channel)
            /\ UNCHANGED <<task, listening>>
       ELSE End /\ UNCHANGED heard
  /\ UNCHANGED <<worker, last, outcome, around>>

Conclude_Undrained(result) ==
  /\ task = "relaying"
  /\ task' = "draining" /\ last' = result /\ listening' = FALSE
  /\ channel' = <<>>
  /\ UNCHANGED <<worker, heard, outcome, around>>

Conclude(result) ==
  /\ task = "relaying"
  /\ task' = "draining" /\ last' = result /\ listening' = FALSE
  /\ UNCHANGED <<worker, channel, heard, outcome, around>>

Replied == reply # None /\ Conclude(reply)

TimesOut_Unbounded == FALSE

TimesOut == late /\ reply = None /\ Conclude("deadline")

ClientGone_KeepsReply ==
  /\ task = "relaying" /\ ~client
  /\ task' = "ended" /\ channel' = <<>>
  /\ UNCHANGED <<worker, listening, last, heard, outcome, around>>

ClientGone ==
  /\ task = "relaying" /\ ~client
  /\ End
  /\ UNCHANGED <<worker, last, heard, outcome, around>>

\* Every event the worker sent precedes its reply: what is still in the
\* channel goes before the result.  The sends' own failures are ignored.
Drain ==
  /\ task = "draining" /\ channel # <<>>
  /\ heard' = IF client THEN Append(heard, Head(channel)) ELSE heard
  /\ channel' = Tail(channel)
  /\ UNCHANGED <<worker, listening, task, last, outcome, around>>

SendLast ==
  /\ task = "draining" /\ channel = <<>>
  /\ outcome' = IF client THEN last ELSE None
  /\ End
  /\ UNCHANGED <<worker, last, heard, around>>
-----------------------------------------------------------------------------
HangUp ==
  /\ client /\ client' = FALSE
  /\ UNCHANGED <<worker, channel, relay, late, stopping>>

TimePasses ==
  /\ ~late /\ late' = TRUE
  /\ UNCHANGED <<worker, channel, relay, client, stopping>>

Stop ==
  /\ ~stopping /\ stopping' = TRUE
  /\ UNCHANGED <<worker, channel, relay, client, late>>

\* The turn and the stream of it are over.
Over == job = "replied" /\ task = "ended" /\ UNCHANGED vars

Turn == Unwanted \/ Proceed \/ Announce \/ Generate \/ FinishTurn \/ TurnFails
Task == Relay \/ Replied \/ TimesOut \/ ClientGone \/ Drain \/ SendLast
Next == Turn \/ Task \/ HangUp \/ TimePasses \/ Stop \/ Over

Spec == Init /\ [][Next]_vars

\* The runtime polls the task and its timer; nothing is asked of the worker
\* thread, which other jobs may hold for any time.
StreamSpec ==
  Spec /\ WF_vars(TimePasses) /\ WF_vars(Replied \/ TimesOut) /\ WF_vars(Drain \/ SendLast)
-----------------------------------------------------------------------------
\* The client hears the worker's events in order and without a gap, a "done"
\* after all of them whichever channel the task looked at first, and a stream
\* never just stops: a client that stays is told how its turn ended.
HearsTheWholeTurn ==
  /\ IsPrefix(heard, sent)
  /\ outcome = "done" => heard = sent
  /\ task = "ended" /\ client => outcome # None

\* What the token events carry so far is the beginning of the text the turn is
\* answered with and is never taken back: text_delta's failure is unreachable.
\* Only a text that ends inside a character goes on after it; and a reasoning
\* region that closed splits into a turn that renders to the same text, unless
\* it carries control tokens, which no request may (text_delta,
\* split_reasoning, Message::render).
TokensSpellTheText ==
  LET text == Decoded(generated)
      carried == FlattenSeq(IF sent = <<>> THEN <<>> ELSE Tail(sent))
      turn == SplitReasoning(TurnText)
  IN  /\ reply # "shrank"
      /\ IsPrefix(carried, text)
      /\ carried # text => Unfinished(text)
      /\ outcome = "done" /\ None \notin {turn.thinking, turn.content} =>
           Rerendered(turn) \in {TurnText, None}

\* Once the task has let go of the reply, by a disconnection or a timeout,
\* the turn costs the worker one more event at most.
StopsAtNextBoundary == wasted <= 1

\* Every stream ends, by its deadline if the worker thread never answers.
StreamsEnd == <>(task = "ended")
=============================================================================
