------------------------------- MODULE Decode --------------------------------
(***************************************************************************)
(* Constrained decoding in the adjudicator: a spec's schema loaded or       *)
(* refused, a report generated under its grammar, an opinion that describes *)
(* the input up to each asked slot, and a report resumed from one.  The     *)
(* model picks any token the mask leaves it.                                *)
(***************************************************************************)
EXTENDS Constrain

CONSTANTS
  Schemas,         \* schemas a spec may carry
  Asked,           \* question lists a request may ask
  MaxTokens,       \* a generation's max_tokens
  PerField, Floor, \* the description's allowance: per field, and at least
  Remaining,       \* tokens of context an input may leave
  Sampled          \* bound: the tokens the model picks from

\* Names and texts are UTF-8; an enum's values are of the kinds the schema
\* checks tell apart.  A prompt that leaves fewer than three tokens is refused before it is read.
ASSUME DecodeAssumption ==
  /\ \A s \in Schemas :
       /\ s.required \in Seq(Seq(Byte))
       /\ \A n \in DOMAIN s.properties : s.properties[n].enum \in Seq(Value) \cup {None}
  /\ {MaxTokens, PerField, Floor} \subseteq Nat \ {0}
  /\ \A n \in Remaining : n >= 3

VARIABLES
  schema,
  phase,       \* "boot", "refused", "ready", "report", "describe", "answered"
               \* "stop", "length", or how a generation failed
  program,     \* the grammar, compiled once and shared
  questions,   \* resolved, in emission order
  tokens,      \* generated so far
  cursor,      \* the masker's place in the document
  slots,       \* per question passed, how many tokens stood at its slot
  budget,      \* tokens the generation may still take
  record       \* the last step's record: the token and what was permitted

generation == <<tokens, cursor, slots, budget, record>>
vars == <<schema, phase, program, questions, generation>>

NoRecord == [token |-> None, permitted |-> {}]
Written(ids) ==
  FlattenSeq([i \in DOMAIN ids |-> IF ids[i] \in DOMAIN Expansion THEN Expansion[ids[i]] ELSE <<>>])
Doc == Written(tokens)

Init ==
  /\ schema \in Schemas
  /\ phase = "boot" /\ program = <<>> /\ questions = <<>>
  /\ tokens = <<>> /\ cursor = Start /\ slots = <<>> /\ budget = 0
  /\ record = NoRecord

\* LoadedSpec::load, as far as the schema decides it.
LoadRefuses(s) == ~ValidSchema(s) \/ GrammarRefuses(s) \/ MenuRefuses(s)
Load ==
  /\ phase = "boot"
  /\ IF LoadRefuses(schema)
     THEN phase' = "refused" /\ UNCHANGED program
     ELSE phase' = "ready" /\ program' = Compile(schema)
  /\ UNCHANGED <<schema, questions, generation>>

Begin(ids, n) ==
  /\ tokens' = ids /\ cursor' = Advance(program, ids) /\ budget' = n
  /\ slots' = <<>> /\ record' = NoRecord
  /\ UNCHANGED <<schema, program>>

\* generate: from the deepest described slot held for this prompt when it
\* fits max_tokens, else from the prompt.
Generate ==
  /\ phase = "ready" /\ phase' = "report" /\ questions' = <<>>
  /\ Begin(<<>>, MaxTokens)
Resume ==
  LET ids == SubSeq(tokens, 1, slots[Len(slots)]) IN
  /\ phase = "answered" /\ slots # <<>> /\ phase' = "report" /\ questions' = <<>>
  /\ IF Len(ids) < MaxTokens THEN Begin(ids, MaxTokens - Len(ids)) ELSE Begin(<<>>, MaxTokens)

\* describe_budget.
DescribeBudget(fields, left) ==
  LET allowance == IF PerField * fields > Floor THEN PerField * fields ELSE Floor
  IN IF left < allowance THEN left ELSE allowance

\* describe_then_read, of questions the menu resolves, with nothing cached.
Describe(qs, left) ==
  /\ phase = "ready" /\ ResolvableAll(Menu(schema), qs)
  /\ questions' = ResolveAll(Menu(schema), qs)
  /\ phase' = "describe"
  /\ Begin(<<>>, DescribeBudget(Last(questions').place, left))
-----------------------------------------------------------------------------
(* One step of a decode loop: the mask, the pick, and what was permitted    *)
(* captured before the cursor moves.                                        *)

\* What the model may pick: anything the mask leaves it.
Pickable == Permitted(Plan(program, cursor)) \cap Sampled

StepRecord(id) == [token |-> id, permitted |-> Permitted(Plan(program, cursor))]

Take(id) ==
  /\ tokens' = Append(tokens, id)
  /\ cursor' = Accept(program, cursor, id)
  /\ budget' = budget - 1
  /\ record' = StepRecord(id)
  /\ UNCHANGED <<schema, program, questions>>

StepReport(id) ==
  /\ phase = "report" /\ budget > 0 /\ Take(id)
  /\ phase' = IF cursor' = None THEN "failed" ELSE IF id = Eos THEN "stop"
              ELSE IF budget' = 0 THEN "length" ELSE "report"
  /\ UNCHANGED slots

Slot == SlotText(questions[Len(slots) + 1])

\* The slot ends inside the last token: no state stands at it.
WrotePast(before, text) ==
  \E k \in DOMAIN text :
    LET end == k + Len(Slot) - 1 IN
    end > before /\ end < Len(text) /\ SubSeq(text, k, end) = Slot

\* The description's end: every slot passed, or the allowance spent.
EndDescribe(now) ==
  IF now = Len(questions) THEN "answered" ELSE IF budget' = 0 THEN "overran" ELSE "describe"

StepDescribe(id) ==
  LET text == Written(tokens')
      atSlot == id # Eos /\ IsSuffix(Slot, text)
  IN /\ phase = "describe" /\ budget > 0 /\ Take(id)
     /\ slots' = IF atSlot THEN Append(slots, Len(tokens')) ELSE slots
     /\ phase' = IF cursor' = None THEN "failed" ELSE IF id = Eos THEN "ended"
                 ELSE IF ~atSlot /\ WrotePast(Len(Doc), text) THEN "wrote past"
                 ELSE EndDescribe(Len(slots'))

\* The next request on the same spec.
Again ==
  /\ phase \in {"stop", "length", "answered", "overran", "wrote past", "ended"}
  /\ phase' = "ready" /\ questions' = <<>> /\ Begin(<<>>, 0)

Next ==
  \/ Load \/ Generate \/ Resume \/ Again
  \/ \E qs \in Asked, left \in Remaining : Describe(qs, left)
  \/ \E id \in Pickable : StepReport(id) \/ StepDescribe(id)

Spec == Init /\ [][Next]_vars
=============================================================================
