--------------------------- MODULE MutationEngine ---------------------------
(***************************************************************************)
(* The mutation engine's pure parts (mutation/vertex_gemini.py): the       *)
(* window of trace lines that fits the token budget, and what is made of   *)
(* the model's answer.                                                     *)
(*                                                                         *)
(* An answer has the kind "object", a JSON object; "text", no JSON; or     *)
(* "raises", a call that fails or a JSON value that is no object, which    *)
(* has no get().  noChange, camel and snake are the truth values of        *)
(* no_change and of the two spellings of the flag, FALSE when absent; keys *)
(* are the required fields it has; null tells that the artifact of one of  *)
(* them is null or another value that has no length.                       *)
(***************************************************************************)
EXTENDS Integers, SequencesExt

CONSTANT LineOverhead   \* characters of a trace line next to its payload

ASSUME LineAssumption == LineOverhead \in Nat

BytesPerToken == 4      \* CHARS_PER_TOKEN

Line(event) == event.size + LineOverhead

\* Mutant: the line that does not fit is skipped, not the end of the window.
KeepFitting(window, event, budget) ==
    IF window.used + Line(event) > budget THEN window
    ELSE [open |-> TRUE, used |-> window.used + Line(event) + 1, out |-> <<event>> \o window.out]

\* One turn of the loop of _serialize_traces, which breaks at the first line
\* that does not fit; used counts a newline for every line.
Keep(window, event, budget) ==
    IF ~window.open \/ window.used + Line(event) > budget
    THEN [window EXCEPT !.open = FALSE]
    ELSE [open |-> TRUE, used |-> window.used + Line(event) + 1, out |-> <<event>> \o window.out]

\* _serialize_traces: the newest lines, oldest first.
Serialize(events, maxTraceTokens) ==
    FoldLeft(LAMBDA window, event : Keep(window, event, maxTraceTokens * BytesPerToken),
             [open |-> TRUE, used |-> 0, out |-> <<>>], Reverse(events)).out

-----------------------------------------------------------------------------

RequiredKeys == {"hypothesis", "spec_json", "harness_source"}

\* Mutant: only the spelling of the prompt is looked for.
FlaggedInCamel(answer) == answer.camel

Flagged(answer) == answer.camel \/ answer.snake

\* _parse_patch returns None.
Unusable(answer) ==
    answer.kind = "text" \/ answer.noChange \/ ~(RequiredKeys \subseteq answer.keys)

\* The caller's len() of the patch raises: nothing checks what a field holds.
Unmeasurable(answer) == ~Unusable(answer) /\ answer.null
=============================================================================
