--------------------------- MODULE NeedleBenchmark --------------------------
(***************************************************************************)
(* The model-selection benchmark (scripts/benchmark_pro_context.py): a     *)
(* synthetic trace with one telling event, the needle, a window of it as   *)
(* large as a fraction of the trace, and whether an engine that reads the  *)
(* window finds the needle.  Fractions and depths are in percent.          *)
(***************************************************************************)
EXTENDS MutationEngine

CONSTANTS
    MinFiller,      \* 256, the characters of a filler payload at least
    NeedleSize,     \* the characters of the needle's payload
    NeedleTool      \* "auth_service"

ASSUME NeedleAssumption == MinFiller \in Nat /\ NeedleSize \in Nat

AtLeast(low, n) == IF n < low THEN low ELSE n

NeedleStep(steps, depth) == AtLeast(1, (steps * depth) \div 100)

Span(kind, step, name, size) ==
    [run |-> 1, kind |-> kind, step |-> step, name |-> name, mark |-> FALSE, size |-> size]

\* synthesize_trace; a filler payload has about as many characters as asked.
Synthesize(targetTokens, steps, depth, fillerTool) ==
    LET filler == AtLeast(MinFiller, (targetTokens * BytesPerToken) \div AtLeast(1, steps))
    IN <<Span("run_start", 0, "-", 0)>>
         \o [step \in 1 .. steps |->
               IF step = NeedleStep(steps, depth)
               THEN Span("tool_call", step, NeedleTool, NeedleSize)
               ELSE Span("tool_call", step, fillerTool, filler)]
         \o <<Span("run_end", steps + 1, "-", 0)>>

\* main: the tokens the engine may read.
MaxTraceTokens(targetTokens, fraction) == AtLeast(1, (targetTokens * fraction) \div 100)

\* Mutant: the mirror reads the trace from its beginning.
KeptStepsOldest(events, maxTraceTokens) ==
    {event.step : event \in ToSet(Reverse(Serialize(Reverse(events), maxTraceTokens)))}

\* serialize_with_budget: the loop of _serialize_traces over pairs of a step
\* and a line; the steps that are kept.
KeptSteps(events, maxTraceTokens) ==
    FoldLeft(LAMBDA kept, event :
                IF ~kept.open \/ kept.used + Line(event) > maxTraceTokens * BytesPerToken
                THEN [kept EXCEPT !.open = FALSE]
                ELSE [open |-> TRUE, used |-> kept.used + Line(event) + 1,
                      steps |-> kept.steps \cup {event.step}],
             [open |-> TRUE, used |-> 0, steps |-> {}], Reverse(events)).steps

\* MockProEngine.propose and needle_found: its hypothesis has the keywords
\* if and only if the needle's step was kept.
MockFinds(events, maxTraceTokens, needleStep) ==
    needleStep \in KeptSteps(events, maxTraceTokens)
=============================================================================
