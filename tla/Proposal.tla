------------------------------ MODULE Proposal ------------------------------
(***************************************************************************)
(* From a generation's traces to a patch: the traces are analyzed, their   *)
(* newest lines become a request, the model answers, and the answer is     *)
(* charged, parsed, looked at for its security flag, and put before the    *)
(* tabu check and the static gates (orchestrator.py:187-283).  The other   *)
(* caller of the mutation engine is the benchmark script, which plants a   *)
(* needle in a synthetic trace.                                            *)
(*                                                                         *)
(* The registry is not part of this module: whether a content is tabu is a *)
(* choice here.  Copies stand for rows a retried insert stored again.      *)
(***************************************************************************)
EXTENDS Analysis, NeedleBenchmark, Validator, Budget

CONSTANTS
    MaxRuns, MaxSpans,    \* bounds on the runs and on all their spans
    Size,                 \* the payload characters of a span, by its name
    ArtifactChars,        \* len(spec_json) + len(source) of HEAD
    MaxTokens,            \* mutation.max_trace_tokens
    MaxAttempts,          \* loop.max_patch_attempts
    Answers, Patches,     \* what the model can answer, what a patch can be
    Benchmarks            \* benchmark arguments: [target, steps, depth, fraction]

ASSUME ProposalAssumption == \A p \in Patches : p.chars \in Nat

\* There is a run to trace, the needle's tool is not one of the filler's, and
\* the depth of the needle is a fraction of the trace (0 to 1, says --help).
ASSUME EvidenceAssumption ==
    /\ MaxRuns \in Nat \ {0}
    /\ ArtifactChars \in Nat
    /\ MaxTokens \in Nat
    /\ MaxAttempts \in Nat
    /\ \A name \in DOMAIN Size : Size[name] \in Nat
    /\ NeedleTool \notin Tools \cup {"-"}
    /\ Benchmarks \subseteq [target : Nat, steps : Nat \ {0}, depth : 0 .. 100, fraction : Nat]

VARIABLES
    pc,
    events,     \* the in-process copy of the generation's events
    copies,     \* how many rows of each the table has
    window,     \* the lines of the request
    request,    \* request_chars
    attempt,    \* calls of the mutation engine
    answer,     \* the model's last answer
    patch,      \* the last patch that was parsed
    incidents,  \* SECURITY_ALERT events
    bench       \* the arguments and the verdict of a benchmark

vars == <<budgetVars, pc, events, copies, window, request, attempt, answer, patch,
          incidents, bench>>

NoAnswer == [kind |-> "none", noChange |-> FALSE, camel |-> FALSE, snake |-> FALSE, keys |-> {},
             null |-> FALSE]
NoPatch == [specValid |-> FALSE,
            source |-> [parses |-> FALSE, nodes |-> {}, body |-> <<>>], chars |-> 0]
NoBenchmark == [target |-> 0, steps |-> 0, depth |-> 0, fraction |-> 0, found |-> FALSE]

Stopped == {"proposed", "nothing", "reported", "measured", "aborted", "raised"}

TypeOK ==
    /\ BudgetTypeOK
    /\ pc \in {"acting", "analyzing", "asking", "answering", "charged"} \cup Stopped
    /\ \A i \in DOMAIN events : events[i].run \in 1 .. MaxRuns /\ events[i].step \in Nat
    /\ DOMAIN copies = DOMAIN events
    /\ attempt \in 0 .. MaxAttempts
    /\ answer \in Answers \cup {NoAnswer}
    /\ patch \in Patches \cup {NoPatch}
    /\ incidents \in 0 .. 1

Init ==
    /\ BudgetInit
    /\ pc = "acting"
    /\ events = <<>> /\ copies = <<>> /\ window = <<>>
    /\ request = 0 /\ attempt = 0
    /\ answer = NoAnswer /\ patch = NoPatch
    /\ incidents = 0
    /\ bench = NoBenchmark

Goto(phase) ==
    /\ pc' = phase
    /\ UNCHANGED <<budgetVars, events, copies, window, request, attempt, answer, patch, bench>>

-----------------------------------------------------------------------------
(* The traces                                                              *)

Event(run, kind, step, name, mark) ==
    [run |-> run, kind |-> kind, step |-> step, name |-> name, mark |-> mark,
     size |-> IF name \in DOMAIN Size THEN Size[name] ELSE 0]

LastRun == IF events = <<>> THEN 0 ELSE Last(events).run
Between == events # <<>> => Last(events).kind = "run_end"
SpanCount == Cardinality({i \in DOMAIN events : events[i].kind \notin {"run_start", "run_end"}})

Collected(new) ==
    /\ events' = events \o new
    /\ copies' = [i \in DOMAIN events' |-> 1]
    /\ UNCHANGED <<budgetVars, pc, window, request, attempt, answer, patch, incidents, bench>>

StartRun ==
    /\ pc = "acting" /\ Between /\ LastRun < MaxRuns
    /\ Collected(<<Event(LastRun + 1, "run_start", 0, "-", FALSE)>>)

\* A step of the agent; an error and a termination end the run.
RecordSpan ==
    /\ pc = "acting" /\ ~Between /\ SpanCount < MaxSpans
    /\ LET span(kind, name, mark) == Event(LastRun, kind, Last(events).step + 1, name, mark)
           end(success) == Event(LastRun, "run_end", 0, "-", success)
       IN \/ Collected(<<span("model_call", "model", FALSE)>>)
          \/ \E t \in Tools, failed \in BOOLEAN : Collected(<<span("tool_call", t, failed)>>)
          \/ \E c \in ErrorClasses : Collected(<<span("error", c, FALSE), end(FALSE)>>)
          \/ Collected(<<span("terminate", "-", FALSE), end(TRUE)>>)

\* The step limit ends the run.
EndRun ==
    /\ pc = "acting" /\ ~Between
    /\ Collected(<<Event(LastRun, "run_end", 0, "-", FALSE)>>)

\* The batch is over; the table may have stored one insert of it twice.
Deliver ==
    /\ pc = "acting" /\ Between /\ events # <<>>
    /\ \E first, last \in DOMAIN events :
          copies' = [i \in DOMAIN events |-> IF first <= i /\ i < last THEN 2 ELSE 1]
    /\ pc' = "analyzing"
    /\ UNCHANGED <<budgetVars, events, window, request, attempt, answer, patch, incidents, bench>>

-----------------------------------------------------------------------------
(* Orchestrator._propose_valid_patch                                       *)

\* request_chars and the engine's window of the traces.
BuildRequest ==
    /\ pc = "analyzing"
    /\ request' = ArtifactChars + FoldLeft(+, 0, [i \in DOMAIN events |-> events[i].size])
    /\ window' = Serialize(events, MaxTokens)
    /\ pc' = "asking"
    /\ copies' = [i \in DOMAIN events |-> 1]
    /\ UNCHANGED <<budgetVars, events, attempt, answer, patch, incidents, bench>>

\* Mutant: one attempt more than configured.
CallOneMore ==
    /\ pc = "asking" /\ attempt <= MaxAttempts
    /\ AllowMutationCall(request)
    /\ attempt' = attempt + 1
    /\ answer' \in Answers
    /\ pc' = "answering"
    /\ events' = <<>> /\ copies' = <<>> /\ window' = <<>>
    /\ UNCHANGED <<budgetVars, request, patch, incidents, bench>>

\* The calls of a generation have one request; its traces are not looked at
\* again.
Call ==
    /\ pc = "asking" /\ attempt < MaxAttempts
    /\ AllowMutationCall(request)
    /\ attempt' = attempt + 1
    /\ answer' \in Answers
    /\ pc' = "answering"
    /\ events' = <<>> /\ copies' = <<>> /\ window' = <<>>
    /\ UNCHANGED <<budgetVars, request, patch, incidents, bench>>

\* Denied by the budget, or no attempt is left.
GiveUp ==
    /\ pc = "asking"
    /\ attempt = MaxAttempts \/ ~AllowMutationCall(request)
    /\ Goto("nothing") /\ UNCHANGED incidents

\* An exception of propose(), or of measuring its patch, goes through the whole
\* loop; the call is not charged.
CallRaises ==
    /\ pc = "answering"
    /\ answer.kind = "raises" \/ Unmeasurable(answer)
    /\ Goto("raised") /\ UNCHANGED incidents

\* _parse_patch; the call is charged before its patch is looked at.
Parse ==
    /\ pc = "answering" /\ answer.kind # "raises" /\ ~Unmeasurable(answer)
    /\ IF Unusable(answer) THEN patch' = NoPatch ELSE patch' \in Patches
    /\ RecordMutationCall(request, patch'.chars)
    /\ pc' = IF CeilingCrossed' THEN "aborted" ELSE "charged"
    /\ UNCHANGED <<events, copies, window, request, attempt, answer, incidents, bench>>

\* None, the flag, the tabu check and the gates, in this order.
NoProposal ==
    /\ pc = "charged" /\ Unusable(answer)
    /\ Goto("nothing") /\ UNCHANGED incidents

\* _fast_fail_security; a sink that cannot write the incident raises.
FastFail ==
    /\ pc = "charged" /\ ~Unusable(answer) /\ Flagged(answer)
    /\ \/ Goto("reported") /\ incidents' = incidents + 1
       \/ Goto("raised") /\ UNCHANGED incidents

Reject ==
    /\ pc = "charged" /\ ~Unusable(answer) /\ ~Flagged(answer)
    /\ Goto("asking") /\ UNCHANGED incidents     \* tabu, or not Check(patch)

Accept ==
    /\ pc = "charged" /\ ~Unusable(answer) /\ ~Flagged(answer) /\ Check(patch)
    /\ Goto("proposed") /\ UNCHANGED incidents

-----------------------------------------------------------------------------

\* benchmark_pro_context.py with the mock engine.
Benchmark ==
    /\ pc = "acting" /\ events = <<>>
    /\ \E b \in Benchmarks, t \in Tools :
          /\ events' = Synthesize(b.target, b.steps, b.depth, t)
          /\ copies' = [i \in DOMAIN events' |-> 1]
          /\ bench' = [target |-> b.target, steps |-> b.steps, depth |-> b.depth,
                       fraction |-> b.fraction,
                       found |-> MockFinds(events', MaxTraceTokens(b.target, b.fraction),
                                           NeedleStep(b.steps, b.depth))]
    /\ pc' = "measured"
    /\ UNCHANGED <<budgetVars, window, request, attempt, answer, patch, incidents>>

Next ==
    \/ StartRun \/ RecordSpan \/ EndRun \/ Deliver
    \/ BuildRequest \/ Call \/ GiveUp \/ CallRaises \/ Parse
    \/ NoProposal \/ FastFail \/ Reject \/ Accept
    \/ Benchmark

Spec == Init /\ [][Next]_vars

-----------------------------------------------------------------------------

\* The request holds the newest lines, as many as fit with the newlines
\* between them, and a run is only cut when every later run is whole
\* (vertex_gemini.py:67-84: "newest-run-last; drop oldest runs to fit").
TextLength(lines) == FoldLeft(+, -1, [i \in DOMAIN lines |-> Line(lines[i]) + 1])
WindowKeepsNewest ==
    (pc = "asking" /\ attempt = 0) =>
        LET cut == Len(events) - Len(window)
        IN /\ window = SubSeq(events, cut + 1, Len(events))
           /\ window # <<>> => TextLength(window) <= MaxTokens * BytesPerToken
           /\ cut > 0 => TextLength(SubSeq(events, cut, Len(events))) > MaxTokens * BytesPerToken
           /\ \A i \in DOMAIN events : \A e \in ToSet(window) :
                 events[i].run > e.run => events[i] \in ToSet(window)

\* "the same analytics expressed as SQL" (bigquery_analyzer.py:3-7).  On a
\* table without duplicates both analyzers count the same transitions, the
\* same errors up to the coarser classes and finer tool errors of the query,
\* and the same runs but those that never called anything.  Rows stored twice
\* add loops to the graph but no edge between two tools, and never hide a
\* storm of three equal calls.
AnalyzersAgree ==
    pc = "analyzing" =>
        LET sql == SqlTransitions(events, copies)
            memory == Transitions(events)
            failures == SqlFailures(events, copies)
            errors == ErrorClusters(events)
            calls == Indices(events, "tool_call")
            called == {events[i].run : i \in calls \cup Indices(events, "model_call")}
        IN /\ (\A i \in DOMAIN copies : copies[i] = 1) =>
                /\ sql = memory
                /\ \A key \in DOMAIN failures : key[1] = "error" =>
                      failures[key] = SumFunctionOnSet(errors,
                          {k \in DOMAIN errors : SqlClass[k[1]] = key[2] /\ k[2] = key[3]})
                /\ \A t \in Tools :
                      ToolErrors(events)[t] = SumFunctionOnSet(failures,
                          {k \in DOMAIN failures : k[1] = "tool_call" /\ k[2] = t})
                /\ SqlConvergence(events, copies).runs = Cardinality(called)
           /\ \A edge \in Tools \X Tools : edge[1] # edge[2] => sql[edge] = memory[edge]
           /\ \A i, j, k \in calls :
                 CallBefore(events, i, j) /\ CallBefore(events, j, k)
                 /\ events[i].name = events[k].name /\ events[j].name = events[k].name
                     => <<events[k].run, events[k].name>> \in RetryStorms(events, copies)

\* A flagged answer ends the round, however it spells the flag: it is neither
\* proposed nor asked again.  One incident is written for it, and for no other
\* answer; the round that ends with a flag and without an incident is one of a
\* charge that crossed a ceiling, of an exception, or of an answer without a
\* patch, whose flag is only logged (orchestrator.py:259-275,
\* vertex_gemini.py:94-115).  The texts ask for more: the flag is to reach the
\* telemetry "regardless of whether a usable patch was produced" (engine.py:28).
FlagEndsRound ==
    LET flagged == answer.camel \/ answer.snake
    IN /\ flagged => pc \notin {"asking", "proposed"}
       /\ incidents = (IF pc = "reported" THEN 1 ELSE 0)
       /\ pc = "reported" => flagged
       /\ flagged /\ pc = "nothing" => Unusable(answer)

\* "Contract invariants (enforced by mutation.validators and tests)"
\* (core/harness.py:8): what the loader binds as Harness in a proposed source
\* has the methods of the contract.  The gates read the first class of that
\* name, the loader takes its last binding (validators.py:80-93,
\* harness_loader.py:48-51).
CheckedIsBound ==
    pc = "proposed" =>
        /\ Bound(patch.source) # 0
        /\ RequiredMethods \subseteq patch.source.body[Bound(patch.source)].methods

\* The benchmark measures the engine it stands for: the mock finds the needle
\* exactly when the engine's own window has the needle's event, and a larger
\* fraction of the context never loses it (benchmark_pro_context.py:152-155).
BenchmarkMeasuresEngine ==
    pc = "measured" =>
        LET inWindow(fraction) ==
                \E e \in ToSet(Serialize(events, MaxTraceTokens(bench.target, fraction))) :
                    e.name = NeedleTool
        IN /\ bench.found = inWindow(bench.fraction)
           /\ bench.found => \A f \in bench.fraction .. 100 : inWindow(f)
=============================================================================
