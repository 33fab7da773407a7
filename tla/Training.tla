------------------------------ MODULE Training ------------------------------
(***************************************************************************)
(* The first half of a generation (orchestrator.py:181-193): the agent     *)
(* (core/agent.py) runs the training episodes under HEAD's harness         *)
(* (core/harness.py), every step becomes a trace event, and the analyzer   *)
(* (tracing/analyzer.py) reads the copy that stayed in memory.             *)
(*                                                                         *)
(* Genesis is bound to the built-in harness.  A promoted harness is        *)
(* mutated code: it decides anything the Action type allows.               *)
(***************************************************************************)
EXTENDS Telemetry

CONSTANTS
    NumRuns,          \* tasks of the suite times repetitions
    MaxSteps,         \* agent.max_steps
    MaxCalls,         \* HarnessSpec.max_retries
    MaxHistory,       \* 80, the messages build_context sends at most
    PromptTerminal    \* whether a task's prompt holds a termination keyword

ASSUME TrainingAssumption ==
    /\ NumRuns \in Nat
    /\ MaxSteps \in Nat
    /\ MaxCalls \in Nat
    /\ MaxHistory \in Nat \ {0, 1}
    /\ PromptTerminal \in (SUBSET BOOLEAN) \ {{}}

Runs == 1 .. NumRuns

\* A "call" is a tool_call or a model_call: run() treats them alike but for the
\* payload.
Spans == {"call", "error", "terminate"}

Event(r, kind, step, success) ==
    [run |-> r, kind |-> kind, step |-> step, success |-> success]

TrainingEvents ==
    [run : Runs, kind : Spans, step : 1 .. MaxSteps, success : {FALSE}]
        \cup [run : Runs, kind : {"run_start"}, step : {0}, success : {FALSE}]
        \cup [run : Runs, kind : {"run_end"}, step : {0}, success : BOOLEAN]
        \cup [run : {0}, kind : {"security_alert"}, step : {0}, success : {FALSE}]

ASSUME EventsAssumption == TrainingEvents \subseteq Events

VARIABLES
    pc,         \* where the process is
    mutated,    \* HEAD is a promoted version
    run,        \* the episode, 0 before the first
    step,       \* AgentState.step
    spans,      \* TraceCollector._steps of the episode
    done,       \* AgentState.done
    terminal,   \* the last message holds a termination keyword, and is looked at
    messages,   \* how many messages the episode has
    calls       \* failed attempts of _call_with_retries

agentVars == <<run, step, spans, done, terminal, messages, calls>>

\* History, for the properties only.
VARIABLE recorded   \* every event recorded so far, in order

vars == <<telemetryVars, pc, mutated, agentVars, recorded>>

Stopped == {"done", "dead", "raised"}

TypeOK ==
    /\ TelemetryTypeOK
    /\ pc \in {"next", "act", "end", "hung", "analyze", "alerting"} \cup Stopped
    /\ mutated \in BOOLEAN
    /\ run \in 0 .. NumRuns
    /\ step \in 0 .. MaxSteps
    /\ spans \in 0 .. MaxSteps
    /\ done \in BOOLEAN
    /\ terminal \in BOOLEAN
    /\ messages \in 0 .. MaxSteps + 1
    /\ calls \in 0 .. MaxCalls
    /\ recorded \in Seq(Events)

Init ==
    /\ TelemetryInit
    /\ pc = "next"
    /\ mutated \in BOOLEAN
    /\ run = 0
    /\ step = 0
    /\ spans = 0
    /\ done = FALSE
    /\ terminal = FALSE
    /\ messages = 0
    /\ calls = 0
    /\ recorded = <<>>

-----------------------------------------------------------------------------
(* Harness                                                                 *)

\* Mutant: the first message is kept on top of a full window.
ContextOneMore(n) ==
    IF n > MaxHistory
    THEN <<0, 1>> \o [i \in 1 .. MaxHistory |-> n - MaxHistory + i]
    ELSE [i \in 1 .. n + 1 |-> i - 1]

\* build_context with truncate_oldest, as positions in the history; 0 is the
\* system prompt and 1 the task.
Context(n) ==
    IF n > MaxHistory
    THEN <<0, 1>> \o [i \in 1 .. MaxHistory - 1 |-> n - (MaxHistory - 1) + i]
    ELSE [i \in 1 .. n + 1 |-> i - 1]

\* Mutant: a model that fails is waited for.
MayRaiseNever == mutated

\* next_action of the built-in harness terminates if and only if the last
\* message says so, raises when every model call failed, and otherwise does
\* what the model answers.
MayTerminate == mutated \/ terminal
MayCall == mutated \/ (~terminal /\ calls < MaxCalls)
MayRaise == mutated \/ (~terminal /\ calls = MaxCalls)

\* Only the built-in harness looks for the keywords.
Heard(keyword) == IF mutated THEN {FALSE} ELSE keyword

\* next_action holds the AgentState itself, and mutated code may set its done.
MayBeDone == IF mutated THEN BOOLEAN ELSE {done}

-----------------------------------------------------------------------------
(* Agent.run                                                               *)

Record(e, flush) ==
    /\ Collect(e, flush)
    /\ recorded' = Append(recorded, e)

StartRun ==
    /\ pc = "next"
    /\ run < NumRuns
    /\ Record(Event(run + 1, "run_start", 0, FALSE), FALSE)
    /\ run' = run + 1
    /\ step' = 0
    /\ spans' = 0
    /\ done' = FALSE
    /\ terminal' \in Heard(PromptTerminal)
    /\ messages' = 1
    /\ calls' = 0
    /\ pc' = "act"
    /\ UNCHANGED mutated

\* Mutant: one step too many.
ActingOneMore == pc = "act" /\ step <= MaxSteps /\ ~done

Acting == pc = "act" /\ step < MaxSteps /\ ~done

\* record() counts the span before it builds the event.
RecordSpan(kind) ==
    /\ Record(Event(run, kind, spans + 1, FALSE), FALSE)
    /\ spans' = spans + 1
    /\ UNCHANGED <<mutated, run>>

CallFails ==
    /\ Acting
    /\ sink = SinkIdle
    /\ ~mutated /\ ~terminal
    /\ calls < MaxCalls
    /\ calls' = calls + 1
    /\ UNCHANGED <<telemetryVars, pc, mutated, run, step, spans, done, terminal,
                   messages, recorded>>

\* Mutant: the episode goes on after an error of the harness.
HarnessRaisesOn ==
    /\ Acting
    /\ MayRaise
    /\ RecordSpan("error")
    /\ step' = step + 1
    /\ calls' = 0
    /\ UNCHANGED <<pc, done, terminal, messages>>

HarnessRaises ==
    /\ Acting
    /\ MayRaise
    /\ RecordSpan("error")
    /\ pc' = "end"
    /\ done' \in MayBeDone
    /\ UNCHANGED <<step, terminal, messages, calls>>

Terminate ==
    /\ Acting
    /\ MayTerminate
    /\ RecordSpan("terminate")
    /\ done' = TRUE
    /\ step' = step + 1
    /\ UNCHANGED <<pc, terminal, messages, calls>>

\* A tool call, its result or its error, or an answer of the model.
Act ==
    /\ Acting
    /\ MayCall
    /\ RecordSpan("call")
    /\ messages' = messages + 1
    /\ terminal' \in Heard(BOOLEAN)
    /\ step' = step + 1
    /\ calls' = 0
    /\ done' \in MayBeDone
    /\ UNCHANGED pc

\* Mutated code answers something that is no Action, or an Action whose payload is
\* no dictionary: run() looks at it outside its try, and nobody catches that.
MalformedAction ==
    /\ Acting
    /\ sink = SinkIdle
    /\ mutated
    /\ pc' = "raised"
    /\ LoseMemory
    /\ UNCHANGED <<mutated, agentVars, recorded>>

\* Mutated code never returns from next_action: run() calls it without a timeout,
\* and nothing reads tools.step_timeout_s.
Hang ==
    /\ Acting
    /\ sink = SinkIdle
    /\ mutated
    /\ pc' = "hung"
    /\ UNCHANGED <<telemetryVars, mutated, agentVars, recorded>>

\* Mutant: an episode that ran out of steps is a success.
EndRunSuccessful ==
    /\ pc = "end" \/ (pc = "act" /\ ~Acting)
    /\ Record(Event(run, "run_end", 0, pc = "act"), TRUE)
    /\ pc' = "next"
    /\ UNCHANGED <<mutated, agentVars>>

EndRun ==
    /\ pc = "end" \/ (pc = "act" /\ ~Acting)
    /\ Record(Event(run, "run_end", 0, done), TRUE)
    /\ pc' = "next"
    /\ UNCHANGED <<mutated, agentVars>>

-----------------------------------------------------------------------------
(* _run_training_batch and what follows                                    *)

FinishBatch ==
    /\ pc = "next"
    /\ run = NumRuns
    /\ Flush
    /\ pc' = "analyze"
    /\ UNCHANGED <<mutated, agentVars, recorded>>

\* The generation goes on without an incident, or with one.
NoIncident ==
    /\ pc = "analyze"
    /\ sink = SinkIdle
    /\ pc' = "done"
    /\ UNCHANGED <<telemetryVars, mutated, agentVars, recorded>>

Incident ==
    /\ pc = "analyze"
    /\ WriteDirectly(Event(0, "security_alert", 0, FALSE))
    /\ pc' = "alerting"
    /\ UNCHANGED <<mutated, agentVars, recorded>>

IncidentWritten ==
    /\ pc = "alerting"
    /\ sink = SinkIdle
    /\ pc' = "done"
    /\ UNCHANGED <<telemetryVars, mutated, agentVars, recorded>>

\* write() raised: nothing between it and main() catches that.
SinkRaises ==
    /\ sink.op = "raised"
    /\ pc' = "dead"
    /\ LoseMemory
    /\ UNCHANGED <<mutated, agentVars, recorded>>

Killed ==
    /\ pc \notin Stopped
    /\ pc' = "dead"
    /\ LoseMemory
    /\ UNCHANGED <<mutated, agentVars, recorded>>

SinkWorks == SinkStep /\ UNCHANGED <<pc, mutated, agentVars, recorded>>

TrainingStep ==
    \/ StartRun \/ CallFails \/ HarnessRaises \/ Terminate
    \/ Act \/ MalformedAction \/ Hang \/ EndRun
    \/ FinishBatch \/ NoIncident \/ Incident \/ IncidentWritten
    \/ SinkWorks \/ SinkRaises

Next == TrainingStep \/ Killed

Spec == Init /\ [][Next]_vars

\* Models, tools and the table answer or fail, and sleeps end; mutated code may
\* hang, which is a step as well.
FairSpec == Spec /\ WF_vars(TrainingStep)

-----------------------------------------------------------------------------
(* Analyzer                                                                *)

\* Events carry spec.version; HEAD is named by a digest of the artifact, which
\* contains spec.version, so for mutated artifacts the two differ.
TraceVersion == IF mutated THEN "spec.version" ELSE "genesis"
HeadVersion == IF mutated THEN "g0000-digest" ELSE "genesis"

Analyzed == IF TraceVersion = HeadVersion THEN local ELSE <<>>

ReportedRuns == {Analyzed[i].run : i \in DOMAIN Analyzed}
ReportedSuccesses ==
    Cardinality({i \in DOMAIN Analyzed :
                    Analyzed[i].kind = "run_end" /\ Analyzed[i].success})

-----------------------------------------------------------------------------
(* Properties                                                              *)

\* The copy the analyzer and the mutation engine read, with what is still in
\* the buffer, is exactly what the agent recorded, in its order, however often
\* the durable sink had to try.
LocalExact == pc \notin {"dead", "raised"} => local \o buffer = recorded

\* "At-least-once ... never silently dropped": when an episode is over, every
\* event of it is in the table or in the dead-letter file, and stays there
\* whatever happens to the process afterwards.
EndedRunsDelivered ==
    \A i \in DOMAIN recorded :
        recorded[i].run < run \/ pc \in {"analyze", "alerting", "done"}
            => table[recorded[i]] + deadLetter[recorded[i]] > 0

\* "Bounded retries": no row reaches the table more often than there are
\* attempts, or the dead-letter file more than once, even when it is in both.
DuplicatesBounded ==
    \A e \in Events : table[e] <= MaxInserts /\ deadLetter[e] <= 1

\* What the mutation engine is given of an episode stands together, has its two
\* ends and its spans numbered without a gap, and nothing after an error or a
\* termination.
TracesWellFormed ==
    pc = "analyze" =>
        \A r \in Runs : \E first, last \in DOMAIN local :
            /\ \A i \in DOMAIN local : local[i].run = r <=> i \in first .. last
            /\ last - first \in 1 .. MaxSteps + 1
            /\ local[first].kind = "run_start"
            /\ local[last].kind = "run_end"
            /\ \A i \in first + 1 .. last - 1 :
                  /\ local[i].kind \in Spans
                  /\ local[i].step = i - first
                  /\ local[i].kind \in {"error", "terminate"} => i = last - 1

\* For the built-in harness the report counts every episode once and as
\* successful those, and only those, that the harness terminated.
ReportExact ==
    pc = "analyze" /\ ~mutated =>
        /\ ReportedRuns = Runs
        /\ ReportedSuccesses =
              Cardinality({i \in DOMAIN recorded : recorded[i].kind = "terminate"})

\* Whatever the length of the history, the model is sent the task, the latest
\* message and no message twice, within the size of the window.
ContextSound ==
    pc = "act" =>
        LET sent == Context(messages)
        IN /\ Len(sent) <= MaxHistory + 1
           /\ sent[2] = 1
           /\ sent[Len(sent)] = messages
           /\ \A i \in 1 .. Len(sent) - 1 : sent[i] < sent[i + 1]

\* Every batch comes to an end: no episode, retry or flush goes on for ever.  The
\* one exception is mutated code that does not return (agent.py:47).
BatchEnds == <>(pc \in Stopped \/ (mutated /\ pc = "hung"))

-----------------------------------------------------------------------------
(* What the repository says of telemetry and the code does not do          *)

\* orchestrator.py:7: failure clustering, call graphs and statistics of the
\* generation's traces.
AnalysisSeesTraces == pc = "analyze" => ReportedRuns = Runs
=============================================================================
