------------------------------ MODULE Analysis ------------------------------
(***************************************************************************)
(* The two analyzers of a generation's traces: TraceAnalyzer, which walks  *)
(* the events in memory (tracing/analyzer.py), and BigQueryTraceAnalyzer,  *)
(* which asks the table with the queries of infra/bigquery/queries.  Both  *)
(* are operators on the traces of one harness version.                     *)
(*                                                                         *)
(* An event has the run, kind and step of a TraceEvent and of its payload: *)
(* name, the tool of a tool_call or the error class of an error; mark,     *)
(* whether a tool's result has "error" in it, and the success of a         *)
(* run_end; size, its characters.                                          *)
(***************************************************************************)
EXTENDS Integers, FiniteSets, Sequences

CONSTANTS
    Tools,
    ErrorClasses,   \* what stands before "(" in the repr of an exception
    SqlClass,       \* of an error class: its first letters, "_" and "."
    DepthWidth      \* 10, the steps of a depth bucket

Depth(step) == (step \div DepthWidth) * DepthWidth

RunsIn(events) == {events[i].run : i \in DOMAIN events}
Indices(events, kind) == {i \in DOMAIN events : events[i].kind = kind}

-----------------------------------------------------------------------------
(* TraceAnalyzer.analyze                                                   *)

TotalRuns(events) == Cardinality(RunsIn(events))
Successes(events) == Cardinality({i \in Indices(events, "run_end") : events[i].mark})

ErrorClusters(events) ==
    [key \in {<<events[i].name, Depth(events[i].step)>> : i \in Indices(events, "error")} |->
        Cardinality({i \in Indices(events, "error") :
                        <<events[i].name, Depth(events[i].step)>> = key})]

\* The key of a failed tool call has no depth.
ToolErrors(events) ==
    [t \in Tools |->
        Cardinality({i \in Indices(events, "tool_call") : events[i].name = t /\ events[i].mark})]

\* Event i is the tool call before call j: prev_tool begins at None in every run,
\* whose events are in the order of their steps.
CallBefore(events, i, j) ==
    /\ i < j /\ events[i].run = events[j].run
    /\ \A k \in Indices(events, "tool_call") :
          i < k /\ k < j => events[k].run # events[j].run

\* Mutant: the last tool of a run is the previous tool of the next one.
TransitionsAcrossRuns(events) ==
    LET calls == Indices(events, "tool_call")
    IN [edge \in Tools \X Tools |->
          Cardinality({j \in calls : \E i \in calls :
                          /\ i < j /\ \A k \in calls : ~(i < k /\ k < j)
                          /\ edge = <<events[i].name, events[j].name>>})]

\* tool_transition_matrix
Transitions(events) ==
    LET calls == Indices(events, "tool_call")
    IN [edge \in Tools \X Tools |->
          Cardinality({j \in calls : \E i \in calls :
                          /\ CallBefore(events, i, j)
                          /\ edge = <<events[i].name, events[j].name>>})]

-----------------------------------------------------------------------------
(* The queries, over a table that has copies[i] rows of event i.           *)

Rows(events, copies, kind) ==
    UNION {{<<i, c>> : c \in 1 .. copies[i]} : i \in Indices(events, kind)}

\* convergence_by_generation.sql joins the run_end rows with the runs that
\* have model or tool calls: [runs, successes], the counts behind its means.
SqlConvergence(events, copies) ==
    LET latency == {events[i].run : i \in Indices(events, "model_call")
                                              \cup Indices(events, "tool_call")}
        joined == {row \in Rows(events, copies, "run_end") : events[row[1]].run \in latency}
    IN [runs |-> Cardinality(joined),
        successes |-> Cardinality({row \in joined : events[row[1]].mark})]

\* failure_clusters.sql: error_class and depth_bucket of both kinds of failure.
SqlFailure(e) ==
    <<e.kind, IF e.kind = "error" THEN SqlClass[e.name] ELSE e.name, Depth(e.step)>>
SqlFailures(events, copies) ==
    LET errors == Rows(events, copies, "error") \cup
                  {row \in Rows(events, copies, "tool_call") : events[row[1]].mark}
    IN [key \in {SqlFailure(events[row[1]]) : row \in errors} |->
          Cardinality({row \in errors : SqlFailure(events[row[1]]) = key})]

\* PARTITION BY run_id ORDER BY step; rows of one step are copies of one event.
Before(events, p, q) ==
    /\ events[p[1]].run = events[q[1]].run
    /\ \/ events[p[1]].step < events[q[1]].step
       \/ p[1] = q[1] /\ p[2] < q[2]

\* LAG over this order: p is the row before q.
Lag(events, rows, p, q) ==
    /\ Before(events, p, q)
    /\ \A m \in rows : ~(Before(events, p, m) /\ Before(events, m, q))

SqlTransitions(events, copies) ==
    LET rows == Rows(events, copies, "tool_call")
    IN [edge \in Tools \X Tools |->
          Cardinality({q \in rows : \E p \in rows :
                          /\ Lag(events, rows, p, q)
                          /\ edge = <<events[p[1]].name, events[q[1]].name>>})]

\* retry_storms.sql: the runs and tools of the rows with repeat_window >= 2, that
\* is of which, with the two rows before them, two repeat the call before them.
RetryStorms(events, copies) ==
    LET rows == Rows(events, copies, "tool_call")
        repeats == {q \in rows : \E p \in rows :
                       Lag(events, rows, p, q) /\ events[p[1]].name = events[q[1]].name}
        preceding(q) == {p \in rows : Lag(events, rows, p, q)}
        window(q) == {q} \cup preceding(q) \cup UNION {preceding(p) : p \in preceding(q)}
    IN {<<events[q[1]].run, events[q[1]].name>> :
           q \in {r \in rows : Cardinality(window(r) \cap repeats) >= 2}}
=============================================================================
