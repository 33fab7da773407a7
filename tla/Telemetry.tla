------------------------------ MODULE Telemetry ------------------------------
(***************************************************************************)
(* The path of a trace event: TraceCollector (collector.py) buffers it, a  *)
(* _TeeSink (orchestrator.py) writes each batch to the durable sink and    *)
(* then to a copy in memory, and the durable sink is a BigQuerySink        *)
(* (bigquery_sink.py) with bounded retries and a dead-letter file.         *)
(*                                                                         *)
(* write() blocks its caller: while `sink' is not idle, whoever called it  *)
(* waits, and an exception of write() is an exception of the caller.       *)
(***************************************************************************)
EXTENDS Integers, Sequences, FiniteSets

CONSTANTS
    Events,       \* the events a generation can record
    FlushEvery,   \* TraceCollector.flush_every
    MaxInserts    \* MAX_RETRIES

ASSUME TelemetryAssumption ==
    /\ FlushEvery \in Nat \ {0}
    /\ MaxInserts \in Nat \ {0}

VARIABLES
    buffer,      \* TraceCollector._buffer
    local,       \* events of the MemorySink behind the tee
    sink,        \* the executing BigQuerySink.write: its step and attempt
    batch,       \* the rows it writes
    table,       \* how often each row is in execution_traces
    deadLetter   \* how often each row is in the dead-letter file

telemetryVars == <<buffer, local, sink, batch, table, deadLetter>>

SinkIdle == [op |-> "idle", attempt |-> 0]

TelemetryTypeOK ==
    /\ buffer \in Seq(Events)
    /\ local \in Seq(Events)
    /\ sink \in [op : {"idle", "insert", "dead letter", "raised"},
                 attempt : 0 .. MaxInserts]
    /\ batch \in Seq(Events)
    /\ table \in [Events -> Nat]
    /\ deadLetter \in [Events -> Nat]

TelemetryInit ==
    /\ buffer = <<>>
    /\ local = <<>>
    /\ sink = SinkIdle
    /\ batch = <<>>
    /\ table = [e \in Events |-> 0]
    /\ deadLetter = [e \in Events |-> 0]

Occurrences(e, rows) == Cardinality({i \in DOMAIN rows : rows[i] = e})

Stored(store, rows) == [e \in Events |-> store[e] + Occurrences(e, rows)]

-----------------------------------------------------------------------------

\* write(rows) of the durable sink begins.
BeginWrite(rows) ==
    /\ sink' = [op |-> "insert", attempt |-> 0]
    /\ batch' = rows

\* _append, and flush() if the buffer is full or the caller asks for it.
Collect(e, flush) ==
    /\ sink = SinkIdle
    /\ buffer' = Append(buffer, e)
    /\ IF flush \/ Len(buffer') >= FlushEvery
       THEN BeginWrite(buffer')
       ELSE UNCHANGED <<sink, batch>>
    /\ UNCHANGED <<local, table, deadLetter>>

Flush ==
    /\ sink = SinkIdle
    /\ IF buffer # <<>> THEN BeginWrite(buffer) ELSE UNCHANGED <<sink, batch>>
    /\ UNCHANGED <<buffer, local, table, deadLetter>>

\* record_security_incident writes past the collector and the tee.
WriteDirectly(e) ==
    /\ sink = SinkIdle
    /\ BeginWrite(<<e>>)
    /\ UNCHANGED <<buffer, local, table, deadLetter>>

\* Mutant: a flush leaves the buffer as it is.
WrittenKept ==
    /\ local' = local \o buffer
    /\ batch' = <<>>
    /\ sink' = SinkIdle
    /\ UNCHANGED buffer

\* write() of the durable sink returns: the tee writes the copy and the
\* collector empties its buffer, which an incident has found empty.
Written ==
    /\ local' = local \o buffer
    /\ buffer' = <<>>
    /\ batch' = <<>>
    /\ sink' = SinkIdle

InsertAccepted ==
    /\ sink.op = "insert"
    /\ table' = Stored(table, batch)
    /\ Written
    /\ UNCHANGED deadLetter

\* Mutant: one attempt too many.
NextAttemptLate ==
    sink' = IF sink.attempt = MaxInserts
            THEN [op |-> "dead letter", attempt |-> sink.attempt]
            ELSE [op |-> "insert", attempt |-> sink.attempt + 1]

NextAttempt ==
    sink' = [op |-> IF sink.attempt + 1 = MaxInserts THEN "dead letter" ELSE "insert",
             attempt |-> sink.attempt + 1]

\* Row errors or a transport error.  An error that hides the answer of a
\* request that was carried out leaves the rows in the table.
InsertFails ==
    /\ sink.op = "insert"
    /\ table' \in {table, Stored(table, batch)}
    /\ NextAttempt
    /\ UNCHANGED <<buffer, local, batch, deadLetter>>

\* Mutant: undeliverable rows are dropped.
DeadLetterDropped ==
    /\ sink.op = "dead letter"
    /\ Written
    /\ UNCHANGED <<table, deadLetter>>

DeadLetter ==
    /\ sink.op = "dead letter"
    /\ deadLetter' = Stored(deadLetter, batch)
    /\ Written
    /\ UNCHANGED table

\* The file system fails while _dead_letter writes row by row: OSError leaves
\* write(), with the rows before it in the file and the buffer as it was.
DeadLetterFails ==
    /\ sink.op = "dead letter"
    /\ \E n \in 0 .. Len(batch) :
          deadLetter' = Stored(deadLetter, SubSeq(batch, 1, n))
    /\ sink' = [sink EXCEPT !.op = "raised"]
    /\ UNCHANGED <<buffer, local, batch, table>>

SinkStep == InsertAccepted \/ InsertFails \/ DeadLetter \/ DeadLetterFails

\* The process dies: only the table and the dead-letter file are left.
LoseMemory ==
    /\ buffer' = <<>>
    /\ local' = <<>>
    /\ batch' = <<>>
    /\ sink' = SinkIdle
    /\ UNCHANGED <<table, deadLetter>>
=============================================================================
