--------------------------- MODULE TrainingProofs ---------------------------
(***************************************************************************)
(* The training batch for any number of episodes, steps and retries: types,*)
(* the copy the analyzer reads, the window of the context, delivery (what  *)
(* has ended is stored, and no row too often), the shape of the traces and *)
(* the numbers of the report.                                              *)
(***************************************************************************)
EXTENDS Training, FiniteSetTheorems, TLAPS

-----------------------------------------------------------------------------
(* Sequences and stores                                                    *)

LEMMA ConcatAppend ==
    ASSUME NEW S, NEW s \in Seq(S), NEW t \in Seq(S), NEW e \in S
    PROVE  s \o Append(t, e) = Append(s \o t, e)
  OBVIOUS

LEMMA ConcatEmpty ==
    ASSUME NEW S, NEW s \in Seq(S)
    PROVE  s \o <<>> = s
  OBVIOUS

LEMMA ConcatElements ==
    ASSUME NEW S, NEW s \in Seq(S), NEW t \in Seq(S), NEW i \in DOMAIN (s \o t)
    PROVE  \/ i \in DOMAIN s /\ (s \o t)[i] = s[i]
           \/ i - Len(s) \in DOMAIN t /\ (s \o t)[i] = t[i - Len(s)]
  OBVIOUS

LEMMA OccurrencesType ==
    ASSUME NEW rows \in Seq(Events), NEW e
    PROVE  /\ Occurrences(e, rows) \in Nat
           /\ (\E i \in DOMAIN rows : rows[i] = e) => Occurrences(e, rows) >= 1
           /\ (\A i \in DOMAIN rows : rows[i] # e) => Occurrences(e, rows) = 0
  <1> DEFINE At == {i \in DOMAIN rows : rows[i] = e}
  <1>1. IsFiniteSet(At)
    <2>1. At \subseteq 1 .. Len(rows) /\ Len(rows) \in Nat
      OBVIOUS
    <2>2. IsFiniteSet(1 .. Len(rows))
      BY <2>1, FS_Interval
    <2> QED
      BY <2>1, <2>2, FS_Subset
  <1>2. Cardinality(At) \in Nat /\ (Cardinality(At) = 0 <=> At = {})
    BY <1>1, FS_CardinalityType, FS_EmptySet
  <1>3. Occurrences(e, rows) = Cardinality(At)
    BY DEF Occurrences
  <1> QED
    BY <1>2, <1>3

\* A row that is in a batch once counts at most once, in any part of it too.
LEMMA OccursOnce ==
    ASSUME NEW rows \in Seq(Events), NEW e,
           \A i, j \in DOMAIN rows : rows[i] = rows[j] => i = j
    PROVE  Occurrences(e, rows) <= 1
  <1> DEFINE At == {i \in DOMAIN rows : rows[i] = e}
  <1>1. CASE At = {}
    BY <1>1, OccurrencesType
  <1>2. CASE At # {}
    <2>1. PICK k : At = {k}
      BY <1>2
    <2>2. Cardinality(At) = 1
      BY <2>1, FS_Singleton
    <2> QED
      BY <2>2 DEF Occurrences
  <1> QED
    BY <1>1, <1>2

LEMMA StoredType ==
    ASSUME NEW store \in [Events -> Nat], NEW rows \in Seq(Events)
    PROVE  /\ Stored(store, rows) \in [Events -> Nat]
           /\ \A e \in Events :
                 /\ Stored(store, rows)[e] = store[e] + Occurrences(e, rows)
                 /\ Stored(store, rows)[e] >= store[e]
  <1>1. \A e \in Events : Occurrences(e, rows) \in Nat
    BY OccurrencesType
  <1> QED
    BY <1>1 DEF Stored

LEMMA StoredHolds ==
    ASSUME NEW store \in [Events -> Nat], NEW rows \in Seq(Events),
           NEW i \in DOMAIN rows
    PROVE  Stored(store, rows)[rows[i]] >= 1
  <1>1. rows[i] \in Events
    OBVIOUS
  <1>2. Occurrences(rows[i], rows) \in Nat /\ Occurrences(rows[i], rows) >= 1
    BY OccurrencesType
  <1> QED
    BY <1>1, <1>2 DEF Stored

\* The first rows of a batch.
LEMMA Prefix ==
    ASSUME NEW rows \in Seq(Events), NEW n \in 0 .. Len(rows)
    PROVE  /\ SubSeq(rows, 1, n) \in Seq(Events)
           /\ \A i \in DOMAIN SubSeq(rows, 1, n) :
                 i \in DOMAIN rows /\ SubSeq(rows, 1, n)[i] = rows[i]
  OBVIOUS

-----------------------------------------------------------------------------
(* Types                                                                   *)

\* Between two turns of the agent's loop a span is a step, and the history has
\* at most one message more than steps.
TypeInv ==
    /\ TypeOK
    /\ pc \in {"act", "end"} => run \in Runs
    /\ pc = "act" => spans = step /\ messages \in 1 .. step + 1
    /\ sink.op = "insert" => sink.attempt < MaxInserts

Alert == Event(0, "security_alert", 0, FALSE)

LEMMA EventTypes ==
    /\ \A r \in Runs : Event(r, "run_start", 0, FALSE) \in Events
    /\ \A r \in Runs, success \in BOOLEAN : Event(r, "run_end", 0, success) \in Events
    /\ \A r \in Runs, kind \in Spans, k \in 1 .. MaxSteps : Event(r, kind, k, FALSE) \in Events
    /\ Alert \in Events
  BY EventsAssumption DEF TrainingEvents, Event, Alert

LEMMA Attempts ==
    /\ 0 \in 0 .. MaxInserts /\ 0 < MaxInserts
    /\ \A a \in 0 .. MaxInserts :
          a < MaxInserts => /\ a + 1 \in 0 .. MaxInserts
                            /\ a + 1 # MaxInserts => a + 1 < MaxInserts
  BY TelemetryAssumption

LEMMA SeqClosed ==
    /\ <<>> \in Seq(Events)
    /\ \A s \in Seq(Events), e \in Events : Append(s, e) \in Seq(Events)
    /\ \A s, t \in Seq(Events) : s \o t \in Seq(Events)
  OBVIOUS

LEMMA IdleType ==
    /\ SinkIdle \in [op : {"idle", "insert", "dead letter", "raised"}, attempt : 0 .. MaxInserts]
    /\ SinkIdle.op = "idle"
  BY Attempts DEF SinkIdle

\* An action of the agent records at most one event, and only while write() is
\* not under way.
LEMMA CollectType ==
    ASSUME TypeInv, NEW e \in Events, NEW flush \in BOOLEAN, Record(e, flush)
    PROVE  /\ TelemetryTypeOK'
           /\ recorded' \in Seq(Events)
           /\ sink'.op = "insert" => sink'.attempt < MaxInserts
  <1>0. /\ TelemetryTypeOK /\ recorded \in Seq(Events)
        /\ sink.op = "insert" => sink.attempt < MaxInserts
    BY DEF TypeInv, TypeOK
  <1>1. /\ buffer' = Append(buffer, e) /\ recorded' = Append(recorded, e)
        /\ UNCHANGED <<local, table, deadLetter>>
        /\ \/ sink' = [op |-> "insert", attempt |-> 0] /\ batch' = buffer'
           \/ UNCHANGED <<sink, batch>>
    BY DEF Record, Collect, BeginWrite
  <1>2. buffer' \in Seq(Events) /\ recorded' \in Seq(Events)
    BY <1>0, <1>1, SeqClosed DEF TelemetryTypeOK
  <1>4. CASE sink' = [op |-> "insert", attempt |-> 0] /\ batch' = buffer'
    BY <1>0, <1>1, <1>2, <1>4, Attempts DEF TelemetryTypeOK
  <1>5. CASE UNCHANGED <<sink, batch>>
    BY <1>0, <1>1, <1>2, <1>5 DEF TelemetryTypeOK
  <1> QED
    BY <1>1, <1>4, <1>5

LEMMA SinkType ==
    ASSUME TypeInv, SinkStep
    PROVE  /\ TelemetryTypeOK'
           /\ sink'.op = "insert" => sink'.attempt < MaxInserts
  <1>0. TelemetryTypeOK /\ (sink.op = "insert" => sink.attempt < MaxInserts)
    BY DEF TypeInv, TypeOK
  <1>1. /\ local \o buffer \in Seq(Events)
        /\ <<>> \in Seq(Events)
    BY <1>0, SeqClosed DEF TelemetryTypeOK
  <1>2. CASE InsertAccepted
    <2>1. table' \in [Events -> Nat]
      BY <1>0, <1>2, StoredType DEF InsertAccepted, TelemetryTypeOK
    <2> QED
      BY <1>0, <1>1, <1>2, <2>1, IdleType DEF InsertAccepted, Written, TelemetryTypeOK
  <1>3. CASE InsertFails
    <2>1. table' \in [Events -> Nat]
      <3>1. Stored(table, batch) \in [Events -> Nat] /\ table \in [Events -> Nat]
        BY <1>0, StoredType DEF TelemetryTypeOK
      <3> QED
        BY <1>3, <3>1 DEF InsertFails
    <2>2. sink.attempt \in 0 .. MaxInserts /\ sink.attempt < MaxInserts
      BY <1>0, <1>3 DEF InsertFails, TelemetryTypeOK
    <2>3. sink.attempt + 1 \in 0 .. MaxInserts
          /\ (sink.attempt + 1 # MaxInserts => sink.attempt + 1 < MaxInserts)
      BY <2>2, Attempts
    <2>4. /\ sink' \in [op : {"idle", "insert", "dead letter", "raised"},
                        attempt : 0 .. MaxInserts]
          /\ sink'.op = "insert" => sink'.attempt < MaxInserts
      BY <1>3, <2>3 DEF InsertFails, NextAttempt
    <2> QED
      BY <1>0, <1>3, <2>1, <2>4 DEF InsertFails, TelemetryTypeOK
  <1>4. CASE DeadLetter
    <2>1. deadLetter' \in [Events -> Nat]
      BY <1>0, <1>4, StoredType DEF DeadLetter, TelemetryTypeOK
    <2> QED
      BY <1>0, <1>1, <1>4, <2>1, IdleType DEF DeadLetter, Written, TelemetryTypeOK
  <1>5. CASE DeadLetterFails
    <2>1. PICK n \in 0 .. Len(batch) : deadLetter' = Stored(deadLetter, SubSeq(batch, 1, n))
      BY <1>5 DEF DeadLetterFails
    <2>2. SubSeq(batch, 1, n) \in Seq(Events)
      BY <1>0, Prefix DEF TelemetryTypeOK
    <2>3. deadLetter' \in [Events -> Nat]
      BY <1>0, <2>1, <2>2, StoredType DEF TelemetryTypeOK
    <2> QED
      BY <1>0, <1>5, <2>3 DEF DeadLetterFails, TelemetryTypeOK
  <1> QED
    BY <1>2, <1>3, <1>4, <1>5 DEF SinkStep

LEMMA LoseMemoryType ==
    ASSUME TypeInv, LoseMemory
    PROVE  TelemetryTypeOK' /\ sink'.op = "idle"
  BY IdleType, SeqClosed DEF TypeInv, TypeOK, TelemetryTypeOK, LoseMemory

LEMMA InitType == Init => TypeInv
  <1> SUFFICES ASSUME Init PROVE TypeInv
    OBVIOUS
  <1>1. TelemetryTypeOK
    BY IdleType, SeqClosed DEF Init, TelemetryInit, TelemetryTypeOK
  <1>2. sink.op = "idle"
    BY IdleType DEF Init, TelemetryInit
  <1>3. 0 \in 0 .. NumRuns /\ 0 \in 0 .. MaxSteps /\ 0 \in 0 .. MaxSteps + 1 /\ 0 \in 0 .. MaxCalls
    BY TrainingAssumption
  <1> QED
    BY <1>1, <1>2, <1>3, SeqClosed DEF Init, TypeInv, TypeOK

LEMMA StepType == TypeInv /\ [Next]_vars => TypeInv'
  <1> SUFFICES ASSUME TypeInv, [Next]_vars PROVE TypeInv'
    OBVIOUS
  <1> DEFINE AgentType ==
        /\ pc \in {"next", "act", "end", "hung", "analyze", "alerting"} \cup Stopped
        /\ mutated \in BOOLEAN
        /\ run \in 0 .. NumRuns
        /\ step \in 0 .. MaxSteps
        /\ spans \in 0 .. MaxSteps
        /\ done \in BOOLEAN
        /\ terminal \in BOOLEAN
        /\ messages \in 0 .. MaxSteps + 1
        /\ calls \in 0 .. MaxCalls
        /\ pc \in {"act", "end"} => run \in Runs
        /\ pc = "act" => spans = step /\ messages \in 1 .. step + 1
  <1> DEFINE SinkOK == /\ TelemetryTypeOK
                       /\ recorded \in Seq(Events)
                       /\ sink.op = "insert" => sink.attempt < MaxInserts
  <1>0. AgentType /\ SinkOK /\ (AgentType' /\ SinkOK' => TypeInv')
    BY DEF TypeInv, TypeOK
  <1>1. CASE StartRun
    <2>1. run + 1 \in Runs
      BY <1>0, <1>1, TrainingAssumption DEF StartRun, Runs
    <2>2. SinkOK'
      BY <1>1, <2>1, EventTypes, CollectType DEF StartRun
    <2>3. AgentType'
      <3>1. /\ run' \in Runs /\ run' \in 0 .. NumRuns
            /\ 0 \in 0 .. MaxSteps /\ 1 \in 0 .. MaxSteps + 1 /\ 1 \in 1 .. 0 + 1
            /\ 0 \in 0 .. MaxCalls
        BY <1>1, <2>1, TrainingAssumption DEF StartRun, Runs
      <3>2. terminal' \in BOOLEAN
        BY <1>1, TrainingAssumption DEF StartRun, Heard
      <3> QED
        BY <1>0, <1>1, <3>1, <3>2 DEF StartRun
    <2> QED
      BY <1>0, <2>2, <2>3
  <1>2. CASE CallFails \/ Hang
    <2>1. AgentType'
      BY <1>0, <1>2, TrainingAssumption DEF CallFails, Hang, agentVars
    <2>2. SinkOK'
      BY <1>0, <1>2 DEF CallFails, Hang, telemetryVars, TelemetryTypeOK
    <2> QED
      BY <1>0, <2>1, <2>2
  <1>3. ASSUME Acting, NEW kind \in Spans, RecordSpan(kind)
        PROVE  SinkOK' /\ spans' = step + 1 /\ spans' \in 1 .. MaxSteps
    <2>1. pc = "act" /\ step < MaxSteps
      BY <1>3 DEF Acting
    <2>2. spans + 1 \in 1 .. MaxSteps /\ run \in Runs
      BY <1>0, <2>1, TrainingAssumption
    <2>3. SinkOK'
      BY <1>3, <2>2, EventTypes, CollectType DEF RecordSpan
    <2> QED
      BY <1>0, <1>3, <2>1, <2>2, <2>3 DEF RecordSpan
  <1>4. CASE HarnessRaises
    <2>1. Acting /\ RecordSpan("error") /\ pc = "act"
      BY <1>4 DEF HarnessRaises, Acting
    <2>2. SinkOK' /\ spans' \in 1 .. MaxSteps
      BY <1>3, <2>1 DEF Spans
    <2>3. AgentType'
      BY <1>0, <1>4, <2>1, <2>2, TrainingAssumption
      DEF HarnessRaises, RecordSpan, MayBeDone, Stopped
    <2> QED
      BY <1>0, <2>2, <2>3
  <1>5. CASE Terminate
    <2>1. Acting /\ RecordSpan("terminate") /\ pc = "act"
      BY <1>5 DEF Terminate, Acting
    <2>2. SinkOK' /\ spans' = step + 1 /\ spans' \in 1 .. MaxSteps
      BY <1>3, <2>1 DEF Spans
    <2>3. AgentType'
      BY <1>0, <1>5, <2>1, <2>2, TrainingAssumption DEF Terminate, RecordSpan
    <2> QED
      BY <1>0, <2>2, <2>3
  <1>6. CASE Act
    <2>1. Acting /\ RecordSpan("call") /\ "call" \in Spans /\ pc = "act"
      BY <1>6 DEF Act, Acting, Spans
    <2>2. SinkOK' /\ spans' = step + 1 /\ spans' \in 1 .. MaxSteps
      BY <1>3, <2>1
    <2>3. terminal' \in BOOLEAN /\ done' \in BOOLEAN
      BY <1>0, <1>6 DEF Act, MayBeDone, Heard
    <2>4. AgentType'
      BY <1>0, <1>6, <2>1, <2>2, <2>3, TrainingAssumption DEF Act, RecordSpan
    <2> QED
      BY <1>0, <2>2, <2>4
  <1>7. CASE MalformedAction \/ SinkRaises \/ Killed
    <2>1. LoseMemory /\ pc' \in Stopped /\ pc' \notin {"act", "end"}
          /\ UNCHANGED <<mutated, agentVars, recorded>>
      BY <1>7 DEF MalformedAction, SinkRaises, Killed, Stopped
    <2>2. SinkOK'
      BY <1>0, <2>1, LoseMemoryType
    <2>3. AgentType'
      BY <1>0, <2>1 DEF agentVars
    <2> QED
      BY <1>0, <2>2, <2>3
  <1>8. CASE EndRun
    <2>1. run \in Runs /\ done \in BOOLEAN
      BY <1>0, <1>8 DEF EndRun, Acting
    <2>2. SinkOK'
      BY <1>8, <2>1, EventTypes, CollectType DEF EndRun
    <2>3. AgentType'
      BY <1>0, <1>8 DEF EndRun, agentVars
    <2> QED
      BY <1>0, <2>2, <2>3
  <1>9. CASE FinishBatch \/ NoIncident \/ Incident \/ IncidentWritten
    <2>1. /\ \/ UNCHANGED <<sink, batch>>
             \/ sink' = [op |-> "insert", attempt |-> 0] /\ batch' \in {buffer, <<Alert>>}
          /\ UNCHANGED <<buffer, local, table, deadLetter>>
          /\ UNCHANGED <<mutated, agentVars, recorded>>
          /\ pc' \in {"analyze", "alerting", "done"}
      BY <1>9 DEF FinishBatch, NoIncident, Incident, IncidentWritten, Flush, WriteDirectly,
                  BeginWrite, telemetryVars, Alert
    <2>2. <<Alert>> \in Seq(Events) /\ 0 \in 0 .. MaxInserts /\ 0 < MaxInserts
      BY EventTypes, TelemetryAssumption
    <2>3. SinkOK'
      <3>1. CASE UNCHANGED <<sink, batch>>
        BY <1>0, <2>1, <3>1 DEF TelemetryTypeOK
      <3>2. CASE sink' = [op |-> "insert", attempt |-> 0] /\ batch' \in {buffer, <<Alert>>}
        BY <1>0, <2>1, <2>2, <3>2 DEF TelemetryTypeOK
      <3> QED
        BY <2>1, <3>1, <3>2
    <2>4. AgentType'
      BY <1>0, <2>1 DEF agentVars, Stopped
    <2> QED
      BY <1>0, <2>3, <2>4
  <1>10. CASE SinkWorks
    <2>1. SinkOK'
      BY <1>0, <1>10, SinkType DEF SinkWorks
    <2>2. AgentType'
      BY <1>0, <1>10 DEF SinkWorks, agentVars
    <2> QED
      BY <1>0, <2>1, <2>2
  <1>11. CASE UNCHANGED vars
    <2>1. SinkOK'
      BY <1>0, <1>11 DEF vars, telemetryVars, TelemetryTypeOK
    <2>2. AgentType'
      BY <1>0, <1>11 DEF vars, agentVars
    <2> QED
      BY <1>0, <2>1, <2>2
  <1> QED
    BY <1>1, <1>2, <1>4, <1>5, <1>6, <1>7, <1>8, <1>9, <1>10, <1>11
    DEF Next, TrainingStep, Spans

LEMMA TypeInvariant == Spec => []TypeInv
  BY InitType, StepType, PTL DEF Spec

\* Every variable keeps its type; in particular no episode makes more steps, or
\* holds more messages, than agent.max_steps allows, under any harness.
THEOREM TrainingTypeCorrect == Spec => []TypeOK
  BY TypeInvariant, PTL DEF TypeInv

-----------------------------------------------------------------------------
(* The context                                                             *)

LEMMA ContextIsSound ==
    ASSUME NEW n \in Nat \ {0}
    PROVE  /\ Len(Context(n)) <= MaxHistory + 1
           /\ Context(n)[2] = 1
           /\ Context(n)[Len(Context(n))] = n
           /\ \A i \in 1 .. Len(Context(n)) - 1 : Context(n)[i] < Context(n)[i + 1]
  <1>1. CASE n > MaxHistory
    <2> DEFINE tail == [i \in 1 .. MaxHistory - 1 |-> n - (MaxHistory - 1) + i]
    <2>1. Context(n) = <<0, 1>> \o tail
      BY <1>1 DEF Context
    <2>2. tail \in Seq(Int) /\ Len(tail) = MaxHistory - 1 /\ Len(tail) >= 1
      BY TrainingAssumption
    <2>3. /\ Len(Context(n)) = MaxHistory + 1
          /\ Context(n)[1] = 0 /\ Context(n)[2] = 1
          /\ \A i \in 3 .. MaxHistory + 1 : Context(n)[i] = tail[i - 2]
      BY <2>1, <2>2, TrainingAssumption
    <2>4. \A i \in 3 .. MaxHistory + 1 : Context(n)[i] = n - MaxHistory - 1 + i
      BY <2>3, TrainingAssumption
    <2>5. Context(n)[MaxHistory + 1] = n
      BY <2>4, TrainingAssumption
    <2>6. ASSUME NEW i \in 1 .. MaxHistory
          PROVE  Context(n)[i] < Context(n)[i + 1]
      <3>1. CASE i = 1
        BY <2>3, <3>1
      <3>2. CASE i = 2
        BY <1>1, <2>3, <2>4, <3>2, TrainingAssumption
      <3>3. CASE i > 2
        <4>1. i \in 3 .. MaxHistory + 1 /\ i + 1 \in 3 .. MaxHistory + 1
          BY <3>3, TrainingAssumption
        <4> QED
          BY <2>4, <4>1, TrainingAssumption
      <3> QED
        BY <3>1, <3>2, <3>3
    <2> QED
      BY <2>3, <2>5, <2>6, TrainingAssumption
  <1>2. CASE ~(n > MaxHistory)
    <2>1. Context(n) = [i \in 1 .. n + 1 |-> i - 1]
      BY <1>2 DEF Context
    <2>2. Len(Context(n)) = n + 1
      BY <2>1
    <2> QED
      BY <1>2, <2>1, <2>2, TrainingAssumption
  <1> QED
    BY <1>1, <1>2

\* For every window of at least two messages and every length of the history.
THEOREM ContextAlwaysSound == Spec => []ContextSound
  <1>1. TypeInv => ContextSound
    BY ContextIsSound DEF TypeInv, TypeOK, ContextSound
  <1> QED
    BY <1>1, TypeInvariant, PTL

-----------------------------------------------------------------------------
(* The way of an event                                                     *)

\* Who holds the events: while write() is under way its batch is the buffer, or
\* the incident, which has found the buffer empty; between two episodes, and when
\* the batch is over, nothing waits in the buffer.
FlowInv ==
    /\ LocalExact
    /\ pc \in {"dead", "raised"} => sink.op = "idle" /\ buffer = <<>>
    /\ pc = "next" /\ sink.op = "idle" => buffer = <<>>
    /\ pc \in {"analyze", "alerting", "done"} => buffer = <<>>
    /\ pc \in {"analyze", "done"} => sink.op = "idle"
    /\ pc # "alerting" /\ sink.op # "idle" => batch = buffer
    /\ pc = "alerting" /\ sink.op # "idle" => batch = <<Alert>>

\* The kinds of steps, as far as telemetry is concerned.
SpanStep ==
    /\ pc = "act" /\ pc' \in {"act", "end"}
    /\ step < MaxSteps
    /\ ~done
    /\ \E kind \in Spans :
          /\ RecordSpan(kind)
          /\ kind \in {"error", "terminate"} => pc' = "end" \/ done'
          /\ ~mutated => (done' <=> kind = "terminate")

Quiet ==
    /\ UNCHANGED <<telemetryVars, mutated, recorded, run, spans, done>>
    /\ \/ pc' = pc
       \/ sink.op = "idle" /\ mutated /\ pc = "act" /\ pc' = "hung"
       \/ sink.op = "idle" /\ pc \in {"analyze", "alerting"} /\ pc' = "done"
       \/ sink.op = "idle" /\ pc = "next" /\ run = NumRuns /\ buffer = <<>> /\ pc' = "analyze"

Lost ==
    /\ LoseMemory
    /\ pc' \in {"dead", "raised"}
    /\ UNCHANGED <<mutated, recorded, run, spans, done>>

LEMMA StepKinds ==
    ASSUME FlowInv, [Next]_vars
    PROVE  \/ StartRun \/ SpanStep \/ EndRun \/ Quiet \/ Lost \/ Incident \/ SinkWorks
  <1>1. CASE HarnessRaises
    <2>1. done' = FALSE \/ mutated
      BY <1>1 DEF HarnessRaises, MayBeDone, Acting
    <2> QED
      BY <1>1, <2>1 DEF HarnessRaises, SpanStep, Acting, Spans
  <1>2. CASE Terminate
    BY <1>2 DEF Terminate, SpanStep, Acting, Spans
  <1>3. CASE Act
    <2>1. done' = FALSE \/ mutated
      BY <1>3 DEF Act, MayBeDone, Acting
    <2> QED
      BY <1>3, <2>1 DEF Act, SpanStep, Acting, Spans
  <1>4. CASE CallFails \/ Hang
    BY <1>4 DEF CallFails, Hang, Quiet, Acting, SinkIdle, agentVars
  <1>5. CASE FinishBatch
    <2>1. sink.op = "idle" /\ pc = "next"
      BY <1>5 DEF FinishBatch, Flush, SinkIdle
    <2>2. buffer = <<>>
      BY <2>1 DEF FlowInv
    <2> QED
      BY <1>5, <2>1, <2>2 DEF FinishBatch, Flush, Quiet, agentVars, telemetryVars
  <1>6. CASE NoIncident \/ IncidentWritten
    BY <1>6 DEF NoIncident, IncidentWritten, SinkIdle, Quiet, agentVars
  <1>7. CASE MalformedAction \/ SinkRaises \/ Killed
    BY <1>7 DEF MalformedAction, SinkRaises, Killed, Lost, agentVars
  <1>8. CASE UNCHANGED vars
    BY <1>8 DEF vars, agentVars, Quiet
  <1> QED
    BY <1>1, <1>2, <1>3, <1>4, <1>5, <1>6, <1>7, <1>8 DEF Next, TrainingStep

\* Recording an event: the batch of a write() that begins is the whole buffer.
LEMMA RecordKeepsFlow ==
    ASSUME TypeInv, FlowInv, NEW e \in Events, NEW flush \in BOOLEAN, Record(e, flush),
           pc \notin {"dead", "raised"}
    PROVE  /\ sink.op = "idle"
           /\ buffer' = Append(buffer, e) /\ recorded' = Append(recorded, e)
           /\ UNCHANGED <<local, table, deadLetter>>
           /\ local' \o buffer' = recorded'
           /\ sink'.op # "idle" => batch' = buffer' /\ sink'.op = "insert" /\ sink'.attempt = 0
           /\ flush => sink'.op # "idle"
  <1>1. /\ sink.op = "idle"
        /\ buffer' = Append(buffer, e) /\ recorded' = Append(recorded, e)
        /\ UNCHANGED <<local, table, deadLetter>>
    BY DEF Record, Collect, SinkIdle
  <1>2. local \o Append(buffer, e) = Append(local \o buffer, e)
    <2>1. local \in Seq(Events) /\ buffer \in Seq(Events)
      BY DEF TypeInv, TypeOK, TelemetryTypeOK
    <2> QED
      BY <2>1, ConcatAppend
  <1>3. local' \o buffer' = recorded'
    BY <1>1, <1>2 DEF FlowInv, LocalExact
  <1>4. CASE flush \/ Len(buffer') >= FlushEvery
    <2>1. sink' = [op |-> "insert", attempt |-> 0] /\ batch' = buffer'
      BY <1>4 DEF Record, Collect, BeginWrite
    <2> QED
      BY <1>1, <1>3, <2>1
  <1>5. CASE ~(flush \/ Len(buffer') >= FlushEvery)
    BY <1>1, <1>3, <1>5 DEF Record, Collect
  <1> QED
    BY <1>4, <1>5

\* What write() does to its caller's buffer and to the copy.
LEMMA SinkFlow ==
    ASSUME TypeInv, FlowInv, SinkWorks
    PROVE  /\ sink.op # "idle"
           /\ UNCHANGED <<pc, recorded, run, spans>>
           /\ \/ buffer' = <<>> /\ local' = local \o buffer /\ sink'.op = "idle"
              \/ UNCHANGED <<buffer, local, batch>> /\ sink'.op # "idle"
  <1>1. CASE InsertAccepted \/ DeadLetter
    BY <1>1, IdleType DEF SinkWorks, InsertAccepted, DeadLetter, Written, agentVars
  <1>2. CASE InsertFails
    BY <1>2 DEF SinkWorks, InsertFails, NextAttempt, agentVars
  <1>3. CASE DeadLetterFails
    <2>1. sink' = [sink EXCEPT !.op = "raised"] /\ sink.op = "dead letter"
          /\ UNCHANGED <<buffer, local, batch>>
      BY <1>3 DEF DeadLetterFails
    <2>2. sink'.op = "raised"
      BY <2>1 DEF TypeInv, TypeOK, TelemetryTypeOK
    <2> QED
      BY <1>3, <2>1, <2>2 DEF SinkWorks, agentVars
  <1> QED
    BY <1>1, <1>2, <1>3 DEF SinkWorks, SinkStep

\* The event of a span.
LEMMA RecordedSpanType ==
    ASSUME TypeInv, pc = "act", NEW kind \in Spans, spans < MaxSteps
    PROVE  Event(run, kind, spans + 1, FALSE) \in Events
  <1>1. spans + 1 \in 1 .. MaxSteps /\ run \in Runs
    BY TrainingAssumption DEF TypeInv, TypeOK
  <1> QED
    BY <1>1, EventTypes

LEMMA InitFlow == Init => FlowInv
  <1>1. <<>> \o <<>> = <<>>
    BY SeqClosed, ConcatEmpty
  <1> QED
    BY <1>1, IdleType DEF Init, TelemetryInit, FlowInv, LocalExact

LEMMA StepFlow == TypeInv /\ FlowInv /\ [Next]_vars => FlowInv'
  <1> SUFFICES ASSUME TypeInv, FlowInv, [Next]_vars PROVE FlowInv'
    OBVIOUS
  <1>1. CASE StartRun
    <2>1. run + 1 \in Runs
      BY <1>1, TrainingAssumption DEF StartRun, TypeInv, TypeOK, Runs
    <2>2. Event(run + 1, "run_start", 0, FALSE) \in Events
      BY <2>1, EventTypes
    <2> QED
      BY <1>1, <2>2, RecordKeepsFlow DEF StartRun, FlowInv, LocalExact
  <1>2. CASE SpanStep
    <2>1. PICK kind \in Spans : RecordSpan(kind)
      BY <1>2 DEF SpanStep
    <2>2. pc = "act" /\ pc' \in {"act", "end"} /\ spans < MaxSteps
      BY <1>2 DEF SpanStep, TypeInv
    <2>3. PICK e \in Events : Record(e, FALSE)
      BY <2>1, <2>2, RecordedSpanType DEF RecordSpan
    <2> QED
      BY <2>2, <2>3, RecordKeepsFlow DEF FlowInv, LocalExact
  <1>3. CASE EndRun
    <2>1. pc \in {"act", "end"} /\ pc' = "next"
      BY <1>3 DEF EndRun
    <2>2. Event(run, "run_end", 0, done) \in Events
      BY <2>1, EventTypes DEF TypeInv, TypeOK
    <2> QED
      BY <1>3, <2>1, <2>2, RecordKeepsFlow DEF EndRun, FlowInv, LocalExact
  <1>4. CASE Quiet
    BY <1>4 DEF Quiet, telemetryVars, FlowInv, LocalExact
  <1>5. CASE Lost
    BY <1>5, IdleType DEF Lost, LoseMemory, FlowInv, LocalExact
  <1>6. CASE Incident
    <2>1. /\ sink' = [op |-> "insert", attempt |-> 0] /\ batch' = <<Alert>>
          /\ pc = "analyze" /\ pc' = "alerting"
          /\ UNCHANGED <<buffer, local, recorded>>
      BY <1>6 DEF Incident, WriteDirectly, BeginWrite, Alert
    <2> QED
      BY <2>1 DEF FlowInv, LocalExact
  <1>7. CASE SinkWorks
    <2>1. CASE buffer' = <<>> /\ local' = local \o buffer /\ sink'.op = "idle"
      <3>1. (local \o buffer) \o <<>> = local \o buffer
        <4>1. local \o buffer \in Seq(Events)
          BY SeqClosed DEF TypeInv, TypeOK, TelemetryTypeOK
        <4> QED
          BY <4>1, ConcatEmpty
      <3> QED
        BY <1>7, <2>1, <3>1, SinkFlow DEF FlowInv, LocalExact
    <2>2. CASE UNCHANGED <<buffer, local, batch>> /\ sink'.op # "idle"
      BY <1>7, <2>2, SinkFlow DEF FlowInv, LocalExact
    <2> QED
      BY <1>7, <2>1, <2>2, SinkFlow
  <1> QED
    BY <1>1, <1>2, <1>3, <1>4, <1>5, <1>6, <1>7, StepKinds

\* However often the durable sink has to try, and whatever fails, the copy that
\* the analyzer reads and the buffer are together what the agent recorded.
THEOREM LocalIsExact == Spec => []LocalExact
  <1>1. TypeInv /\ FlowInv => LocalExact
    BY DEF FlowInv
  <1> QED
    BY <1>1, InitType, InitFlow, StepType, StepFlow, PTL DEF Spec

-----------------------------------------------------------------------------
(* Delivery                                                                *)

Has(rows, file, e) == rows[e] + file[e] > 0

\* What is in the copy has been stored, and what is still in the buffer is of the
\* present episode.
DeliveryInv ==
    /\ \A i \in DOMAIN local : Has(table, deadLetter, local[i])
    /\ \A i \in DOMAIN buffer : buffer[i].run = run
    /\ EndedRunsDelivered

\* Nothing that is stored is ever taken away.
LEMMA StoresGrow ==
    ASSUME TypeInv, FlowInv, [Next]_vars
    PROVE  \A e \in Events : table'[e] >= table[e] /\ deadLetter'[e] >= deadLetter[e]
  <1>1. TelemetryTypeOK
    BY DEF TypeInv, TypeOK
  <1>2. \A e \in Events : table[e] \in Nat /\ deadLetter[e] \in Nat
    BY <1>1 DEF TelemetryTypeOK
  <1>3. CASE UNCHANGED <<table, deadLetter>>
    BY <1>2, <1>3
  <1>4. CASE SinkWorks
    <2>1. \A e \in Events : /\ Stored(table, batch)[e] >= table[e]
                            /\ Stored(deadLetter, batch)[e] >= deadLetter[e]
      BY <1>1, StoredType DEF TelemetryTypeOK
    <2>2. CASE InsertAccepted
      BY <1>2, <2>1, <2>2 DEF InsertAccepted
    <2>3. CASE InsertFails
      BY <1>2, <2>1, <2>3 DEF InsertFails
    <2>4. CASE DeadLetter
      <3>1. deadLetter' = Stored(deadLetter, batch) /\ table' = table
        BY <2>4 DEF DeadLetter
      <3> QED
        BY <1>2, <2>1, <3>1
    <2>5. CASE DeadLetterFails
      <3>1. PICK n \in 0 .. Len(batch) : deadLetter' = Stored(deadLetter, SubSeq(batch, 1, n))
        BY <2>5 DEF DeadLetterFails
      <3>2. SubSeq(batch, 1, n) \in Seq(Events)
        BY <1>1, Prefix DEF TelemetryTypeOK
      <3>3. \A e \in Events : deadLetter'[e] >= deadLetter[e]
        BY <1>1, <3>1, <3>2, StoredType DEF TelemetryTypeOK
      <3>4. table' = table
        BY <2>5 DEF DeadLetterFails
      <3> QED
        BY <1>2, <3>3, <3>4
    <2> QED
      BY <1>4, <2>2, <2>3, <2>4, <2>5 DEF SinkWorks, SinkStep
  <1>5. CASE StartRun \/ EndRun
    BY <1>3, <1>5 DEF StartRun, EndRun, Record, Collect
  <1>6. CASE SpanStep
    BY <1>3, <1>6 DEF SpanStep, RecordSpan, Record, Collect
  <1>7. CASE Quiet \/ Lost \/ Incident
    BY <1>3, <1>7 DEF Quiet, telemetryVars, Lost, LoseMemory, Incident, WriteDirectly
  <1> QED
    BY <1>4, <1>5, <1>6, <1>7, StepKinds

LEMMA DeliveredStays ==
    ASSUME TypeInv, TypeInv', FlowInv, [Next]_vars, NEW e \in Events, Has(table, deadLetter, e)
    PROVE  Has(table', deadLetter', e)
  <1>1. table[e] \in Nat /\ deadLetter[e] \in Nat /\ table'[e] \in Nat /\ deadLetter'[e] \in Nat
    BY DEF TypeInv, TypeOK, TelemetryTypeOK
  <1>2. table'[e] >= table[e] /\ deadLetter'[e] >= deadLetter[e]
    BY StoresGrow
  <1> QED
    BY <1>1, <1>2 DEF Has

\* A write() that returns has stored its batch, in the table or in the file.
LEMMA WrittenIsDelivered ==
    ASSUME TypeInv, TypeInv', FlowInv, SinkWorks, sink'.op = "idle",
           NEW i \in DOMAIN buffer
    PROVE  Has(table', deadLetter', buffer[i])
  <1>1. TelemetryTypeOK /\ TelemetryTypeOK'
    BY DEF TypeInv, TypeOK
  <1>2. batch = buffer
    <2>1. sink.op # "idle" /\ buffer # <<>>
      BY SinkFlow
    <2> QED
      BY <2>1 DEF FlowInv
  <1>3. buffer[i] \in Events
    <2>1. buffer \in Seq(Events)
      BY <1>1 DEF TelemetryTypeOK
    <2> QED
      BY <2>1
  <1>4. table'[buffer[i]] \in Nat /\ deadLetter'[buffer[i]] \in Nat
    BY <1>1, <1>3 DEF TelemetryTypeOK
  <1>5. /\ Stored(table, buffer)[buffer[i]] >= 1
        /\ Stored(deadLetter, buffer)[buffer[i]] >= 1
    BY <1>1, StoredHolds DEF TelemetryTypeOK
  <1>6. CASE InsertAccepted
    <2>1. table' = Stored(table, buffer)
      BY <1>2, <1>6 DEF InsertAccepted
    <2> QED
      BY <1>4, <1>5, <2>1 DEF Has
  <1>7. CASE DeadLetter
    <2>1. deadLetter' = Stored(deadLetter, buffer)
      BY <1>2, <1>7 DEF DeadLetter
    <2> QED
      BY <1>4, <1>5, <2>1 DEF Has
  <1>8. CASE InsertFails
    BY <1>8 DEF InsertFails, NextAttempt
  <1>9. CASE DeadLetterFails
    <2>1. sink'.op = "raised"
      BY <1>1, <1>9 DEF DeadLetterFails, TelemetryTypeOK
    <2> QED
      BY <2>1
  <1> QED
    BY <1>6, <1>7, <1>8, <1>9 DEF SinkWorks, SinkStep

\* While the process lives, delivery of what has ended follows from the copy and
\* the buffer.
LEMMA EndedFromCopy ==
    ASSUME TypeInv', FlowInv', pc' \notin {"dead", "raised"},
           \A i \in DOMAIN local' : Has(table', deadLetter', local'[i]),
           \A i \in DOMAIN buffer' : buffer'[i].run = run'
    PROVE  EndedRunsDelivered'
  <1>1. local' \in Seq(Events) /\ buffer' \in Seq(Events) /\ run' \in Int
    <2>1. TelemetryTypeOK' /\ run' \in 0 .. NumRuns
      BY DEF TypeInv, TypeOK
    <2>2. run' \in Int
      BY <2>1, TrainingAssumption
    <2> QED
      BY <2>1, <2>2 DEF TelemetryTypeOK
  <1>2. recorded' = local' \o buffer'
    BY DEF FlowInv, LocalExact
  <1>3. ASSUME NEW i \in DOMAIN recorded',
               recorded'[i].run < run' \/ pc' \in {"analyze", "alerting", "done"}
        PROVE  table'[recorded'[i]] + deadLetter'[recorded'[i]] > 0
    <2>1. CASE i \in DOMAIN local' /\ recorded'[i] = local'[i]
      BY <2>1 DEF Has
    <2>2. CASE i - Len(local') \in DOMAIN buffer' /\ recorded'[i] = buffer'[i - Len(local')]
      <3>1. buffer' # <<>> /\ recorded'[i].run = run'
        BY <2>2
      <3>2. pc' \notin {"analyze", "alerting", "done"}
        BY <3>1 DEF FlowInv
      <3> QED
        BY <1>1, <1>3, <3>1, <3>2
    <2> QED
      BY <1>1, <1>2, <2>1, <2>2, ConcatElements
  <1> QED
    BY <1>3 DEF EndedRunsDelivered

LEMMA InitDelivery == Init => DeliveryInv
  BY DEF Init, TelemetryInit, DeliveryInv, EndedRunsDelivered

LEMMA StepDelivery ==
    ASSUME TypeInv, TypeInv', FlowInv, FlowInv', DeliveryInv, [Next]_vars
    PROVE  DeliveryInv'
  <1>1. local \in Seq(Events) /\ buffer \in Seq(Events) /\ recorded \in Seq(Events)
    BY DEF TypeInv, TypeOK, TelemetryTypeOK
  <1>2. \A i \in DOMAIN local : Has(table', deadLetter', local[i])
    <2>1. \A i \in DOMAIN local : local[i] \in Events
      BY <1>1
    <2> QED
      BY <2>1, DeliveredStays DEF DeliveryInv
  <1>3. ASSUME UNCHANGED local PROVE \A i \in DOMAIN local' : Has(table', deadLetter', local'[i])
    BY <1>2, <1>3
  <1>4. ASSUME \A i \in DOMAIN local' : Has(table', deadLetter', local'[i]),
               \A i \in DOMAIN buffer' : buffer'[i].run = run',
               pc' \notin {"dead", "raised"}
        PROVE  DeliveryInv'
    <2>1. EndedRunsDelivered'
      BY <1>4, EndedFromCopy
    <2> QED
      BY <1>4, <2>1 DEF DeliveryInv
  <1>5. CASE StartRun
    <2>1. sink.op = "idle" /\ pc = "next"
      BY <1>5 DEF StartRun, Record, Collect, SinkIdle
    <2>2. buffer = <<>> /\ buffer' = Append(buffer, Event(run + 1, "run_start", 0, FALSE))
          /\ run' = run + 1 /\ UNCHANGED local /\ pc' = "act"
      BY <1>5, <2>1 DEF StartRun, Record, Collect, FlowInv
    <2>3. \A i \in DOMAIN buffer' : buffer'[i].run = run'
      BY <2>2 DEF Event
    <2> QED
      BY <1>3, <1>4, <2>2, <2>3
  <1>6. CASE SpanStep \/ EndRun
    <2>1. PICK e : /\ e.run = run /\ buffer' = Append(buffer, e)
                   /\ UNCHANGED <<run, local>> /\ pc' \in {"act", "end", "next"}
      <3>1. CASE SpanStep
        <4>1. PICK kind \in Spans : RecordSpan(kind)
          BY <3>1 DEF SpanStep
        <4>2. Event(run, kind, spans + 1, FALSE).run = run
          BY DEF Event
        <4> QED
          BY <3>1, <4>1, <4>2 DEF SpanStep, RecordSpan, Record, Collect
      <3>2. CASE EndRun
        <4>1. Event(run, "run_end", 0, done).run = run
          BY DEF Event
        <4> QED
          BY <3>2, <4>1 DEF EndRun, Record, Collect, agentVars
      <3> QED
        BY <1>6, <3>1, <3>2
    <2>2. \A i \in DOMAIN buffer' : buffer'[i].run = run'
      <3>1. \A i \in DOMAIN Append(buffer, e) :
               Append(buffer, e)[i] = e \/ (i \in DOMAIN buffer /\ Append(buffer, e)[i] = buffer[i])
        BY <1>1
      <3> QED
        BY <2>1, <3>1 DEF DeliveryInv
    <2> QED
      BY <1>3, <1>4, <2>1, <2>2
  <1>7. CASE Quiet
    <2>1. CASE pc' \notin {"dead", "raised"}
      <3>1. UNCHANGED <<local, buffer, run>>
        BY <1>7 DEF Quiet, telemetryVars
      <3> QED
        BY <1>3, <1>4, <2>1, <3>1 DEF DeliveryInv
    <2>2. CASE pc' \in {"dead", "raised"}
      <3>1. UNCHANGED <<telemetryVars, recorded, run, pc>>
        BY <1>7, <2>2 DEF Quiet
      <3> QED
        BY <3>1 DEF telemetryVars, DeliveryInv, EndedRunsDelivered, Has
    <2> QED
      BY <2>1, <2>2
  <1>8. CASE Lost
    <2>1. /\ local' = <<>> /\ buffer' = <<>>
          /\ UNCHANGED <<table, deadLetter, recorded, run>>
          /\ pc' \notin {"analyze", "alerting", "done"}
      BY <1>8 DEF Lost, LoseMemory
    <2> QED
      BY <2>1 DEF DeliveryInv, EndedRunsDelivered
  <1>9. CASE Incident
    <2>1. UNCHANGED <<local, buffer, run>> /\ pc' = "alerting"
      BY <1>9 DEF Incident, WriteDirectly, agentVars
    <2> QED
      BY <1>3, <1>4, <2>1 DEF DeliveryInv
  <1>10. CASE SinkWorks
    <2>0. UNCHANGED <<pc, run>> /\ pc \notin {"dead", "raised"}
      BY <1>10, SinkFlow DEF FlowInv
    <2>1. CASE UNCHANGED <<buffer, local>>
      BY <1>3, <1>4, <2>0, <2>1 DEF DeliveryInv
    <2>2. CASE buffer' = <<>> /\ local' = local \o buffer /\ sink'.op = "idle"
      <3>1. ASSUME NEW i \in DOMAIN local' PROVE Has(table', deadLetter', local'[i])
        <4>1. CASE i \in DOMAIN local /\ local'[i] = local[i]
          BY <1>2, <4>1
        <4>2. CASE i - Len(local) \in DOMAIN buffer /\ local'[i] = buffer[i - Len(local)]
          BY <1>10, <2>2, <4>2, WrittenIsDelivered
        <4> QED
          BY <1>1, <2>2, <4>1, <4>2, ConcatElements
      <3> QED
        BY <1>4, <2>0, <2>2, <3>1
    <2> QED
      BY <1>10, <2>1, <2>2, SinkFlow
  <1> QED
    BY <1>5, <1>6, <1>7, <1>8, <1>9, <1>10, StepKinds

BatchInv == TypeInv /\ FlowInv /\ DeliveryInv

LEMMA BatchInvariant == Spec => []BatchInv
  <1>1. Init => BatchInv
    BY InitType, InitFlow, InitDelivery DEF BatchInv
  <1>2. BatchInv /\ [Next]_vars => BatchInv'
    BY StepType, StepFlow, StepDelivery DEF BatchInv
  <1> QED
    BY <1>1, <1>2, PTL DEF Spec

\* For any sink that fails in any way, any retries and any death of the process:
\* every event of an episode that is over is in the table or the dead-letter file.
THEOREM EndedRunsAreDelivered == Spec => []EndedRunsDelivered
  <1>1. BatchInv => EndedRunsDelivered
    BY DEF BatchInv, DeliveryInv
  <1> QED
    BY <1>1, BatchInvariant, PTL

-----------------------------------------------------------------------------
(* Duplicates                                                              *)

Distinct(rows) == \A i, j \in DOMAIN rows : rows[i] = rows[j] => i = j

\* No event is recorded twice: episodes are numbered, the spans of the present
\* episode too, and it ends once.
FreshInv ==
    /\ Distinct(recorded)
    /\ \A i \in DOMAIN recorded :
          /\ recorded[i].run \in 1 .. run /\ recorded[i].step \in Nat
          /\ pc \in {"act", "end"} /\ recorded[i].run = run =>
                /\ recorded[i].kind # "run_end"
                /\ recorded[i].kind \in Spans => recorded[i].step <= spans

LEMMA AppendElements ==
    ASSUME NEW S, NEW s \in Seq(S), NEW e \in S
    PROVE  /\ DOMAIN Append(s, e) = 1 .. Len(s) + 1
           /\ Len(s) \in Nat /\ DOMAIN s = 1 .. Len(s)
           /\ Append(s, e)[Len(s) + 1] = e
           /\ \A i \in DOMAIN s : Append(s, e)[i] = s[i]
           /\ \A i \in DOMAIN Append(s, e) : i \in DOMAIN s \/ i = Len(s) + 1
  OBVIOUS

LEMMA DistinctAppend ==
    ASSUME NEW S, NEW s \in Seq(S), NEW e \in S, Distinct(s), \A i \in DOMAIN s : s[i] # e
    PROVE  Distinct(Append(s, e))
  <1> SUFFICES ASSUME NEW i \in DOMAIN Append(s, e), NEW j \in DOMAIN Append(s, e),
                      Append(s, e)[i] = Append(s, e)[j]
               PROVE  i = j
    BY DEF Distinct
  <1>1. CASE i \in DOMAIN s /\ j \in DOMAIN s
    BY <1>1, AppendElements DEF Distinct
  <1>2. CASE i \in DOMAIN s /\ j = Len(s) + 1
    BY <1>2, AppendElements
  <1>3. CASE i = Len(s) + 1 /\ j \in DOMAIN s
    BY <1>3, AppendElements
  <1> QED
    BY <1>1, <1>2, <1>3, AppendElements

LEMMA DistinctSuffix ==
    ASSUME NEW S, NEW s \in Seq(S), NEW t \in Seq(S), Distinct(s \o t)
    PROVE  Distinct(t)
  <1> SUFFICES ASSUME NEW i \in DOMAIN t, NEW j \in DOMAIN t, t[i] = t[j]
               PROVE  i = j
    BY DEF Distinct
  <1>1. /\ Len(s) + i \in DOMAIN (s \o t) /\ (s \o t)[Len(s) + i] = t[i]
        /\ Len(s) + j \in DOMAIN (s \o t) /\ (s \o t)[Len(s) + j] = t[j]
    OBVIOUS
  <1>2. Len(s) + i = Len(s) + j
    BY <1>1 DEF Distinct
  <1>3. Len(s) \in Nat /\ i \in Nat /\ j \in Nat
    OBVIOUS
  <1> QED
    BY <1>2, <1>3

\* The three kinds of events an agent records are new when they are recorded.
LEMMA StartIsFresh ==
    ASSUME TypeInv, FreshInv, StartRun, NEW i \in DOMAIN recorded
    PROVE  recorded[i] # Event(run + 1, "run_start", 0, FALSE)
  <1>1. recorded[i].run \in 1 .. run /\ run \in Int
    BY TrainingAssumption DEF FreshInv, TypeInv, TypeOK
  <1>2. recorded[i].run # run + 1
    BY <1>1
  <1> QED
    BY <1>2 DEF Event

LEMMA SpanIsFresh ==
    ASSUME TypeInv, FreshInv, pc = "act", NEW kind \in Spans, NEW i \in DOMAIN recorded
    PROVE  recorded[i] # Event(run, kind, spans + 1, FALSE)
  <1>1. recorded[i].run = run /\ recorded[i].kind \in Spans => recorded[i].step <= spans
    BY DEF FreshInv
  <1>2. spans \in Int
    BY TrainingAssumption DEF TypeInv, TypeOK
  <1>3. ~(spans + 1 <= spans)
    BY <1>2
  <1> QED
    BY <1>1, <1>3 DEF Event

LEMMA EndIsFresh ==
    ASSUME FreshInv, pc \in {"act", "end"}, NEW i \in DOMAIN recorded
    PROVE  recorded[i] # Event(run, "run_end", 0, done)
  BY DEF FreshInv, Event

LEMMA InitFresh == Init => FreshInv
  BY DEF Init, FreshInv, Distinct

LEMMA StepFresh ==
    ASSUME TypeInv, FlowInv, FreshInv, [Next]_vars
    PROVE  FreshInv'
  <1>0. recorded \in Seq(Events) /\ run \in Nat /\ spans \in Nat
    BY TrainingAssumption DEF TypeInv, TypeOK
  <1>1. CASE StartRun
    <2> DEFINE e == Event(run + 1, "run_start", 0, FALSE)
    <2>1. e \in Events
      <3>1. run + 1 \in Runs
        BY <1>0, <1>1, TrainingAssumption DEF StartRun, Runs
      <3> QED
        BY <3>1, EventTypes
    <2>2. recorded' = Append(recorded, e) /\ run' = run + 1
      BY <1>1 DEF StartRun, Record
    <2>3. Distinct(recorded')
      BY <1>0, <1>1, <2>1, <2>2, StartIsFresh, DistinctAppend DEF FreshInv
    <2>4. e.run = run + 1 /\ e.kind = "run_start" /\ e.step = 0
      BY DEF Event
    <2> HIDE DEF e
    <2>5. ASSUME NEW i \in DOMAIN recorded'
          PROVE  /\ recorded'[i].run \in 1 .. run' /\ recorded'[i].step \in Nat
                 /\ recorded'[i].run = run' =>
                       recorded'[i].kind # "run_end" /\ recorded'[i].kind \notin Spans
      <3>1. CASE i \in DOMAIN recorded /\ recorded'[i] = recorded[i]
        <4>1. recorded[i].run \in 1 .. run /\ recorded[i].step \in Nat
          BY <3>1 DEF FreshInv
        <4> QED
          BY <1>0, <2>2, <3>1, <4>1
      <3>2. CASE recorded'[i] = e
        <4>1. run + 1 \in 1 .. run + 1
          BY <1>0
        <4> QED
          BY <2>2, <2>4, <3>2, <4>1 DEF Spans
      <3> QED
        BY <1>0, <2>1, <2>2, <3>1, <3>2, AppendElements
    <2> QED
      BY <2>3, <2>5 DEF FreshInv
  <1>2. CASE SpanStep
    <2>1. PICK kind \in Spans : RecordSpan(kind)
      BY <1>2 DEF SpanStep
    <2> DEFINE e == Event(run, kind, spans + 1, FALSE)
    <2>2. pc = "act" /\ spans < MaxSteps /\ run \in Runs
      BY <1>2 DEF SpanStep, TypeInv
    <2>3. e \in Events
      BY <2>2, RecordedSpanType
    <2>4. recorded' = Append(recorded, e) /\ run' = run /\ spans' = spans + 1
      BY <2>1 DEF RecordSpan, Record
    <2>5. Distinct(recorded')
      BY <1>0, <2>2, <2>3, <2>4, SpanIsFresh, DistinctAppend DEF FreshInv
    <2>6. e.run = run /\ e.kind = kind /\ e.step = spans + 1
      BY DEF Event
    <2> HIDE DEF e
    <2>7. ASSUME NEW i \in DOMAIN recorded'
          PROVE  /\ recorded'[i].run \in 1 .. run' /\ recorded'[i].step \in Nat
                 /\ recorded'[i].run = run' =>
                       /\ recorded'[i].kind # "run_end"
                       /\ recorded'[i].kind \in Spans => recorded'[i].step <= spans'
      <3>1. CASE i \in DOMAIN recorded /\ recorded'[i] = recorded[i]
        <4>1. /\ recorded[i].run \in 1 .. run /\ recorded[i].step \in Nat
              /\ recorded[i].run = run => recorded[i].kind # "run_end"
          BY <2>2, <3>1 DEF FreshInv
        <4>2. ASSUME recorded[i].run = run, recorded[i].kind \in Spans
              PROVE  recorded[i].step <= spans + 1
          <5>1. recorded[i].step <= spans
            BY <2>2, <3>1, <4>2 DEF FreshInv
          <5> QED
            BY <1>0, <4>1, <5>1
        <4> QED
          BY <2>4, <3>1, <4>1, <4>2
      <3>2. CASE recorded'[i] = e
        <4>1. /\ run \in 1 .. run /\ spans + 1 <= spans + 1 /\ spans + 1 \in Nat
              /\ kind # "run_end"
          BY <1>0, <2>2 DEF Runs, Spans
        <4> QED
          BY <2>4, <2>6, <3>2, <4>1
      <3> QED
        BY <1>0, <2>3, <2>4, <3>1, <3>2, AppendElements
    <2> QED
      BY <2>5, <2>7 DEF FreshInv
  <1>3. CASE EndRun
    <2> DEFINE e == Event(run, "run_end", 0, done)
    <2>1. pc \in {"act", "end"} /\ pc' = "next"
      BY <1>3 DEF EndRun
    <2>2. run \in Runs /\ e \in Events
      BY <2>1, EventTypes DEF TypeInv, TypeOK
    <2>3. recorded' = Append(recorded, e) /\ run' = run
      BY <1>3 DEF EndRun, Record, agentVars
    <2>4. Distinct(recorded')
      BY <1>0, <2>1, <2>2, <2>3, EndIsFresh, DistinctAppend DEF FreshInv
    <2>5. e.run = run /\ e.step = 0
      BY DEF Event
    <2> HIDE DEF e
    <2>6. ASSUME NEW i \in DOMAIN recorded' 
          PROVE  recorded'[i].run \in 1 .. run' /\ recorded'[i].step \in Nat
      <3>1. run \in 1 .. run
        BY <1>0, <2>2 DEF Runs
      <3> QED
        BY <1>0, <2>2, <2>3, <2>5, <3>1, AppendElements DEF FreshInv
    <2> QED
      BY <2>1, <2>4, <2>6 DEF FreshInv
  <1>4. CASE Quiet
    BY <1>4 DEF Quiet, FreshInv
  <1>5. CASE Lost
    BY <1>5 DEF Lost, FreshInv
  <1>6. CASE Incident
    BY <1>6 DEF Incident, agentVars, FreshInv
  <1>7. CASE SinkWorks
    BY <1>7 DEF SinkWorks, agentVars, FreshInv
  <1> QED
    BY <1>1, <1>2, <1>3, <1>4, <1>5, <1>6, <1>7, StepKinds

\* A row has been sent as often as write() has tried, and no event that is not
\* recorded, still waits, or is an incident to come has been sent at all.
Unsent(e) == table[e] = 0 /\ deadLetter[e] = 0

CountInv ==
    /\ DuplicatesBounded
    /\ \A e \in Events : e # Alert /\ (\A i \in DOMAIN recorded : recorded[i] # e) => Unsent(e)
    /\ pc \in {"next", "act", "end", "analyze"} => Unsent(Alert)
    /\ sink.op = "idle" => \A i \in DOMAIN buffer : Unsent(buffer[i])
    /\ sink.op \in {"insert", "dead letter"} =>
          \A i \in DOMAIN batch : table[batch[i]] <= sink.attempt /\ deadLetter[batch[i]] = 0

LEMMA InitCount == Init => CountInv
  <1> SUFFICES ASSUME Init PROVE CountInv
    OBVIOUS
  <1>1. \A e \in Events : Unsent(e)
    BY DEF Init, TelemetryInit, Unsent
  <1>2. 0 <= MaxInserts /\ sink.op = "idle" /\ buffer = <<>>
    <2>1. 0 <= MaxInserts
      BY TelemetryAssumption
    <2> QED
      BY <2>1, IdleType DEF Init, TelemetryInit
  <1>3. DuplicatesBounded
    BY <1>1, <1>2 DEF Unsent, DuplicatesBounded
  <1> QED
    BY <1>1, <1>2, <1>3, EventTypes DEF CountInv

\* The batch of a write() holds no row twice.
LEMMA BatchDistinct ==
    ASSUME TypeInv, FlowInv, FreshInv, sink.op # "idle"
    PROVE  Distinct(batch)
  <1>1. CASE pc = "alerting"
    BY <1>1 DEF FlowInv, Distinct
  <1>2. CASE pc # "alerting"
    <2>1. batch = buffer /\ recorded = local \o buffer
      BY <1>2 DEF FlowInv, LocalExact
    <2>2. local \in Seq(Events) /\ buffer \in Seq(Events)
      BY DEF TypeInv, TypeOK, TelemetryTypeOK
    <2> QED
      BY <2>1, <2>2, DistinctSuffix DEF FreshInv
  <1> QED
    BY <1>1, <1>2

\* Recording a new event, and beginning to write it with what waits.
LEMMA RecordKeepsCount ==
    ASSUME TypeInv, FlowInv, CountInv, NEW e \in Events, NEW flush \in BOOLEAN,
           Record(e, flush), \A i \in DOMAIN recorded : recorded[i] # e, e # Alert,
           pc \in {"next", "act", "end"}
    PROVE  CountInv'
  <1>1. /\ sink.op = "idle"
        /\ buffer' = Append(buffer, e) /\ recorded' = Append(recorded, e)
        /\ UNCHANGED <<table, deadLetter>>
        /\ sink'.op # "idle" => batch' = buffer' /\ sink'.op = "insert" /\ sink'.attempt = 0
    BY RecordKeepsFlow
  <1>2. buffer \in Seq(Events) /\ recorded \in Seq(Events)
    BY DEF TypeInv, TypeOK, TelemetryTypeOK
  <1>3. Unsent(e)
    BY DEF CountInv
  <1>4. \A i \in DOMAIN buffer' : table'[buffer'[i]] = 0 /\ deadLetter'[buffer'[i]] = 0
    BY <1>1, <1>2, <1>3, AppendElements DEF CountInv, Unsent
  <1>5. DuplicatesBounded'
    BY <1>1 DEF CountInv, DuplicatesBounded
  <1>6. ASSUME NEW f \in Events, f # Alert, \A i \in DOMAIN recorded' : recorded'[i] # f
        PROVE  table'[f] = 0 /\ deadLetter'[f] = 0
    <2>1. \A i \in DOMAIN recorded : recorded[i] # f
      BY <1>1, <1>2, <1>6, AppendElements
    <2> QED
      BY <1>1, <1>6, <2>1 DEF CountInv, Unsent
  <1>7. table'[Alert] = 0 /\ deadLetter'[Alert] = 0
    BY <1>1 DEF CountInv, Unsent
  <1>8. sink'.op \in {"insert", "dead letter"} =>
           \A i \in DOMAIN batch' : table'[batch'[i]] <= sink'.attempt /\ deadLetter'[batch'[i]] = 0
    <2>1. sink'.op \in {"insert", "dead letter"} => batch' = buffer' /\ sink'.attempt = 0
      BY <1>1
    <2>2. ASSUME sink'.op \in {"insert", "dead letter"}, NEW i \in DOMAIN batch'
          PROVE  table'[batch'[i]] <= sink'.attempt /\ deadLetter'[batch'[i]] = 0
      <3>1. table'[batch'[i]] = 0 /\ deadLetter'[batch'[i]] = 0 /\ sink'.attempt = 0
        BY <1>4, <2>1, <2>2
      <3> QED
        BY <3>1
    <2> QED
      BY <2>2
  <1> QED
    BY <1>4, <1>5, <1>6, <1>7, <1>8, EventTypes DEF CountInv, Unsent

\* With the sink at rest and nothing buffered only the counts of rows matter.
LEMMA IdleKeepsCount ==
    ASSUME sink'.op = "idle", buffer' = <<>>, DuplicatesBounded',
           \A e \in Events : e # Alert /\ (\A i \in DOMAIN recorded' : recorded'[i] # e) =>
              table'[e] = 0 /\ deadLetter'[e] = 0,
           pc' \in {"next", "act", "end", "analyze"} =>
              table'[Alert] = 0 /\ deadLetter'[Alert] = 0
    PROVE  CountInv'
  <1>1. \A i \in DOMAIN buffer' : FALSE
    OBVIOUS
  <1>2. sink'.op \notin {"insert", "dead letter"}
    OBVIOUS
  <1>3. \A i \in DOMAIN buffer' : Unsent(buffer[i])'
    BY <1>1
  <1> QED
    BY <1>2, <1>3 DEF CountInv, Unsent

LEMMA SinkKeepsCount ==
    ASSUME TypeInv, TypeInv', FlowInv, FlowInv', FreshInv, CountInv, SinkWorks
    PROVE  CountInv'
  <1>1. TelemetryTypeOK /\ TelemetryTypeOK'
    BY DEF TypeInv, TypeOK
  <1>2. /\ sink.op # "idle"
        /\ UNCHANGED <<pc, recorded, run, spans>>
        /\ \/ buffer' = <<>> /\ local' = local \o buffer /\ sink'.op = "idle"
           \/ UNCHANGED <<buffer, local, batch>> /\ sink'.op # "idle"
    BY SinkFlow
  <1>3. batch \in Seq(Events) /\ Distinct(batch)
    BY <1>1, <1>2, BatchDistinct DEF TelemetryTypeOK
  <1>4. /\ \A e \in Events : table[e] \in Nat /\ deadLetter[e] \in Nat
        /\ \A e \in Events : table[e] <= MaxInserts /\ deadLetter[e] <= 1
        /\ MaxInserts \in Nat /\ sink.attempt \in Nat
    <2>1. MaxInserts \in Nat
      BY TelemetryAssumption
    <2>2. sink.attempt \in 0 .. MaxInserts
      BY <1>1 DEF TelemetryTypeOK
    <2>3. sink.attempt \in Nat
      BY <2>1, <2>2
    <2>4. \A e \in Events : table[e] \in Nat /\ deadLetter[e] \in Nat
      <3>1. table \in [Events -> Nat] /\ deadLetter \in [Events -> Nat]
        BY <1>1 DEF TelemetryTypeOK
      <3> QED
        BY <3>1
    <2>5. \A e \in Events : table[e] <= MaxInserts /\ deadLetter[e] <= 1
      BY DEF CountInv, DuplicatesBounded
    <2> QED
      BY <2>1, <2>3, <2>4, <2>5
  \* What a step adds to a row.
  <1>5. ASSUME NEW e \in Events
        PROVE  /\ Occurrences(e, batch) \in {0, 1}
               /\ (\A i \in DOMAIN batch : batch[i] # e) => Occurrences(e, batch) = 0
    BY <1>3, OccurrencesType, OccursOnce DEF Distinct
  \* Rows of the batch that were recorded, or the incident that is being written.
  <1>6. ASSUME NEW e \in Events, Occurrences(e, batch) # 0
        PROVE  /\ e = Alert => pc \notin {"next", "act", "end", "analyze"}
               /\ e # Alert => \E i \in DOMAIN recorded : recorded[i] = e
    <2>1. PICK i \in DOMAIN batch : batch[i] = e
      BY <1>5, <1>6
    <2>2. CASE pc = "alerting"
      BY <1>2, <2>1, <2>2 DEF FlowInv
    <2>3. CASE pc # "alerting"
      <3>1. batch = buffer /\ recorded = local \o buffer
        BY <1>2, <2>3 DEF FlowInv, LocalExact
      <3>2. local \in Seq(Events) /\ buffer \in Seq(Events)
        BY <1>1 DEF TelemetryTypeOK
      <3>3. Len(local) + i \in DOMAIN recorded /\ recorded[Len(local) + i] = e
        BY <2>1, <3>1, <3>2
      <3>4. e.run # 0
        BY <3>3 DEF FreshInv
      <3> QED
        BY <3>3, <3>4 DEF Alert, Event
    <2> QED
      BY <2>2, <2>3
  <1>7. ASSUME \A e \in Events : Occurrences(e, batch) = 0 =>
                     table'[e] = table[e] /\ deadLetter'[e] = deadLetter[e]
        PROVE  /\ \A e \in Events : e # Alert /\ (\A i \in DOMAIN recorded' : recorded'[i] # e) =>
                        table'[e] = 0 /\ deadLetter'[e] = 0
               /\ pc' \in {"next", "act", "end", "analyze"} =>
                        table'[Alert] = 0 /\ deadLetter'[Alert] = 0
    <2>1. ASSUME NEW e \in Events, e # Alert, \A i \in DOMAIN recorded' : recorded'[i] # e
          PROVE  table'[e] = 0 /\ deadLetter'[e] = 0
      <3>1. Occurrences(e, batch) = 0
        BY <1>2, <1>6, <2>1
      <3> QED
        BY <1>2, <1>7, <2>1, <3>1 DEF CountInv, Unsent
    <2>2. ASSUME pc' \in {"next", "act", "end", "analyze"}
          PROVE  table'[Alert] = 0 /\ deadLetter'[Alert] = 0
      <3>1. Alert \in Events /\ Occurrences(Alert, batch) = 0
        BY <1>2, <1>6, <2>2, EventTypes
      <3> QED
        BY <1>2, <1>7, <2>2, <3>1 DEF CountInv, Unsent
    <2> QED
      BY <2>1, <2>2
  \* A row of an active batch has been sent once per attempt.
  <1>8. ASSUME NEW e \in Events, Occurrences(e, batch) # 0, sink.op \in {"insert", "dead letter"}
        PROVE  table[e] <= sink.attempt /\ deadLetter[e] = 0
    <2>1. PICK i \in DOMAIN batch : batch[i] = e
      BY <1>5, <1>8
    <2> QED
      BY <1>8, <2>1 DEF CountInv
  <1>9. \A e \in Events : /\ Stored(table, batch)[e] = table[e] + Occurrences(e, batch)
                          /\ Stored(deadLetter, batch)[e] = deadLetter[e] + Occurrences(e, batch)
    BY <1>1, <1>3, StoredType DEF TelemetryTypeOK
  <1>10. CASE InsertAccepted \/ InsertFails
    <2>1. deadLetter' = deadLetter /\ table' \in {table, Stored(table, batch)} /\ sink.op = "insert"
      BY <1>10 DEF InsertAccepted, InsertFails
    <2>2. sink.attempt + 1 <= MaxInserts
      BY <1>4, <2>1 DEF TypeInv
    <2>3. ASSUME NEW e \in Events
          PROVE  /\ table'[e] <= MaxInserts
                 /\ Occurrences(e, batch) = 0 => table'[e] = table[e]
                 /\ Occurrences(e, batch) # 0 => table'[e] <= sink.attempt + 1
      <3>1. CASE Occurrences(e, batch) = 0
        <4>1. table'[e] = table[e]
          BY <1>4, <1>9, <2>1, <3>1
        <4> QED
          BY <1>4, <3>1, <4>1
      <3>2. CASE Occurrences(e, batch) # 0
        <4>1. Occurrences(e, batch) = 1 /\ table[e] <= sink.attempt
          BY <1>5, <1>8, <2>1, <3>2
        <4>2. table'[e] \in {table[e], table[e] + 1}
          BY <1>9, <2>1, <4>1
        <4> QED
          BY <1>4, <2>2, <3>2, <4>1, <4>2
      <3> QED
        BY <3>1, <3>2
    <2>4. DuplicatesBounded'
      BY <1>4, <2>1, <2>3 DEF DuplicatesBounded
    <2>5. CASE InsertAccepted
      <3>1. sink'.op = "idle" /\ buffer' = <<>>
        BY <2>5, IdleType DEF InsertAccepted, Written
      <3> QED
        BY <1>7, <2>1, <2>3, <2>4, <3>1, EventTypes DEF CountInv, Unsent
    <2>6. CASE InsertFails
      <3>1. sink'.op # "idle" /\ sink'.attempt = sink.attempt + 1 /\ batch' = batch
        BY <2>6 DEF InsertFails, NextAttempt
      <3>2. ASSUME NEW i \in DOMAIN batch
            PROVE  table'[batch[i]] <= sink.attempt + 1 /\ deadLetter'[batch[i]] = 0
        <4>1. batch[i] \in Events /\ Occurrences(batch[i], batch) # 0
          BY <1>3, OccurrencesType
        <4> QED
          BY <1>8, <2>1, <2>3, <4>1
      <3> QED
        BY <1>7, <2>1, <2>3, <2>4, <3>1, <3>2, EventTypes DEF CountInv, Unsent
    <2> QED
      BY <1>10, <2>5, <2>6
  <1>11. CASE DeadLetter
    <2>1. table' = table /\ deadLetter' = Stored(deadLetter, batch) /\ sink.op = "dead letter"
          /\ sink'.op = "idle" /\ buffer' = <<>>
      BY <1>11, IdleType DEF DeadLetter, Written
    <2>2. ASSUME NEW e \in Events
          PROVE  /\ deadLetter'[e] <= 1
                 /\ Occurrences(e, batch) = 0 => deadLetter'[e] = deadLetter[e]
      <3>1. CASE Occurrences(e, batch) = 0
        <4>1. deadLetter'[e] = deadLetter[e] + 0
          BY <1>9, <2>1, <3>1
        <4> QED
          BY <1>4, <3>1, <4>1
      <3>2. CASE Occurrences(e, batch) # 0
        <4>1. Occurrences(e, batch) = 1 /\ deadLetter[e] = 0
          BY <1>5, <1>8, <2>1, <3>2
        <4>2. deadLetter'[e] = 0 + 1
          BY <1>9, <2>1, <4>1
        <4> QED
          BY <3>2, <4>2
      <3> QED
        BY <3>1, <3>2
    <2>3. DuplicatesBounded'
      BY <1>4, <2>1, <2>2 DEF DuplicatesBounded
    <2>4. \A e \in Events : Occurrences(e, batch) = 0 =>
                table'[e] = table[e] /\ deadLetter'[e] = deadLetter[e]
      BY <2>1, <2>2
    <2>5. /\ \A e \in Events : e # Alert /\ (\A i \in DOMAIN recorded' : recorded'[i] # e) =>
                table'[e] = 0 /\ deadLetter'[e] = 0
          /\ pc' \in {"next", "act", "end", "analyze"} =>
                table'[Alert] = 0 /\ deadLetter'[Alert] = 0
      BY <1>7, <2>4
    <2> QED
      BY <2>1, <2>3, <2>5, IdleKeepsCount
  <1>12. CASE DeadLetterFails
    <2>1. PICK n \in 0 .. Len(batch) : deadLetter' = Stored(deadLetter, SubSeq(batch, 1, n))
      BY <1>12 DEF DeadLetterFails
    <2> DEFINE part == SubSeq(batch, 1, n)
    <2>2. table' = table /\ sink.op = "dead letter"
      BY <1>12 DEF DeadLetterFails
    <2>3. sink'.op = "raised"
      BY <1>1, <1>12 DEF DeadLetterFails, TelemetryTypeOK
    <2>4. /\ part \in Seq(Events)
          /\ \A i \in DOMAIN part : i \in DOMAIN batch /\ part[i] = batch[i]
      BY <1>3, Prefix
    <2>5. Distinct(part)
      BY <1>3, <2>4 DEF Distinct
    <2> HIDE DEF part
    <2>6. ASSUME NEW e \in Events
          PROVE  /\ Occurrences(e, part) \in {0, 1}
                 /\ Occurrences(e, batch) = 0 => Occurrences(e, part) = 0
                 /\ deadLetter'[e] = deadLetter[e] + Occurrences(e, part)
      <3>1. Occurrences(e, part) \in Nat /\ Occurrences(e, part) <= 1
        BY <2>4, <2>5, OccurrencesType, OccursOnce DEF Distinct
      <3>2. ASSUME Occurrences(e, batch) = 0 PROVE Occurrences(e, part) = 0
        <4>1. \A i \in DOMAIN batch : batch[i] # e
          BY <1>3, <3>2, OccurrencesType
        <4>2. \A i \in DOMAIN part : part[i] # e
          BY <2>4, <4>1
        <4> QED
          BY <2>4, <4>2, OccurrencesType
      <3>3. deadLetter'[e] = deadLetter[e] + Occurrences(e, part)
        BY <1>1, <2>1, <2>4, StoredType DEF part, TelemetryTypeOK
      <3> QED
        BY <3>1, <3>2, <3>3
    <2>7. ASSUME NEW e \in Events
          PROVE  /\ deadLetter'[e] <= 1
                 /\ Occurrences(e, batch) = 0 => deadLetter'[e] = deadLetter[e]
      <3>1. CASE Occurrences(e, batch) = 0
        <4>1. deadLetter'[e] = deadLetter[e] + 0
          BY <2>6, <3>1
        <4> QED
          BY <1>4, <3>1, <4>1
      <3>2. CASE Occurrences(e, batch) # 0
        <4>1. deadLetter[e] = 0
          BY <1>8, <2>2, <3>2
        <4> QED
          BY <2>6, <3>2, <4>1
      <3> QED
        BY <3>1, <3>2
    <2>8. DuplicatesBounded'
      BY <1>4, <2>2, <2>7 DEF DuplicatesBounded
    <2> QED
      BY <1>7, <2>2, <2>3, <2>7, <2>8, EventTypes DEF CountInv, Unsent
  <1> QED
    BY <1>10, <1>11, <1>12 DEF SinkWorks, SinkStep

LEMMA StepCount ==
    ASSUME TypeInv, TypeInv', FlowInv, FlowInv', FreshInv, CountInv, [Next]_vars
    PROVE  CountInv'
  <1>1. CASE StartRun
    <2>1. Event(run + 1, "run_start", 0, FALSE) \in Events
      <3>1. run + 1 \in Runs
        BY <1>1, TrainingAssumption DEF StartRun, Runs, TypeInv, TypeOK
      <3> QED
        BY <3>1, EventTypes
    <2>2. Event(run + 1, "run_start", 0, FALSE) # Alert
      BY DEF Event, Alert
    <2>3. Record(Event(run + 1, "run_start", 0, FALSE), FALSE) /\ pc = "next"
      BY <1>1 DEF StartRun
    <2> QED
      BY <1>1, <2>1, <2>2, <2>3, StartIsFresh, RecordKeepsCount
  <1>2. CASE SpanStep
    <2>1. PICK kind \in Spans : RecordSpan(kind)
      BY <1>2 DEF SpanStep
    <2>2. pc = "act" /\ spans < MaxSteps
      BY <1>2 DEF SpanStep, TypeInv
    <2>3. Event(run, kind, spans + 1, FALSE) # Alert
      BY DEF Event, Alert, Spans
    <2>4. Record(Event(run, kind, spans + 1, FALSE), FALSE)
      BY <2>1 DEF RecordSpan
    <2> QED
      BY <2>2, <2>3, <2>4, RecordedSpanType, SpanIsFresh, RecordKeepsCount
  <1>3. CASE EndRun
    <2>1. Record(Event(run, "run_end", 0, done), TRUE) /\ pc \in {"act", "end"}
      BY <1>3 DEF EndRun
    <2>2. Event(run, "run_end", 0, done) \in Events
      BY <2>1, EventTypes DEF TypeInv, TypeOK
    <2>3. Event(run, "run_end", 0, done) # Alert
      BY DEF Event, Alert
    <2> QED
      BY <2>1, <2>2, <2>3, EndIsFresh, RecordKeepsCount
  <1>4. CASE Quiet
    <2>1. /\ UNCHANGED <<sink, batch, buffer, table, deadLetter, recorded>>
          /\ pc' \in {"next", "act", "end", "analyze"} => pc \in {"next", "act", "end", "analyze"}
      BY <1>4 DEF Quiet, telemetryVars
    <2> QED
      BY <2>1 DEF CountInv, DuplicatesBounded, Unsent
  <1>5. CASE Lost
    <2>1. /\ sink'.op = "idle" /\ buffer' = <<>>
          /\ UNCHANGED <<table, deadLetter, recorded>>
          /\ pc' \notin {"next", "act", "end", "analyze"}
      BY <1>5, IdleType DEF Lost, LoseMemory
    <2>2. DuplicatesBounded'
      BY <2>1 DEF CountInv, DuplicatesBounded
    <2>3. \A e \in Events : e # Alert /\ (\A i \in DOMAIN recorded' : recorded'[i] # e) =>
             table'[e] = 0 /\ deadLetter'[e] = 0
      BY <2>1 DEF CountInv, Unsent
    <2> QED
      BY <2>1, <2>2, <2>3, IdleKeepsCount
  <1>6. CASE Incident
    <2>1. /\ sink' = [op |-> "insert", attempt |-> 0] /\ batch' = <<Alert>>
          /\ pc = "analyze" /\ pc' = "alerting"
          /\ UNCHANGED <<table, deadLetter, recorded>>
      BY <1>6 DEF Incident, WriteDirectly, BeginWrite, Alert
    <2>2. sink'.op = "insert" /\ sink'.attempt = 0
      BY <2>1
    <2>3. table[Alert] = 0 /\ deadLetter[Alert] = 0
      BY <2>1 DEF CountInv, Unsent
    <2>4. DuplicatesBounded'
      BY <2>1 DEF CountInv, DuplicatesBounded
    <2>5. \A e \in Events : e # Alert /\ (\A i \in DOMAIN recorded' : recorded'[i] # e) =>
             table'[e] = 0 /\ deadLetter'[e] = 0
      BY <2>1 DEF CountInv, Unsent
    <2>6. \A i \in DOMAIN batch' :
             table'[batch'[i]] <= sink'.attempt /\ deadLetter'[batch'[i]] = 0
      <3>1. \A i \in DOMAIN batch' : batch'[i] = Alert
        BY <2>1
      <3>2. table'[Alert] <= sink'.attempt /\ deadLetter'[Alert] = 0
        BY <2>1, <2>2, <2>3
      <3> QED
        BY <3>1, <3>2
    <2> QED
      BY <2>1, <2>2, <2>4, <2>5, <2>6 DEF CountInv, Unsent
  <1>7. CASE SinkWorks
    BY <1>7, SinkKeepsCount
  <1> QED
    BY <1>1, <1>2, <1>3, <1>4, <1>5, <1>6, <1>7, StepKinds

\* For any number of retries, and even for a row that is both in the table and in
\* the dead-letter file: nothing is stored more often than it was sent.
THEOREM DuplicatesAreBounded == Spec => []DuplicatesBounded
  <1> DEFINE IInv == TypeInv /\ FlowInv /\ FreshInv /\ CountInv
  <1>1. Init => IInv
    BY InitType, InitFlow, InitFresh, InitCount
  <1>2. IInv /\ [Next]_vars => IInv'
    BY StepType, StepFlow, StepFresh, StepCount
  <1>3. IInv => DuplicatesBounded
    BY DEF CountInv
  <1> QED
    BY <1>1, <1>2, <1>3, PTL DEF Spec

-----------------------------------------------------------------------------
(* Traces                                                                  *)

\* The events of episode r are those from first to last, in the order in which an
\* episode goes.
Complete(rows, r, first, last) ==
    /\ \A i \in DOMAIN rows : rows[i].run = r <=> i \in first .. last
    /\ last - first \in 1 .. MaxSteps + 1
    /\ rows[first].kind = "run_start"
    /\ rows[last].kind = "run_end"
    /\ \A i \in first + 1 .. last - 1 :
          /\ rows[i].kind \in Spans
          /\ rows[i].step = i - first
          /\ rows[i].kind \in {"error", "terminate"} => i = last - 1

\* Episode r has begun at first and made n steps; only when it is over was one of
\* them an error or a termination, the latest.
Begun(rows, r, first, n, over) ==
    /\ \A i \in DOMAIN rows : rows[i].run = r <=> i \in first .. Len(rows)
    /\ Len(rows) - first = n
    /\ rows[first].kind = "run_start"
    /\ \A i \in first + 1 .. Len(rows) :
          /\ rows[i].kind \in Spans
          /\ rows[i].step = i - first
          /\ rows[i].kind \in {"error", "terminate"} => over /\ i = Len(rows)

\* Every episode that has ended is complete, and the present one has begun.
TraceInv ==
    /\ \A r \in 1 .. run :
          r < run \/ pc \in {"next", "analyze", "alerting", "done"} =>
             \E first, last \in DOMAIN recorded : Complete(recorded, r, first, last)
    /\ pc \in {"act", "end"} =>
          \E first \in DOMAIN recorded : Begun(recorded, run, first, spans, pc = "end" \/ done)
    /\ pc \in {"analyze", "alerting", "done"} => run = NumRuns

\* An event of another episode leaves a complete one as it is.
LEMMA AppendKeepsComplete ==
    ASSUME NEW rows \in Seq(Events), NEW e \in Events, NEW r, e.run # r,
           NEW first \in DOMAIN rows, NEW last \in DOMAIN rows,
           Complete(rows, r, first, last)
    PROVE  /\ first \in DOMAIN Append(rows, e) /\ last \in DOMAIN Append(rows, e)
           /\ Complete(Append(rows, e), r, first, last)
  <1>1. /\ DOMAIN Append(rows, e) = 1 .. Len(rows) + 1
        /\ Len(rows) \in Nat /\ DOMAIN rows = 1 .. Len(rows)
        /\ Append(rows, e)[Len(rows) + 1] = e
        /\ \A i \in DOMAIN rows : Append(rows, e)[i] = rows[i]
        /\ \A i \in DOMAIN Append(rows, e) : i \in DOMAIN rows \/ i = Len(rows) + 1
    BY AppendElements
  <1> DEFINE longer == Append(rows, e)
  <1> HIDE DEF longer
  <1>2. ASSUME NEW i \in DOMAIN longer PROVE longer[i].run = r <=> i \in first .. last
    <2>1. CASE i \in DOMAIN rows
      BY <1>1, <2>1 DEF longer, Complete
    <2>2. CASE i = Len(rows) + 1
      <3>1. i \notin first .. last
        BY <1>1, <2>2
      <3> QED
        BY <1>1, <2>2, <3>1 DEF longer
    <2> QED
      BY <1>1, <2>1, <2>2 DEF longer
  <1>3. \A i \in first .. last : i \in DOMAIN rows
    BY <1>1
  <1>4. \A i \in first + 1 .. last - 1 : i \in first .. last
    BY <1>1
  <1>5. \A i \in first + 1 .. last - 1 : longer[i] = rows[i]
    BY <1>1, <1>3, <1>4 DEF longer
  <1>6. longer[first] = rows[first] /\ longer[last] = rows[last]
    BY <1>1 DEF longer
  <1>7. Complete(longer, r, first, last)
    BY <1>2, <1>5, <1>6 DEF Complete
  <1>8. first \in DOMAIN longer /\ last \in DOMAIN longer
    BY <1>1 DEF longer
  <1> QED
    BY <1>7, <1>8 DEF longer

\* The first event of an episode.
LEMMA StartBegins ==
    ASSUME NEW rows \in Seq(Events), NEW e \in Events, e.kind = "run_start",
           \A i \in DOMAIN rows : rows[i].run # e.run, NEW over
    PROVE  \E first \in DOMAIN Append(rows, e) : Begun(Append(rows, e), e.run, first, 0, over)
  <1> DEFINE first == Len(rows) + 1
             longer == Append(rows, e)
  <1>1. /\ DOMAIN longer = 1 .. first /\ first \in Nat /\ first \in DOMAIN longer
        /\ longer[first] = e /\ Len(longer) = first
        /\ \A i \in DOMAIN rows : longer[i] = rows[i]
        /\ \A i \in DOMAIN longer : i \in DOMAIN rows \/ i = first
        /\ \A i \in DOMAIN rows : i < first
    OBVIOUS
  <1> HIDE DEF first, longer
  <1>2. ASSUME NEW i \in DOMAIN longer PROVE longer[i].run = e.run <=> i \in first .. Len(longer)
    <2>1. CASE i \in DOMAIN rows
      <3>1. i < first /\ i \in Int
        BY <1>1, <2>1
      <3> QED
        BY <1>1, <2>1, <3>1
    <2>2. CASE i = first
      BY <1>1, <2>2
    <2> QED
      BY <1>1, <2>1, <2>2
  <1>3. Len(longer) - first = 0 /\ \A i \in first + 1 .. Len(longer) : FALSE
    BY <1>1
  <1>4. Begun(longer, e.run, first, 0, over)
    BY <1>1, <1>2, <1>3 DEF Begun
  <1> QED
    BY <1>1, <1>4 DEF longer

\* A step of the present episode.
LEMMA SpanGoesOn ==
    ASSUME NEW rows \in Seq(Events), NEW e \in Events, NEW n \in Nat,
           NEW first \in DOMAIN rows, NEW over \in BOOLEAN,
           Begun(rows, e.run, first, n, FALSE), e.kind \in Spans, e.step = n + 1,
           e.kind \in {"error", "terminate"} => over
    PROVE  /\ first \in DOMAIN Append(rows, e)
           /\ Begun(Append(rows, e), e.run, first, n + 1, over)
  <1> DEFINE last == Len(rows) + 1
             longer == Append(rows, e)
  <1>1. /\ DOMAIN longer = 1 .. last /\ last \in Nat /\ first \in DOMAIN longer
        /\ longer[last] = e /\ Len(longer) = last /\ Len(rows) = last - 1
        /\ DOMAIN rows = 1 .. last - 1
        /\ \A i \in DOMAIN rows : longer[i] = rows[i]
        /\ first \in Int /\ first < last /\ 1 <= first
    OBVIOUS
  <1> HIDE DEF last, longer
  <1>2. Len(rows) - first = n
    BY DEF Begun
  <1>3. Len(longer) - first = n + 1
    BY <1>1, <1>2
  <1>4. ASSUME NEW i \in DOMAIN longer
        PROVE  longer[i].run = e.run <=> i \in first .. Len(longer)
    <2>1. CASE i \in DOMAIN rows
      <3>1. rows[i].run = e.run <=> i \in first .. Len(rows)
        BY <2>1 DEF Begun
      <3>2. i \in first .. Len(rows) <=> i \in first .. Len(longer)
        BY <1>1, <2>1
      <3> QED
        BY <1>1, <2>1, <3>1, <3>2
    <2>2. CASE i = last
      BY <1>1, <2>2
    <2> QED
      BY <1>1, <2>1, <2>2
  <1>5. ASSUME NEW i \in first + 1 .. Len(longer)
        PROVE  /\ longer[i].kind \in Spans
               /\ longer[i].step = i - first
               /\ longer[i].kind \in {"error", "terminate"} => over /\ i = Len(longer)
    <2>1. CASE i = last
      <3>1. i - first = n + 1
        BY <1>1, <1>3, <2>1
      <3> QED
        BY <1>1, <2>1, <3>1
    <2>2. CASE i # last
      <3>1. i \in first + 1 .. Len(rows) /\ i \in DOMAIN rows
        BY <1>1, <2>2
      <3> QED
        BY <1>1, <3>1 DEF Begun
    <2> QED
      BY <2>1, <2>2
  <1>6. longer[first] = rows[first]
    BY <1>1
  <1>7. Begun(longer, e.run, first, n + 1, over)
    BY <1>3, <1>4, <1>5, <1>6 DEF Begun
  <1> QED
    BY <1>1, <1>7 DEF longer

\* The last event of the present episode.
LEMMA EndCompletes ==
    ASSUME NEW rows \in Seq(Events), NEW e \in Events, NEW n \in 0 .. MaxSteps,
           NEW first \in DOMAIN rows, NEW over,
           Begun(rows, e.run, first, n, over), e.kind = "run_end"
    PROVE  \E last \in DOMAIN Append(rows, e) :
              /\ first \in DOMAIN Append(rows, e)
              /\ Complete(Append(rows, e), e.run, first, last)
  <1> DEFINE last == Len(rows) + 1
             longer == Append(rows, e)
  <1>1. /\ DOMAIN longer = 1 .. last /\ last \in Nat /\ first \in DOMAIN longer
        /\ longer[last] = e /\ Len(longer) = last /\ Len(rows) = last - 1
        /\ last \in DOMAIN longer
        /\ DOMAIN rows = 1 .. last - 1
        /\ \A i \in DOMAIN rows : longer[i] = rows[i]
        /\ first \in Int /\ first < last /\ 1 <= first
    OBVIOUS
  <1> HIDE DEF last, longer
  <1>2. Len(rows) - first = n
    BY DEF Begun
  <1>3. last - first \in 1 .. MaxSteps + 1
    BY <1>1, <1>2, TrainingAssumption
  <1>4. ASSUME NEW i \in DOMAIN longer PROVE longer[i].run = e.run <=> i \in first .. last
    <2>1. CASE i \in DOMAIN rows
      <3>1. rows[i].run = e.run <=> i \in first .. Len(rows)
        BY <2>1 DEF Begun
      <3>2. i \in first .. Len(rows) <=> i \in first .. last
        BY <1>1, <2>1
      <3> QED
        BY <1>1, <2>1, <3>1, <3>2
    <2>2. CASE i = last
      BY <1>1, <2>2
    <2> QED
      BY <1>1, <2>1, <2>2
  <1>5. ASSUME NEW i \in first + 1 .. last - 1
        PROVE  /\ longer[i].kind \in Spans
               /\ longer[i].step = i - first
               /\ longer[i].kind \in {"error", "terminate"} => i = last - 1
    <2>1. i \in first + 1 .. Len(rows) /\ i \in DOMAIN rows
      BY <1>1
    <2> QED
      BY <1>1, <2>1 DEF Begun
  <1>6. longer[first] = rows[first]
    BY <1>1
  <1>7. rows[first].kind = "run_start"
    BY DEF Begun
  <1>8. Complete(longer, e.run, first, last)
    BY <1>1, <1>3, <1>4, <1>5, <1>6, <1>7 DEF Complete
  <1> QED
    BY <1>1, <1>8 DEF longer

LEMMA InitTraces == Init => TraceInv
  BY TrainingAssumption DEF Init, TraceInv

\* Steps that record nothing.
LEMMA SilentKeepsTraces ==
    ASSUME TraceInv, UNCHANGED <<recorded, run, spans, done>>,
           \/ pc' = pc
           \/ pc' \in {"hung", "dead", "raised"}
           \/ pc = "next" /\ pc' = "analyze" /\ run = NumRuns
           \/ pc \in {"analyze", "alerting"} /\ pc' \in {"alerting", "done"}
    PROVE  TraceInv'
  BY DEF TraceInv

LEMMA StepTraces ==
    ASSUME TypeInv, TypeInv', FlowInv, FreshInv, TraceInv, [Next]_vars
    PROVE  TraceInv'
  <1>0. recorded \in Seq(Events) /\ run \in Nat /\ spans \in Nat
    BY TrainingAssumption DEF TypeInv, TypeOK
  \* What is recorded now belongs to no episode that had ended.
  <1>1. ASSUME NEW e \in Events, recorded' = Append(recorded, e), NEW r \in 1 .. run, e.run # r,
               r < run \/ pc = "next"
        PROVE  \E first, last \in DOMAIN recorded' : Complete(recorded', r, first, last)
    <2>1. \E first, last \in DOMAIN recorded : Complete(recorded, r, first, last)
      BY <1>1 DEF TraceInv
    <2>2. PICK first \in DOMAIN recorded, last \in DOMAIN recorded :
             Complete(recorded, r, first, last)
      BY <2>1
    <2> QED
      BY <1>0, <1>1, <2>2, AppendKeepsComplete
  <1>2. CASE StartRun
    <2> DEFINE e == Event(run + 1, "run_start", 0, FALSE)
    <2>1. /\ pc = "next" /\ pc' = "act" /\ run' = run + 1 /\ spans' = 0
          /\ recorded' = Append(recorded, e)
      BY <1>2 DEF StartRun, Record
    <2>2. e \in Events
      <3>1. run + 1 \in Runs
        BY <1>2, TrainingAssumption DEF StartRun, Runs, TypeInv, TypeOK
      <3> QED
        BY <3>1, EventTypes
    <2>3. e.run = run + 1 /\ e.kind = "run_start"
      BY DEF Event
    <2> HIDE DEF e
    <2>4. \A i \in DOMAIN recorded : recorded[i].run # e.run
      <3>1. \A i \in DOMAIN recorded : recorded[i].run \in 1 .. run
        BY DEF FreshInv
      <3> QED
        BY <1>0, <2>3, <3>1
    <2>5. \E first \in DOMAIN recorded' : Begun(recorded', e.run, first, 0, pc' = "end" \/ done')
      BY <1>0, <2>1, <2>2, <2>3, <2>4, StartBegins
    <2>6. ASSUME NEW r \in 1 .. run', r < run'
          PROVE  \E first, last \in DOMAIN recorded' : Complete(recorded', r, first, last)
      <3>1. r \in 1 .. run /\ e.run # r
        BY <1>0, <2>1, <2>3, <2>6
      <3> QED
        BY <1>1, <2>1, <2>2, <3>1
    <2> QED
      BY <2>1, <2>3, <2>5, <2>6 DEF TraceInv
  <1>3. CASE SpanStep
    <2>1. PICK kind \in Spans :
             /\ RecordSpan(kind)
             /\ kind \in {"error", "terminate"} => pc' = "end" \/ done'
      BY <1>3 DEF SpanStep
    <2> DEFINE e == Event(run, kind, spans + 1, FALSE)
    <2>2. pc = "act" /\ ~done /\ pc' \in {"act", "end"} /\ spans < MaxSteps
      BY <1>3 DEF SpanStep, TypeInv
    <2>3. run' = run /\ spans' = spans + 1 /\ recorded' = Append(recorded, e)
      BY <2>1 DEF RecordSpan, Record
    <2>4. e \in Events
      BY <2>2, RecordedSpanType
    <2>5. e.run = run /\ e.kind = kind /\ e.step = spans + 1
      BY DEF Event
    <2> HIDE DEF e
    <2>6. \E first \in DOMAIN recorded' :
             Begun(recorded', run', first, spans', pc' = "end" \/ done')
      <3>1. \E first \in DOMAIN recorded : Begun(recorded, run, first, spans, FALSE)
        <4>1. (pc = "end" \/ done) <=> FALSE
          BY <2>2
        <4>2. \E first \in DOMAIN recorded :
                 Begun(recorded, run, first, spans, pc = "end" \/ done)
          BY <2>2 DEF TraceInv
        <4> QED
          BY <4>1, <4>2 DEF Begun
      <3>2. PICK first \in DOMAIN recorded : Begun(recorded, run, first, spans, FALSE)
        BY <3>1
      <3>3. (pc' = "end" \/ done') \in BOOLEAN
        OBVIOUS
      <3>4. /\ first \in DOMAIN Append(recorded, e)
            /\ Begun(Append(recorded, e), e.run, first, spans + 1, pc' = "end" \/ done')
        BY <1>0, <2>1, <2>4, <2>5, <3>2, <3>3, SpanGoesOn
      <3> QED
        BY <2>3, <2>5, <3>4
    <2>7. ASSUME NEW r \in 1 .. run', r < run'
          PROVE  \E first, last \in DOMAIN recorded' : Complete(recorded', r, first, last)
      <3>1. r \in 1 .. run /\ r < run /\ e.run # r
        BY <1>0, <2>3, <2>5, <2>7
      <3> QED
        BY <1>1, <2>3, <2>4, <3>1
    <2> QED
      BY <2>2, <2>6, <2>7 DEF TraceInv
  <1>4. CASE EndRun
    <2> DEFINE e == Event(run, "run_end", 0, done)
    <2>1. pc \in {"act", "end"} /\ pc' = "next"
      BY <1>4 DEF EndRun
    <2>2. recorded' = Append(recorded, e) /\ run' = run
      BY <1>4 DEF EndRun, Record, agentVars
    <2>3. e \in Events
      BY <2>1, EventTypes DEF TypeInv, TypeOK
    <2>4. e.run = run /\ e.kind = "run_end"
      BY DEF Event
    <2> HIDE DEF e
    <2>5. ASSUME NEW r \in 1 .. run'
          PROVE  \E first, last \in DOMAIN recorded' : Complete(recorded', r, first, last)
      <3>1. CASE r = run
        <4>1. \E first \in DOMAIN recorded :
                 Begun(recorded, run, first, spans, pc = "end" \/ done)
          BY <2>1 DEF TraceInv
        <4>2. PICK first \in DOMAIN recorded :
                 Begun(recorded, run, first, spans, pc = "end" \/ done)
          BY <4>1
        <4>3. spans \in 0 .. MaxSteps
          BY DEF TypeInv, TypeOK
        <4>4. \E last \in DOMAIN Append(recorded, e) :
                 /\ first \in DOMAIN Append(recorded, e)
                 /\ Complete(Append(recorded, e), e.run, first, last)
          BY <1>0, <2>3, <2>4, <4>2, <4>3, EndCompletes
        <4> QED
          BY <2>2, <2>4, <3>1, <4>4
      <3>2. CASE r # run
        <4>1. r \in 1 .. run /\ r < run /\ e.run # r
          BY <1>0, <2>2, <2>4, <3>2
        <4> QED
          BY <1>1, <2>2, <2>3, <4>1
      <3> QED
        BY <3>1, <3>2
    <2> QED
      BY <2>1, <2>5 DEF TraceInv
  <1>5. CASE Quiet
    BY <1>5, SilentKeepsTraces DEF Quiet
  <1>6. CASE Lost
    BY <1>6, SilentKeepsTraces DEF Lost
  <1>7. CASE Incident
    BY <1>7, SilentKeepsTraces DEF Incident, agentVars
  <1>8. CASE SinkWorks
    BY <1>8, SilentKeepsTraces DEF SinkWorks, agentVars
  <1> QED
    BY <1>2, <1>3, <1>4, <1>5, <1>6, <1>7, <1>8, StepKinds

TracedInv == TypeInv /\ FlowInv /\ FreshInv /\ TraceInv

LEMMA TracedInvariant == Spec => []TracedInv
  <1>1. Init => TracedInv
    BY InitType, InitFlow, InitFresh, InitTraces DEF TracedInv
  <1>2. TracedInv /\ [Next]_vars => TracedInv'
    BY StepType, StepFlow, StepFresh, StepTraces DEF TracedInv
  <1> QED
    BY <1>1, <1>2, PTL DEF Spec

\* When the analyzer reads, nothing is missing from the copy.
LEMMA CopyIsWhole ==
    ASSUME TracedInv, pc = "analyze"
    PROVE  local = recorded /\ run = NumRuns
  <1>1. local \o buffer = recorded /\ buffer = <<>>
    BY DEF TracedInv, FlowInv, LocalExact
  <1>2. local \in Seq(Events)
    BY DEF TracedInv, TypeInv, TypeOK, TelemetryTypeOK
  <1>3. local \o <<>> = local
    BY <1>2, ConcatEmpty
  <1> QED
    BY <1>1, <1>3 DEF TracedInv, TraceInv

\* For any number of episodes and steps, any harness and any failures of the sink:
\* what is analyzed of an episode stands together, from its start to its end, with
\* its spans numbered without a gap and nothing after an error or a termination.
THEOREM TracesAreWellFormed == Spec => []TracesWellFormed
  <1>1. TracedInv => TracesWellFormed
    <2> SUFFICES ASSUME TracedInv, pc = "analyze", NEW r \in Runs
                 PROVE  \E first, last \in DOMAIN local : Complete(local, r, first, last)
      BY DEF TracesWellFormed, Complete
    <2>1. r \in 1 .. run
      BY CopyIsWhole DEF Runs
    <2> QED
      BY <2>1, CopyIsWhole DEF TracedInv, TraceInv
  <1> QED
    BY <1>1, TracedInvariant, PTL

-----------------------------------------------------------------------------
(* The report                                                              *)

Positions(rows, kinds) == {i \in DOMAIN rows : rows[i] \in kinds}

Terminations == {e \in Events : e.kind = "terminate"}
Successes == {e \in Events : e.kind = "run_end" /\ e.success}

NumTerminations == Cardinality(Positions(recorded, Terminations))
NumSuccesses == Cardinality(Positions(recorded, Successes))

\* Under the built-in harness there have been as many terminations as successful
\* episodes, and one more while an episode waits for its end.
TallyInv ==
    ~mutated /\ pc \notin {"dead", "raised"} =>
        /\ NumTerminations \in Nat /\ NumSuccesses \in Nat
        /\ pc \in {"act", "end"} /\ done => NumTerminations = NumSuccesses + 1
        /\ ~(pc \in {"act", "end"} /\ done) => NumTerminations = NumSuccesses

LEMMA PositionsAppend ==
    ASSUME NEW rows \in Seq(Events), NEW e \in Events, NEW kinds
    PROVE  /\ Cardinality(Positions(rows, kinds)) \in Nat
           /\ e \in kinds => Cardinality(Positions(Append(rows, e), kinds))
                                = Cardinality(Positions(rows, kinds)) + 1
           /\ e \notin kinds => Cardinality(Positions(Append(rows, e), kinds))
                                   = Cardinality(Positions(rows, kinds))
  <1> DEFINE at == Positions(rows, kinds)
             longer == Append(rows, e)
             last == Len(rows) + 1
  <1>1. /\ DOMAIN longer = 1 .. last /\ last \in Nat /\ longer[last] = e
        /\ DOMAIN rows = 1 .. last - 1 /\ Len(rows) \in Nat
        /\ DOMAIN rows = 1 .. Len(rows)
        /\ \A i \in DOMAIN rows : longer[i] = rows[i]
        /\ last \notin DOMAIN rows
        /\ DOMAIN longer = DOMAIN rows \cup {last}
    OBVIOUS
  <1> HIDE DEF longer, last
  <1>2. IsFiniteSet(at)
    <2>1. at \subseteq 1 .. Len(rows)
      BY <1>1 DEF Positions
    <2>2. 1 \in Int /\ Len(rows) \in Int
      BY <1>1
    <2>3. IsFiniteSet(1 .. Len(rows))
      BY <2>2, FS_Interval
    <2> QED
      BY <2>1, <2>3, FS_Subset
  <1>3. last \notin at
    BY <1>1 DEF Positions
  <1>4. Cardinality(at) \in Nat
    BY <1>2, FS_CardinalityType
  <1>5. ASSUME e \in kinds
        PROVE  Cardinality(Positions(longer, kinds)) = Cardinality(at) + 1
    <2>1. Positions(longer, kinds) = at \cup {last}
      BY <1>1, <1>5 DEF Positions
    <2> HIDE DEF at
    <2> QED
      BY <1>2, <1>3, <2>1, FS_AddElement
  <1>6. ASSUME e \notin kinds
        PROVE  Positions(longer, kinds) = at
    BY <1>1, <1>6 DEF Positions
  <1> QED
    BY <1>4, <1>5, <1>6 DEF longer

LEMMA InitTally == Init => TallyInv
  <1> SUFFICES ASSUME Init PROVE TallyInv
    OBVIOUS
  <1>1. Positions(recorded, Terminations) = {} /\ Positions(recorded, Successes) = {}
    BY DEF Init, Positions
  <1>2. NumTerminations = 0 /\ NumSuccesses = 0
    BY <1>1, FS_EmptySet DEF NumTerminations, NumSuccesses
  <1> QED
    BY <1>2 DEF Init, TallyInv

LEMMA StepTally ==
    ASSUME TypeInv, TypeInv', FlowInv, TallyInv, [Next]_vars
    PROVE  TallyInv'
  <1>0. recorded \in Seq(Events) /\ done \in BOOLEAN /\ done' \in BOOLEAN
    BY DEF TypeInv, TypeOK
  <1>1. ASSUME NEW e \in Events, recorded' = Append(recorded, e)
        PROVE  /\ e \in Terminations => NumTerminations' = NumTerminations + 1
               /\ e \notin Terminations => NumTerminations' = NumTerminations
               /\ e \in Successes => NumSuccesses' = NumSuccesses + 1
               /\ e \notin Successes => NumSuccesses' = NumSuccesses
    <2>1. /\ Terminations' = Terminations
          /\ Successes' = Successes
      BY DEF Terminations, Successes
    <2> QED
      BY <1>0, <1>1, <2>1, PositionsAppend DEF NumTerminations, NumSuccesses
  <1>2. ASSUME UNCHANGED <<recorded, mutated>>,
               pc' \notin {"dead", "raised"} =>
                  /\ pc \notin {"dead", "raised"}
                  /\ (pc' \in {"act", "end"} /\ done') <=> (pc \in {"act", "end"} /\ done)
        PROVE  TallyInv'
    <2>1. UNCHANGED <<NumTerminations, NumSuccesses>>
      BY <1>2 DEF NumTerminations, NumSuccesses
    <2> QED
      BY <1>2, <2>1 DEF TallyInv
  <1>3. CASE StartRun
    <2> DEFINE e == Event(run + 1, "run_start", 0, FALSE)
    <2>1. /\ pc = "next" /\ done' = FALSE /\ mutated' = mutated
          /\ recorded' = Append(recorded, e)
      BY <1>3 DEF StartRun, Record
    <2>2. e \in Events
      <3>1. run + 1 \in Runs
        BY <1>3, TrainingAssumption DEF StartRun, Runs, TypeInv, TypeOK
      <3> QED
        BY <3>1, EventTypes
    <2>3. e.kind = "run_start"
      BY DEF Event
    <2>4. e \notin Terminations /\ e \notin Successes
      BY <2>3 DEF Terminations, Successes
    <2> HIDE DEF e
    <2>5. UNCHANGED <<NumTerminations, NumSuccesses>>
      BY <1>1, <2>1, <2>2, <2>4
    <2> QED
      BY <2>1, <2>5 DEF TallyInv
  <1>4. CASE SpanStep
    <2>1. PICK kind \in Spans :
             /\ RecordSpan(kind)
             /\ ~mutated => (done' <=> kind = "terminate")
      BY <1>4 DEF SpanStep
    <2> DEFINE e == Event(run, kind, spans + 1, FALSE)
    <2>2. pc = "act" /\ ~done /\ pc' \in {"act", "end"} /\ spans < MaxSteps
      BY <1>4 DEF SpanStep, TypeInv
    <2>3. mutated' = mutated /\ recorded' = Append(recorded, e)
      BY <2>1 DEF RecordSpan, Record
    <2>4. e \in Events
      BY <2>2, RecordedSpanType
    <2>5. e.kind = kind /\ kind # "run_end"
      BY DEF Event, Spans
    <2>6. e \notin Successes /\ (e \in Terminations <=> kind = "terminate")
      BY <2>4, <2>5 DEF Terminations, Successes
    <2> HIDE DEF e
    <2>7. CASE mutated
      BY <2>3, <2>7 DEF TallyInv
    <2>8. CASE ~mutated
      <3>1. NumTerminations \in Nat /\ NumSuccesses \in Nat /\ NumTerminations = NumSuccesses
        BY <2>2, <2>8 DEF TallyInv
      <3>2. CASE kind = "terminate"
        <4>1. NumTerminations' = NumTerminations + 1 /\ NumSuccesses' = NumSuccesses /\ done'
          BY <1>1, <2>1, <2>3, <2>4, <2>6, <2>8, <3>2
        <4> QED
          BY <2>2, <3>1, <4>1 DEF TallyInv
      <3>3. CASE kind # "terminate"
        <4>1. NumTerminations' = NumTerminations /\ NumSuccesses' = NumSuccesses /\ ~done'
          BY <1>1, <2>1, <2>3, <2>4, <2>6, <2>8, <3>3
        <4> QED
          BY <3>1, <4>1 DEF TallyInv
      <3> QED
        BY <3>2, <3>3
    <2> QED
      BY <2>7, <2>8
  <1>5. CASE EndRun
    <2> DEFINE e == Event(run, "run_end", 0, done)
    <2>1. pc \in {"act", "end"} /\ pc' = "next" /\ mutated' = mutated
      BY <1>5 DEF EndRun
    <2>2. recorded' = Append(recorded, e)
      BY <1>5 DEF EndRun, Record
    <2>3. e \in Events
      BY <2>1, EventTypes DEF TypeInv, TypeOK
    <2>4. e.kind = "run_end" /\ e.success = done
      BY DEF Event
    <2>5. e \notin Terminations /\ (e \in Successes <=> done)
      BY <2>3, <2>4 DEF Terminations, Successes
    <2> HIDE DEF e
    <2>6. CASE mutated
      BY <2>1, <2>6 DEF TallyInv
    <2>7. CASE ~mutated
      <3>1. NumTerminations \in Nat /\ NumSuccesses \in Nat
        BY <2>1, <2>7 DEF TallyInv
      <3>2. CASE done
        <4>1. /\ NumTerminations = NumSuccesses + 1
              /\ NumTerminations' = NumTerminations /\ NumSuccesses' = NumSuccesses + 1
          BY <1>1, <2>1, <2>2, <2>3, <2>5, <2>7, <3>2 DEF TallyInv
        <4> QED
          BY <2>1, <3>1, <4>1 DEF TallyInv
      <3>3. CASE ~done
        <4>1. /\ NumTerminations = NumSuccesses
              /\ NumTerminations' = NumTerminations /\ NumSuccesses' = NumSuccesses
          BY <1>1, <2>1, <2>2, <2>3, <2>5, <2>7, <3>3 DEF TallyInv
        <4> QED
          BY <2>1, <3>1, <4>1 DEF TallyInv
      <3> QED
        BY <3>2, <3>3
    <2> QED
      BY <2>6, <2>7
  <1>6. CASE Quiet
    <2>1. CASE mutated
      BY <1>6, <2>1 DEF Quiet, TallyInv
    <2>2. CASE ~mutated
      BY <1>2, <1>6, <2>2 DEF Quiet
    <2> QED
      BY <2>1, <2>2
  <1>7. CASE Lost
    BY <1>2, <1>7 DEF Lost
  <1>8. CASE Incident
    BY <1>2, <1>8 DEF Incident, agentVars
  <1>9. CASE SinkWorks
    BY <1>2, <1>9 DEF SinkWorks, agentVars
  <1> QED
    BY <1>3, <1>4, <1>5, <1>6, <1>7, <1>8, <1>9, StepKinds

\* Under the built-in harness, for any number of episodes and steps: the report is
\* about all of them and counts as successful as many as were terminated.
THEOREM ReportIsExact == Spec => []ReportExact
  <1> DEFINE IInv == TracedInv /\ TallyInv
  <1>1. Init => IInv
    BY InitType, InitFlow, InitFresh, InitTraces, InitTally DEF TracedInv
  <1>2. IInv /\ [Next]_vars => IInv'
    BY StepType, StepFlow, StepFresh, StepTraces, StepTally DEF TracedInv
  <1>3. IInv => ReportExact
    <2> SUFFICES ASSUME IInv, pc = "analyze", ~mutated
                 PROVE  /\ ReportedRuns = Runs
                        /\ ReportedSuccesses =
                              Cardinality({i \in DOMAIN recorded : recorded[i].kind = "terminate"})
      BY DEF ReportExact
    <2>1. Analyzed = recorded /\ run = NumRuns
      BY CopyIsWhole DEF Analyzed, TraceVersion, HeadVersion
    <2>2. recorded \in Seq(Events)
      BY DEF TracedInv, TypeInv, TypeOK
    <2>3. ReportedRuns \subseteq Runs
      BY <2>1 DEF ReportedRuns, TracedInv, FreshInv, Runs
    <2>4. ASSUME NEW r \in Runs PROVE r \in ReportedRuns
      <3>1. \E first, last \in DOMAIN recorded : Complete(recorded, r, first, last)
        BY <2>1 DEF TracedInv, TraceInv, Runs
      <3>2. PICK first \in DOMAIN recorded, last \in DOMAIN recorded :
               Complete(recorded, r, first, last)
        BY <3>1
      <3>3. first \in first .. last
        <4>1. first \in Int /\ last \in Int /\ last - first \in 1 .. MaxSteps + 1
          BY <2>2, <3>2 DEF Complete
        <4> QED
          BY <4>1, TrainingAssumption
      <3>4. recorded[first].run = r
        BY <3>2, <3>3 DEF Complete
      <3> QED
        BY <2>1, <3>4 DEF ReportedRuns
    <2>5. NumTerminations = NumSuccesses
      BY DEF TallyInv
    <2>6. /\ Positions(recorded, Successes) =
                {i \in DOMAIN recorded : recorded[i].kind = "run_end" /\ recorded[i].success}
          /\ Positions(recorded, Terminations) =
                {i \in DOMAIN recorded : recorded[i].kind = "terminate"}
      BY <2>2 DEF Positions, Successes, Terminations
    <2> QED
      BY <2>1, <2>3, <2>4, <2>5, <2>6 DEF ReportedSuccesses, NumTerminations, NumSuccesses
  <1> QED
    BY <1>1, <1>2, <1>3, PTL DEF Spec

=============================================================================
