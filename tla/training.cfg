\* Two episodes, long enough to truncate the context, to flush in the middle of
\* one, and to retry several batches.
SPECIFICATION FairSpec
CONSTANTS
    Events <- TrainingEvents
    NumRuns = 2
    MaxSteps = 2
    MaxCalls = 1
    MaxHistory = 2
    FlushEvery = 3
    MaxInserts = 2
    PromptTerminal <- AnyPrompt
INVARIANTS
    TypeOK
    LocalExact
    TracesWellFormed
    ContextSound
    EndedRunsDelivered
    DuplicatesBounded
    ReportExact
PROPERTIES
    BatchEnds
CHECK_DEADLOCK FALSE
