\* The generation after a promotion.
SPECIFICATION Spec
CONSTANTS
    Events <- TrainingEvents
    NumRuns = 2
    MaxSteps = 3
    MaxCalls = 1
    MaxHistory = 3
    FlushEvery = 3
    MaxInserts = 2
    PromptTerminal <- AnyPrompt
INVARIANT
    AnalysisSeesTraces
CHECK_DEADLOCK FALSE
