\* One run of one span and one call of a model that answers any patch.
SPECIFICATION Spec
CONSTANTS
    Tools <- MCTools
    ErrorClasses <- MCErrors
    SqlClass <- MCSqlClass
    DepthWidth = 2
    LineOverhead = 3
    MinFiller = 5
    NeedleSize = 4
    NeedleTool = "auth_service"
    MaxRuns = 1
    MaxSpans = 1
    Size <- MCSize
    ArtifactChars = 8
    MaxTokens = 10
    MaxAttempts = 1
    Answers <- MCAnswers
    Patches <- MCPatches
    Benchmarks <- MCBenchmarks
    MaxTotalUsd = 20
    MaxUsdPerGeneration <- NoCap
    MaxMutationTokens = 14
    MaxSandboxRuns = 0
    UsdPerToken = 1
    UsdPerRun = 0
INVARIANT CheckedIsBound
CHECK_DEADLOCK FALSE
