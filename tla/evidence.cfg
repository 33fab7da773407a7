\* One or two small runs, the request made of them, and two calls of a model
\* that answers anything; or one benchmark.
SPECIFICATION Spec
CONSTANTS
    Tools <- MCTools
    ErrorClasses <- MCErrors
    SqlClass <- MCSqlClass
    DepthWidth = 2
    LineOverhead = 3
    MinFiller = 5
    NeedleSize = 4
    NeedleTool = "auth_service"
    MaxRuns = 2
    MaxSpans = 4
    Size <- MCSize
    ArtifactChars = 8
    MaxTokens = 10
    MaxAttempts = 2
    Answers <- MCAnswers
    Patches <- MCPatches
    Benchmarks <- MCBenchmarks
    MaxTotalUsd = 20
    MaxUsdPerGeneration <- NoCap
    MaxMutationTokens = 14
    MaxSandboxRuns = 0
    UsdPerToken = 1
    UsdPerRun = 0
INVARIANTS
    TypeOK
    WindowKeepsNewest
    AnalyzersAgree
    FlagEndsRound
    BenchmarkMeasuresEngine
CHECK_DEADLOCK FALSE
