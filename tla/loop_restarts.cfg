\* Up to three runs of the program over one directory, with crashes anywhere.
SPECIFICATION Spec
CONSTANTS
    A = A
    B = B
    Broken = Broken
    Builtin = Builtin
    Genesis = Genesis
    NoHead = NoHead
    Torn = Torn
    Contents <- MCContents
    ValidContents <- MCValid
    GenesisContent = Builtin
    Generations = 3
    MaxPatchAttempts = 2
    RequestChars <- MCRequest
    ResponseChars <- MCResponse
    MaxResponseChars = 4
    MaxTotalUsd = 100
    MaxUsdPerGeneration <- NoCap
    MaxMutationTokens = 10
    MaxSandboxRuns = 4
    UsdPerToken = 0
    UsdPerRun = 0
    MaxRestarts = 2
VIEW RestartsView
INVARIANTS
    TypeOK
    HeadComplete
    NoContentReevaluated
    OnlyGatedCodeExecuted
PROPERTIES
    ArtifactsImmutable
    EvolutionSpec
CHECK_DEADLOCK FALSE
