\* One run of the program, with amounts that cross every ceiling.
SPECIFICATION FairSpec
CONSTANTS
    A = A
    B = B
    Broken = Broken
    Builtin = Builtin
    Genesis = Genesis
    NoHead = NoHead
    Torn = Torn
    Contents <- MCContents
    ValidContents <- MCValid
    GenesisContent = Builtin
    Generations = 3
    MaxPatchAttempts = 2
    RequestChars <- MCRequests
    ResponseChars <- MCResponses
    MaxResponseChars = 7
    MaxTotalUsd = 16
    MaxUsdPerGeneration = 13
    MaxMutationTokens = 4
    MaxSandboxRuns = 3
    UsdPerToken = 1
    UsdPerRun = 3
    MaxRestarts = 0
INVARIANTS
    OvershootBounded
    CapsBounded
    StopsAtCeiling
    FlagsReported
PROPERTIES
    EveryRunEnds
CHECK_DEADLOCK FALSE
