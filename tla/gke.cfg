\* One evaluation; the setup may take longer than the grace.
SPECIFICATION FairSpec
CONSTANTS
    NumPolicies = 3
    Layouts = {"flat", "versioned"}
    WallClock = 3
    Grace = 5
    StatusDelay = 1
    JobDelay = 1
    MaxSetup = 8
    MaxTime = 20
INVARIANTS
    TypeOK
    PoliciesBeforeJob
    NamespaceTornDown
    GraceCoversSetup
PROPERTIES
    KeepsContract
    EvaluateEnds
CHECK_DEADLOCK FALSE
