\* The job template of the repository: no evaluator finds its candidate.
SPECIFICATION Spec
CONSTANTS
    NumPolicies = 3
    Layouts = {"flat"}
    WallClock = 2
    Grace = 3
    StatusDelay = 1
    JobDelay = 1
    MaxSetup = 2
    MaxTime = 20
INVARIANTS
    MountedArtifactIsFound
CHECK_DEADLOCK FALSE
