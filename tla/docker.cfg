\* Two evaluations in a container that may do anything, or hang.
SPECIFICATION FairSpec
CONSTANTS
    NumEvals = 2
INVARIANTS
    TypeOK
PROPERTIES
    KeepsContract
    EvaluateEnds
CHECK_DEADLOCK FALSE
