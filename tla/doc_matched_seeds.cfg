\* Two evaluator processes, each with the hash salt Python gave it.
SPECIFICATION Spec
CONSTANTS
    salt1 = salt1
    salt2 = salt2
    Chains <- MCSeedChains
    FinalStates <- MCSeedStates
    Salts = {salt1, salt2}
    TaskHash <- MCTaskHash
    Reports = {}
INVARIANTS
    SeedsMatch
CHECK_DEADLOCK FALSE
