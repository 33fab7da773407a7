\* One comparison of a candidate and an incumbent under several configurations.
SPECIFICATION Spec
CONSTANTS
    salt1 = salt1
    salt2 = salt2
    Chains <- MCChains
    FinalStates <- MCFinalStates
    Salts = {salt1}
    TaskHash <- MCTaskHash
    Reports <- MCReports
INVARIANTS
    TypeOK
    SettingsMostSpecific
    
    PromotionNotUndone
    StreamDecidesMixedOnly
CHECK_DEADLOCK FALSE
