CONSTANTS
    FirstAmiss <- MCFirstAmiss
    FirstDisabled <- MCFirstDisabled
    MaxMishaps = 1
SPECIFICATION Spec
CHECK_DEADLOCK FALSE
INVARIANTS
    TypeOK
    ReadyMeansAll
PROPERTIES
    BecomesReady
    TellsWhatIsAmiss
