CONSTANTS
    Own = own
    Namespaces = {own, n1}
    Specs <- MCSpecs
    FirstWorlds <- MCFirstWorlds
    MaxEdits = 2
    MaxMishaps = 1
SPECIFICATION Spec
CHECK_DEADLOCK FALSE
INVARIANTS
    TypeOK
    SecretsMadeOnce
    NothingLeftBehind
    ControllerOutlivesStacks
PROPERTIES
    SettlesToSpec
    TargetsGetBound
