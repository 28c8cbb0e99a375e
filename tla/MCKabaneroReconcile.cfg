CONSTANTS
    k1 = k1
    Kabaneros = {k1}
    Short = 1
    Step = 2
    MaxDelay = 3
    Worlds <- MCWorlds
    Faults = {"finalizer", "webhook", "component", "status", "cleanup", "crash"}
    MaxEdits = 2
    MaxChanges = 1
    MaxFaults = 1
SPECIFICATION FairSpec
INVARIANTS
    TypeOK
    OwnersHaveFinalizer
PROPERTIES
    ComesToRest
    BecomesReady
    DeletionCompletes
CHECK_DEADLOCK FALSE
