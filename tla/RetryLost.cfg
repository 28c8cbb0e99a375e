CONSTANTS
    k1 = k1
    Kabaneros = {k1}
    Short = 1
    Step = 2
    MaxDelay = 3
    Worlds <- MCWorlds
    Faults = {}
    MaxEdits = 1
    MaxChanges = 2
    MaxFaults = 0
SPECIFICATION Spec
INVARIANTS
    FailuresAreRetried
CHECK_DEADLOCK FALSE
