CONSTANTS
    Versions = {v1, v2}
    Images = {i1}
    Hosts = {h1}
    RegistryOf <- MCRegistryOf
    Public = {}
    Secrets <- MCSecrets
    MaxEdits = 2
    MaxPushes = 1
    MaxChanges = 2
SPECIFICATION Spec
CHECK_DEADLOCK FALSE
INVARIANTS
    TypeOK
PROPERTIES
    CapturedOnce
    DigestsGetCaptured
