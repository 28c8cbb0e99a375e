CONSTANTS
    Versions = {v1, v2}
    Ids = {i1, i2}
    Keys = {k1, k2}
SPECIFICATION UsesSpec
INVARIANTS
    UsedKeysAreRetained
    UnusedKeysAreDropped
