CONSTANTS
    v1 = v1  v2 = v2  i1 = i1  k1 = k1  k2 = k2  a1 = a1  a2 = a2  s1 = s1  s2 = s2
    Versions = {v1, v2}
    Ids = {i1}
    Keys = {k1, k2}
    Stacks = {s1, s2}
    Gitops = {}
    Assets = {a1, a2}
    Triggers = {}
    Foreign = {}
    Contents <- MCContents
    Usual <- MCUsual
    Specs <- MCSpecs
    QuietEdits = TRUE
    Faults = {"manifest", "apply", "crash"}
    MaxEdits = 4
    MaxLosses = 0
    MaxMishaps = 1
SPECIFICATION FairSpec
INVARIANTS
    TypeOK
PROPERTIES
    KeepsOwnership
    PipelinesGetActivated
    DeactivatedAssetsGo
    DeletionCompletes
CHECK_DEADLOCK FALSE
