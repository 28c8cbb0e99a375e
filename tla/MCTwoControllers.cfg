CONSTANTS
    v1 = v1  i1 = i1  k1 = k1  k2 = k2  a1 = a1  b1 = b1  s1 = s1  g1 = g1
    Versions = {v1}
    Ids = {i1}
    Keys = {k1, k2}
    Stacks = {s1}
    Gitops = {g1}
    Assets = {a1, b1}
    Triggers = {}
    Foreign = {b1}
    Contents <- MCContents
    Usual <- MCUsual
    Specs <- MCSpecs
    QuietEdits = FALSE
    Faults = {"get", "write", "status", "crash"}
    MaxEdits = 3
    MaxLosses = 1
    MaxMishaps = 1
SPECIFICATION Spec
INVARIANTS
    DeletionGoesOn
    ActiveAssetsOwned
    OwnedAssetsAreRecorded
    RestsActivated
PROPERTIES
    OwnReferencesOnly
CHECK_DEADLOCK FALSE
