CONSTANTS
    Stacks = {s1, s2}
    Versions = {v1, v2}
    Devfiles = {d1}
    Metas = {good, bad}
    BadMetas = {bad}
    MaxEdits = 3
    MaxFaults = 1
SPECIFICATION Spec
CHECK_DEADLOCK FALSE
INVARIANTS
    TypeOK
    LinksResolve
PROPERTIES
    FollowsStacks
