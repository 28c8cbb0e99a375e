CONSTANTS
    s1 = s1
    s2 = s2
    v1 = v1
    v2 = v2
    None = None
    Stacks = {s1, s2}
    Versions = {v1, v2}
    Contents <- MCContents
    UserContents <- MCUserContents
    UserStates = {"active"}
    RepositoryCount = 2
    RepoPipelines <- MCRepoPipelines
    Hubs <- MCHubs
    FirstHubs <- MCFirstHubs
    MaxEdits = 1
    MaxChanges = 1
    MaxFaults = 1
SPECIFICATION Spec
CHECK_DEADLOCK FALSE
INVARIANTS
    TypeOK
PROPERTIES
    DesiredVersionsKept
    FollowsHub
