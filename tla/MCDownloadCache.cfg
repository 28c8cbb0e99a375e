CONSTANTS
    c1 = c1  c2 = c2  u1 = u1  p1 = p1
    Callers = {c1, c2}
    Urls = {u1}
    Paths = {p1}
    Cacheable = {1, 2}
    MaxContents <- MCContents
SPECIFICATION Spec
SYMMETRY Symmetry
INVARIANTS
    TypeOK
    EntriesMatch
PROPERTIES
    UrlsReturnData
    ReadsRemote
CHECK_DEADLOCK FALSE
