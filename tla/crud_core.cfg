SPECIFICATION Spec
SYMMETRY Symmetry
CONSTANTS
    Requests = {r1, r2}
    Ids = {i1}
    Workers = {w1, w2}
    Shared = Shared
    None = None
    CrudTtl = 1
    BananaTtl = 2
    Lag = 1
    MaxClock = 3
    MaxVersions = 2
CHECK_DEADLOCK FALSE
INVARIANTS
    StaleBodiesExpire
PROPERTIES
    UpdateIsSeen
    KeepsPromise
