SPECIFICATION Spec
CONSTANTS
    Workers = {w1, w2, w3}
    CpuSets = {{w1}, {w1, w2}, {w1, w2, w3}}
    Requests = {r1, r2}
    None = None
    MaxConn = 4
    Capped = 3
    Headroom = 1
    BananaTotal = 2
    FlatMax = 2
    MaxDeaths = 1
CHECK_DEADLOCK FALSE
INVARIANTS
    TypeOK
    NeverTurnedAway
PROPERTIES
    EveryQueryEnds
    WorkersComeBack
