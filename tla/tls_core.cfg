SPECIFICATION Spec
CONSTANTS
    Workers = {w1, w2}
    Window = 2
INVARIANTS
    NothingIsRefused
    RotationIsSeenInTime
    PassMeansServed
PROPERTIES
    RotationIsServed
CHECK_DEADLOCK FALSE
