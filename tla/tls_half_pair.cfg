\* "mid-swap a file is missing for an instant": the two moves are renames.
SPECIFICATION Spec
CONSTANTS
    Workers = {w1}
    Window = 2
INVARIANTS
    NoHalfPairIsBuilt
CHECK_DEADLOCK FALSE
