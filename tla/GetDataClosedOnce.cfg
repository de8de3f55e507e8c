SPECIFICATION Spec
CONSTANTS
    g1 = g1
    g2 = g2
    None = None
    Getters <- MCGetters
    MaxCalls = 1
    MaxPieces = 2
INVARIANTS
    ClosedOnce
CHECK_DEADLOCK FALSE
