SPECIFICATION Spec
CONSTANTS
    g1 = g1
    g2 = g2
    None = None
    Getters <- MCGetters
    MaxCalls = 2
    MaxPieces = 2
SYMMETRY Symmetry
INVARIANTS
    HandleIsClosed
    LoneResponse
    ResponseIsMet
CHECK_DEADLOCK FALSE
