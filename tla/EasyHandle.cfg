SPECIFICATION MCFairSpec
CONSTANTS
    w = w
    p1 = p1
    p2 = p2
    s = s
    None = None
    Workers <- MCWorkers
    Pollers <- MCPollers
    Setters <- MCSetters
    MaxCalls = 3
INVARIANTS
    OwnTransfer
    StatusIsOwn
    PollersDoNotMix
    WholeCertificate
PROPERTIES
    ImplementsCalls
CHECK_DEADLOCK FALSE
