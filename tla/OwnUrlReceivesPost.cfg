SPECIFICATION Spec
CONSTANTS
    w = w
    p1 = p1
    p2 = p2
    s = s
    None = None
    Workers <- MCWorkers
    Pollers <- MCPollers
    Setters <- MCSetters
    MaxCalls = 2
INVARIANTS
    OwnUrlReceivesPost
CHECK_DEADLOCK FALSE
