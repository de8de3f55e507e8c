SPECIFICATION FairSpec
CONSTANTS
    c1 = c1
    c2 = c2
    c3 = c3
    None = None
    Callers <- MCCallers
    MaxFailures = 2
INVARIANTS
    StartedWhenShared
    LateReadyBeforeWork
PROPERTIES
    SignalArrives
    CallersServed
CHECK_DEADLOCK FALSE
