SPECIFICATION FairSpec
CONSTANTS
    c1 = c1
    c2 = c2
    Clients <- MCClients
    mHttpThread = mHttpThread
    Static = Static
    None = None
    MaxCalls = 1
    MaxDirect = 2
INVARIANTS
    SendsItsPayload
    CleanupIsAfterLastUse
    OnePollAtATime
PROPERTIES
    ImplementsWorker
    ImplementsCalls
CHECK_DEADLOCK FALSE
