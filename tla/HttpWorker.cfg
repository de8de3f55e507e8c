SPECIFICATION FairSpec
CONSTANTS
    c1 = c1
    c2 = c2
    Static = Static
    None = None
    Clients <- MCClients
    MaxCalls = 2
INVARIANTS
    TypeOK
    EachRequestOnceInOrder
    NoLostWakeup
    AtMostOneAfterShutdown
    MembersOutliveUsers
PROPERTIES
    PushedIsAttempted
    DestructorReturns
    ImplementsChannel
CHECK_DEADLOCK FALSE
