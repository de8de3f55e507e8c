SPECIFICATION FairSpec
CONSTANTS
    c1 = c1
    c2 = c2
    Static = Static
    None = None
    Clients <- MCClients
    MaxCalls = 1
PROPERTIES
    ReadySignalReceived
CHECK_DEADLOCK FALSE
