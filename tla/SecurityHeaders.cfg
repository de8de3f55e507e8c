SPECIFICATION HeadersSpec
CONSTANT MaxCalls = 2
INVARIANTS
    HeadersTypeOK
    SuffixIsSent
    SentListIsLive
    OnlyFailedAppendsLeak
CHECK_DEADLOCK FALSE
