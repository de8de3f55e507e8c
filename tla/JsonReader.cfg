SPECIFICATION FairSpec
CONSTANTS
    None = None
    FeatureSets <- MCFeatures
    StackLimit = 2
    MaxTokens = 7
    MaxParses = 2
INVARIANTS
    AcceptsDocuments
    RefusesNoDocument
    FailsWithItsError
    NodesFollowCalls
PROPERTY ParseReturns
CHECK_DEADLOCK FALSE
