SPECIFICATION FairSpec
CONSTANTS
    g1 = g1
    c1 = c1
    a = a
    m = m
    d1 = d1
    Targets <- MCTargets
    TargetsFile <- OneTarget
    HandlerOf <- MCHandlerOf
    Collections <- NoCollection
    GroupIdOf <- NoGroupIdOf
    Groups <- OneGroup
    NoGroup = NoGroup
    None = None
    Direct <- OneDirect
    DirectTarget <- OneDirectTarget
    AnswersLost = FALSE
    EmptyRequests = TRUE
PROPERTIES
    RejectionTold
