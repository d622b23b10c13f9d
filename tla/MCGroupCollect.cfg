SPECIFICATION FairSpec
CONSTANTS
    g1 = g1
    c1 = c1
    a = a
    m = m
    d1 = d1
    Targets <- MCTargets
    TargetsFile <- TargetAndMemo
    HandlerOf <- MCHandlerOf
    Collections <- OneCollection
    GroupIdOf <- OneGroupIdOf
    Groups <- OneGroup
    NoGroup = NoGroup
    None = None
    Direct <- OneDirect
    DirectTarget <- OneDirectTarget
    AnswersLost = TRUE
    EmptyRequests = TRUE
INVARIANTS
    TypeOK
    CheckMarkIsTrue
    FailureToldOnce
    SettledGroupIsSummarised
PROPERTIES
    EveryGroupIsSummarised
    FailureTold
    ImplementsGroupSummary
