SPECIFICATION Spec
CONSTANTS
    g1 = g1
    g2 = g2
    e1 = e1
    e2 = e2
    a = a
    b = b
    c = c
    r1 = r1
    r2 = r2
    r3 = r3
    r4 = r4
    NoGroup = NoGroup
    None = None
    Groups <- OneGroups
    Targets <- MCTargets
    Expectations <- OneExpectation
    GroupOf <- OneGroupOf
    TargetLists <- DupTargetLists
    Reports <- OneReports
    GroupOfReport <- OneGroupOfReport
    TargetOfReport <- DupTargetOfReport
    TimerMayWin = FALSE
INVARIANTS
    FailuresAreListed
