SPECIFICATION RequestsSpec
CONSTANTS
    i1 = i1
    i2 = i2
    q1 = q1
    app = app
    db = db
    Ids <- TwoIds
    Gets <- NoGets
    Queries <- OneQuery
    DatetimeOf <- MCDatetimeOf
    LabelOf <- MCLabelOf
    Labels <- MCLabels
    AnyLabel = AnyLabel
    Typ = Typ
    NoOne = NoOne
    Streams <- NoStreams
    Kind = "pprof"
    Eager <- NoneIsEager
    MaxRestarts = 2
INVARIANTS
    HookedOnce
    LatestIsWhole
    LatestIsFresh
