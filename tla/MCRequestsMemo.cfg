SPECIFICATION RequestsSpec
CONSTANTS
    i1 = i1
    i2 = i2
    q1 = q1
    app = app
    db = db
    Ids <- TwoIds
    Gets <- OneIndex
    Queries <- NoQueries
    DatetimeOf <- MCDatetimeOf
    LabelOf <- MCLabelOf
    Labels <- MCLabels
    AnyLabel = AnyLabel
    Typ = Typ
    NoOne = NoOne
    Streams <- NoStreams
    Kind = "memo"
    Eager <- AllAreEager
    MaxRestarts = 1
INVARIANTS
    EventsFollowData
    IndexShowsTexts
