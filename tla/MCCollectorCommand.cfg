SPECIFICATION FairSpec
CONSTANTS
    i1 = i1
    i2 = i2
    q1 = q1
    s1 = s1
    Ids <- TwoIds
    Gets <- OneGet
    Typ = Typ
    NoOne = NoOne
    Streams <- OneStream
    Kind = "command"
    Eager <- FirstIsEager
    MaxRestarts = 1
INVARIANTS
    TypeOK
    HookedOnce
    OkIsDurable
    ReadyIsWhole
    ToldIsWhole
PROPERTIES
    EventsInOrder
    Settles
    ImplementsLifecycle
