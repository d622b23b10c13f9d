SPECIFICATION Spec
CONSTANTS
    i1 = i1
    i2 = i2
    q1 = q1
    s1 = s1
    Ids <- OneId
    Gets <- NoGets
    Typ = Typ
    NoOne = NoOne
    Streams <- NoStreams
    Kind = "memo"
    Eager <- NoneIsEager
    MaxRestarts = 1
INVARIANTS
    OkIsDurable
