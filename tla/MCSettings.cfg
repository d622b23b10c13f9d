SPECIFICATION Spec
CHECK_DEADLOCK FALSE
CONSTANTS
    short = short
    long = long
    unpretty = unpretty
    bad = bad
    Docs <- MCDocs
    Texts <- MCTexts
    Sanitized <- MCSanitized
    Size <- MCSize
    Default = short
    Invalid = Invalid
    NoFile = NoFile
    Torn = Torn
    Pages = {p1, p2}
    MaxSaves = 2
    MaxKills = 1
INVARIANTS
    TypeOK
    QuietFileIsSaved
    ShownIsSaved
PROPERTIES
    CollectsNewest
