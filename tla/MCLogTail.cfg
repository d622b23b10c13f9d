SPECIFICATION FairSpec
CHECK_DEADLOCK FALSE
CONSTANTS
    MaxLines = 5
    MaxRotations = 2
INVARIANTS
    TypeOK
    OnlyNewLines
    WindowIsExact
PROPERTIES
    RequestEnds
