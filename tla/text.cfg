CONSTANTS
    Unit <- BoundaryUnits
    MaxLength = 3
    MaxSize = 8
SPECIFICATION FairSpec
CHECK_DEADLOCK FALSE
INVARIANTS
    TypeOK
    SentAsUtf8
    ArrivesUnchanged
    NothingDropped
    NothingOverrun
    ReadsStay
PROPERTIES
    IsPassed
    Ends
