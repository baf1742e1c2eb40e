CONSTANTS
    Column = {1}
    MaxRows = 3
    MaxBound = 2
    Address = {1, 2}
    Place <- Nulls
    Offset = {0}
    RowSize = {0, 4}
    Size = {0, 1, 2, 4}
    Pointer = {0, 100}
    NullCell <- Second
    Kinds = {"fits", "tight", "throws", "escapes"}
    Null = Null
SPECIFICATION DrainSpec
INVARIANTS
    StoredInPlaces
PROPERTIES
    Implements
    EachStepCounts
    DrainEnds
CHECK_DEADLOCK FALSE
