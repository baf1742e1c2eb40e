CONSTANTS
    Column = {1, 2}
    MaxRows = 2
    MaxBound = 2
    Address = {1, 2, 3, 4}
    Place <- Rows4
    Offset = {0, 20}
    RowSize = {0, 4}
    Size = {0, 2}
    Pointer = {0, 100}
    NullCell <- Second
    Kinds = {"fits"}
    Null = Null
SPECIFICATION Spec
INVARIANTS
    TypeOK
    RowsInPlace
    StatusInArray
    StatusesTell
    CountIsHonest
