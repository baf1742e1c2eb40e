CONSTANTS
    Handle = {h1}
    PStmt = {p1, p2}
    RSet = {r1, r2}
    Sql = {q1}
    Null = Null
    MaxRows = 2
    MaxBound = 1
    MaxArraySize = 2
    MaxTimeout = 0
SPECIFICATION Spec
SYMMETRY Symmetric
INVARIANTS
    TypeOK
    NoSilentSkip
PROPERTIES
    NoDataMeansAll
