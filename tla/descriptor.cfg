CONSTANTS
    Handle = {h1}
    PStmt = {p1, p2}
    RSet = {r1, r2}
    Sql = {q1}
    Null = Null
    MaxRows = 1
    MaxBound = 0
    MaxArraySize = 0
    MaxTimeout = 0
SPECIFICATION Spec
INVARIANTS
    OpenCursorIsDescribed
