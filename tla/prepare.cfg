CONSTANTS
    Handle = {h1}
    PStmt = {p1, p2, p3}
    RSet = {r1, r2, r3}
    Sql = {q1, q2}
    Null = Null
    MaxRows = 0
    MaxBound = 0
    MaxArraySize = 0
    MaxTimeout = 1
SPECIFICATION Spec
SYMMETRY Symmetric
INVARIANTS
    RunsWhatWasAsked
