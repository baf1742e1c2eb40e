CONSTANTS
    Handle = {h1, h2}
    PStmt = {p1, p2, p3}
    RSet = {r1, r2, r3}
    Sql = {q1}
    Null = Null
    MaxRows = 0
    MaxBound = 0
    MaxArraySize = 0
    MaxTimeout = 0
SPECIFICATION Spec
SYMMETRY Symmetric
INVARIANTS
    OpenMeansAnnounced
    NoLeak
PROPERTIES
    CursorsOnTheirOwn
