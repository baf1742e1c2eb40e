CONSTANTS
    Handle = {h1}
    Dsn = {"a", "b"}
    Value <- Values
    Driver <- Drivers
    Ini <- Inis
    Absent = Absent
    Null = Null
SPECIFICATION FairSpec
INVARIANTS
    TypeOK
    LeftoversAreKnown
PROPERTIES
    ConnectsAtomically
    AttemptsEnd
