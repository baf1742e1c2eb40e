CONSTANTS
    Room <- Rooms
    TextLength = {0, 2}
    Size = {0, 3}
    Handle = Handle
    Null = Null
SPECIFICATION Spec
INVARIANTS
    TypeOK
    AskedTwice
    NumbersFit
