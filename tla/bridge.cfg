CONSTANTS
    Thread = {t1, t2}
    Connection = {d1}
    Statement = {s1, s2}
    Null = Null
SPECIFICATION FairSpec
CHECK_DEADLOCK FALSE
INVARIANTS
    TypeOK
    SuccessMeansDone
    WorkersDetach
    OneJvm
    EveryHandleFound
    NeverStuck
PROPERTIES
    CallsAreSynchronous
    EntriesStay
    CallsReturn
