-------------------------------- MODULE Jdbc --------------------------------
(***************************************************************************)
(* The JDBC objects the driver holds, as the code under src/ uses them     *)
(* (java.sql is not part of the repository): PreparedStatements and their  *)
(* ResultSets.  A closed object carries no data, so "closed" is Null.      *)
(* An object that is closed and that no handle refers to stands for one    *)
(* that has been collected, and may be handed out again as a new one: the  *)
(* pools PStmt and RSet bound only how many objects exist at a time.       *)
(***************************************************************************)
EXTENDS Integers

CONSTANTS
    PStmt,      \* PreparedStatement objects
    RSet,       \* ResultSet objects
    Sql,        \* SQL texts
    Null,       \* Java's null, and the state of a closed object
    MaxRows     \* bound: the largest number of rows of a result set

VARIABLES
    planOf,     \* planOf[p]: the text p was prepared from, and whether it ran
    cursorOf    \* cursorOf[r]: the statement r came from, its size and position

Plan   == [sql : Sql, run : BOOLEAN]
\* Position 0 is before the first row, rows + 1 after the last.
Cursor ==
    {c \in [owner : PStmt, rows : 0 .. MaxRows, pos : 0 .. MaxRows + 1] : c.pos <= c.rows + 1}

ASSUME BoundAssumption == MaxRows \in Nat
ASSUME NullAssumption ==
    /\ Null \notin PStmt
    /\ Null \notin RSet
    /\ Null \notin Sql
    /\ Null \notin Plan
    /\ Null \notin Cursor
ASSUME PoolAssumption == PStmt \cap RSet = {}

JdbcTypeOK ==
    /\ planOf   \in [PStmt -> Plan \cup {Null}]
    /\ cursorOf \in [RSet -> Cursor \cup {Null}]

JdbcInit ==
    /\ planOf   = [p \in PStmt |-> Null]
    /\ cursorOf = [r \in RSet |-> Null]

-----------------------------------------------------------------------------
\* !isClosed(), of a reference that may be null.
PlanOpen(p)   == p # Null /\ planOf[p] # Null
CursorOpen(r) == r # Null /\ cursorOf[r] # Null

\* The result sets p has open: all of them close when p closes, when it is
\* executed again and when it moves to its next result.
CursorsOf(p) == {r \in RSet : cursorOf[r] # Null /\ cursorOf[r].owner = p}

\* The result sets, or the plans, left when those of a set have been closed.
CursorsWithout(R) == [r \in RSet |-> IF r \in R THEN Null ELSE cursorOf[r]]
PlansWithout(P)   == [p \in PStmt |-> IF p \in P THEN Null ELSE planOf[p]]

\* The ways r.close() can end.  Closing a closed result set does nothing; of an
\* open one it may throw, before or after the result set is closed.
CloseCursor(r) ==
    IF CursorOpen(r)
    THEN [closed : {{r}}, threw : BOOLEAN] \cup [closed : {{}}, threw : {TRUE}]
    ELSE [closed : {{}}, threw : {FALSE}]

\* The rows next() still has to return.
Remaining(c) == IF c.pos < c.rows THEN c.rows - c.pos ELSE 0
=============================================================================
