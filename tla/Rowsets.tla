------------------------------ MODULE Rowsets ------------------------------
(***************************************************************************)
(* What fetching a rowset promises an application: between a call and its  *)
(* answer nothing is to be seen, and with SQL_SUCCESS all rows of the      *)
(* rowset are in place, each binding of each row at                        *)
(*                                                                         *)
(*     bound address + offset + row * row size,                            *)
(*                                                                         *)
(* and nothing else has been written.  Rowset implements it.               *)
(***************************************************************************)
EXTENDS Integers, Sequences

CONSTANTS
    NullCell,   \* the cells <<row, column>> of the result that hold NULL
    Null        \* no answer yet

VARIABLES
    cursor,     \* the result set: its number of rows, and how many were read
    layout,     \* the bindings, their offset, the row size and the rowset size
    placed,     \* what the last fetch has written: addresses and contents
    code        \* its answer

vars == <<cursor, layout, placed, code>>

\* What is written for a binding of a row r of the rowset, the row of the result after from + r.
Cell(from, r, b) ==
    LET address(p) == p + layout.offset + r * layout.rowSize
        row == from + r + 1
    IN  IF <<row, b.column>> \in NullCell
        THEN {<<address(b.length), <<row, b.column, "null">>>>}
        ELSE {<<address(b.length), <<row, b.column, "length">>>>}
             \cup IF b.kind = "fits"
                  THEN {<<address(b.value), <<row, b.column, "value">>>>}
                  ELSE {}

\* What is written for n rows.
Image(from, n) ==
    UNION {Cell(from, ri[1], layout.binds[ri[2]]) : ri \in (0 .. n - 1) \X (1 .. Len(layout.binds))}

\* A rowset is full unless the result ends in it.
RowsOf(want, n) ==
    /\ n \in 0 .. want
    /\ cursor.pos + n <= cursor.rows
    /\ n < want => cursor.pos + n = cursor.rows

Init ==
    /\ cursor.pos = 0
    /\ placed = {}
    /\ code = Null

\* The application executes again, changes the layout, or fails to.
Open ==
    /\ code # "busy"
    /\ cursor'.pos = 0
    /\ placed' = {}
    /\ code' = Null
    /\ UNCHANGED layout

Set ==
    /\ code # "busy"
    /\ placed' = {}
    /\ code' \in {Null, "SQL_ERROR"}
    /\ UNCHANGED cursor

Call ==
    /\ code # "busy"
    /\ placed' = {}
    /\ code' = "busy"
    /\ UNCHANGED <<cursor, layout>>

\* SQLFetch wants one row, SQLFetchScroll the rowset size.
Deliver ==
    /\ code = "busy"
    /\ \E want \in {1, layout.size}, n \in 0 .. cursor.rows :
           /\ RowsOf(want, n)
           /\ want > 0 => n > 0
           /\ cursor' = [cursor EXCEPT !.pos = @ + n]
           /\ placed' = Image(cursor.pos, n)
    /\ code' = "SQL_SUCCESS"
    /\ UNCHANGED layout

End ==
    /\ code = "busy"
    /\ cursor.pos = cursor.rows
    /\ code' = "SQL_NO_DATA"
    /\ UNCHANGED <<cursor, layout, placed>>

\* Rows may be lost and the rowset be incomplete, but nothing else is written.
Fail ==
    /\ code = "busy"
    /\ \E want \in {1, layout.size}, n \in 0 .. cursor.rows :
           /\ RowsOf(want, n)
           /\ cursor'.rows = cursor.rows
           /\ cursor'.pos \in cursor.pos .. cursor.pos + n
           /\ placed' \subseteq Image(cursor.pos, n)
    /\ code' \in {"SQL_ERROR", "exception", "crashed"}
    /\ UNCHANGED layout

Next == Open \/ Set \/ Call \/ Deliver \/ End \/ Fail

Spec == Init /\ [][Next]_vars
=============================================================================
