------------------------------ MODULE Cursors ------------------------------
(***************************************************************************)
(* What the statement handles promise an application, without the JDBC     *)
(* objects behind them: each handle is on its own.  It has at most one     *)
(* plan and one cursor; a cursor is opened from the handle's own plan,     *)
(* moves only by calls on the handle, and is gone once the handle is       *)
(* prepared again.  OdbcStatement implements it.                           *)
(***************************************************************************)
EXTENDS Integers

CONSTANTS Handle, Sql, Null, MaxRows

VARIABLES
    plan,       \* the text a handle is prepared with, or Null
    cursor      \* the rows of its open cursor and its position, or Null

vars == <<plan, cursor>>

Position == [rows : 0 .. MaxRows, pos : 0 .. MaxRows + 1]

Init ==
    /\ plan = [h \in Handle |-> Null]
    /\ cursor = [h \in Handle |-> Null]

\* A new text; or none, or the old one, when SQLPrepare failed.
Prepare(h) ==
    /\ \E p \in Sql \cup {Null} : plan' = [plan EXCEPT ![h] = p]
    /\ cursor' = [cursor EXCEPT ![h] = Null]

\* A cursor before the first of n rows.
StartOf(n) == [rows |-> n, pos |-> 0]

\* SQLExecute and SQLMoreResults need a plan; SQLExecDirect brings one.
Open(h) ==
    /\ plan[h] # Null
    /\ \E n \in 0 .. MaxRows : cursor' = [cursor EXCEPT ![h] = StartOf(n)]
    /\ UNCHANGED plan

ExecDirect(h) ==
    /\ \E sql \in Sql : plan' = [plan EXCEPT ![h] = sql]
    /\ \E n \in 0 .. MaxRows : cursor' = [cursor EXCEPT ![h] = StartOf(n)]

\* Fetching goes forward, to after the last row at most.
Advance(h) ==
    /\ cursor[h] # Null
    /\ \E pos \in cursor[h].pos .. cursor[h].rows + 1 :
           cursor' = [cursor EXCEPT ![h].pos = pos]
    /\ UNCHANGED plan

\* Counting the rows leaves the cursor at the start, or stops on the last row.
Count(h) ==
    /\ cursor[h] # Null
    /\ \E pos \in {0, cursor[h].rows} : cursor' = [cursor EXCEPT ![h].pos = pos]
    /\ UNCHANGED plan

Close(h) ==
    /\ cursor' = [cursor EXCEPT ![h] = Null]
    /\ UNCHANGED plan

Next ==
    \E h \in Handle :
        Prepare(h) \/ Open(h) \/ ExecDirect(h) \/ Advance(h) \/ Count(h) \/ Close(h)

Spec == Init /\ [][Next]_vars
=============================================================================
