--------------------------- MODULE OdbcStatement ---------------------------
(***************************************************************************)
(* The statement handles of the driver: OdbcStatement.java, reached from   *)
(* SQLPrepare, SQLExecute, SQLFetch... (jodbc.cpp) through JStatement      *)
(* (jstatement.cpp) and JniEntrypoint.java.  Each ODBC call blocks until   *)
(* the thread it starts has run the Java method to its end (jvm.hpp), so   *)
(* one call is one action; calls on different handles interleave.          *)
(*                                                                         *)
(* The driver's state is a pair of references per handle, to a             *)
(* PreparedStatement and to a ResultSet, into objects that JDBC closes     *)
(* behind its back and whose close() may throw into an empty catch block.  *)
(***************************************************************************)
EXTENDS Jdbc, Sequences

CONSTANTS
    Handle,         \* the statement handles the application may allocate
    MaxBound,       \* bound: columns bound on a handle at a time
    MaxArraySize,   \* bound: the largest SQL_ROWSET_SIZE an application sets
    MaxTimeout      \* bound: the largest SQL_QUERY_TIMEOUT an application sets

ASSUME HandleAssumption == MaxBound \in Nat /\ MaxArraySize \in Nat /\ MaxTimeout \in Nat

VARIABLES
    allocated,              \* the keys of OdbcDatabase.statements
    statement,              \* the PreparedStatement a handle refers to, or Null
    result,                 \* the ResultSet a handle refers to, or Null
    impDescriptor,          \* whether the handle has a descriptor
    bindParameters,         \* the C types of the columns bound, in order
    bindDataArraySize,      \* SQL_ATTR_ROW_ARRAY_SIZE, alias SQL_ROWSET_SIZE
    statementQueryTimeout,  \* SQL_QUERY_TIMEOUT, or 0 for null
    \* What the application and an observer of the driver remember; no action
    \* of the driver reads these.
    asked,                  \* the text of the last SQLPrepare or SQLExecDirect
    opened,                 \* the last call that opens or ends a cursor opened one
    seen,                   \* the rows of this cursor delivered by a successful call
    errored,                \* a call that moves this cursor has reported failure
    swallowed,              \* methods whose catch block has hidden an exception
    leaked                  \* open objects dropped after a hidden exception

driver   == <<allocated, statement, result, impDescriptor>>
settings == <<bindParameters, bindDataArraySize, statementQueryTimeout>>
jdbc     == <<planOf, cursorOf>>
memory   == <<asked, opened, seen, errored, swallowed, leaked>>
vars     == <<driver, settings, jdbc, memory>>

\* How a bound C type fares when a row is read.  "written": SQL_C_CHAR, SLONG
\* and ULONG reach the application's buffer.  "unwritable": the other integer
\* types, which fetchColumn reads and bindResultToVariable throws on.
\* "unreadable": every other type, on which fetchColumn throws.
BindType == {"written", "unwritable", "unreadable"}
\* What a call returns, or that a C++ exception came out of it.  The return code
\* is the last argument of every action.
Code     == {"SQL_SUCCESS", "SQL_NO_DATA", "SQL_ERROR", "exception"}
\* The methods whose catch block hides an exception from the application.
Catch    == {"prepareStatement", "execute", "getRowCountCursor"}

TypeOK ==
    /\ JdbcTypeOK
    /\ allocated \subseteq Handle
    /\ statement \in [Handle -> PStmt \cup {Null}]
    /\ result \in [Handle -> RSet \cup {Null}]
    /\ impDescriptor \in [Handle -> BOOLEAN]
    /\ bindParameters \in [Handle -> Seq(BindType)]
    /\ bindDataArraySize \in [Handle -> 0 .. MaxArraySize]
    /\ statementQueryTimeout \in [Handle -> 0 .. MaxTimeout]
    /\ asked \in [Handle -> Sql \cup {Null}]
    /\ opened \in [Handle -> BOOLEAN]
    /\ seen \in [Handle -> SUBSET (1 .. MaxRows)]
    /\ errored \in [Handle -> BOOLEAN]
    /\ swallowed \in [Handle -> SUBSET Catch]
    /\ leaked \subseteq PStmt \cup RSet

Init ==
    /\ JdbcInit
    /\ allocated = {}
    /\ statement = [h \in Handle |-> Null]
    /\ result = [h \in Handle |-> Null]
    /\ impDescriptor = [h \in Handle |-> FALSE]
    /\ bindParameters = [h \in Handle |-> <<>>]
    /\ bindDataArraySize = [h \in Handle |-> 0]
    /\ statementQueryTimeout = [h \in Handle |-> 0]
    /\ asked = [h \in Handle |-> Null]
    /\ opened = [h \in Handle |-> FALSE]
    /\ seen = [h \in Handle |-> {}]
    /\ errored = [h \in Handle |-> FALSE]
    /\ swallowed = [h \in Handle |-> {}]
    /\ leaked = {}

-----------------------------------------------------------------------------
(* What the actions share.                                                 *)

FreshPlan   == {p \in PStmt : planOf[p] = Null /\ \A h \in Handle : statement[h] # p}
FreshCursor == {r \in RSet : cursorOf[r] = Null /\ \A h \in Handle : result[h] # r}

\* A call drops the references in refs; if a hidden exception has left what
\* they refer to open, it is leaked.
Drops(refs, threw) ==
    leaked' = {x \in leaked \cup {y \in refs : threw} :
                  \/ x \in PStmt /\ planOf'[x] # Null
                  \/ x \in RSet /\ cursorOf'[x] # Null}

\* The application is told of a new cursor on h.
Announce(h) ==
    /\ opened' = [opened EXCEPT ![h] = TRUE]
    /\ seen' = [seen EXCEPT ![h] = {}]
    /\ errored' = [errored EXCEPT ![h] = FALSE]

\* The application is told that h has no cursor any more.
Retire(h) ==
    /\ opened' = [opened EXCEPT ![h] = FALSE]
    /\ seen' = [seen EXCEPT ![h] = {}]
    /\ errored' = [errored EXCEPT ![h] = FALSE]

\* executeQuery() on p, and getResultSet(): what p had open closes, r opens.
CursorsWithNew(r, p, n, R) ==
    [CursorsWithout(R \cup CursorsOf(p)) EXCEPT ![r] = [owner |-> p, rows |-> n, pos |-> 0]]

\* SQLAllocStmt: createStatement makes an OdbcStatement, with a descriptor.
AllocStmt(h, code) ==
    /\ code = "SQL_SUCCESS"
    /\ h \notin allocated
    /\ allocated' = allocated \cup {h}
    /\ impDescriptor' = [impDescriptor EXCEPT ![h] = TRUE]
    /\ UNCHANGED <<statement, result, settings, jdbc, memory>>

-----------------------------------------------------------------------------
(* SQLPrepare and SQLExecDirect.                                           *)

\* Fault: the statement a handle had is never closed.
ForgetOldPlan(h) == {[cursors |-> {}, plans |-> {}, threw |-> FALSE]}

\* Fault: the connection is closed, instead of the statement.
CloseConnection(h) == {[cursors |-> RSet, plans |-> PStmt, threw |-> FALSE]}

\* The ways the first try block of prepareStatement ends: both close() calls
\* succeed; the result set's throws, and the statement's is never made; or the
\* statement's throws.
CloseOldPlan(h) ==
    LET r    == result[h]
        p    == statement[h]
        held == {x \in {r} : x # Null}
    IN  {[cursors |-> held \cup CursorsOf(p), plans |-> {x \in {p} : x # Null},
          threw |-> FALSE]}
        \cup {[cursors |-> o.closed, plans |-> {}, threw |-> TRUE] :
                 o \in {c \in CloseCursor(r) : c.threw}}
        \cup (IF PlanOpen(p)
              THEN {[cursors |-> held, plans |-> {}, threw |-> TRUE],
                    [cursors |-> held \cup CursorsOf(p), plans |-> {p}, threw |-> TRUE]}
              ELSE {})

\* What prepareStatement does to h and to JDBC whether or not it succeeds, up
\* to the call of Connection.prepareStatement.
DropOldPlan(h, sql, o) ==
    /\ asked' = [asked EXCEPT ![h] = sql]
    /\ swallowed' = [swallowed EXCEPT ![h] = IF o.threw THEN {"prepareStatement"} ELSE {}]
    /\ UNCHANGED <<allocated, settings>>

\* Connection.prepareStatement returned p.
TakeNewPlan(h, sql, o, p, run) ==
    /\ planOf' = [PlansWithout(o.plans) EXCEPT ![p] = [sql |-> sql, run |-> run]]
    /\ statement' = [statement EXCEPT ![h] = p]
    /\ impDescriptor' = [impDescriptor EXCEPT ![h] = TRUE]

\* h is left without a result set.
NoCursor(h, o) ==
    /\ cursorOf' = CursorsWithout(o.cursors)
    /\ result' = [result EXCEPT ![h] = Null]
    /\ Retire(h)

\* Connection.prepareStatement throws, or there is no connection: the handle
\* keeps the statement it has just tried to close.
PrepareThrows(h, sql, code) ==
    /\ code = "SQL_ERROR"
    /\ \E o \in CloseOldPlan(h) :
           /\ DropOldPlan(h, sql, o)
           /\ NoCursor(h, o)
           /\ planOf' = PlansWithout(o.plans)
           /\ UNCHANGED <<statement, impDescriptor>>
           /\ Drops({result[h]}, o.threw)

\* setQueryTimeout throws: SQL_ERROR, but the new plan is in place.
TimeoutThrows(h, sql, code) ==
    /\ code = "SQL_ERROR"
    /\ statementQueryTimeout[h] # 0
    /\ \E o \in CloseOldPlan(h), p \in FreshPlan :
           /\ DropOldPlan(h, sql, o)
           /\ NoCursor(h, o)
           /\ TakeNewPlan(h, sql, o, p, FALSE)
           /\ Drops({result[h], statement[h]}, o.threw)

PrepareReturns(h, sql, code) ==
    /\ code = "SQL_SUCCESS"
    /\ \E o \in CloseOldPlan(h), p \in FreshPlan :
           /\ DropOldPlan(h, sql, o)
           /\ NoCursor(h, o)
           /\ TakeNewPlan(h, sql, o, p, FALSE)
           /\ Drops({result[h], statement[h]}, o.threw)

Prepare(h, sql, code) ==
    \/ PrepareReturns(h, sql, code)
    \/ PrepareThrows(h, sql, code)
    \/ TimeoutThrows(h, sql, code)

\* SQLExecDirect: prepareStatement, then execute, whose own close() finds no
\* result set.  What stops prepareStatement stops execDirect.
ExecDirectReturns(h, sql, code) ==
    /\ code = "SQL_SUCCESS"
    /\ \E o \in CloseOldPlan(h), p \in FreshPlan, r \in FreshCursor, n \in 0 .. MaxRows :
           /\ DropOldPlan(h, sql, o)
           /\ TakeNewPlan(h, sql, o, p, TRUE)
           /\ cursorOf' = CursorsWithNew(r, p, n, o.cursors)
           /\ result' = [result EXCEPT ![h] = r]
           /\ Announce(h)
           /\ Drops({result[h], statement[h]}, o.threw)

\* Prepared, but executeQuery threw.
ExecDirectThrows(h, sql, code) ==
    /\ code = "SQL_ERROR"
    /\ \E o \in CloseOldPlan(h), p \in FreshPlan :
           /\ DropOldPlan(h, sql, o)
           /\ NoCursor(h, o)
           /\ TakeNewPlan(h, sql, o, p, FALSE)
           /\ Drops({result[h], statement[h]}, o.threw)

ExecDirect(h, sql, code) ==
    \/ ExecDirectReturns(h, sql, code)
    \/ ExecDirectThrows(h, sql, code)
    \/ PrepareThrows(h, sql, code)
    \/ TimeoutThrows(h, sql, code)

-----------------------------------------------------------------------------
(* SQLExecute and SQLMoreResults.                                          *)

\* executeQuery returned a result set.
ExecuteReturns(h, code) ==
    /\ code = "SQL_SUCCESS"
    /\ PlanOpen(statement[h])
    /\ \E o \in CloseCursor(result[h]), r \in FreshCursor, n \in 0 .. MaxRows :
           /\ cursorOf' = CursorsWithNew(r, statement[h], n, o.closed)
           /\ planOf' = [planOf EXCEPT ![statement[h]].run = TRUE]
           /\ result' = [result EXCEPT ![h] = r]
           /\ Announce(h)
           /\ swallowed' = [swallowed EXCEPT ![h] = @ \cap {"prepareStatement"}]
           /\ UNCHANGED <<allocated, statement, impDescriptor, settings, asked>>
           /\ Drops({}, FALSE)

\* Fault: the old result set is not closed.
ExecuteThrowsUnclosed(h, code) ==
    /\ code = "SQL_ERROR"
    /\ opened' = [opened EXCEPT ![h] = FALSE]
    /\ swallowed' = [swallowed EXCEPT ![h] = @ \ {"execute"}]
    /\ UNCHANGED <<driver, settings, jdbc, asked, seen, errored, leaked>>

\* executeQuery threw, or there is no statement, or it is closed: result keeps
\* the reference to what was, or was meant to be, closed.
ExecuteThrows(h, code) ==
    /\ code = "SQL_ERROR"
    /\ \E o \in CloseCursor(result[h]) :
           /\ \E R \in {o.closed, o.closed \cup CursorsOf(statement[h])} :
                  cursorOf' = CursorsWithout(R)
           /\ swallowed' = [swallowed EXCEPT ![h] =
                                (@ \ {"execute"}) \cup {x \in {"execute"} : o.threw}]
    /\ opened' = [opened EXCEPT ![h] = FALSE]
    /\ UNCHANGED <<driver, settings, planOf, asked, seen, errored>>
    /\ Drops({}, FALSE)

Execute(h, code) == ExecuteReturns(h, code) \/ ExecuteThrows(h, code)

\* getMoreResults is true: only a statement that has run has more results.
MoreResultsReturns(h, code) ==
    /\ code = "SQL_SUCCESS"
    /\ PlanOpen(statement[h])
    /\ planOf[statement[h]].run
    /\ \E r \in FreshCursor, n \in 0 .. MaxRows :
           /\ cursorOf' = CursorsWithNew(r, statement[h], n, {})
           /\ result' = [result EXCEPT ![h] = r]
           /\ Announce(h)
           /\ swallowed' = [swallowed EXCEPT ![h] = @ \cap {"prepareStatement"}]
           /\ UNCHANGED <<allocated, statement, impDescriptor, settings, planOf, asked>>
           /\ Drops({}, FALSE)

\* getMoreResults is false: it has closed the current result set, which the
\* handle goes on referring to.
MoreResultsEnds(h, code) ==
    /\ code = "SQL_NO_DATA"
    /\ PlanOpen(statement[h])
    /\ cursorOf' = CursorsWithout(CursorsOf(statement[h]))
    /\ Retire(h)
    /\ swallowed' = [swallowed EXCEPT ![h] = @ \cap {"prepareStatement"}]
    /\ UNCHANGED <<driver, settings, planOf, asked>>
    /\ Drops({}, FALSE)

\* No open statement; or getMoreResults or getResultSet threw, before or after
\* the current result set was closed.
MoreResultsThrows(h, code) ==
    /\ code = "SQL_ERROR"
    /\ \E R \in {{}, CursorsOf(statement[h])} : cursorOf' = CursorsWithout(R)
    /\ UNCHANGED <<driver, settings, planOf, asked, opened, seen, errored, swallowed>>
    /\ Drops({}, FALSE)

MoreResults(h, code) ==
    \/ MoreResultsReturns(h, code)
    \/ MoreResultsEnds(h, code)
    \/ MoreResultsThrows(h, code)

-----------------------------------------------------------------------------
(* SQLFreeStmt.                                                            *)

\* SQL_CLOSE with a result set: an exception of close() is ignored, the
\* reference is dropped, and so is the descriptor.
CloseHeldCursor(h, code) ==
    /\ code = "SQL_SUCCESS"
    /\ result[h] # Null
    /\ \E o \in CloseCursor(result[h]) :
           /\ cursorOf' = CursorsWithout(o.closed)
           /\ result' = [result EXCEPT ![h] = Null]
           /\ impDescriptor' = [impDescriptor EXCEPT ![h] = FALSE]
           /\ Retire(h)
           /\ swallowed' = [swallowed EXCEPT ![h] = @ \cap {"prepareStatement"}]
           /\ UNCHANGED <<allocated, statement, settings, planOf, asked>>
           /\ Drops({result[h]}, o.threw)

\* SQL_UNBIND forgets the bound columns.
Unbind(h, code) ==
    /\ code = "SQL_SUCCESS"
    /\ bindParameters' = [bindParameters EXCEPT ![h] = <<>>]
    /\ UNCHANGED <<driver, bindDataArraySize, statementQueryTimeout, jdbc, memory>>

\* SQL_CLOSE without a result set and SQL_RESET_PARAMS do nothing; any other
\* option, SQL_DROP included, is a NullPointerException in the switch.
FreeNothing(h, code) ==
    /\ code \in {"SQL_SUCCESS", "SQL_ERROR"}
    /\ UNCHANGED vars

FreeStmt(h, code) == CloseHeldCursor(h, code) \/ Unbind(h, code) \/ FreeNothing(h, code)

-----------------------------------------------------------------------------
(* SQLBindCol and SQLSetStmtAttr.                                          *)

\* bindColumn appends: binding a column again does not replace it.
BindCol(h, type, code) ==
    /\ code = "SQL_SUCCESS"
    /\ Len(bindParameters[h]) < MaxBound
    /\ bindParameters' = [bindParameters EXCEPT ![h] = Append(@, type)]
    /\ UNCHANGED <<driver, bindDataArraySize, statementQueryTimeout, jdbc, memory>>

SetArraySize(h, size, code) ==
    /\ code = "SQL_SUCCESS"
    /\ bindDataArraySize' = [bindDataArraySize EXCEPT ![h] = size]
    /\ UNCHANGED <<driver, bindParameters, statementQueryTimeout, jdbc, memory>>

SetQueryTimeout(h, seconds, code) ==
    /\ code = "SQL_SUCCESS"
    /\ statementQueryTimeout' = [statementQueryTimeout EXCEPT ![h] = seconds]
    /\ UNCHANGED <<driver, bindParameters, bindDataArraySize, jdbc, memory>>

-----------------------------------------------------------------------------
(* SQLFetch, SQLFetchScroll and SQLExtendedFetch.                              *)

\* The guards of fetch, fetchScroll and getData.
Fetchable(h) == PlanOpen(statement[h]) /\ CursorOpen(result[h])

Bound(h, type) == \E i \in 1 .. Len(bindParameters[h]) : bindParameters[h][i] = type

Lesser(a, b) == IF a < b THEN a ELSE b

\* The rows a rowset of at most "want" rows finds, and the move of the cursor.
Found(h, want) == Lesser(want, Remaining(cursorOf[result[h]]))
MoveTo(h, pos) == cursorOf' = [cursorOf EXCEPT ![result[h]].pos = pos]

\* Fault: next() is false anywhere in the rowset, and the rows read are dropped.
FetchEndsEarly(h, want, code) ==
    /\ code = "SQL_NO_DATA"
    /\ Fetchable(h)
    /\ Found(h, want) < want
    /\ MoveTo(h, cursorOf[result[h]].rows + 1)
    /\ UNCHANGED <<driver, settings, planOf, memory>>

\* next() is false at the first row.
FetchEnds(h, want, code) ==
    /\ code = "SQL_NO_DATA"
    /\ Fetchable(h)
    /\ want > 0
    /\ Found(h, want) = 0
    /\ MoveTo(h, cursorOf[result[h]].rows + 1)
    /\ UNCHANGED <<driver, settings, planOf, memory>>

\* Fault: the loop that reads the rowset calls next() once too often.
FetchDeliversOneMore(h, want, code) ==
    /\ code = "SQL_SUCCESS"
    /\ Fetchable(h)
    /\ Found(h, want) > 0 \/ want = 0
    /\ Found(h, want) > 0 => ~Bound(h, "unreadable")
    /\ LET c == cursorOf[result[h]]
           n == Found(h, want)
       IN  /\ MoveTo(h, Lesser(c.pos + n + 1, c.rows + 1))
           /\ seen' = [seen EXCEPT ![h] = @ \cup (c.pos + 1 .. c.pos + n)]
    /\ UNCHANGED <<driver, settings, planOf, asked, opened, errored, swallowed, leaked>>

\* The rowset is read and written to the bound buffers.  A rowset cut short by
\* the end of the result set leaves the cursor after the last row.
FetchDelivers(h, want, code) ==
    /\ code = "SQL_SUCCESS"
    /\ Fetchable(h)
    /\ Found(h, want) > 0 \/ want = 0
    /\ Found(h, want) > 0 => ~Bound(h, "unreadable")
    /\ LET c == cursorOf[result[h]]
           n == Found(h, want)
       IN  /\ MoveTo(h, IF n < want THEN c.rows + 1 ELSE c.pos + n)
           /\ seen' = [seen EXCEPT ![h] = @ \cup (c.pos + 1 .. c.pos + n)]
    /\ UNCHANGED <<driver, settings, planOf, asked, opened, errored, swallowed, leaked>>

\* Java has read the rowset, and bindResultToVariable throws on a value of a
\* type it does not know: future.get() throws it on to the application.
FetchEscapes(h, want, code) ==
    /\ code = "exception"
    /\ Fetchable(h)
    /\ Found(h, want) > 0
    /\ Bound(h, "unwritable") /\ ~Bound(h, "unreadable")
    /\ LET c == cursorOf[result[h]]
           n == Found(h, want)
       IN  MoveTo(h, IF n < want THEN c.rows + 1 ELSE c.pos + n)
    /\ errored' = [errored EXCEPT ![h] = TRUE]
    /\ UNCHANGED <<driver, settings, planOf, asked, opened, seen, swallowed, leaked>>

\* Fault: the loop goes on after next() has returned false.
FetchThrowsPastEnd(h, want, code) ==
    /\ code = "SQL_ERROR"
    /\ Fetchable(h)
    /\ \E k \in 0 .. want : MoveTo(h, cursorOf[result[h]].pos + k)
    /\ errored' = [errored EXCEPT ![h] = TRUE]
    /\ UNCHANGED <<driver, settings, planOf, asked, opened, seen, swallowed, leaked>>

\* After k whole rows, next() throws, or it moves on and fetchColumn throws:
\* the rows read so far go with the array that held them.
FetchThrows(h, want, code) ==
    /\ code = "SQL_ERROR"
    /\ Fetchable(h)
    /\ want > 0
    /\ LET c == cursorOf[result[h]]
       IN  \E k \in 0 .. Found(h, want) :
               \/ /\ k < want
                  /\ MoveTo(h, c.pos + k)
               \/ /\ k < Found(h, want)
                  /\ Len(bindParameters[h]) > 0
                  /\ MoveTo(h, c.pos + k + 1)
    /\ errored' = [errored EXCEPT ![h] = TRUE]
    /\ UNCHANGED <<driver, settings, planOf, asked, opened, seen, swallowed, leaked>>

\* The guards fail; SQLFetchScroll also refuses all but SQL_FETCH_NEXT by 0.
FetchRefused(h, supported, code) ==
    /\ code = "SQL_ERROR"
    /\ supported => ~Fetchable(h)
    /\ UNCHANGED vars

ReadRows(h, want, code) ==
    \/ FetchDelivers(h, want, code)
    \/ FetchEnds(h, want, code)
    \/ FetchEscapes(h, want, code)
    \/ FetchThrows(h, want, code)

Fetch(h, code)       == ReadRows(h, 1, code) \/ FetchRefused(h, TRUE, code)
FetchScroll(h, code) == ReadRows(h, bindDataArraySize[h], code) \/ FetchRefused(h, FALSE, code)

\* SQLGetData reads a column of the current row, if there is one, and moves
\* nothing; the type it is given may be one that either side throws on.
GetData(h, code) ==
    /\ \/ code = "SQL_ERROR"
       \/ /\ code \in {"SQL_SUCCESS", "exception"}
          /\ Fetchable(h)
          /\ cursorOf[result[h]].pos \in 1 .. cursorOf[result[h]].rows
    /\ UNCHANGED vars

-----------------------------------------------------------------------------
(* SQLRowCount, SQLGetDiagField and the calls that describe a result.      *)

\* last(), getRow() and beforeFirst() all succeed: the cursor is rewound.
CountRows(h, code) ==
    /\ code = "SQL_SUCCESS"
    /\ statement[h] # Null /\ CursorOpen(result[h])
    /\ MoveTo(h, 0)
    /\ UNCHANGED <<driver, settings, planOf, memory>>

\* One of the three throws: the cursor is where it was, or on the last row.
CountStops(h) ==
    /\ statement[h] # Null /\ CursorOpen(result[h])
    /\ LET c == cursorOf[result[h]] IN \E pos \in {c.pos, c.rows} : MoveTo(h, pos)

RowCountThrows(h, code) ==
    /\ code = "SQL_ERROR"
    /\ CountStops(h)
    /\ errored' = [errored EXCEPT ![h] = TRUE]
    /\ UNCHANGED <<driver, settings, planOf, asked, opened, seen, swallowed, leaked>>

\* Nothing to count: getRowCount throws, getRowCountCursor answers 0.
CountRefused(h, answer, code) ==
    /\ code = answer
    /\ ~CursorOpen(result[h])
    /\ UNCHANGED vars

RowCount(h, code) ==
    CountRows(h, code) \/ RowCountThrows(h, code) \/ CountRefused(h, "SQL_ERROR", code)

\* SQL_DIAG_CURSOR_ROW_COUNT: getRowCount with its exceptions turned into 0.
DiagCountThrows(h, code) ==
    /\ code = "SQL_SUCCESS"
    /\ CountStops(h)
    /\ swallowed' = [swallowed EXCEPT ![h] = @ \cup {"getRowCountCursor"}]
    /\ UNCHANGED <<driver, settings, planOf, asked, opened, seen, errored, leaked>>

DiagCursorRowCount(h, code) ==
    CountRows(h, code) \/ DiagCountThrows(h, code) \/ CountRefused(h, "SQL_SUCCESS", code)

\* SQLNumResultCols and SQLGetDescField ask the descriptor, and it the result
\* set or, without one, the statement.
Describable(h) ==
    /\ impDescriptor[h]
    /\ IF result[h] # Null THEN CursorOpen(result[h]) ELSE PlanOpen(statement[h])

NumResultCols(h, code) ==
    /\ code = (IF Describable(h) THEN "SQL_SUCCESS" ELSE "SQL_ERROR")
    /\ UNCHANGED vars

-----------------------------------------------------------------------------
\* The calls on h that count rows, and the others; they return code.
CountingCall(h, code) == h \in allocated /\ (RowCount(h, code) \/ DiagCursorRowCount(h, code))

OtherCall(h, code) ==
    \/ AllocStmt(h, code)
    \/ /\ h \in allocated
       /\ \/ \E sql \in Sql : Prepare(h, sql, code) \/ ExecDirect(h, sql, code)
          \/ Execute(h, code)
          \/ MoreResults(h, code)
          \/ FreeStmt(h, code)
          \/ \E type \in BindType : BindCol(h, type, code)
          \/ \E size \in 0 .. MaxArraySize : SetArraySize(h, size, code)
          \/ \E seconds \in 1 .. MaxTimeout : SetQueryTimeout(h, seconds, code)
          \/ Fetch(h, code)
          \/ FetchScroll(h, code)
          \/ GetData(h, code)
          \/ NumResultCols(h, code)

\* A call on h that returns code.
Call(h, code) == OtherCall(h, code) \/ CountingCall(h, code)

Next == \E h \in Handle, code \in Code : Call(h, code)

Spec == Init /\ [][Next]_vars

-----------------------------------------------------------------------------
(* What makes the statement handles correct.                               *)

\* The result set a handle fetches from, while it is open, came from the
\* statement the handle holds: SQLPrepare, SQLExecute and SQLMoreResults replace
\* the two references one after the other, and can fail in between.
ResultOfStatement ==
    \A h \in Handle : CursorOpen(result[h]) => cursorOf[result[h]].owner = statement[h]

\* A handle never runs a text other than the last one the application gave it:
\* after a failed SQLPrepare the old plan cannot be executed.  The exception is
\* a close() that threw into the empty catch block of prepareStatement.
RunsWhatWasAsked ==
    \A h \in Handle : PlanOpen(statement[h]) =>
        \/ planOf[statement[h]].sql = asked[h]
        \/ "prepareStatement" \in swallowed[h]

\* A handle has rows to fetch only if the last call that opens or ends a cursor
\* (SQLExecute, SQLPrepare, SQLMoreResults, SQL_CLOSE) opened one; after a failed
\* SQLExecute the old rows are gone, unless its close() threw unseen.
OpenMeansAnnounced ==
    \A h \in Handle : CursorOpen(result[h]) => opened[h] \/ "execute" \in swallowed[h]

\* No row is skipped in silence: the rows up to the cursor's position have all
\* been delivered, unless some call reported an error or SQLGetDiagField hid one.
\* SQL_NO_DATA leaves the cursor after the last row: it means all were delivered.
NoSilentSkip ==
    \A h \in Handle :
        /\ CursorOpen(result[h])
        /\ ~errored[h]
        /\ "getRowCountCursor" \notin swallowed[h]
        => \A row \in 1 .. cursorOf[result[h]].rows :
               row <= cursorOf[result[h]].pos => row \in seen[h]

\* An open JDBC object that no handle refers to was dropped after an exception
\* that a catch block hid; nothing leaks when close() works.
NoLeak ==
    /\ \A p \in PStmt : planOf[p] # Null => p \in leaked \/ \E h \in Handle : statement[h] = p
    /\ \A r \in RSet : cursorOf[r] # Null => r \in leaked \/ \E h \in Handle : result[h] = r

\* Two handles never hold the same JDBC object, so a call on one cannot close or
\* move the cursor of the other.
NoSharing ==
    \A g, h \in Handle : g # h =>
        /\ statement[g] # Null => statement[g] # statement[h]
        /\ result[g] # Null => result[g] # result[h]

\* An open cursor can be described: test-jdbc.cpp asserts that SQLNumResultCols
\* succeeds once a statement has been executed.
OpenCursorIsDescribed ==
    \A h \in Handle : CursorOpen(result[h]) => Describable(h)

\* SQL_NO_DATA from SQLFetch or SQLFetchScroll means that every row of the result
\* set has been delivered, and nothing but its rows, unless a call reported an
\* error or SQLGetDiagField hid one.
EndsWithAll ==
    \A h \in Handle :
        /\ Fetch(h, "SQL_NO_DATA") \/ FetchScroll(h, "SQL_NO_DATA")
        /\ ~errored[h]
        /\ "getRowCountCursor" \notin swallowed[h]
        => seen[h] = 1 .. cursorOf[result[h]].rows

\* No step ends a loop of fetches, in SQL_NO_DATA, with rows left out.
NoDataMeansAll == [][EndsWithAll]_vars

MovesForward ==
    \A h \in Handle :
        CursorOpen(result[h]) /\ result'[h] = result[h] /\ CursorOpen(result[h])' =>
            cursorOf'[result[h]].pos >= cursorOf[result[h]].pos

\* The cursor type the driver reports, SQL_CURSOR_FORWARD_ONLY: while a result
\* set stays open under a handle, its position never goes back.
ForwardOnly == [][MovesForward]_vars

-----------------------------------------------------------------------------
(* ForwardOnly and OpenCursorIsDescribed fail, each because of one kind of *)
(* call.  What an application that never makes that call can rely on.      *)

\* No call counts rows: neither SQLRowCount nor SQL_DIAG_CURSOR_ROW_COUNT.
NeverCounts == Init /\ [][\E h \in Handle, code \in Code : OtherCall(h, code)]_vars

\* No SQLFreeStmt closes the cursor of a handle.
NeverCloses == Init /\ [][Next /\ \A h \in Handle : ~CloseHeldCursor(h, "SQL_SUCCESS")]_vars

\* Exactly the rows before the cursor have been delivered, until a call reports
\* an error: each row is delivered once, in the order of the result set.
SeenIsPassed ==
    \A h \in Handle : CursorOpen(result[h]) /\ ~errored[h] =>
        seen[h] = {row \in 1 .. cursorOf[result[h]].rows : row <= cursorOf[result[h]].pos}

-----------------------------------------------------------------------------
(* The plan and the cursor an application sees behind a handle.            *)

PlanSeen == [h \in Handle |->
    IF PlanOpen(statement[h]) THEN planOf[statement[h]].sql ELSE Null]

CursorSeen == [h \in Handle |->
    IF CursorOpen(result[h])
    THEN [rows |-> cursorOf[result[h]].rows, pos |-> cursorOf[result[h]].pos]
    ELSE Null]

C == INSTANCE Cursors WITH plan <- PlanSeen, cursor <- CursorSeen

ASSUME PositionAssumption == Null \notin C!Position

\* The references and the JDBC objects behind them implement independent
\* cursors: closing, re-executing or leaking an object on behalf of one handle
\* is never felt by another, and a cursor never outlives its plan.
CursorsOnTheirOwn == C!Spec
=============================================================================
