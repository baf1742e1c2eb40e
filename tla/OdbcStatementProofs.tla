------------------------ MODULE OdbcStatementProofs ------------------------
(***************************************************************************)
(* Proofs about OdbcStatement, for every value of its constants.           *)
(***************************************************************************)
EXTENDS OdbcStatement, TLAPS

-----------------------------------------------------------------------------
(* The ways closing can end.                                               *)

\* A close() of r closes r or nothing, and throws if it leaves r open.
LEMMA CloseCursorOutcome ==
    ASSUME NEW r \in RSet \cup {Null}, NEW o \in CloseCursor(r)
    PROVE  /\ o.closed \subseteq RSet
           /\ o.closed \subseteq {r}
           /\ o.threw \in BOOLEAN
           /\ ~o.threw /\ CursorOpen(r) => r \in o.closed
BY DEF CloseCursor, CursorOpen

\* The try block of prepareStatement closes nothing but what h holds, and all of
\* it unless it throws; it closes a statement only with its result sets.
LEMMA CloseOldPlanOutcome ==
    ASSUME TypeOK, NEW h \in Handle, NEW o \in CloseOldPlan(h)
    PROVE  /\ o.cursors \subseteq RSet
           /\ o.cursors \subseteq {result[h]} \cup CursorsOf(statement[h])
           /\ o.plans \subseteq PStmt
           /\ o.plans \subseteq {statement[h]}
           /\ \A p \in o.plans : CursorsOf(p) \subseteq o.cursors
           /\ o.threw \in BOOLEAN
           /\ ~o.threw /\ statement[h] # Null => statement[h] \in o.plans
           /\ ~o.threw /\ result[h] # Null => result[h] \in o.cursors
<1> DEFINE r    == result[h]
           p    == statement[h]
           held == {x \in {r} : x # Null}
<1>1. r \in RSet \cup {Null} /\ p \in PStmt \cup {Null}
  BY DEF TypeOK
<1>2. held \subseteq RSet /\ held \subseteq {r} /\ CursorsOf(p) \subseteq RSet
  BY <1>1 DEF CursorsOf
<1>3. CASE o = [cursors |-> held \cup CursorsOf(p), plans |-> {x \in {p} : x # Null},
                threw |-> FALSE]
  BY <1>1, <1>2, <1>3
<1>4. CASE \E c \in CloseCursor(r) : c.threw /\ o = [cursors |-> c.closed, plans |-> {}, threw |-> TRUE]
  <2>1. PICK c \in CloseCursor(r) : o = [cursors |-> c.closed, plans |-> {}, threw |-> TRUE]
    BY <1>4
  <2>2. c.closed \subseteq RSet /\ c.closed \subseteq {r}
    BY <1>1, CloseCursorOutcome
  <2> QED BY <2>1, <2>2
<1>5. CASE PlanOpen(p) /\ o = [cursors |-> held, plans |-> {}, threw |-> TRUE]
  BY <1>2, <1>5
<1>6. CASE PlanOpen(p) /\ o = [cursors |-> held \cup CursorsOf(p), plans |-> {p}, threw |-> TRUE]
  BY <1>1, <1>2, <1>6 DEF PlanOpen
<1> QED
  BY <1>3, <1>4, <1>5, <1>6 DEF CloseOldPlan

-----------------------------------------------------------------------------
(* What the operators on JDBC objects return.                              *)

LEMMA CursorsWithoutValue ==
    ASSUME TypeOK, NEW R
    PROVE  /\ CursorsWithout(R) \in [RSet -> Cursor \cup {Null}]
           /\ \A r \in RSet :
                 CursorsWithout(R)[r] = IF r \in R THEN Null ELSE cursorOf[r]
BY DEF CursorsWithout, TypeOK, JdbcTypeOK

LEMMA CursorsWithNewValue ==
    ASSUME TypeOK, NEW R, NEW p \in PStmt, NEW n \in 0 .. MaxRows, NEW r \in RSet
    PROVE  /\ CursorsWithNew(r, p, n, R) \in [RSet -> Cursor \cup {Null}]
           /\ CursorsWithNew(r, p, n, R)[r] = [owner |-> p, rows |-> n, pos |-> 0]
           /\ \A q \in RSet : q # r =>
                 CursorsWithNew(r, p, n, R)[q] =
                     IF q \in R \cup CursorsOf(p) THEN Null ELSE cursorOf[q]
<1>1. [owner |-> p, rows |-> n, pos |-> 0] \in Cursor
  BY BoundAssumption DEF Cursor
<1>2. CursorsWithout(R \cup CursorsOf(p)) \in [RSet -> Cursor \cup {Null}]
  BY CursorsWithoutValue
<1> QED
  BY <1>1, <1>2, CursorsWithoutValue DEF CursorsWithNew

LEMMA NewPlanValue ==
    ASSUME TypeOK, NEW P, NEW p \in PStmt, NEW sql \in Sql, NEW run \in BOOLEAN
    PROVE  /\ [PlansWithout(P) EXCEPT ![p] = [sql |-> sql, run |-> run]]
                 \in [PStmt -> Plan \cup {Null}]
           /\ [PlansWithout(P) EXCEPT ![p] = [sql |-> sql, run |-> run]][p]
                 = [sql |-> sql, run |-> run]
           /\ \A q \in PStmt : q # p =>
                 [PlansWithout(P) EXCEPT ![p] = [sql |-> sql, run |-> run]][q]
                     = IF q \in P THEN Null ELSE planOf[q]
BY DEF PlansWithout, Plan, TypeOK, JdbcTypeOK

LEMMA PlansWithoutValue ==
    ASSUME TypeOK, NEW P
    PROVE  /\ PlansWithout(P) \in [PStmt -> Plan \cup {Null}]
           /\ \A q \in PStmt : PlansWithout(P)[q] = IF q \in P THEN Null ELSE planOf[q]
BY DEF PlansWithout, TypeOK, JdbcTypeOK

-----------------------------------------------------------------------------
(* The steps of Next, seen by the properties.                              *)

\* Nothing the properties speak of changes: allocation, settings, refusals.
Quiet == UNCHANGED <<statement, result, jdbc, memory>>

\* A call moves the cursor of h to pos, forward unless it counts the rows; a row
\* it goes past is seen, or the call reports or hides an exception.
Moving(h, pos) ==
    /\ CursorOpen(result[h])
    /\ MoveTo(h, pos)
    /\ \/ pos \in cursorOf[result[h]].pos .. cursorOf[result[h]].rows + 1
       \/ pos \in {0, cursorOf[result[h]].rows}
    /\ UNCHANGED <<statement, result, planOf, asked, opened, leaked>>
    /\ seen' \in [Handle -> SUBSET (1 .. MaxRows)]
    /\ errored' \in [Handle -> BOOLEAN]
    /\ swallowed' \in [Handle -> SUBSET Catch]
    /\ \A g \in Handle : g # h =>
           seen'[g] = seen[g] /\ errored'[g] = errored[g] /\ swallowed'[g] = swallowed[g]
    /\ seen[h] \subseteq seen'[h]
    /\ seen'[h] \subseteq seen[h] \cup 1 .. cursorOf[result[h]].rows
    /\ errored[h] => errored'[h]
    /\ swallowed[h] \subseteq swallowed'[h]
    /\ \/ errored'[h]
       \/ "getRowCountCursor" \in swallowed'[h]
       \/ \A row \in 1 .. cursorOf[result[h]].rows :
              row <= pos => row <= cursorOf[result[h]].pos \/ row \in seen'[h]

\* It moves the cursor forward and delivers no row beyond it.
Onward(h, pos) ==
    /\ Moving(h, pos)
    /\ pos >= cursorOf[result[h]].pos
    /\ swallowed' = swallowed
    /\ \A row \in seen'[h] : row \in seen[h] \/ row <= pos

\* A call replaces the plan of h and leaves it without a cursor.
Replan(h, sql) ==
    \E o \in CloseOldPlan(h), p \in FreshPlan :
        /\ DropOldPlan(h, sql, o)
        /\ NoCursor(h, o)
        /\ TakeNewPlan(h, sql, o, p, FALSE)
        /\ Drops({result[h], statement[h]}, o.threw)

\* A call opens a cursor on the plan h has.
NewCursor(h, r, n, R) ==
    /\ PlanOpen(statement[h])
    /\ R \subseteq {result[h]}
    /\ cursorOf' = CursorsWithNew(r, statement[h], n, R)
    /\ planOf' \in [PStmt -> Plan \cup {Null}]
    /\ \A p \in PStmt : p # statement[h] => planOf'[p] = planOf[p]
    /\ planOf'[statement[h]] # Null
    /\ planOf'[statement[h]].sql = planOf[statement[h]].sql
    /\ result' = [result EXCEPT ![h] = r]
    /\ Announce(h)
    /\ swallowed' = [swallowed EXCEPT ![h] = @ \cap {"prepareStatement"}]
    /\ UNCHANGED <<statement, asked>>
    /\ Drops({}, FALSE)

LEMMA CursorValue ==
    ASSUME TypeOK, NEW h \in Handle, CursorOpen(result[h])
    PROVE  /\ cursorOf[result[h]] \in Cursor
           /\ cursorOf[result[h]].rows \in 0 .. MaxRows
           /\ cursorOf[result[h]].pos \in 0 .. MaxRows + 1
           /\ cursorOf[result[h]].pos <= cursorOf[result[h]].rows + 1
           /\ MaxRows \in Nat
BY BoundAssumption DEF CursorOpen, TypeOK, JdbcTypeOK, Cursor

\* A fetch moves the cursor onward.
LEMMA ReadingSteps ==
    ASSUME TypeOK, NEW h \in Handle, NEW want \in Nat, NEW code, ReadRows(h, want, code)
    PROVE  \E pos \in 0 .. MaxRows + 1 : Onward(h, pos)
<1> DEFINE c == cursorOf[result[h]]
<1>1. CursorOpen(result[h])
  BY DEF ReadRows, FetchDelivers, FetchEnds, FetchEscapes, FetchThrows, Fetchable
<1>2. c \in Cursor /\ c.rows \in 0 .. MaxRows /\ c.pos \in 0 .. MaxRows + 1
      /\ c.pos <= c.rows + 1
  BY <1>1, CursorValue
<1>3. MaxRows \in Nat
  BY BoundAssumption
<1>4. /\ Found(h, want) \in Nat
      /\ Found(h, want) <= want
      /\ Found(h, want) = 0 \/ c.pos + Found(h, want) <= c.rows
      /\ Found(h, want) < want => Found(h, want) = Remaining(c)
  BY <1>2, <1>3 DEF Found, Lesser, Remaining
<1>5. CASE FetchDelivers(h, want, code)
  <2> DEFINE n   == Found(h, want)
             pos == IF n < want THEN c.rows + 1 ELSE c.pos + n
  <2>1. pos \in 0 .. MaxRows + 1 /\ pos \in c.pos .. c.rows + 1
    BY <1>2, <1>3, <1>4
  <2>2. (c.pos + 1 .. c.pos + n) \subseteq 1 .. c.rows
    BY <1>2, <1>3, <1>4
  <2>3. \A row \in 1 .. c.rows : row <= pos => row <= c.pos \/ row \in c.pos + 1 .. c.pos + n
    BY <1>2, <1>3, <1>4, <1>5 DEF FetchDelivers, Remaining
  <2>4. \A row \in c.pos + 1 .. c.pos + n : row <= pos
    BY <1>2, <1>3, <1>4
  <2>5. seen' = [seen EXCEPT ![h] = @ \cup (c.pos + 1 .. c.pos + n)]
    BY <1>5 DEF FetchDelivers
  <2>6. 1 .. c.rows \subseteq 1 .. MaxRows
    BY <1>2, <1>3
  <2>7. seen' \in [Handle -> SUBSET (1 .. MaxRows)]
    BY <2>2, <2>5, <2>6 DEF TypeOK
  <2>8. seen'[h] = seen[h] \cup (c.pos + 1 .. c.pos + n)
    BY <2>5 DEF TypeOK
  <2>9. \A g \in Handle : g # h => seen'[g] = seen[g]
    BY <2>5 DEF TypeOK
  <2>10. Moving(h, pos)
    BY <1>1, <1>5, <2>1, <2>2, <2>3, <2>7, <2>8, <2>9
       DEF FetchDelivers, Moving, TypeOK, driver, settings
  <2>11. Onward(h, pos)
    BY <1>5, <2>1, <2>4, <2>8, <2>10 DEF FetchDelivers, Onward
  <2> QED BY <2>1, <2>11
<1>6. CASE FetchEnds(h, want, code)
  <2>1. c.rows + 1 \in 0 .. MaxRows + 1 /\ c.rows + 1 \in c.pos .. c.rows + 1
    BY <1>2, <1>3
  <2>2. c.pos >= c.rows
    BY <1>2, <1>4, <1>6 DEF FetchEnds, Remaining
  <2>3. Moving(h, c.rows + 1)
    BY <1>1, <1>2, <1>6, <2>1, <2>2 DEF FetchEnds, Moving, TypeOK, driver, settings, memory
  <2>4. Onward(h, c.rows + 1)
    BY <1>6, <2>1, <2>3 DEF FetchEnds, Onward, memory
  <2> QED BY <2>1, <2>4
<1>7. CASE FetchEscapes(h, want, code)
  <2> DEFINE n   == Found(h, want)
             pos == IF n < want THEN c.rows + 1 ELSE c.pos + n
  <2>1. pos \in 0 .. MaxRows + 1 /\ pos \in c.pos .. c.rows + 1
    BY <1>2, <1>3, <1>4
  <2>2. Moving(h, pos)
    BY <1>1, <1>7, <2>1 DEF FetchEscapes, Moving, TypeOK, driver, settings
  <2>3. Onward(h, pos)
    BY <1>7, <2>1, <2>2 DEF FetchEscapes, Onward
  <2> QED BY <2>1, <2>3
<1>8. CASE FetchThrows(h, want, code)
  <2>1. PICK k \in 0 .. Found(h, want) :
           \/ k < want /\ MoveTo(h, c.pos + k)
           \/ k < Found(h, want) /\ MoveTo(h, c.pos + k + 1)
    BY <1>8 DEF FetchThrows
  <2>2. \A pos \in c.pos .. c.rows + 1 : MoveTo(h, pos) => Moving(h, pos)
    BY <1>1, <1>8 DEF FetchThrows, Moving, TypeOK, driver, settings
  <2>3. \A pos \in c.pos .. c.rows + 1 : MoveTo(h, pos) => Onward(h, pos)
    BY <1>8, <2>2 DEF FetchThrows, Onward
  <2>4. c.pos + k \in 0 .. MaxRows + 1 /\ c.pos + k \in c.pos .. c.rows + 1
    BY <1>2, <1>3, <1>4
  <2>5. k < Found(h, want) =>
            c.pos + k + 1 \in 0 .. MaxRows + 1 /\ c.pos + k + 1 \in c.pos .. c.rows + 1
    BY <1>2, <1>3, <1>4
  <2> QED BY <2>1, <2>3, <2>4, <2>5
<1> QED
  BY <1>5, <1>6, <1>7, <1>8 DEF ReadRows

\* A count moves it back to the start, or to the last row, or not at all.
LEMMA CountingSteps ==
    ASSUME TypeOK, NEW h \in Handle, NEW code,
           CountRows(h, code) \/ RowCountThrows(h, code) \/ DiagCountThrows(h, code)
    PROVE  \E pos \in 0 .. MaxRows + 1 : Moving(h, pos)
<1> DEFINE c == cursorOf[result[h]]
<1>1. CursorOpen(result[h])
  BY DEF CountRows, RowCountThrows, DiagCountThrows, CountStops
<1>2. c \in Cursor /\ c.rows \in 0 .. MaxRows /\ c.pos \in 0 .. MaxRows + 1
      /\ c.pos <= c.rows + 1
  BY <1>1, CursorValue
<1>3. MaxRows \in Nat
  BY BoundAssumption
<1>4. CASE CountRows(h, code)
  <2>1. Moving(h, 0)
    BY <1>1, <1>2, <1>4 DEF CountRows, Moving, TypeOK, driver, settings, memory
  <2> QED BY <1>3, <2>1
<1>5. CASE RowCountThrows(h, code)
  <2>1. PICK pos \in {c.pos, c.rows} : MoveTo(h, pos)
    BY <1>5 DEF RowCountThrows, CountStops
  <2>2. Moving(h, pos)
    BY <1>1, <1>2, <1>5, <2>1 DEF RowCountThrows, Moving, TypeOK, driver, settings
  <2> QED BY <1>2, <1>3, <2>2
<1>6. CASE DiagCountThrows(h, code)
  <2>1. PICK pos \in {c.pos, c.rows} : MoveTo(h, pos)
    BY <1>6 DEF DiagCountThrows, CountStops
  <2>2. Moving(h, pos)
    BY <1>1, <1>2, <1>6, <2>1 DEF DiagCountThrows, Moving, TypeOK, Catch, driver, settings
  <2> QED BY <1>2, <1>3, <2>2
<1> QED BY <1>4, <1>5, <1>6

\* A call replaces the plan or the cursor of h, or closes either.
Changing(h) ==
    \/ \E sql \in Sql : \/ PrepareThrows(h, sql, "SQL_ERROR")
                        \/ Replan(h, sql)
                        \/ ExecDirectReturns(h, sql, "SQL_SUCCESS")
    \/ \E r \in FreshCursor, n \in 0 .. MaxRows : \E R : NewCursor(h, r, n, R)
    \/ ExecuteThrows(h, "SQL_ERROR")
    \/ MoreResultsEnds(h, "SQL_NO_DATA")
    \/ MoreResultsThrows(h, "SQL_ERROR")
    \/ CloseHeldCursor(h, "SQL_SUCCESS")

\* What a call on h can do to the state the properties speak of.
Effect(h) ==
    \/ \E pos \in 0 .. MaxRows + 1 : Moving(h, pos)
    \/ Changing(h)

\* And what it can do if it counts no rows.
OtherEffect(h) ==
    \/ \E pos \in 0 .. MaxRows + 1 : Onward(h, pos)
    \/ Changing(h)

LEMMA NewCursorSteps ==
    ASSUME TypeOK, NEW h \in Handle, NEW code,
           ExecuteReturns(h, code) \/ MoreResultsReturns(h, code)
    PROVE  \E r \in FreshCursor, n \in 0 .. MaxRows : \E R : NewCursor(h, r, n, R)
<1>1. CASE ExecuteReturns(h, code)
  <2>1. PICK o \in CloseCursor(result[h]), r \in FreshCursor, n \in 0 .. MaxRows :
            /\ PlanOpen(statement[h])
            /\ cursorOf' = CursorsWithNew(r, statement[h], n, o.closed)
            /\ planOf' = [planOf EXCEPT ![statement[h]].run = TRUE]
            /\ result' = [result EXCEPT ![h] = r]
            /\ Announce(h)
            /\ swallowed' = [swallowed EXCEPT ![h] = @ \cap {"prepareStatement"}]
            /\ UNCHANGED <<statement, asked>>
            /\ Drops({}, FALSE)
    BY <1>1 DEF ExecuteReturns
  <2>2. o.closed \subseteq {result[h]}
    BY CloseCursorOutcome DEF TypeOK
  <2>3. statement[h] \in PStmt /\ planOf[statement[h]] \in Plan
    BY <2>1 DEF PlanOpen, TypeOK, JdbcTypeOK
  <2>4. /\ planOf' \in [PStmt -> Plan \cup {Null}]
        /\ \A p \in PStmt : p # statement[h] => planOf'[p] = planOf[p]
        /\ planOf'[statement[h]] # Null
        /\ planOf'[statement[h]].sql = planOf[statement[h]].sql
    <3>1. [planOf[statement[h]] EXCEPT !.run = TRUE] \in Plan
      BY <2>3 DEF Plan
    <3>2. [planOf[statement[h]] EXCEPT !.run = TRUE].sql = planOf[statement[h]].sql
      BY <2>3 DEF Plan
    <3>3. planOf' = [planOf EXCEPT ![statement[h]] = [planOf[statement[h]] EXCEPT !.run = TRUE]]
      BY <2>1, <2>3 DEF TypeOK, JdbcTypeOK
    <3> QED BY <2>3, <3>1, <3>2, <3>3, NullAssumption DEF TypeOK, JdbcTypeOK
  <2> QED BY <2>1, <2>2, <2>4 DEF NewCursor
<1>2. CASE MoreResultsReturns(h, code)
  <2>1. PICK r \in FreshCursor, n \in 0 .. MaxRows :
            /\ PlanOpen(statement[h])
            /\ cursorOf' = CursorsWithNew(r, statement[h], n, {})
            /\ result' = [result EXCEPT ![h] = r]
            /\ Announce(h)
            /\ swallowed' = [swallowed EXCEPT ![h] = @ \cap {"prepareStatement"}]
            /\ UNCHANGED <<statement, planOf, asked>>
            /\ Drops({}, FALSE)
    BY <1>2 DEF MoreResultsReturns
  <2>2. NewCursor(h, r, n, {})
    BY <2>1 DEF NewCursor, PlanOpen, TypeOK, JdbcTypeOK
  <2> QED BY <2>2
<1> QED BY <1>1, <1>2

LEMMA ReplanSteps ==
    ASSUME NEW h \in Handle, NEW sql \in Sql, NEW code,
           \/ PrepareReturns(h, sql, code)
           \/ TimeoutThrows(h, sql, code)
           \/ ExecDirectThrows(h, sql, code)
    PROVE  Replan(h, sql)
BY DEF PrepareReturns, TimeoutThrows, ExecDirectThrows, Replan

LEMMA OtherSteps ==
    ASSUME TypeOK, NEW h \in Handle, NEW code, OtherCall(h, code)
    PROVE  Quiet \/ OtherEffect(h)
<1>1. CASE AllocStmt(h, code)
  BY <1>1 DEF AllocStmt, Quiet
<1>2. ASSUME NEW sql \in Sql, Prepare(h, sql, code)
      PROVE  Changing(h)
  <2>1. CASE PrepareThrows(h, sql, code)
    <3>1. code = "SQL_ERROR" BY <2>1 DEF PrepareThrows
    <3> QED BY <2>1, <3>1 DEF Changing
  <2> QED BY <1>2, <2>1, ReplanSteps DEF Prepare, Changing
<1>3. ASSUME NEW sql \in Sql, ExecDirect(h, sql, code)
      PROVE  Changing(h)
  <2>1. CASE PrepareThrows(h, sql, code)
    <3>1. code = "SQL_ERROR" BY <2>1 DEF PrepareThrows
    <3> QED BY <2>1, <3>1 DEF Changing
  <2>2. CASE ExecDirectReturns(h, sql, code)
    <3>1. code = "SQL_SUCCESS" BY <2>2 DEF ExecDirectReturns
    <3> QED BY <2>2, <3>1 DEF Changing
  <2> QED BY <1>3, <2>1, <2>2, ReplanSteps DEF ExecDirect, Changing
<1>4. CASE Execute(h, code)
  <2>1. CASE ExecuteThrows(h, code)
    <3>1. code = "SQL_ERROR" BY <2>1 DEF ExecuteThrows
    <3> QED BY <2>1, <3>1 DEF Changing, OtherEffect
  <2> QED BY <1>4, <2>1, NewCursorSteps DEF Execute, Changing, OtherEffect
<1>5. CASE MoreResults(h, code)
  <2>1. CASE MoreResultsEnds(h, code)
    <3>1. code = "SQL_NO_DATA" BY <2>1 DEF MoreResultsEnds
    <3> QED BY <2>1, <3>1 DEF Changing, OtherEffect
  <2>2. CASE MoreResultsThrows(h, code)
    <3>1. code = "SQL_ERROR" BY <2>2 DEF MoreResultsThrows
    <3> QED BY <2>2, <3>1 DEF Changing, OtherEffect
  <2> QED BY <1>5, <2>1, <2>2, NewCursorSteps DEF MoreResults, Changing, OtherEffect
<1>6. CASE FreeStmt(h, code)
  <2>1. CASE CloseHeldCursor(h, code)
    <3>1. code = "SQL_SUCCESS" BY <2>1 DEF CloseHeldCursor
    <3> QED BY <2>1, <3>1 DEF Changing, OtherEffect
  <2>2. CASE Unbind(h, code) \/ FreeNothing(h, code)
    BY <2>2 DEF Unbind, FreeNothing, vars, driver, Quiet
  <2> QED BY <1>6, <2>1, <2>2 DEF FreeStmt
<1>7. ASSUME \/ \E type \in BindType : BindCol(h, type, code)
             \/ \E size \in 0 .. MaxArraySize : SetArraySize(h, size, code)
             \/ \E seconds \in 1 .. MaxTimeout : SetQueryTimeout(h, seconds, code)
      PROVE  Quiet
  BY <1>7 DEF BindCol, SetArraySize, SetQueryTimeout, driver, Quiet
<1>8. CASE Fetch(h, code) \/ FetchScroll(h, code)
  <2>1. CASE \E supported : FetchRefused(h, supported, code)
    BY <2>1 DEF FetchRefused, vars, driver, Quiet
  <2>2. bindDataArraySize[h] \in Nat
    BY HandleAssumption DEF TypeOK
  <2> QED BY <1>8, <2>1, <2>2, ReadingSteps DEF Fetch, FetchScroll, OtherEffect
<1>9. CASE GetData(h, code) \/ NumResultCols(h, code)
  BY <1>9 DEF GetData, NumResultCols, vars, driver, Quiet
<1> QED
  BY <1>1, <1>2, <1>3, <1>4, <1>5, <1>6, <1>7, <1>8, <1>9 DEF OtherCall, OtherEffect

LEMMA OtherIsEffect ==
    ASSUME NEW h, OtherEffect(h)
    PROVE  Effect(h)
BY DEF OtherEffect, Effect, Onward

LEMMA CallSteps ==
    ASSUME TypeOK, NEW h \in Handle, NEW code, Call(h, code)
    PROVE  Quiet \/ Effect(h)
<1>1. CASE OtherCall(h, code)
  BY <1>1, OtherSteps, OtherIsEffect
<1>2. CASE CountingCall(h, code)
  <2>1. CASE \E answer : CountRefused(h, answer, code)
    BY <2>1 DEF CountRefused, vars, driver, Quiet
  <2> QED BY <1>2, <2>1, CountingSteps DEF CountingCall, RowCount, DiagCursorRowCount, Effect
<1> QED BY <1>1, <1>2 DEF Call

LEMMA Steps ==
    ASSUME TypeOK, [Next]_vars
    PROVE  Quiet \/ \E h \in Handle : Effect(h)
<1>1. CASE UNCHANGED vars
  BY <1>1 DEF vars, driver, Quiet
<1> QED BY <1>1, CallSteps DEF Next

-----------------------------------------------------------------------------
(* The type invariant.                                                     *)

\* The part of TypeOK about what no other property mentions.
SettingsTypeOK ==
    /\ allocated \subseteq Handle
    /\ impDescriptor \in [Handle -> BOOLEAN]
    /\ bindParameters \in [Handle -> Seq(BindType)]
    /\ bindDataArraySize \in [Handle -> 0 .. MaxArraySize]
    /\ statementQueryTimeout \in [Handle -> 0 .. MaxTimeout]

\* The part of TypeOK about references, JDBC objects and memory.
ReferencesTypeOK ==
    /\ JdbcTypeOK
    /\ statement \in [Handle -> PStmt \cup {Null}]
    /\ result \in [Handle -> RSet \cup {Null}]
    /\ asked \in [Handle -> Sql \cup {Null}]
    /\ opened \in [Handle -> BOOLEAN]
    /\ seen \in [Handle -> SUBSET (1 .. MaxRows)]
    /\ errored \in [Handle -> BOOLEAN]
    /\ swallowed \in [Handle -> SUBSET Catch]
    /\ leaked \subseteq PStmt \cup RSet

LEMMA SettingsStep ==
    ASSUME TypeOK, [Next]_vars
    PROVE  SettingsTypeOK'
<1> USE DEF TypeOK, SettingsTypeOK
<1>1. CASE UNCHANGED vars
  BY <1>1 DEF vars, driver, settings
<1>2. ASSUME NEW h \in Handle, NEW code \in Code, Call(h, code)
      PROVE  SettingsTypeOK'
  <2>1. CASE AllocStmt(h, code)
    BY <2>1 DEF AllocStmt, settings
  <2>2. CASE \E sql \in Sql : Prepare(h, sql, code) \/ ExecDirect(h, sql, code)
    <3>1. ASSUME NEW sql \in Sql, Prepare(h, sql, code) PROVE SettingsTypeOK'
      BY <3>1 DEF Prepare, PrepareReturns, PrepareThrows, TimeoutThrows,
                  DropOldPlan, TakeNewPlan, settings
    <3>2. ASSUME NEW sql \in Sql, ExecDirect(h, sql, code) PROVE SettingsTypeOK'
      <4>1. CASE ExecDirectReturns(h, sql, code) \/ ExecDirectThrows(h, sql, code)
        BY <4>1 DEF ExecDirectReturns, ExecDirectThrows, DropOldPlan, TakeNewPlan, settings
      <4>2. CASE PrepareThrows(h, sql, code) \/ TimeoutThrows(h, sql, code)
        BY <4>2 DEF PrepareThrows, TimeoutThrows, DropOldPlan, TakeNewPlan, settings
      <4> QED BY <3>2, <4>1, <4>2 DEF ExecDirect
    <3> QED BY <2>2, <3>1, <3>2
  <2>3. CASE Execute(h, code) \/ MoreResults(h, code)
    BY <2>3 DEF Execute, ExecuteReturns, ExecuteThrows, MoreResults, MoreResultsReturns,
                MoreResultsEnds, MoreResultsThrows, vars, driver, settings
  <2>4. CASE FreeStmt(h, code)
    <3>1. CASE CloseHeldCursor(h, code)
      BY <3>1 DEF CloseHeldCursor, settings
    <3>2. CASE Unbind(h, code)
      BY <3>2 DEF Unbind, driver
    <3>3. CASE FreeNothing(h, code)
      BY <3>3 DEF FreeNothing, vars, driver, settings
    <3> QED BY <2>4, <3>1, <3>2, <3>3 DEF FreeStmt
  <2>5. CASE \E type \in BindType : BindCol(h, type, code)
    BY <2>5 DEF BindCol, driver
  <2>6. CASE \E size \in 0 .. MaxArraySize : SetArraySize(h, size, code)
    BY <2>6 DEF SetArraySize, driver
  <2>7. CASE \E seconds \in 1 .. MaxTimeout : SetQueryTimeout(h, seconds, code)
    BY <2>7, HandleAssumption DEF SetQueryTimeout, driver
  <2>8. CASE Fetch(h, code) \/ FetchScroll(h, code)
    BY <2>8 DEF Fetch, FetchScroll, ReadRows, FetchDelivers, FetchEnds, FetchEscapes,
                FetchThrows, FetchRefused, vars, driver, settings
  <2>9. CASE \/ GetData(h, code) \/ NumResultCols(h, code)
            \/ RowCount(h, code) \/ DiagCursorRowCount(h, code)
    BY <2>9 DEF GetData, NumResultCols, RowCount, DiagCursorRowCount, CountRows,
                RowCountThrows, DiagCountThrows, CountRefused, vars, driver, settings
  <2> QED
    BY <1>2, <2>1, <2>2, <2>3, <2>4, <2>5, <2>6, <2>7, <2>8, <2>9
       DEF Call, OtherCall, CountingCall
<1> QED BY <1>1, <1>2 DEF Next

LEMMA DropsType ==
    ASSUME TypeOK, NEW refs, NEW threw, Drops(refs, threw)
    PROVE  leaked' \subseteq PStmt \cup RSet
BY DEF Drops

LEMMA ReferencesStep ==
    ASSUME TypeOK, [Next]_vars
    PROVE  ReferencesTypeOK'
<1> USE DEF ReferencesTypeOK
<1>1. CASE Quiet
  BY <1>1 DEF Quiet, jdbc, memory, TypeOK, JdbcTypeOK
<1>2. ASSUME NEW h \in Handle, NEW pos \in 0 .. MaxRows + 1, Moving(h, pos)
      PROVE  ReferencesTypeOK'
  <2>1. result[h] \in RSet /\ cursorOf[result[h]] \in Cursor
    BY <1>2 DEF Moving, CursorOpen, TypeOK, JdbcTypeOK
  <2>2. [cursorOf[result[h]] EXCEPT !.pos = pos] \in Cursor
    BY <1>2, <2>1, BoundAssumption DEF Moving, Cursor
  <2>3. cursorOf' = [cursorOf EXCEPT ![result[h]] = [cursorOf[result[h]] EXCEPT !.pos = pos]]
    BY <1>2, <2>1 DEF Moving, MoveTo, TypeOK, JdbcTypeOK
  <2> QED BY <1>2, <2>1, <2>2, <2>3 DEF Moving, TypeOK, JdbcTypeOK
<1>3. ASSUME NEW h \in Handle, NEW sql \in Sql, PrepareThrows(h, sql, "SQL_ERROR")
      PROVE  ReferencesTypeOK'
  <2>1. PICK o \in CloseOldPlan(h) :
            /\ DropOldPlan(h, sql, o)
            /\ NoCursor(h, o)
            /\ planOf' = PlansWithout(o.plans)
            /\ UNCHANGED statement
            /\ Drops({result[h]}, o.threw)
    BY <1>3 DEF PrepareThrows
  <2>2. /\ planOf' \in [PStmt -> Plan \cup {Null}]
        /\ cursorOf' \in [RSet -> Cursor \cup {Null}]
    BY <2>1, PlansWithoutValue, CursorsWithoutValue DEF NoCursor
  <2>3. leaked' \subseteq PStmt \cup RSet
    BY <2>1, DropsType
  <2> QED
    BY <2>1, <2>2, <2>3 DEF DropOldPlan, NoCursor, Retire, Catch, TypeOK, JdbcTypeOK
<1>4. ASSUME NEW h \in Handle, NEW sql \in Sql, Replan(h, sql)
      PROVE  ReferencesTypeOK'
  <2>1. PICK o \in CloseOldPlan(h), p \in FreshPlan :
            /\ DropOldPlan(h, sql, o)
            /\ NoCursor(h, o)
            /\ TakeNewPlan(h, sql, o, p, FALSE)
            /\ Drops({result[h], statement[h]}, o.threw)
    BY <1>4 DEF Replan
  <2>2. p \in PStmt
    BY DEF FreshPlan
  <2>3. planOf' \in [PStmt -> Plan \cup {Null}]
    <3>1. planOf' = [PlansWithout(o.plans) EXCEPT ![p] = [sql |-> sql, run |-> FALSE]]
      BY <2>1 DEF TakeNewPlan
    <3>2. [sql |-> sql, run |-> FALSE] \in Plan
      BY DEF Plan
    <3> QED BY <2>2, <3>1, <3>2, PlansWithoutValue
  <2>4. cursorOf' \in [RSet -> Cursor \cup {Null}]
    BY <2>1, CursorsWithoutValue DEF NoCursor
  <2> QED
    BY <2>1, <2>2, <2>3, <2>4, DropsType
       DEF DropOldPlan, NoCursor, TakeNewPlan, Retire, Catch, TypeOK, JdbcTypeOK
<1>5. ASSUME NEW h \in Handle, NEW sql \in Sql, ExecDirectReturns(h, sql, "SQL_SUCCESS")
      PROVE  ReferencesTypeOK'
  <2>1. PICK o \in CloseOldPlan(h), p \in FreshPlan, r \in FreshCursor, n \in 0 .. MaxRows :
            /\ DropOldPlan(h, sql, o)
            /\ TakeNewPlan(h, sql, o, p, TRUE)
            /\ cursorOf' = CursorsWithNew(r, p, n, o.cursors)
            /\ result' = [result EXCEPT ![h] = r]
            /\ Announce(h)
            /\ Drops({result[h], statement[h]}, o.threw)
    BY <1>5 DEF ExecDirectReturns
  <2>2. p \in PStmt /\ r \in RSet
    BY DEF FreshPlan, FreshCursor
  <2>3. cursorOf' \in [RSet -> Cursor \cup {Null}]
    BY <2>1, <2>2, CursorsWithNewValue
  <2>4. planOf' \in [PStmt -> Plan \cup {Null}]
    <3>1. planOf' = [PlansWithout(o.plans) EXCEPT ![p] = [sql |-> sql, run |-> TRUE]]
      BY <2>1 DEF TakeNewPlan
    <3>2. [sql |-> sql, run |-> TRUE] \in Plan
      BY DEF Plan
    <3> QED BY <2>2, <3>1, <3>2, PlansWithoutValue
  <2> QED
    BY <2>1, <2>2, <2>3, <2>4, DropsType
       DEF DropOldPlan, TakeNewPlan, Announce, Catch, TypeOK, JdbcTypeOK
<1>6. ASSUME NEW h \in Handle, NEW r \in FreshCursor, NEW n \in 0 .. MaxRows, NEW R,
             NewCursor(h, r, n, R)
      PROVE  ReferencesTypeOK'
  <2>1. r \in RSet /\ statement[h] \in PStmt
    BY <1>6 DEF NewCursor, FreshCursor, PlanOpen, TypeOK
  <2>2. cursorOf' \in [RSet -> Cursor \cup {Null}]
    BY <1>6, <2>1, CursorsWithNewValue DEF NewCursor
  <2> QED
    BY <1>6, <2>1, <2>2, DropsType DEF NewCursor, Announce, Catch, TypeOK, JdbcTypeOK
<1>7. ASSUME NEW h \in Handle, ExecuteThrows(h, "SQL_ERROR")
      PROVE  ReferencesTypeOK'
  <2>1. PICK o \in CloseCursor(result[h]) :
            \E R \in {o.closed, o.closed \cup CursorsOf(statement[h])} :
            /\ cursorOf' = CursorsWithout(R)
            /\ opened' = [opened EXCEPT ![h] = FALSE]
            /\ swallowed' = [swallowed EXCEPT ![h] =
                                (@ \ {"execute"}) \cup {x \in {"execute"} : o.threw}]
            /\ UNCHANGED <<driver, planOf, asked, seen, errored>>
            /\ Drops({}, FALSE)
    BY <1>7 DEF ExecuteThrows
  <2>2. swallowed' \in [Handle -> SUBSET Catch]
    BY <2>1 DEF Catch, TypeOK
  <2>3. cursorOf' \in [RSet -> Cursor \cup {Null}]
    BY <2>1, CursorsWithoutValue
  <2>4. leaked' \subseteq PStmt \cup RSet
    BY <2>1, DropsType
  <2> QED BY <2>1, <2>2, <2>3, <2>4 DEF driver, TypeOK, JdbcTypeOK
<1>8. ASSUME NEW h \in Handle, MoreResultsEnds(h, "SQL_NO_DATA")
      PROVE  ReferencesTypeOK'
  BY <1>8, CursorsWithoutValue, DropsType
     DEF MoreResultsEnds, Retire, driver, Catch, TypeOK, JdbcTypeOK
<1>9. ASSUME NEW h \in Handle, MoreResultsThrows(h, "SQL_ERROR")
      PROVE  ReferencesTypeOK'
  <2>1. PICK R \in {{}, CursorsOf(statement[h])} : cursorOf' = CursorsWithout(R)
    BY <1>9 DEF MoreResultsThrows
  <2>2. cursorOf' \in [RSet -> Cursor \cup {Null}]
    BY <2>1, CursorsWithoutValue
  <2>3. leaked' \subseteq PStmt \cup RSet
    BY <1>9, DropsType DEF MoreResultsThrows
  <2> QED BY <1>9, <2>2, <2>3 DEF MoreResultsThrows, driver, TypeOK, JdbcTypeOK
<1>10. ASSUME NEW h \in Handle, CloseHeldCursor(h, "SQL_SUCCESS")
      PROVE  ReferencesTypeOK'
  BY <1>10, CursorsWithoutValue, DropsType
     DEF CloseHeldCursor, Retire, Catch, TypeOK, JdbcTypeOK
<1> QED
  BY <1>1, <1>2, <1>3, <1>4, <1>5, <1>6, <1>7, <1>8, <1>9, <1>10, Steps DEF Effect, Changing

LEMMA TypeInit == Init => TypeOK
BY BoundAssumption, HandleAssumption DEF Init, JdbcInit, TypeOK, JdbcTypeOK

LEMMA TypeStep ==
    ASSUME TypeOK, [Next]_vars
    PROVE  TypeOK'
BY SettingsStep, ReferencesStep DEF SettingsTypeOK, ReferencesTypeOK, TypeOK

\* The variables keep their types: references point into the pools or are null,
\* positions stay between before the first and after the last row.
THEOREM TypeCorrect == Spec => []TypeOK
BY TypeInit, TypeStep, PTL DEF Spec

-----------------------------------------------------------------------------
(* What a call on a handle can touch.                                      *)

\* A call on h changes the references of h only, to nothing, to what they were
\* or to an object no handle had.
OwnReferences(h) ==
    /\ \A g \in Handle : g # h => statement'[g] = statement[g] /\ result'[g] = result[g]
    /\ statement'[h] = statement[h] \/ statement'[h] \in FreshPlan
    /\ result'[h] \in {Null, result[h]} \/ result'[h] \in FreshCursor

\* It changes the statement h had or has got, and the result sets of that
\* statement and of h; of these only the last one of h can open or move.
OwnObjects(h) ==
    /\ \A p \in PStmt : p \notin {statement[h], statement'[h]} => planOf'[p] = planOf[p]
    /\ \A r \in RSet : r \notin {result[h], result'[h]} \cup CursorsOf(statement[h])
                            => cursorOf'[r] = cursorOf[r]

OwnMemory(h) ==
    \A g \in Handle : g # h =>
        /\ asked'[g] = asked[g] /\ opened'[g] = opened[g] /\ seen'[g] = seen[g]
        /\ errored'[g] = errored[g] /\ swallowed'[g] = swallowed[g]

\* The cursor h is left with belongs to its statement if the one it had did.
OwnCursor(h) ==
    CursorOpen(result[h])' =>
        \/ cursorOf'[result'[h]].owner = statement'[h]
        \/ /\ statement'[h] = statement[h] /\ result'[h] = result[h]
           /\ CursorOpen(result[h])
           /\ cursorOf'[result[h]].owner = cursorOf[result[h]].owner

Footprint(h) == OwnReferences(h) /\ OwnObjects(h) /\ OwnMemory(h) /\ OwnCursor(h)

\* An open result set belongs to an open statement: closing a statement closes
\* its result sets.
OwnersOpen == \A r \in RSet : cursorOf[r] # Null => planOf[cursorOf[r].owner] # Null

\* So a statement that is not open yet has no result sets.
LEMMA FreshPlanHasNoCursors ==
    ASSUME OwnersOpen, NEW p \in FreshPlan
    PROVE  CursorsOf(p) = {}
BY DEF OwnersOpen, FreshPlan, CursorsOf

LEMMA ClosingFootprint ==
    ASSUME TypeOK, NEW h \in Handle, NEW R,
           R \subseteq {result[h]} \cup CursorsOf(statement[h]),
           cursorOf' = CursorsWithout(R),
           \A p \in PStmt : p \notin {statement[h], statement'[h]} => planOf'[p] = planOf[p]
    PROVE  /\ OwnObjects(h)
           /\ statement'[h] = statement[h] /\ result'[h] \in {Null, result[h]} => OwnCursor(h)
           /\ result'[h] = Null => OwnCursor(h)
<1>1. \A r \in RSet : cursorOf'[r] = IF r \in R THEN Null ELSE cursorOf[r]
  BY CursorsWithoutValue
<1>2. OwnObjects(h)
  BY <1>1 DEF OwnObjects
<1>3. result[h] # Null => result[h] \in RSet
  BY DEF TypeOK
<1> QED
  BY <1>1, <1>2, <1>3 DEF OwnCursor, CursorOpen

LEMMA FootprintOfCall ==
    ASSUME TypeOK, OwnersOpen, NEW h \in Handle, Effect(h)
    PROVE  Footprint(h)
<1>1. ASSUME NEW pos \in 0 .. MaxRows + 1, Moving(h, pos)
      PROVE  Footprint(h)
  <2>1. result[h] \in RSet /\ cursorOf[result[h]] \in Cursor
    BY <1>1 DEF Moving, CursorOpen, TypeOK, JdbcTypeOK
  <2>2. cursorOf' = [cursorOf EXCEPT ![result[h]] = [cursorOf[result[h]] EXCEPT !.pos = pos]]
    BY <1>1, <2>1 DEF Moving, MoveTo, TypeOK, JdbcTypeOK
  <2>3. [cursorOf[result[h]] EXCEPT !.pos = pos].owner = cursorOf[result[h]].owner
    BY <2>1 DEF Cursor
  <2>4. OwnReferences(h) /\ OwnMemory(h)
    BY <1>1 DEF Moving, OwnReferences, OwnMemory
  <2>5. OwnObjects(h)
    BY <1>1, <2>2 DEF Moving, OwnObjects, TypeOK, JdbcTypeOK
  <2>6. OwnCursor(h)
    BY <1>1, <2>1, <2>2, <2>3 DEF Moving, OwnCursor, TypeOK, JdbcTypeOK
  <2> QED BY <2>4, <2>5, <2>6 DEF Footprint
<1>2. ASSUME NEW sql \in Sql, PrepareThrows(h, sql, "SQL_ERROR")
      PROVE  Footprint(h)
  <2>1. PICK o \in CloseOldPlan(h) :
            /\ DropOldPlan(h, sql, o)
            /\ NoCursor(h, o)
            /\ planOf' = PlansWithout(o.plans)
            /\ UNCHANGED statement
    BY <1>2 DEF PrepareThrows
  <2>2. /\ o.plans \subseteq {statement[h]}
        /\ o.cursors \subseteq {result[h]} \cup CursorsOf(statement[h])
    BY CloseOldPlanOutcome
  <2>3. \A p \in PStmt : p # statement[h] => planOf'[p] = planOf[p]
    BY <2>1, <2>2, PlansWithoutValue
  <2>4. OwnReferences(h)
    BY <2>1 DEF OwnReferences, NoCursor, TypeOK
  <2>5. OwnMemory(h)
    BY <2>1 DEF OwnMemory, DropOldPlan, NoCursor, Retire, TypeOK
  <2>6. result'[h] = Null /\ cursorOf' = CursorsWithout(o.cursors)
    BY <2>1 DEF NoCursor, TypeOK
  <2>7. OwnObjects(h) /\ OwnCursor(h)
    BY <2>2, <2>3, <2>6, ClosingFootprint
  <2> QED BY <2>4, <2>5, <2>7 DEF Footprint
<1>3. ASSUME NEW sql \in Sql, Replan(h, sql)
      PROVE  Footprint(h)
  <2>1. PICK o \in CloseOldPlan(h), p \in FreshPlan :
            /\ DropOldPlan(h, sql, o)
            /\ NoCursor(h, o)
            /\ TakeNewPlan(h, sql, o, p, FALSE)
    BY <1>3 DEF Replan
  <2>2. /\ o.plans \subseteq {statement[h]}
        /\ o.cursors \subseteq {result[h]} \cup CursorsOf(statement[h])
    BY CloseOldPlanOutcome
  <2>3. statement'[h] = p
    BY <2>1 DEF TakeNewPlan, TypeOK
  <2>4. \A q \in PStmt : q \notin {statement[h], p} => planOf'[q] = planOf[q]
    BY <2>1, <2>2, PlansWithoutValue DEF TakeNewPlan
  <2>5. OwnReferences(h)
    BY <2>1, <2>3 DEF OwnReferences, NoCursor, TakeNewPlan, TypeOK
  <2>6. OwnMemory(h)
    BY <2>1 DEF OwnMemory, DropOldPlan, NoCursor, Retire, TypeOK
  <2>7. result'[h] = Null /\ cursorOf' = CursorsWithout(o.cursors)
    BY <2>1 DEF NoCursor, TypeOK
  <2>8. OwnObjects(h) /\ OwnCursor(h)
    BY <2>2, <2>3, <2>4, <2>7, ClosingFootprint
  <2> QED BY <2>5, <2>6, <2>8 DEF Footprint
<1>4. ASSUME NEW sql \in Sql, ExecDirectReturns(h, sql, "SQL_SUCCESS")
      PROVE  Footprint(h)
  <2>1. PICK o \in CloseOldPlan(h), p \in FreshPlan, r \in FreshCursor, n \in 0 .. MaxRows :
            /\ DropOldPlan(h, sql, o)
            /\ TakeNewPlan(h, sql, o, p, TRUE)
            /\ cursorOf' = CursorsWithNew(r, p, n, o.cursors)
            /\ result' = [result EXCEPT ![h] = r]
            /\ Announce(h)
    BY <1>4 DEF ExecDirectReturns
  <2>2. /\ o.plans \subseteq {statement[h]}
        /\ o.cursors \subseteq {result[h]} \cup CursorsOf(statement[h])
    BY CloseOldPlanOutcome
  <2>3. p \in PStmt /\ r \in RSet /\ CursorsOf(p) = {}
    BY FreshPlanHasNoCursors DEF FreshPlan, FreshCursor
  <2>4. statement'[h] = p /\ result'[h] = r
    BY <2>1 DEF TakeNewPlan, TypeOK
  <2>5. \A q \in PStmt : q \notin {statement[h], p} => planOf'[q] = planOf[q]
    BY <2>1, <2>2, PlansWithoutValue DEF TakeNewPlan
  <2>6. /\ cursorOf'[r] = [owner |-> p, rows |-> n, pos |-> 0]
        /\ \A q \in RSet : q # r => cursorOf'[q] = IF q \in o.cursors THEN Null ELSE cursorOf[q]
    BY <2>1, <2>3, CursorsWithNewValue
  <2>7. OwnReferences(h)
    BY <2>1, <2>4 DEF OwnReferences, TakeNewPlan, TypeOK
  <2>8. OwnMemory(h)
    BY <2>1 DEF OwnMemory, DropOldPlan, Announce, TypeOK
  <2>9. OwnObjects(h)
    BY <2>2, <2>4, <2>5, <2>6 DEF OwnObjects
  <2>10. OwnCursor(h)
    BY <2>4, <2>6 DEF OwnCursor
  <2> QED BY <2>7, <2>8, <2>9, <2>10 DEF Footprint
<1>5. ASSUME NEW r \in FreshCursor, NEW n \in 0 .. MaxRows, NEW R, NewCursor(h, r, n, R)
      PROVE  Footprint(h)
  <2>1. r \in RSet /\ statement[h] \in PStmt /\ statement'[h] = statement[h] /\ result'[h] = r
    BY <1>5 DEF NewCursor, FreshCursor, PlanOpen, TypeOK
  <2>2. /\ cursorOf'[r] = [owner |-> statement[h], rows |-> n, pos |-> 0]
        /\ \A q \in RSet : q # r =>
              cursorOf'[q] = IF q \in R \cup CursorsOf(statement[h]) THEN Null ELSE cursorOf[q]
    BY <1>5, <2>1, CursorsWithNewValue DEF NewCursor
  <2>3. OwnReferences(h)
    BY <1>5, <2>1 DEF NewCursor, OwnReferences, TypeOK
  <2>4. OwnMemory(h)
    BY <1>5 DEF NewCursor, OwnMemory, Announce, TypeOK
  <2>5. OwnObjects(h)
    BY <1>5, <2>1, <2>2 DEF NewCursor, OwnObjects
  <2>6. OwnCursor(h)
    BY <2>1, <2>2 DEF OwnCursor
  <2> QED BY <2>3, <2>4, <2>5, <2>6 DEF Footprint
<1>6. CASE ExecuteThrows(h, "SQL_ERROR")
  <2>1. PICK o \in CloseCursor(result[h]) :
            \E R \in {o.closed, o.closed \cup CursorsOf(statement[h])} :
            /\ cursorOf' = CursorsWithout(R)
            /\ opened' = [opened EXCEPT ![h] = FALSE]
            /\ swallowed' = [swallowed EXCEPT ![h] =
                                (@ \ {"execute"}) \cup {x \in {"execute"} : o.threw}]
            /\ UNCHANGED <<statement, result, planOf, asked, seen, errored>>
    BY <1>6 DEF ExecuteThrows, driver
  <2>2. o.closed \subseteq {result[h]}
    BY CloseCursorOutcome DEF TypeOK
  <2>3. OwnReferences(h) /\ OwnMemory(h)
    BY <2>1 DEF OwnReferences, OwnMemory, TypeOK
  <2>4. OwnObjects(h) /\ OwnCursor(h)
    BY <2>1, <2>2, ClosingFootprint
  <2> QED BY <2>3, <2>4 DEF Footprint
<1>7. CASE MoreResultsEnds(h, "SQL_NO_DATA")
  <2>1. OwnReferences(h) /\ OwnMemory(h)
    BY <1>7 DEF MoreResultsEnds, Retire, driver, OwnReferences, OwnMemory, TypeOK
  <2>2. OwnObjects(h) /\ OwnCursor(h)
    BY <1>7, ClosingFootprint DEF MoreResultsEnds, driver
  <2> QED BY <2>1, <2>2 DEF Footprint
<1>8. CASE MoreResultsThrows(h, "SQL_ERROR")
  <2>1. OwnReferences(h) /\ OwnMemory(h)
    BY <1>8 DEF MoreResultsThrows, driver, OwnReferences, OwnMemory, TypeOK
  <2>2. OwnObjects(h) /\ OwnCursor(h)
    BY <1>8, ClosingFootprint DEF MoreResultsThrows, driver
  <2> QED BY <2>1, <2>2 DEF Footprint
<1>9. CASE CloseHeldCursor(h, "SQL_SUCCESS")
  <2>1. PICK o \in CloseCursor(result[h]) :
            /\ cursorOf' = CursorsWithout(o.closed)
            /\ result' = [result EXCEPT ![h] = Null]
            /\ Retire(h)
            /\ swallowed' = [swallowed EXCEPT ![h] = @ \cap {"prepareStatement"}]
            /\ UNCHANGED <<statement, planOf, asked>>
    BY <1>9 DEF CloseHeldCursor
  <2>2. o.closed \subseteq {result[h]}
    BY CloseCursorOutcome DEF TypeOK
  <2>3. OwnReferences(h) /\ OwnMemory(h)
    BY <2>1 DEF Retire, OwnReferences, OwnMemory, TypeOK
  <2>4. OwnObjects(h) /\ OwnCursor(h)
    BY <2>1, <2>2, ClosingFootprint DEF TypeOK
  <2> QED BY <2>3, <2>4 DEF Footprint
<1> QED
  BY <1>1, <1>2, <1>3, <1>4, <1>5, <1>6, <1>7, <1>8, <1>9 DEF Effect, Changing

-----------------------------------------------------------------------------
(* Who holds what.                                                         *)

LEMMA OwnersOpenStep ==
    ASSUME TypeOK, OwnersOpen, [Next]_vars
    PROVE  OwnersOpen'
<1> USE DEF OwnersOpen
<1>t. \A r \in RSet : cursorOf[r] # Null => cursorOf[r].owner \in PStmt
  BY DEF TypeOK, JdbcTypeOK, Cursor
\* Closing plans and cursors, as long as a plan is closed with its cursors.
<1>c. ASSUME NEW P, NEW R, \A p \in P : CursorsOf(p) \subseteq R,
             cursorOf' = CursorsWithout(R),
             \A p \in PStmt : planOf'[p] = Null => planOf[p] = Null \/ p \in P
      PROVE  OwnersOpen'
  BY <1>t, <1>c, CursorsWithoutValue DEF CursorsOf
<1>1. CASE Quiet
  BY <1>1 DEF Quiet, jdbc
<1>2. ASSUME NEW h \in Handle, NEW pos \in 0 .. MaxRows + 1, Moving(h, pos)
      PROVE  OwnersOpen'
  <2>1. result[h] \in RSet /\ cursorOf[result[h]] \in Cursor
    BY <1>2 DEF Moving, CursorOpen, TypeOK, JdbcTypeOK
  <2>2. cursorOf' = [cursorOf EXCEPT ![result[h]] = [cursorOf[result[h]] EXCEPT !.pos = pos]]
    BY <1>2, <2>1 DEF Moving, MoveTo, TypeOK, JdbcTypeOK
  <2>3. [cursorOf[result[h]] EXCEPT !.pos = pos].owner = cursorOf[result[h]].owner
    BY <2>1 DEF Cursor
  <2>4. cursorOf[result[h]] # Null
    BY <1>2 DEF Moving, CursorOpen
  <2> QED BY <1>2, <2>1, <2>2, <2>3, <2>4 DEF Moving, TypeOK, JdbcTypeOK
<1>3. ASSUME NEW h \in Handle, NEW sql \in Sql, PrepareThrows(h, sql, "SQL_ERROR")
      PROVE  OwnersOpen'
  <2>1. PICK o \in CloseOldPlan(h) :
            cursorOf' = CursorsWithout(o.cursors) /\ planOf' = PlansWithout(o.plans)
    BY <1>3 DEF PrepareThrows, NoCursor
  <2>2. \A p \in o.plans : CursorsOf(p) \subseteq o.cursors
    BY CloseOldPlanOutcome
  <2>3. \A p \in PStmt : planOf'[p] = Null => planOf[p] = Null \/ p \in o.plans
    BY <2>1, PlansWithoutValue
  <2> QED BY <1>c, <2>1, <2>2, <2>3
<1>4. ASSUME NEW h \in Handle, NEW sql \in Sql, Replan(h, sql)
      PROVE  OwnersOpen'
  <2>1. PICK o \in CloseOldPlan(h), p \in FreshPlan :
            /\ cursorOf' = CursorsWithout(o.cursors)
            /\ planOf' = [PlansWithout(o.plans) EXCEPT ![p] = [sql |-> sql, run |-> FALSE]]
    BY <1>4 DEF Replan, NoCursor, TakeNewPlan
  <2>2. \A q \in o.plans : CursorsOf(q) \subseteq o.cursors
    BY CloseOldPlanOutcome
  <2>3. [sql |-> sql, run |-> FALSE] # Null
    <3>1. [sql |-> sql, run |-> FALSE] \in Plan
      BY DEF Plan
    <3> QED BY <3>1, NullAssumption
  <2>4. \A q \in PStmt : planOf'[q] = Null => planOf[q] = Null \/ q \in o.plans
    BY <2>1, <2>3, PlansWithoutValue
  <2> QED BY <1>c, <2>1, <2>2, <2>4
<1>5. ASSUME NEW h \in Handle, NEW sql \in Sql, ExecDirectReturns(h, sql, "SQL_SUCCESS")
      PROVE  OwnersOpen'
  <2>1. PICK o \in CloseOldPlan(h), p \in FreshPlan, r \in FreshCursor, n \in 0 .. MaxRows :
            /\ planOf' = [PlansWithout(o.plans) EXCEPT ![p] = [sql |-> sql, run |-> TRUE]]
            /\ cursorOf' = CursorsWithNew(r, p, n, o.cursors)
    BY <1>5 DEF ExecDirectReturns, TakeNewPlan
  <2>2. \A q \in o.plans : CursorsOf(q) \subseteq o.cursors
    BY CloseOldPlanOutcome
  <2>3. [sql |-> sql, run |-> TRUE] # Null
    <3>1. [sql |-> sql, run |-> TRUE] \in Plan
      BY DEF Plan
    <3> QED BY <3>1, NullAssumption
  <2>4. p \in PStmt /\ r \in RSet
    BY DEF FreshPlan, FreshCursor
  <2>5. /\ planOf'[p] # Null
        /\ \A q \in PStmt : planOf'[q] = Null => planOf[q] = Null \/ q \in o.plans
    BY <2>1, <2>3, <2>4, PlansWithoutValue
  <2>6. /\ cursorOf'[r] = [owner |-> p, rows |-> n, pos |-> 0]
        /\ \A q \in RSet : q # r =>
              cursorOf'[q] = IF q \in o.cursors \cup CursorsOf(p) THEN Null ELSE cursorOf[q]
    BY <2>1, <2>4, CursorsWithNewValue
  <2> QED BY <1>t, <2>2, <2>5, <2>6 DEF CursorsOf
<1>6. ASSUME NEW h \in Handle, NEW r \in FreshCursor, NEW n \in 0 .. MaxRows, NEW R,
             NewCursor(h, r, n, R)
      PROVE  OwnersOpen'
  <2>1. r \in RSet /\ statement[h] \in PStmt
    BY <1>6 DEF NewCursor, FreshCursor, PlanOpen, TypeOK
  <2>2. /\ cursorOf'[r] = [owner |-> statement[h], rows |-> n, pos |-> 0]
        /\ \A q \in RSet : q # r =>
              cursorOf'[q] = IF q \in R \cup CursorsOf(statement[h]) THEN Null ELSE cursorOf[q]
    BY <1>6, <2>1, CursorsWithNewValue DEF NewCursor
  <2>3. \A p \in PStmt : planOf[p] # Null => planOf'[p] # Null
    BY <1>6 DEF NewCursor
  <2>4. planOf'[statement[h]] # Null
    BY <1>6 DEF NewCursor
  <2> QED BY <1>t, <2>2, <2>3, <2>4
<1>7. ASSUME NEW h \in Handle,
             \/ ExecuteThrows(h, "SQL_ERROR")
             \/ MoreResultsEnds(h, "SQL_NO_DATA")
             \/ MoreResultsThrows(h, "SQL_ERROR")
             \/ CloseHeldCursor(h, "SQL_SUCCESS")
      PROVE  OwnersOpen'
  <2>1. PICK R : planOf' = planOf /\ cursorOf' = CursorsWithout(R)
    BY <1>7 DEF ExecuteThrows, MoreResultsEnds, MoreResultsThrows, CloseHeldCursor
  <2> QED BY <1>t, <2>1, CursorsWithoutValue
<1> QED
  BY <1>1, <1>2, <1>3, <1>4, <1>5, <1>6, <1>7, Steps DEF Effect, Changing

\* The inductive invariant on references: ResultOfStatement and NoSharing need
\* each other, since closing a statement closes the result sets that are its own.
HoldingInv == TypeOK /\ OwnersOpen /\ ResultOfStatement /\ NoSharing

LEMMA HoldingInit == Init => HoldingInv
<1> SUFFICES ASSUME Init PROVE HoldingInv
  OBVIOUS
<1>1. TypeOK
  BY TypeInit
<1>2. OwnersOpen /\ ResultOfStatement /\ NoSharing
  BY DEF Init, JdbcInit, OwnersOpen, ResultOfStatement, NoSharing, CursorOpen
<1> QED BY <1>1, <1>2 DEF HoldingInv

\* A call on h leaves another handle g, and the objects g holds, as they are.
LEMMA Isolation ==
    ASSUME HoldingInv, NEW h \in Handle, Footprint(h), NEW g \in Handle, g # h
    PROVE  /\ statement'[g] = statement[g] /\ result'[g] = result[g]
           /\ statement[g] # Null => planOf'[statement[g]] = planOf[statement[g]]
           /\ result[g] # Null => cursorOf'[result[g]] = cursorOf[result[g]]
<1> USE DEF HoldingInv
<1>1. OwnReferences(h) /\ OwnObjects(h)
  BY DEF Footprint
<1>2. statement'[g] = statement[g] /\ result'[g] = result[g]
  BY <1>1 DEF OwnReferences
<1>3. ASSUME statement[g] # Null
      PROVE  planOf'[statement[g]] = planOf[statement[g]]
  <2>1. statement[g] \in PStmt /\ statement[g] # statement[h]
    BY <1>3 DEF TypeOK, NoSharing
  <2>2. statement[g] # statement'[h]
    BY <1>1, <2>1 DEF OwnReferences, FreshPlan
  <2> QED BY <1>1, <2>1, <2>2 DEF OwnObjects
<1>4. ASSUME result[g] # Null
      PROVE  cursorOf'[result[g]] = cursorOf[result[g]]
  <2>1. result[g] \in RSet /\ result[g] # result[h]
    BY <1>4 DEF TypeOK, NoSharing
  <2>2. result[g] # result'[h]
    BY <1>1, <1>4, <2>1 DEF OwnReferences, FreshCursor
  <2>3. result[g] \notin CursorsOf(statement[h])
    <3>1. SUFFICES ASSUME result[g] \in CursorsOf(statement[h]) PROVE FALSE
      OBVIOUS
    <3>2. CursorOpen(result[g]) /\ cursorOf[result[g]].owner = statement[h]
      BY <1>4, <3>1 DEF CursorsOf, CursorOpen
    <3>3. cursorOf[result[g]].owner \in PStmt
      BY <2>1, <3>2 DEF CursorOpen, TypeOK, JdbcTypeOK, Cursor
    <3>4. statement[g] = statement[h] /\ statement[g] # Null
      BY <3>2, <3>3, NullAssumption DEF ResultOfStatement
    <3> QED BY <3>4 DEF NoSharing
  <2> QED BY <1>1, <2>1, <2>2, <2>3 DEF OwnObjects
<1> QED BY <1>2, <1>3, <1>4

LEMMA HoldingStep ==
    ASSUME HoldingInv, [Next]_vars
    PROVE  HoldingInv'
<1>1. TypeOK' /\ OwnersOpen'
  BY TypeStep, OwnersOpenStep DEF HoldingInv
<1>2. CASE Quiet
  BY <1>1, <1>2
     DEF Quiet, jdbc, HoldingInv, ResultOfStatement, NoSharing, CursorOpen
<1>3. ASSUME NEW h \in Handle, Effect(h)
      PROVE  HoldingInv'
  <2>1. Footprint(h)
    BY <1>3, FootprintOfCall DEF HoldingInv
  <2>2. ResultOfStatement'
    <3>1. ASSUME NEW g \in Handle, CursorOpen(result[g])'
          PROVE  cursorOf'[result'[g]].owner = statement'[g]
      <4>1. CASE g = h
        BY <2>1, <3>1, <4>1 DEF Footprint, OwnCursor, HoldingInv, ResultOfStatement
      <4>2. CASE g # h
        BY <2>1, <3>1, <4>2, Isolation DEF CursorOpen, HoldingInv, ResultOfStatement
      <4> QED BY <4>1, <4>2
    <3> QED BY <3>1 DEF ResultOfStatement
  <2>3. NoSharing'
    <3>1. ASSUME NEW g \in Handle, g # h
          PROVE  /\ statement'[g] = statement[g] /\ result'[g] = result[g]
                 /\ statement[g] # Null => statement[g] # statement'[h]
                 /\ result[g] # Null => result[g] # result'[h]
      BY <2>1, <3>1
         DEF Footprint, OwnReferences, FreshPlan, FreshCursor, HoldingInv, NoSharing
    <3> QED BY <3>1 DEF HoldingInv, NoSharing
  <2> QED BY <1>1, <2>2, <2>3 DEF HoldingInv
<1> QED BY <1>2, <1>3, Steps DEF HoldingInv

\* The open cursor of a handle comes from the statement of the handle.
THEOREM CursorFromStatement == Spec => []ResultOfStatement
<1>1. HoldingInv => ResultOfStatement
  BY DEF HoldingInv
<1> QED BY <1>1, HoldingInit, HoldingStep, PTL DEF Spec

\* No JDBC object is held by two handles.
THEOREM HandlesShareNothing == Spec => []NoSharing
<1>1. HoldingInv => NoSharing
  BY DEF HoldingInv
<1> QED BY <1>1, HoldingInit, HoldingStep, PTL DEF Spec

-----------------------------------------------------------------------------
(* What a handle may believe of its own plan and cursor.                   *)

\* RunsWhatWasAsked, OpenMeansAnnounced and NoSilentSkip, of one handle.
RunsAsked(h) ==
    PlanOpen(statement[h]) =>
        planOf[statement[h]].sql = asked[h] \/ "prepareStatement" \in swallowed[h]

Announced(h) == CursorOpen(result[h]) => opened[h] \/ "execute" \in swallowed[h]

AllSeen(h) ==
    /\ CursorOpen(result[h])
    /\ ~errored[h]
    /\ "getRowCountCursor" \notin swallowed[h]
    => \A row \in 1 .. cursorOf[result[h]].rows :
           row <= cursorOf[result[h]].pos => row \in seen[h]

Honest(h) == RunsAsked(h) /\ Announced(h) /\ AllSeen(h)

HonestInv == HoldingInv /\ \A h \in Handle : Honest(h)

LEMMA HonestInit == Init => HonestInv
<1> SUFFICES ASSUME Init PROVE HonestInv
  OBVIOUS
<1>1. HoldingInv
  BY HoldingInit
<1>2. \A h \in Handle : Honest(h)
  BY DEF Init, JdbcInit, Honest, RunsAsked, Announced, AllSeen, PlanOpen, CursorOpen
<1> QED BY <1>1, <1>2 DEF HonestInv

\* A call on h does not make another handle's belief wrong.
LEMMA HonestOther ==
    ASSUME HoldingInv, NEW h \in Handle, Footprint(h), NEW g \in Handle, g # h, Honest(g)
    PROVE  Honest(g)'
<1>1. /\ statement'[g] = statement[g] /\ result'[g] = result[g]
      /\ statement[g] # Null => planOf'[statement[g]] = planOf[statement[g]]
      /\ result[g] # Null => cursorOf'[result[g]] = cursorOf[result[g]]
  BY Isolation
<1>2. /\ asked'[g] = asked[g] /\ opened'[g] = opened[g] /\ seen'[g] = seen[g]
      /\ errored'[g] = errored[g] /\ swallowed'[g] = swallowed[g]
  BY DEF Footprint, OwnMemory
<1>3. RunsAsked(g)'
  BY <1>1, <1>2 DEF Honest, RunsAsked, PlanOpen
<1>4. Announced(g)'
  BY <1>1, <1>2 DEF Honest, Announced, CursorOpen
<1>5. AllSeen(g)'
  BY <1>1, <1>2 DEF Honest, AllSeen, CursorOpen
<1> QED BY <1>3, <1>4, <1>5 DEF Honest

LEMMA HonestOwn ==
    ASSUME HoldingInv, NEW h \in Handle, Effect(h), Honest(h)
    PROVE  Honest(h)'
<1> USE DEF HoldingInv
<1>r. result[h] # Null => result[h] \in RSet
  BY DEF TypeOK
<1>1. ASSUME NEW pos \in 0 .. MaxRows + 1, Moving(h, pos)
      PROVE  Honest(h)'
  <2>1. result[h] \in RSet /\ cursorOf[result[h]] \in Cursor
    BY <1>1 DEF Moving, CursorOpen, TypeOK, JdbcTypeOK
  <2>2. cursorOf' = [cursorOf EXCEPT ![result[h]] = [cursorOf[result[h]] EXCEPT !.pos = pos]]
    BY <1>1, <2>1 DEF Moving, MoveTo, TypeOK, JdbcTypeOK
  <2>3. /\ [cursorOf[result[h]] EXCEPT !.pos = pos].rows = cursorOf[result[h]].rows
        /\ [cursorOf[result[h]] EXCEPT !.pos = pos].pos = pos
    BY <2>1 DEF Cursor
  <2>4. /\ cursorOf'[result'[h]].rows = cursorOf[result[h]].rows
        /\ cursorOf'[result'[h]].pos = pos
    BY <1>1, <2>1, <2>2, <2>3 DEF Moving, TypeOK, JdbcTypeOK
  <2>5. RunsAsked(h)'
    BY <1>1 DEF Moving, Honest, RunsAsked, PlanOpen
  <2>6. Announced(h)'
    BY <1>1 DEF Moving, Honest, Announced, CursorOpen
  <2>7. AllSeen(h)'
    BY <1>1, <2>4 DEF Moving, Honest, AllSeen
  <2> QED BY <2>5, <2>6, <2>7 DEF Honest
<1>2. ASSUME NEW sql \in Sql, PrepareThrows(h, sql, "SQL_ERROR")
      PROVE  Honest(h)'
  <2>1. PICK o \in CloseOldPlan(h) :
            /\ DropOldPlan(h, sql, o)
            /\ NoCursor(h, o)
            /\ planOf' = PlansWithout(o.plans)
            /\ UNCHANGED statement
    BY <1>2 DEF PrepareThrows
  <2>2. ~CursorOpen(result[h])'
    BY <2>1 DEF NoCursor, CursorOpen, TypeOK
  <2>3. CASE o.threw
    <3>1. "prepareStatement" \in swallowed'[h]
      BY <2>1, <2>3 DEF DropOldPlan, TypeOK
    <3> QED BY <2>2, <3>1 DEF Honest, RunsAsked, Announced, AllSeen
  <2>4. CASE ~o.threw
    <3>1. statement[h] # Null => statement[h] \in o.plans /\ statement[h] \in PStmt
      BY <2>4, CloseOldPlanOutcome DEF TypeOK
    <3>2. ~PlanOpen(statement[h])'
      BY <2>1, <3>1, PlansWithoutValue DEF PlanOpen
    <3> QED BY <2>2, <3>2 DEF Honest, RunsAsked, Announced, AllSeen
  <2>5. o.threw \in BOOLEAN
    BY CloseOldPlanOutcome
  <2> QED BY <2>3, <2>4, <2>5
<1>3. ASSUME NEW sql \in Sql, Replan(h, sql)
      PROVE  Honest(h)'
  <2>1. PICK o \in CloseOldPlan(h), p \in FreshPlan :
            /\ DropOldPlan(h, sql, o)
            /\ NoCursor(h, o)
            /\ TakeNewPlan(h, sql, o, p, FALSE)
    BY <1>3 DEF Replan
  <2>2. ~CursorOpen(result[h])'
    BY <2>1 DEF NoCursor, CursorOpen, TypeOK
  <2>3. statement'[h] = p /\ p \in PStmt /\ asked'[h] = sql
    BY <2>1 DEF DropOldPlan, TakeNewPlan, FreshPlan, TypeOK
  <2>4. planOf'[p] = [sql |-> sql, run |-> FALSE]
    BY <2>1, <2>3, PlansWithoutValue DEF TakeNewPlan
  <2> QED BY <2>2, <2>3, <2>4 DEF Honest, RunsAsked, Announced, AllSeen
<1>4. ASSUME NEW sql \in Sql, ExecDirectReturns(h, sql, "SQL_SUCCESS")
      PROVE  Honest(h)'
  <2>1. PICK o \in CloseOldPlan(h), p \in FreshPlan, r \in FreshCursor, n \in 0 .. MaxRows :
            /\ DropOldPlan(h, sql, o)
            /\ TakeNewPlan(h, sql, o, p, TRUE)
            /\ cursorOf' = CursorsWithNew(r, p, n, o.cursors)
            /\ result' = [result EXCEPT ![h] = r]
            /\ Announce(h)
    BY <1>4 DEF ExecDirectReturns
  <2>2. r \in RSet /\ result'[h] = r /\ opened'[h]
    BY <2>1 DEF Announce, FreshCursor, TypeOK
  <2>3. statement'[h] = p /\ p \in PStmt /\ asked'[h] = sql
    BY <2>1 DEF DropOldPlan, TakeNewPlan, FreshPlan, TypeOK
  <2>4. planOf'[p] = [sql |-> sql, run |-> TRUE]
    BY <2>1, <2>3, PlansWithoutValue DEF TakeNewPlan
  <2>5. cursorOf'[r] = [owner |-> p, rows |-> n, pos |-> 0]
    BY <2>1, <2>2, <2>3, CursorsWithNewValue
  <2> QED BY <2>2, <2>3, <2>4, <2>5 DEF Honest, RunsAsked, Announced, AllSeen
<1>5. ASSUME NEW r \in FreshCursor, NEW n \in 0 .. MaxRows, NEW R, NewCursor(h, r, n, R)
      PROVE  Honest(h)'
  <2>1. /\ r \in RSet /\ result'[h] = r /\ opened'[h]
        /\ statement[h] \in PStmt
    BY <1>5 DEF NewCursor, Announce, FreshCursor, PlanOpen, TypeOK
  <2>2. cursorOf'[r] = [owner |-> statement[h], rows |-> n, pos |-> 0]
    BY <1>5, <2>1, CursorsWithNewValue DEF NewCursor
  <2>3. "prepareStatement" \in swallowed[h] => "prepareStatement" \in swallowed'[h]
    BY <1>5 DEF NewCursor, TypeOK
  <2>4. RunsAsked(h)'
    BY <1>5, <2>3 DEF NewCursor, Honest, RunsAsked, PlanOpen
  <2> QED BY <2>1, <2>2, <2>4 DEF Honest, Announced, AllSeen
<1>6. CASE ExecuteThrows(h, "SQL_ERROR")
  <2>1. PICK o \in CloseCursor(result[h]) :
            \E R \in {o.closed, o.closed \cup CursorsOf(statement[h])} :
            /\ cursorOf' = CursorsWithout(R)
            /\ swallowed' = [swallowed EXCEPT ![h] =
                                (@ \ {"execute"}) \cup {x \in {"execute"} : o.threw}]
            /\ UNCHANGED <<statement, result, planOf, asked, seen, errored>>
    BY <1>6 DEF ExecuteThrows, driver
  <2>2. /\ "execute" \in swallowed'[h] <=> o.threw
        /\ \A x \in Catch \ {"execute"} : x \in swallowed[h] <=> x \in swallowed'[h]
    BY <2>1, CloseCursorOutcome DEF TypeOK
  <2>3. RunsAsked(h)'
    BY <2>1, <2>2 DEF Honest, RunsAsked, PlanOpen, Catch
  <2>4. CursorOpen(result[h])' => CursorOpen(result[h]) /\ cursorOf'[result[h]] = cursorOf[result[h]]
    BY <1>r, <2>1, CursorsWithoutValue DEF CursorOpen
  <2>5. CursorOpen(result[h])' => result[h] \notin o.closed
    BY <1>r, <2>1, CursorsWithoutValue DEF CursorOpen
  <2>6. o.threw \/ ~CursorOpen(result[h]) \/ result[h] \in o.closed
    BY CloseCursorOutcome DEF TypeOK
  <2>7. Announced(h)'
    BY <2>2, <2>4, <2>5, <2>6 DEF Announced
  <2>8. AllSeen(h)'
    BY <2>1, <2>2, <2>4 DEF Honest, AllSeen, Catch
  <2> QED BY <2>3, <2>7, <2>8 DEF Honest
<1>7. CASE MoreResultsEnds(h, "SQL_NO_DATA")
  <2>1. CursorOpen(result[h]) => result[h] \in CursorsOf(statement[h])
    BY <1>r DEF ResultOfStatement, CursorsOf, CursorOpen
  <2>2. ~CursorOpen(result[h])'
    BY <1>7, <1>r, <2>1, CursorsWithoutValue DEF MoreResultsEnds, driver, CursorOpen
  <2>3. RunsAsked(h)'
    BY <1>7 DEF MoreResultsEnds, driver, Honest, RunsAsked, PlanOpen, TypeOK
  <2> QED BY <2>2, <2>3 DEF Honest, Announced, AllSeen
<1>8. CASE MoreResultsThrows(h, "SQL_ERROR")
  <2>1. CursorOpen(result[h])' => CursorOpen(result[h]) /\ cursorOf'[result[h]] = cursorOf[result[h]]
    BY <1>8, <1>r, CursorsWithoutValue DEF MoreResultsThrows, driver, CursorOpen
  <2>2. RunsAsked(h)'
    BY <1>8 DEF MoreResultsThrows, driver, Honest, RunsAsked, PlanOpen
  <2>3. Announced(h)' /\ AllSeen(h)'
    BY <1>8, <2>1 DEF MoreResultsThrows, driver, Honest, Announced, AllSeen
  <2> QED BY <2>2, <2>3 DEF Honest
<1>9. CASE CloseHeldCursor(h, "SQL_SUCCESS")
  <2>1. ~CursorOpen(result[h])'
    BY <1>9 DEF CloseHeldCursor, CursorOpen, TypeOK
  <2>2. RunsAsked(h)'
    BY <1>9 DEF CloseHeldCursor, Honest, RunsAsked, PlanOpen, TypeOK
  <2> QED BY <2>1, <2>2 DEF Honest, Announced, AllSeen
<1> QED
  BY <1>1, <1>2, <1>3, <1>4, <1>5, <1>6, <1>7, <1>8, <1>9 DEF Effect, Changing

LEMMA HonestStep ==
    ASSUME HonestInv, [Next]_vars
    PROVE  HonestInv'
<1>1. HoldingInv /\ HoldingInv' /\ TypeOK /\ OwnersOpen
  BY HoldingStep DEF HonestInv, HoldingInv
<1>2. CASE Quiet
  BY <1>1, <1>2 DEF Quiet, jdbc, memory, HonestInv, Honest, RunsAsked, Announced,
                    AllSeen, PlanOpen, CursorOpen
<1>3. ASSUME NEW h \in Handle, Effect(h), NEW g \in Handle
      PROVE  Honest(g)'
  <2>1. Footprint(h)
    BY <1>1, <1>3, FootprintOfCall
  <2>2. Honest(g)
    BY DEF HonestInv
  <2> QED BY <1>1, <1>3, <2>1, <2>2, HonestOther, HonestOwn
<1> QED BY <1>1, <1>2, <1>3, Steps DEF HonestInv

\* The statement a handle would run is the last text it was given, or an
\* exception of close() was hidden from the application.
THEOREM RunsTheLastText == Spec => []RunsWhatWasAsked
<1>1. HonestInv => RunsWhatWasAsked
  BY DEF HonestInv, Honest, RunsAsked, RunsWhatWasAsked
<1> QED BY <1>1, HonestInit, HonestStep, PTL DEF Spec

\* A handle has rows to fetch only if it was told so.
THEOREM CursorsAreAnnounced == Spec => []OpenMeansAnnounced
<1>1. HonestInv => OpenMeansAnnounced
  BY DEF HonestInv, Honest, Announced, OpenMeansAnnounced
<1> QED BY <1>1, HonestInit, HonestStep, PTL DEF Spec

\* No row is skipped without a report.
THEOREM RowsAreNotSkipped == Spec => []NoSilentSkip
<1>1. HonestInv => NoSilentSkip
  BY DEF HonestInv, Honest, AllSeen, NoSilentSkip
<1> QED BY <1>1, HonestInit, HonestStep, PTL DEF Spec

-----------------------------------------------------------------------------
(* Nothing leaks unless an exception was hidden.                           *)

\* What h had and no longer has is closed, or was dropped by a call that hid an
\* exception; what is open was open before or is held by h.
LEMMA LeakOfCall ==
    ASSUME TypeOK, NoLeak, NEW h \in Handle, OwnReferences(h),
           NEW refs, NEW threw, Drops(refs, threw),
           \A p \in PStmt : planOf'[p] # Null => planOf[p] # Null \/ p = statement'[h],
           \A r \in RSet : cursorOf'[r] # Null => cursorOf[r] # Null \/ r = result'[h],
           /\ statement[h] # Null
           /\ statement'[h] # statement[h]
           => (threw /\ statement[h] \in refs) \/ planOf'[statement[h]] = Null,
           /\ result[h] # Null
           /\ result'[h] # result[h]
           => (threw /\ result[h] \in refs) \/ cursorOf'[result[h]] = Null
    PROVE  NoLeak'
<1>1. ASSUME NEW p \in PStmt, planOf'[p] # Null
      PROVE  p \in leaked' \/ \E g \in Handle : statement'[g] = p
  <2>1. CASE p = statement'[h]
    BY <2>1
  <2>2. CASE p \in leaked
    BY <1>1, <2>2 DEF Drops
  <2>3. CASE \E g \in Handle : statement[g] = p
    <3>1. PICK g \in Handle : statement[g] = p
      BY <2>3
    <3>2. CASE g # h
      BY <3>1, <3>2 DEF OwnReferences
    <3>3. CASE g = h /\ statement'[h] # p
      <4>1. p # Null
        BY NullAssumption
      <4>2. threw /\ p \in refs
        BY <1>1, <3>1, <3>3, <4>1
      <4> QED BY <1>1, <4>2 DEF Drops
    <3> QED BY <2>1, <3>2, <3>3
  <2> QED BY <1>1, <2>1, <2>2, <2>3 DEF NoLeak
<1>2. ASSUME NEW r \in RSet, cursorOf'[r] # Null
      PROVE  r \in leaked' \/ \E g \in Handle : result'[g] = r
  <2>1. CASE r = result'[h]
    BY <2>1
  <2>2. CASE r \in leaked
    BY <1>2, <2>2 DEF Drops
  <2>3. CASE \E g \in Handle : result[g] = r
    <3>1. PICK g \in Handle : result[g] = r
      BY <2>3
    <3>2. CASE g # h
      BY <3>1, <3>2 DEF OwnReferences
    <3>3. CASE g = h /\ result'[h] # r
      <4>1. r # Null
        BY NullAssumption
      <4>2. threw /\ r \in refs
        BY <1>2, <3>1, <3>3, <4>1
      <4> QED BY <1>2, <4>2 DEF Drops
    <3> QED BY <2>1, <3>2, <3>3
  <2> QED BY <1>2, <2>1, <2>2, <2>3 DEF NoLeak
<1> QED BY <1>1, <1>2 DEF NoLeak

LEMMA NoLeakStep ==
    ASSUME HoldingInv, NoLeak, [Next]_vars
    PROVE  NoLeak'
<1>1. CASE Quiet
  BY <1>1 DEF Quiet, jdbc, memory, NoLeak
<1>2. ASSUME NEW h \in Handle, NEW pos \in 0 .. MaxRows + 1, Moving(h, pos)
      PROVE  NoLeak'
  <2>1. \A r \in RSet : cursorOf'[r] # Null => cursorOf[r] # Null
    BY <1>2 DEF HoldingInv, Moving, MoveTo, CursorOpen, TypeOK, JdbcTypeOK
  <2> QED BY <1>2, <2>1 DEF Moving, NoLeak
<1>3. ASSUME NEW h \in Handle, Effect(h)
      PROVE  NoLeak'
  <2>t. TypeOK /\ OwnersOpen /\ ResultOfStatement
    BY DEF HoldingInv
  <2>r. /\ statement[h] # Null => statement[h] \in PStmt
        /\ result[h] # Null => result[h] \in RSet
    BY <2>t DEF TypeOK
  <2>f. OwnReferences(h)
    BY <2>t, <1>3, FootprintOfCall DEF Footprint
  <2>1. ASSUME NEW sql \in Sql, PrepareThrows(h, sql, "SQL_ERROR")
        PROVE  NoLeak'
    <3>1. PICK o \in CloseOldPlan(h) :
              /\ planOf' = PlansWithout(o.plans)
              /\ cursorOf' = CursorsWithout(o.cursors)
              /\ statement' = statement
              /\ Drops({result[h]}, o.threw)
      BY <2>1 DEF PrepareThrows, NoCursor
    <3>2. o.threw \in BOOLEAN /\ (~o.threw /\ result[h] # Null => result[h] \in o.cursors)
      BY <2>t, CloseOldPlanOutcome
    <3>3. \A p \in PStmt : planOf'[p] # Null => planOf[p] # Null
      BY <2>t, <3>1, PlansWithoutValue
    <3>4. \A r \in RSet : cursorOf'[r] # Null => cursorOf[r] # Null /\ r \notin o.cursors
      BY <2>t, <3>1, CursorsWithoutValue
    <3>5. result[h] # Null => o.threw \/ cursorOf'[result[h]] = Null
      BY <2>r, <3>2, <3>4
    <3> QED BY <2>t, <2>f, <3>1, <3>3, <3>4, <3>5, LeakOfCall
  <2>2. ASSUME NEW sql \in Sql, Replan(h, sql)
        PROVE  NoLeak'
    <3>1. PICK o \in CloseOldPlan(h), p \in FreshPlan :
              /\ NoCursor(h, o)
              /\ TakeNewPlan(h, sql, o, p, FALSE)
              /\ Drops({result[h], statement[h]}, o.threw)
      BY <2>2 DEF Replan
    <3>2. /\ o.threw \in BOOLEAN
          /\ ~o.threw /\ statement[h] # Null => statement[h] \in o.plans
          /\ ~o.threw /\ result[h] # Null => result[h] \in o.cursors
      BY <2>t, CloseOldPlanOutcome
    <3>3. statement'[h] = p
      BY <2>t, <3>1 DEF TakeNewPlan, TypeOK
    <3>4. \A q \in PStmt : planOf'[q] # Null =>
              q = p \/ (planOf[q] # Null /\ q \notin o.plans)
      BY <2>t, <3>1, PlansWithoutValue DEF TakeNewPlan
    <3>5. \A r \in RSet : cursorOf'[r] # Null => cursorOf[r] # Null /\ r \notin o.cursors
      BY <2>t, <3>1, CursorsWithoutValue DEF NoCursor
    <3>6. /\ statement[h] # Null /\ statement'[h] # statement[h] =>
                o.threw \/ planOf'[statement[h]] = Null
          /\ result[h] # Null => o.threw \/ cursorOf'[result[h]] = Null
      BY <2>r, <3>2, <3>3, <3>4, <3>5
    <3> QED BY <2>t, <2>f, <3>1, <3>2, <3>3, <3>4, <3>5, <3>6, LeakOfCall
  <2>3. ASSUME NEW sql \in Sql, ExecDirectReturns(h, sql, "SQL_SUCCESS")
        PROVE  NoLeak'
    <3>1. PICK o \in CloseOldPlan(h), p \in FreshPlan, r \in FreshCursor, n \in 0 .. MaxRows :
              /\ TakeNewPlan(h, sql, o, p, TRUE)
              /\ cursorOf' = CursorsWithNew(r, p, n, o.cursors)
              /\ result' = [result EXCEPT ![h] = r]
              /\ Drops({result[h], statement[h]}, o.threw)
      BY <2>3 DEF ExecDirectReturns
    <3>2. /\ o.threw \in BOOLEAN
          /\ ~o.threw /\ statement[h] # Null => statement[h] \in o.plans
          /\ ~o.threw /\ result[h] # Null => result[h] \in o.cursors
      BY <2>t, CloseOldPlanOutcome
    <3>3. statement'[h] = p /\ result'[h] = r /\ p \in PStmt /\ r \in RSet
      BY <2>t, <3>1 DEF TakeNewPlan, FreshPlan, FreshCursor, TypeOK
    <3>4. \A q \in PStmt : planOf'[q] # Null =>
              q = p \/ (planOf[q] # Null /\ q \notin o.plans)
      BY <2>t, <3>1, PlansWithoutValue DEF TakeNewPlan
    <3>5. /\ cursorOf'[r] = [owner |-> p, rows |-> n, pos |-> 0]
          /\ \A q \in RSet : q # r =>
              cursorOf'[q] = IF q \in o.cursors \cup CursorsOf(p) THEN Null ELSE cursorOf[q]
      BY <2>t, <3>1, <3>3, CursorsWithNewValue
    <3>6. \A q \in RSet : cursorOf'[q] # Null =>
              q = r \/ (cursorOf[q] # Null /\ q \notin o.cursors)
      BY <3>5
    <3>7. /\ statement[h] # Null /\ statement'[h] # statement[h] =>
                o.threw \/ planOf'[statement[h]] = Null
          /\ result[h] # Null /\ result'[h] # result[h] =>
                o.threw \/ cursorOf'[result[h]] = Null
      BY <2>r, <3>2, <3>3, <3>4, <3>6
    <3> QED BY <2>t, <2>f, <3>1, <3>2, <3>3, <3>4, <3>6, <3>7, LeakOfCall
  <2>4. ASSUME NEW r \in FreshCursor, NEW n \in 0 .. MaxRows, NEW R, NewCursor(h, r, n, R)
        PROVE  NoLeak'
    <3>1. /\ r \in RSet /\ statement[h] \in PStmt /\ planOf[statement[h]] # Null
          /\ result'[h] = r /\ statement'[h] = statement[h]
      BY <2>t, <2>4 DEF NewCursor, FreshCursor, PlanOpen, TypeOK
    <3>2. /\ cursorOf'[r] = [owner |-> statement[h], rows |-> n, pos |-> 0]
          /\ \A q \in RSet : q # r =>
              cursorOf'[q] = IF q \in R \cup CursorsOf(statement[h]) THEN Null ELSE cursorOf[q]
      BY <2>t, <2>4, <3>1, CursorsWithNewValue DEF NewCursor
    <3>3. \A q \in RSet : cursorOf'[q] # Null => cursorOf[q] # Null \/ q = r
      BY <3>2
    <3>4. \A p \in PStmt : planOf'[p] # Null => planOf[p] # Null
      BY <2>4, <3>1 DEF NewCursor
    <3>5. CursorOpen(result[h]) => result[h] \in CursorsOf(statement[h])
      BY <2>t, <2>r DEF ResultOfStatement, CursorsOf, CursorOpen
    <3>6. result[h] # Null /\ result'[h] # result[h] => cursorOf'[result[h]] = Null
      BY <2>r, <3>1, <3>2, <3>5 DEF CursorOpen
    <3>7. Drops({}, FALSE)
      BY <2>4 DEF NewCursor
    <3> QED BY <2>t, <2>f, <3>1, <3>3, <3>4, <3>6, <3>7, LeakOfCall
  <2>5. ASSUME \/ ExecuteThrows(h, "SQL_ERROR")
               \/ MoreResultsEnds(h, "SQL_NO_DATA")
               \/ MoreResultsThrows(h, "SQL_ERROR")
        PROVE  NoLeak'
    <3>1. PICK R : cursorOf' = CursorsWithout(R)
      BY <2>5 DEF ExecuteThrows, MoreResultsEnds, MoreResultsThrows
    <3>2. UNCHANGED <<statement, result, planOf>> /\ Drops({}, FALSE)
      BY <2>5 DEF ExecuteThrows, MoreResultsEnds, MoreResultsThrows, driver
    <3>3. \A q \in RSet : cursorOf'[q] # Null => cursorOf[q] # Null
      BY <2>t, <3>1, CursorsWithoutValue
    <3> QED BY <2>t, <2>f, <3>2, <3>3, LeakOfCall
  <2>6. CASE CloseHeldCursor(h, "SQL_SUCCESS")
    <3>1. PICK o \in CloseCursor(result[h]) :
              /\ result[h] # Null
              /\ cursorOf' = CursorsWithout(o.closed)
              /\ UNCHANGED <<statement, planOf>>
              /\ Drops({result[h]}, o.threw)
      BY <2>6 DEF CloseHeldCursor
    <3>2. o.threw \/ ~CursorOpen(result[h]) \/ result[h] \in o.closed
      BY <2>t, CloseCursorOutcome DEF TypeOK
    <3>3. \A q \in RSet : cursorOf'[q] # Null => cursorOf[q] # Null /\ q \notin o.closed
      BY <2>t, <3>1, CursorsWithoutValue
    <3>4. o.threw \/ cursorOf'[result[h]] = Null
      BY <2>r, <3>1, <3>2, <3>3 DEF CursorOpen
    <3> QED BY <2>t, <2>f, <3>1, <3>3, <3>4, LeakOfCall
  <2> QED BY <1>2, <1>3, <2>1, <2>2, <2>3, <2>4, <2>5, <2>6 DEF Effect, Changing
<1> QED BY <1>1, <1>3, Steps DEF HoldingInv

\* An open JDBC object is held by a handle or was dropped after a hidden exception.
THEOREM NothingLeaks == Spec => []NoLeak
<1>1. Init => HoldingInv /\ NoLeak
  <2>1. Init => NoLeak
    BY DEF Init, JdbcInit, NoLeak
  <2> QED BY <2>1, HoldingInit
<1>2. HoldingInv /\ NoLeak /\ [Next]_vars => HoldingInv' /\ NoLeak'
  BY HoldingStep, NoLeakStep
<1> QED BY <1>1, <1>2, PTL DEF Spec

-----------------------------------------------------------------------------
(* The handles implement independent cursors.                              *)

\* Only the plan and the cursor seen behind h can change.
LEMMA SeenOfOthers ==
    ASSUME HoldingInv, NEW h \in Handle, Footprint(h)
    PROVE  /\ PlanSeen' = [PlanSeen EXCEPT ![h] = PlanSeen'[h]]
           /\ CursorSeen' = [CursorSeen EXCEPT ![h] = CursorSeen'[h]]
<1>1. ASSUME NEW g \in Handle, g # h
      PROVE  PlanSeen'[g] = PlanSeen[g] /\ CursorSeen'[g] = CursorSeen[g]
  BY <1>1, Isolation DEF PlanSeen, CursorSeen, PlanOpen, CursorOpen
<1>2. PlanSeen' = [g \in Handle |-> PlanSeen'[g]] /\ PlanSeen = [g \in Handle |-> PlanSeen[g]]
  BY DEF PlanSeen
<1>3. CursorSeen' = [g \in Handle |-> CursorSeen'[g]] /\ CursorSeen = [g \in Handle |-> CursorSeen[g]]
  BY DEF CursorSeen
<1>4. PlanSeen' = [PlanSeen EXCEPT ![h] = PlanSeen'[h]]
  BY <1>1, <1>2
<1>5. CursorSeen' = [CursorSeen EXCEPT ![h] = CursorSeen'[h]]
  BY <1>1, <1>3
<1> QED BY <1>4, <1>5

\* Closing, or failing to close, is seen as Close or as nothing.
LEMMA SeenClosing ==
    ASSUME HoldingInv, NEW h \in Handle, Footprint(h), NEW R,
           cursorOf' = CursorsWithout(R), UNCHANGED <<statement, planOf>>,
           result'[h] \in {Null, result[h]}
    PROVE  [C!Next]_(C!vars)
<1>1. TypeOK
  BY DEF HoldingInv
<1>2. PlanSeen' = PlanSeen
  BY DEF PlanSeen, PlanOpen
<1>3. result[h] # Null => result[h] \in RSet
  BY <1>1 DEF TypeOK
<1>4. CursorSeen'[h] \in {Null, CursorSeen[h]}
  BY <1>1, <1>3, CursorsWithoutValue DEF CursorSeen, CursorOpen
<1>5. CursorSeen' = [CursorSeen EXCEPT ![h] = CursorSeen'[h]]
  BY SeenOfOthers
<1>6. CASE CursorSeen'[h] = Null
  BY <1>2, <1>5, <1>6 DEF C!Next, C!Close
<1>7. CASE CursorSeen'[h] = CursorSeen[h]
  BY <1>2, <1>5, <1>7 DEF CursorSeen, C!vars
<1> QED BY <1>4, <1>6, <1>7

LEMMA SeenInit == Init => C!Init
BY DEF Init, JdbcInit, C!Init, PlanSeen, CursorSeen, PlanOpen, CursorOpen

LEMMA SeenStep ==
    ASSUME HoldingInv, [Next]_vars
    PROVE  [C!Next]_(C!vars)
<1>t. TypeOK /\ OwnersOpen
  BY DEF HoldingInv
<1>1. CASE Quiet
  BY <1>1 DEF Quiet, jdbc, C!vars, PlanSeen, CursorSeen, PlanOpen, CursorOpen
<1>2. ASSUME NEW h \in Handle, Effect(h)
      PROVE  [C!Next]_(C!vars)
  <2>f. Footprint(h)
    BY <1>t, <1>2, FootprintOfCall
  <2>s. /\ PlanSeen' = [PlanSeen EXCEPT ![h] = PlanSeen'[h]]
        /\ CursorSeen' = [CursorSeen EXCEPT ![h] = CursorSeen'[h]]
    BY <2>f, SeenOfOthers
  <2>1. ASSUME NEW pos \in 0 .. MaxRows + 1, Moving(h, pos)
        PROVE  [C!Next]_(C!vars)
    <3> DEFINE c == cursorOf[result[h]]
    <3>1. result[h] \in RSet /\ c \in Cursor /\ c # Null
      BY <1>t, <2>1 DEF Moving, CursorOpen, TypeOK, JdbcTypeOK
    <3>2. cursorOf'[result'[h]] = [c EXCEPT !.pos = pos]
      BY <1>t, <2>1, <3>1 DEF Moving, MoveTo, TypeOK, JdbcTypeOK
    <3>3. [c EXCEPT !.pos = pos] \in Cursor
      BY <2>1, <3>1, BoundAssumption DEF Moving, Cursor
    <3>4. CursorOpen(result[h])'
      BY <2>1, <3>1, <3>2, <3>3, NullAssumption DEF Moving, CursorOpen
    <3>5. /\ CursorSeen[h] = [rows |-> c.rows, pos |-> c.pos]
          /\ CursorSeen'[h] = [rows |-> c.rows, pos |-> pos]
      BY <2>1, <3>1, <3>2, <3>4 DEF Moving, CursorOpen, CursorSeen, Cursor
    <3>6. CursorSeen[h] # Null
      <4>1. [rows |-> c.rows, pos |-> c.pos] \in C!Position
        BY <3>1 DEF Cursor, C!Position
      <4> QED BY <3>5, <4>1, PositionAssumption
    <3>7. PlanSeen' = PlanSeen
      BY <2>1 DEF Moving, PlanSeen, PlanOpen
    <3>8. CursorSeen' = [CursorSeen EXCEPT ![h].pos = pos]
      <4>1. CursorSeen'[h] = [CursorSeen[h] EXCEPT !.pos = pos]
        BY <3>5
      <4> QED BY <2>s, <4>1
    <3>9. CASE pos \in c.pos .. c.rows + 1
      <4>1. pos \in CursorSeen[h].pos .. CursorSeen[h].rows + 1
        BY <3>5, <3>9
      <4> QED BY <3>6, <3>7, <3>8, <4>1 DEF C!Next, C!Advance
    <3>10. CASE pos \in {0, c.rows}
      BY <3>5, <3>6, <3>7, <3>8, <3>10 DEF C!Next, C!Count
    <3> QED BY <2>1, <3>9, <3>10 DEF Moving
  <2>2. ASSUME NEW sql \in Sql, PrepareThrows(h, sql, "SQL_ERROR") \/ Replan(h, sql)
        PROVE  [C!Next]_(C!vars)
    <3>1. CursorSeen'[h] = Null
      BY <1>t, <2>2 DEF PrepareThrows, Replan, NoCursor, CursorSeen, CursorOpen, TypeOK
    <3>2. PlanSeen'[h] \in Sql \cup {Null}
      BY <1>t, TypeStep DEF PlanSeen, PlanOpen, Plan, TypeOK, JdbcTypeOK
    <3> QED BY <2>s, <3>1, <3>2 DEF C!Next, C!Prepare
  <2>3. ASSUME NEW sql \in Sql, ExecDirectReturns(h, sql, "SQL_SUCCESS")
        PROVE  [C!Next]_(C!vars)
    <3>1. PICK o \in CloseOldPlan(h), p \in FreshPlan, r \in FreshCursor, n \in 0 .. MaxRows :
              /\ TakeNewPlan(h, sql, o, p, TRUE)
              /\ cursorOf' = CursorsWithNew(r, p, n, o.cursors)
              /\ result' = [result EXCEPT ![h] = r]
      BY <2>3 DEF ExecDirectReturns
    <3>2. statement'[h] = p /\ result'[h] = r /\ p \in PStmt /\ r \in RSet
      BY <1>t, <3>1 DEF TakeNewPlan, FreshPlan, FreshCursor, TypeOK
    <3>3. planOf'[p] = [sql |-> sql, run |-> TRUE]
      BY <1>t, <3>1, <3>2, PlansWithoutValue DEF TakeNewPlan
    <3>4. cursorOf'[r] = [owner |-> p, rows |-> n, pos |-> 0]
      BY <1>t, <3>1, <3>2, CursorsWithNewValue
    <3>5. planOf'[p] # Null /\ cursorOf'[r] # Null /\ p # Null /\ r # Null
      <4>1. [sql |-> sql, run |-> TRUE] \in Plan
        BY DEF Plan
      <4>2. [owner |-> p, rows |-> n, pos |-> 0] \in Cursor
        BY <3>2, BoundAssumption DEF Cursor
      <4> QED BY <3>2, <3>3, <3>4, <4>1, <4>2, NullAssumption
    <3>6. PlanSeen'[h] = sql /\ CursorSeen'[h] = C!StartOf(n)
      BY <3>2, <3>3, <3>4, <3>5 DEF PlanSeen, CursorSeen, PlanOpen, CursorOpen, C!StartOf
    <3> QED BY <2>s, <3>6 DEF C!Next, C!ExecDirect
  <2>4. ASSUME NEW r \in FreshCursor, NEW n \in 0 .. MaxRows, NEW R, NewCursor(h, r, n, R)
        PROVE  [C!Next]_(C!vars)
    <3>1. /\ r \in RSet /\ result'[h] = r
          /\ statement[h] \in PStmt /\ statement'[h] = statement[h]
          /\ planOf[statement[h]] \in Plan
      BY <1>t, <2>4 DEF NewCursor, FreshCursor, PlanOpen, TypeOK, JdbcTypeOK
    <3>2. cursorOf'[r] = [owner |-> statement[h], rows |-> n, pos |-> 0]
      BY <1>t, <2>4, <3>1, CursorsWithNewValue DEF NewCursor
    <3>3. cursorOf'[r] # Null /\ r # Null /\ statement[h] # Null
      <4>1. [owner |-> statement[h], rows |-> n, pos |-> 0] \in Cursor
        BY <3>1, BoundAssumption DEF Cursor
      <4> QED BY <3>1, <3>2, <4>1, NullAssumption
    <3>4. PlanSeen[h] = planOf[statement[h]].sql /\ PlanSeen'[h] = PlanSeen[h]
      BY <2>4, <3>1, <3>3 DEF NewCursor, PlanSeen, PlanOpen
    <3>5. PlanSeen[h] # Null
      BY <3>1, <3>4, NullAssumption DEF Plan
    <3>6. PlanSeen' = PlanSeen
      BY <2>s, <3>4 DEF PlanSeen
    <3>7. CursorSeen'[h] = C!StartOf(n)
      BY <3>1, <3>2, <3>3 DEF CursorSeen, CursorOpen, C!StartOf
    <3> QED BY <2>s, <3>5, <3>6, <3>7 DEF C!Next, C!Open
  <2>5. ASSUME \/ ExecuteThrows(h, "SQL_ERROR")
               \/ MoreResultsEnds(h, "SQL_NO_DATA")
               \/ MoreResultsThrows(h, "SQL_ERROR")
               \/ CloseHeldCursor(h, "SQL_SUCCESS")
        PROVE  [C!Next]_(C!vars)
    <3>1. PICK R : cursorOf' = CursorsWithout(R)
      BY <2>5 DEF ExecuteThrows, MoreResultsEnds, MoreResultsThrows, CloseHeldCursor
    <3>2. UNCHANGED <<statement, planOf>> /\ result'[h] \in {Null, result[h]}
      BY <1>t, <2>5 DEF ExecuteThrows, MoreResultsEnds, MoreResultsThrows,
                        CloseHeldCursor, driver, TypeOK
    <3> QED BY <2>f, <3>1, <3>2, SeenClosing
  <2> QED BY <1>2, <2>1, <2>2, <2>3, <2>4, <2>5 DEF Effect, Changing
<1> QED BY <1>1, <1>2, <1>t, Steps

\* Behind the shared JDBC objects, each handle has a plan and a cursor of its own.
THEOREM ImplementsCursors == Spec => CursorsOnTheirOwn
BY HoldingInit, HoldingStep, SeenInit, SeenStep, PTL DEF Spec, CursorsOnTheirOwn, C!Spec
=============================================================================
