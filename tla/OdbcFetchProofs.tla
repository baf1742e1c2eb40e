-------------------------- MODULE OdbcFetchProofs --------------------------
(***************************************************************************)
(* What an application knows of the rows it has fetched, and what it can   *)
(* rely on if it never counts rows, or never closes a cursor: for every    *)
(* value of the constants of OdbcStatement.                                *)
(***************************************************************************)
EXTENDS OdbcStatementProofs

-----------------------------------------------------------------------------
(* What becomes of a cursor and of the memory of its rows.                 *)

\* A call that does not move the cursor of h closes it, replaces it by one of
\* which nothing has been delivered, or leaves it and what was delivered alone.
Settled(h) ==
    \/ ~CursorOpen(result[h])'
    \/ result'[h] \in FreshCursor /\ seen'[h] = {}
    \/ /\ CursorOpen(result[h]) /\ result'[h] = result[h]
       /\ cursorOf'[result[h]] = cursorOf[result[h]]
       /\ seen'[h] = seen[h] /\ errored'[h] = errored[h]

LEMMA ChangingSettles ==
    ASSUME HoldingInv, NEW h \in Handle, Changing(h)
    PROVE  Settled(h)
<1> USE DEF HoldingInv
<1>r. result[h] # Null => result[h] \in RSet
  BY DEF TypeOK
\* A result set that closing leaves open is as it was.
<1>c. ASSUME NEW R, cursorOf' = CursorsWithout(R), result' = result
      PROVE  CursorOpen(result[h])' =>
                 CursorOpen(result[h]) /\ cursorOf'[result[h]] = cursorOf[result[h]]
  BY <1>r, <1>c, CursorsWithoutValue DEF CursorOpen
<1>1. ASSUME NEW sql \in Sql, PrepareThrows(h, sql, "SQL_ERROR") \/ Replan(h, sql)
      PROVE  Settled(h)
  <2>1. result'[h] = Null
    BY <1>1 DEF PrepareThrows, Replan, NoCursor, TypeOK
  <2> QED BY <2>1 DEF Settled, CursorOpen
<1>2. ASSUME NEW sql \in Sql, ExecDirectReturns(h, sql, "SQL_SUCCESS")
      PROVE  Settled(h)
  <2>1. PICK r \in FreshCursor : result' = [result EXCEPT ![h] = r] /\ Announce(h)
    BY <1>2 DEF ExecDirectReturns
  <2>2. result'[h] = r /\ seen'[h] = {}
    BY <2>1 DEF Announce, TypeOK
  <2> QED BY <2>2 DEF Settled
<1>3. ASSUME NEW r \in FreshCursor, NEW n \in 0 .. MaxRows, NEW R, NewCursor(h, r, n, R)
      PROVE  Settled(h)
  <2>1. result'[h] = r /\ seen'[h] = {}
    BY <1>3 DEF NewCursor, Announce, TypeOK
  <2> QED BY <2>1 DEF Settled
<1>4. CASE ExecuteThrows(h, "SQL_ERROR")
  <2>1. PICK R : cursorOf' = CursorsWithout(R)
    BY <1>4 DEF ExecuteThrows
  <2>2. UNCHANGED <<result, seen, errored>>
    BY <1>4 DEF ExecuteThrows, driver
  <2> QED BY <1>c, <2>1, <2>2 DEF Settled
<1>5. CASE MoreResultsEnds(h, "SQL_NO_DATA")
  <2>1. CursorOpen(result[h]) => result[h] \in CursorsOf(statement[h])
    BY <1>r DEF ResultOfStatement, CursorsOf, CursorOpen
  <2>2. ~CursorOpen(result[h])'
    BY <1>5, <1>r, <2>1, CursorsWithoutValue DEF MoreResultsEnds, driver, CursorOpen
  <2> QED BY <2>2 DEF Settled
<1>6. CASE MoreResultsThrows(h, "SQL_ERROR")
  <2>1. PICK R : cursorOf' = CursorsWithout(R)
    BY <1>6 DEF MoreResultsThrows
  <2>2. UNCHANGED <<result, seen, errored>>
    BY <1>6 DEF MoreResultsThrows, driver
  <2> QED BY <1>c, <2>1, <2>2 DEF Settled
<1>7. CASE CloseHeldCursor(h, "SQL_SUCCESS")
  <2>1. result'[h] = Null
    BY <1>7 DEF CloseHeldCursor, TypeOK
  <2> QED BY <2>1 DEF Settled, CursorOpen
<1> QED
  BY <1>1, <1>2, <1>3, <1>4, <1>5, <1>6, <1>7 DEF Changing

\* A call that moves the cursor of h changes nothing of it but its position.
LEMMA MovedCursor ==
    ASSUME TypeOK, NEW h \in Handle, NEW pos, Moving(h, pos)
    PROVE  /\ result' = result /\ CursorOpen(result[h])
           /\ cursorOf'[result[h]].rows = cursorOf[result[h]].rows
           /\ cursorOf'[result[h]].pos = pos
<1>1. result[h] \in RSet /\ cursorOf[result[h]] \in Cursor
  BY DEF Moving, CursorOpen, TypeOK, JdbcTypeOK
<1>2. cursorOf' = [cursorOf EXCEPT ![result[h]] = [cursorOf[result[h]] EXCEPT !.pos = pos]]
  BY <1>1 DEF Moving, MoveTo, TypeOK, JdbcTypeOK
<1>3. /\ [cursorOf[result[h]] EXCEPT !.pos = pos].rows = cursorOf[result[h]].rows
      /\ [cursorOf[result[h]] EXCEPT !.pos = pos].pos = pos
  BY <1>1 DEF Cursor
<1> QED BY <1>1, <1>2, <1>3 DEF Moving, TypeOK, JdbcTypeOK

\* A call on h leaves the cursor of another handle, and what was delivered, alone.
LEMMA OthersSettle ==
    ASSUME HoldingInv, NEW h \in Handle, Effect(h), NEW g \in Handle, g # h
    PROVE  Settled(g)
<1>1. Footprint(h)
  BY FootprintOfCall DEF HoldingInv
<1>2. /\ result'[g] = result[g]
      /\ result[g] # Null => cursorOf'[result[g]] = cursorOf[result[g]]
  BY <1>1, Isolation
<1>3. seen'[g] = seen[g] /\ errored'[g] = errored[g]
  BY <1>1 DEF Footprint, OwnMemory
<1> QED BY <1>2, <1>3 DEF Settled, CursorOpen

-----------------------------------------------------------------------------
(* SQL_NO_DATA.                                                            *)

\* What has been delivered are rows of the result set.
SeenReal(h) == CursorOpen(result[h]) => seen[h] \subseteq 1 .. cursorOf[result[h]].rows

RealInv == HonestInv /\ \A h \in Handle : SeenReal(h)

LEMMA RealInit == Init => RealInv
<1>1. Init => \A h \in Handle : SeenReal(h)
  BY DEF Init, JdbcInit, SeenReal, CursorOpen
<1> QED BY <1>1, HonestInit DEF RealInv

LEMMA RealStep ==
    ASSUME RealInv, [Next]_vars
    PROVE  RealInv'
<1>h. HoldingInv /\ TypeOK
  BY DEF RealInv, HonestInv, HoldingInv
<1>1. HonestInv'
  BY HonestStep DEF RealInv
<1>2. ASSUME NEW g \in Handle, Settled(g)
      PROVE  SeenReal(g)'
  <2>1. SeenReal(g)
    BY DEF RealInv
  <2> QED BY <1>2, <2>1 DEF Settled, SeenReal
<1>3. ASSUME NEW h \in Handle, NEW pos \in 0 .. MaxRows + 1, Moving(h, pos)
      PROVE  SeenReal(h)'
  <2>1. seen'[h] \subseteq seen[h] \cup 1 .. cursorOf[result[h]].rows
    BY <1>3 DEF Moving
  <2>2. SeenReal(h)
    BY DEF RealInv
  <2> QED BY <1>h, <1>3, <2>1, <2>2, MovedCursor DEF SeenReal
<1>4. ASSUME NEW h \in Handle, Effect(h), NEW g \in Handle
      PROVE  SeenReal(g)'
  <2>1. CASE g # h
    BY <1>h, <1>2, <1>4, <2>1, OthersSettle
  <2>2. CASE g = h /\ Changing(h)
    BY <1>h, <1>2, <2>2, ChangingSettles
  <2> QED BY <1>3, <1>4, <2>1, <2>2 DEF Effect
<1>5. CASE Quiet
  BY <1>1, <1>5 DEF Quiet, jdbc, memory, RealInv, SeenReal, CursorOpen
<1> QED BY <1>h, <1>1, <1>4, <1>5, Steps DEF RealInv

\* A fetch that returns SQL_NO_DATA finds its cursor open, with no row to come.
LEMMA NoDataIsEnd ==
    ASSUME TypeOK, NEW h \in Handle,
           Fetch(h, "SQL_NO_DATA") \/ FetchScroll(h, "SQL_NO_DATA")
    PROVE  CursorOpen(result[h]) /\ cursorOf[result[h]].pos >= cursorOf[result[h]].rows
<1>1. PICK want \in {1, bindDataArraySize[h]} : FetchEnds(h, want, "SQL_NO_DATA")
  BY DEF Fetch, FetchScroll, ReadRows, FetchDelivers, FetchEscapes, FetchThrows, FetchRefused
<1>2. want \in Nat /\ want > 0 /\ Found(h, want) = 0 /\ CursorOpen(result[h])
  BY <1>1, HandleAssumption DEF FetchEnds, Fetchable, TypeOK
<1> QED BY <1>2, CursorValue DEF Found, Lesser, Remaining

\* After SQL_NO_DATA the application has every row, whatever it did before and
\* whatever failed, as long as no call told it, or hid from it, a failure.
THEOREM NoDataIsHonest == Spec => NoDataMeansAll
<1>1. ASSUME RealInv, NEW h \in Handle,
             Fetch(h, "SQL_NO_DATA") \/ FetchScroll(h, "SQL_NO_DATA"),
             ~errored[h], "getRowCountCursor" \notin swallowed[h]
      PROVE  seen[h] = 1 .. cursorOf[result[h]].rows
  <2>1. TypeOK /\ AllSeen(h) /\ SeenReal(h)
    BY <1>1 DEF RealInv, HonestInv, HoldingInv, Honest
  <2>2. CursorOpen(result[h]) /\ cursorOf[result[h]].pos >= cursorOf[result[h]].rows
    BY <1>1, <2>1, NoDataIsEnd
  <2>3. seen[h] \subseteq 1 .. cursorOf[result[h]].rows
    BY <2>1, <2>2 DEF SeenReal
  <2>4. \A row \in 1 .. cursorOf[result[h]].rows : row <= cursorOf[result[h]].pos
    BY <2>1, <2>2, CursorValue
  <2>5. \A row \in 1 .. cursorOf[result[h]].rows : row \in seen[h]
    BY <1>1, <2>1, <2>2, <2>4 DEF AllSeen
  <2> QED BY <2>3, <2>5
<1>2. RealInv => EndsWithAll
  BY <1>1 DEF EndsWithAll
<1> QED BY <1>2, RealInit, RealStep, PTL DEF Spec, NoDataMeansAll
-----------------------------------------------------------------------------
(* An application that never counts rows.                                  *)

OtherNext == \E h \in Handle, code \in Code : OtherCall(h, code)

LEMMA OtherIsNext ==
    ASSUME [OtherNext]_vars
    PROVE  [Next]_vars
BY DEF OtherNext, Next, Call

\* A cursor that stays open, not replaced, moves forward, and so does what has
\* been delivered of it.
LEMMA OtherForward ==
    ASSUME HoldingInv, [OtherNext]_vars, NEW g \in Handle
    PROVE  \/ Settled(g)
           \/ \E pos \in 0 .. MaxRows + 1 : Onward(g, pos)
<1>t. TypeOK
  BY DEF HoldingInv
<1>1. CASE UNCHANGED vars
  BY <1>1 DEF vars, driver, jdbc, memory, Settled, CursorOpen
<1>2. ASSUME NEW h \in Handle, NEW code \in Code, OtherCall(h, code)
      PROVE  Settled(g) \/ \E pos \in 0 .. MaxRows + 1 : Onward(g, pos)
  <2>1. CASE Quiet
    BY <2>1 DEF Quiet, jdbc, memory, Settled, CursorOpen
  <2>2. CASE OtherEffect(h) /\ g # h
    BY <2>2, OtherIsEffect, OthersSettle
  <2>3. CASE OtherEffect(h) /\ g = h
    BY <2>3, ChangingSettles DEF OtherEffect
  <2> QED BY <1>t, <1>2, <2>1, <2>2, <2>3, OtherSteps
<1> QED BY <1>1, <1>2 DEF OtherNext

\* It does not hide a count that failed.
HidesNoCount(h) == "getRowCountCursor" \in swallowed'[h] => "getRowCountCursor" \in swallowed[h]

LEMMA ChangingHides ==
    ASSUME TypeOK, NEW h \in Handle, Changing(h)
    PROVE  HidesNoCount(h)
<1> USE DEF HidesNoCount
<1>1. ASSUME NEW sql \in Sql, NEW o, DropOldPlan(h, sql, o)
      PROVE  HidesNoCount(h)
  BY <1>1 DEF DropOldPlan, TypeOK
<1>2. ASSUME NEW sql \in Sql,
             \/ PrepareThrows(h, sql, "SQL_ERROR") \/ Replan(h, sql)
             \/ ExecDirectReturns(h, sql, "SQL_SUCCESS")
      PROVE  \E o : DropOldPlan(h, sql, o)
  BY <1>2 DEF PrepareThrows, Replan, ExecDirectReturns
<1>3. ASSUME swallowed' = [swallowed EXCEPT ![h] = @ \cap {"prepareStatement"}]
      PROVE  HidesNoCount(h)
  BY <1>3 DEF TypeOK
<1>4. ASSUME NEW r \in FreshCursor, NEW n \in 0 .. MaxRows, NEW R, NewCursor(h, r, n, R)
      PROVE  HidesNoCount(h)
  BY <1>3, <1>4 DEF NewCursor
<1>5. CASE MoreResultsEnds(h, "SQL_NO_DATA") \/ CloseHeldCursor(h, "SQL_SUCCESS")
  BY <1>3, <1>5 DEF MoreResultsEnds, CloseHeldCursor
<1>6. CASE ExecuteThrows(h, "SQL_ERROR")
  <2>1. PICK o : swallowed' = [swallowed EXCEPT ![h] =
                                  (@ \ {"execute"}) \cup {x \in {"execute"} : o.threw}]
    BY <1>6 DEF ExecuteThrows
  <2> QED BY <2>1 DEF TypeOK
<1>7. CASE MoreResultsThrows(h, "SQL_ERROR")
  BY <1>7 DEF MoreResultsThrows
<1> QED BY <1>1, <1>2, <1>4, <1>5, <1>6, <1>7 DEF Changing

LEMMA OtherHides ==
    ASSUME HoldingInv, [OtherNext]_vars, NEW g \in Handle
    PROVE  HidesNoCount(g)
<1>t. TypeOK
  BY DEF HoldingInv
<1>1. CASE UNCHANGED vars
  BY <1>1 DEF vars, memory, HidesNoCount
<1>2. ASSUME NEW h \in Handle, NEW code \in Code, OtherCall(h, code)
      PROVE  HidesNoCount(g)
  <2>1. CASE Quiet
    BY <2>1 DEF Quiet, memory, HidesNoCount
  <2>2. CASE OtherEffect(h) /\ g # h
    BY <2>2, OtherIsEffect, FootprintOfCall DEF HoldingInv, Footprint, OwnMemory, HidesNoCount
  <2>3. CASE Changing(h) /\ g = h
    BY <1>t, <2>3, ChangingHides
  <2>4. CASE g = h /\ \E pos \in 0 .. MaxRows + 1 : Onward(h, pos)
    BY <2>4 DEF Onward, HidesNoCount
  <2> QED BY <1>t, <1>2, <2>1, <2>2, <2>3, <2>4, OtherSteps DEF OtherEffect
<1> QED BY <1>1, <1>2 DEF OtherNext

\* No count has failed unseen, and what has been delivered lies behind the cursor.
SeenBehind(h) ==
    /\ "getRowCountCursor" \notin swallowed[h]
    /\ CursorOpen(result[h]) => \A row \in seen[h] : row <= cursorOf[result[h]].pos

BehindInv == RealInv /\ \A h \in Handle : SeenBehind(h)

LEMMA BehindInit == Init => BehindInv
<1>1. Init => \A h \in Handle : SeenBehind(h)
  BY DEF Init, JdbcInit, SeenBehind, CursorOpen
<1> QED BY <1>1, RealInit DEF BehindInv

LEMMA BehindStep ==
    ASSUME BehindInv, [OtherNext]_vars
    PROVE  BehindInv'
<1>h. HoldingInv /\ TypeOK
  BY DEF BehindInv, RealInv, HonestInv, HoldingInv
<1>1. RealInv'
  BY OtherIsNext, RealStep DEF BehindInv
<1>2. ASSUME NEW g \in Handle
      PROVE  SeenBehind(g)'
  <2>1. SeenBehind(g) /\ SeenReal(g)
    BY DEF BehindInv, RealInv
  <2>2. "getRowCountCursor" \notin swallowed'[g]
    BY <1>h, <2>1, OtherHides DEF SeenBehind, HidesNoCount
  <2>3. CASE Settled(g)
    BY <2>1, <2>2, <2>3 DEF Settled, SeenBehind
  <2>4. ASSUME NEW pos \in 0 .. MaxRows + 1, Onward(g, pos)
        PROVE  SeenBehind(g)'
    <3>1. /\ pos \in Int /\ pos >= cursorOf[result[g]].pos
          /\ \A row \in seen'[g] : row \in seen[g] \/ row <= pos
      BY <1>h, <2>4, BoundAssumption DEF Onward
    <3>2. /\ result' = result /\ CursorOpen(result[g])
          /\ cursorOf'[result[g]].pos = pos
      BY <1>h, <2>4, MovedCursor DEF Onward
    <3>3. cursorOf[result[g]].pos \in Int /\ seen[g] \subseteq Int
      BY <1>h, <3>2, CursorValue DEF TypeOK
    <3>4. \A row \in seen[g] : row <= pos
      BY <2>1, <3>1, <3>2, <3>3 DEF SeenBehind
    <3> QED BY <2>2, <3>1, <3>2, <3>4 DEF SeenBehind
  <2> QED BY <1>h, <2>3, <2>4, OtherForward
<1> QED BY <1>1, <1>2 DEF BehindInv

\* Without counts the rows come one after the other, each once: what has been
\* delivered are the rows before the cursor.
THEOREM RowsComeOnce == NeverCounts => []SeenIsPassed
<1>1. ASSUME BehindInv, NEW h \in Handle, CursorOpen(result[h]), ~errored[h]
      PROVE  seen[h] = {row \in 1 .. cursorOf[result[h]].rows : row <= cursorOf[result[h]].pos}
  <2>1. AllSeen(h) /\ SeenReal(h) /\ SeenBehind(h)
    BY <1>1 DEF BehindInv, RealInv, HonestInv, Honest
  <2> QED BY <1>1, <2>1 DEF AllSeen, SeenReal, SeenBehind
<1>2. BehindInv => SeenIsPassed
  BY <1>1 DEF SeenIsPassed
<1>3. BehindInv /\ [OtherNext]_vars => BehindInv'
  BY BehindStep
<1>4. NeverCounts => Init /\ [][OtherNext]_vars
  BY DEF NeverCounts, OtherNext
<1> QED BY <1>2, <1>3, <1>4, BehindInit, PTL

\* Without counts the cursor of a handle is the forward-only cursor the driver says.
THEOREM CursorsGoForward == NeverCounts => ForwardOnly
<1>1. ASSUME BehindInv, [OtherNext]_vars
      PROVE  MovesForward
  <2>h. HoldingInv /\ TypeOK
    BY <1>1 DEF BehindInv, RealInv, HonestInv, HoldingInv
  <2>1. ASSUME NEW h \in Handle,
               CursorOpen(result[h]), result'[h] = result[h], CursorOpen(result[h])'
        PROVE  cursorOf'[result[h]].pos >= cursorOf[result[h]].pos
    <3>1. CASE Settled(h)
      <4>1. result[h] \notin FreshCursor
        BY DEF FreshCursor
      <4>2. cursorOf'[result[h]] = cursorOf[result[h]]
        BY <2>1, <3>1, <4>1 DEF Settled
      <4> QED BY <2>h, <2>1, <4>2, CursorValue
    <3>2. ASSUME NEW pos \in 0 .. MaxRows + 1, Onward(h, pos)
          PROVE  cursorOf'[result[h]].pos >= cursorOf[result[h]].pos
      BY <2>h, <3>2, MovedCursor DEF Onward
    <3> QED BY <1>1, <2>h, <3>1, <3>2, OtherForward
  <2> QED BY <2>1 DEF MovesForward
<1>2. BehindInv /\ [OtherNext]_vars => BehindInv' /\ MovesForward
  BY <1>1, BehindStep
<1>3. NeverCounts => Init /\ [][OtherNext]_vars
  BY DEF NeverCounts, OtherNext
<1> QED BY <1>2, <1>3, BehindInit, PTL DEF ForwardOnly
-----------------------------------------------------------------------------
(* An application that never closes a cursor.                              *)

NoClose == \A h \in Handle : ~CloseHeldCursor(h, "SQL_SUCCESS")

\* A handle has a descriptor from its allocation on, and no result set before.
Described ==
    \A h \in Handle : /\ h \in allocated => impDescriptor[h]
                      /\ h \notin allocated => result[h] = Null

DescribedInv == HoldingInv /\ Described

LEMMA DescribedInit == Init => DescribedInv
<1>1. Init => Described
  BY DEF Init, Described
<1> QED BY <1>1, HoldingInit DEF DescribedInv

\* Nothing but SQL_CLOSE takes the descriptor of a handle.
LEMMA DescriptorStays ==
    ASSUME TypeOK, NEW h \in Handle, h \in allocated, NEW code, Call(h, code), NoClose
    PROVE  /\ allocated' = allocated
           /\ \A g \in Handle : impDescriptor[g] => impDescriptor'[g]
<1> DEFINE Stays == /\ allocated' = allocated
                    /\ \A g \in Handle : impDescriptor[g] => impDescriptor'[g]
<1> SUFFICES Stays
  OBVIOUS
<1>1. CASE UNCHANGED <<allocated, impDescriptor>>
  BY <1>1
<1>2. ASSUME NEW sql, NEW o, NEW p, NEW run,
             DropOldPlan(h, sql, o), TakeNewPlan(h, sql, o, p, run)
      PROVE  Stays
  BY <1>2 DEF DropOldPlan, TakeNewPlan, TypeOK
<1>3. ASSUME NEW sql \in Sql, PrepareThrows(h, sql, code)
      PROVE  Stays
  BY <1>3 DEF PrepareThrows, DropOldPlan
<1>4. ASSUME NEW sql \in Sql, PrepareReturns(h, sql, code) \/ TimeoutThrows(h, sql, code)
                               \/ ExecDirectReturns(h, sql, code) \/ ExecDirectThrows(h, sql, code)
      PROVE  Stays
  <2>1. \E o, p, run : DropOldPlan(h, sql, o) /\ TakeNewPlan(h, sql, o, p, run)
    BY <1>4 DEF PrepareReturns, TimeoutThrows, ExecDirectReturns, ExecDirectThrows
  <2> QED BY <1>2, <2>1
<1>5. CASE Execute(h, code) \/ MoreResults(h, code)
  BY <1>5 DEF Execute, ExecuteReturns, ExecuteThrows, MoreResults, MoreResultsReturns,
              MoreResultsEnds, MoreResultsThrows, driver
<1>6. CASE FreeStmt(h, code)
  <2>1. ~CloseHeldCursor(h, code)
    BY DEF NoClose, CloseHeldCursor
  <2> QED BY <1>6, <2>1 DEF FreeStmt, Unbind, FreeNothing, vars, driver
<1>7. CASE \/ \E type \in BindType : BindCol(h, type, code)
           \/ \E size \in 0 .. MaxArraySize : SetArraySize(h, size, code)
           \/ \E seconds \in 1 .. MaxTimeout : SetQueryTimeout(h, seconds, code)
           \/ GetData(h, code) \/ NumResultCols(h, code)
  BY <1>7 DEF BindCol, SetArraySize, SetQueryTimeout, GetData, NumResultCols, vars, driver
<1>8. CASE Fetch(h, code) \/ FetchScroll(h, code)
  BY <1>8 DEF Fetch, FetchScroll, ReadRows, FetchDelivers, FetchEnds, FetchEscapes,
              FetchThrows, FetchRefused, vars, driver
<1>9. CASE RowCount(h, code) \/ DiagCursorRowCount(h, code)
  BY <1>9 DEF RowCount, DiagCursorRowCount, CountRows, RowCountThrows, DiagCountThrows,
              CountRefused, vars, driver
<1>10. ~AllocStmt(h, code)
  BY DEF AllocStmt
<1> QED
  BY <1>3, <1>4, <1>5, <1>6, <1>7, <1>8, <1>9, <1>10
     DEF Call, OtherCall, CountingCall, Prepare, ExecDirect

LEMMA DescribedStep ==
    ASSUME DescribedInv, [Next /\ NoClose]_vars
    PROVE  DescribedInv'
<1>t. TypeOK /\ OwnersOpen /\ HoldingInv /\ Described
  BY DEF DescribedInv, HoldingInv
<1>1. HoldingInv'
  BY HoldingStep DEF DescribedInv
<1>2. CASE UNCHANGED vars
  <2>1. allocated' = allocated /\ result' = result /\ impDescriptor' = impDescriptor
    BY <1>2 DEF vars, driver
  <2> QED BY <1>1, <1>t, <2>1 DEF DescribedInv, Described
<1>3. ASSUME NEW h \in Handle, NEW code \in Code, AllocStmt(h, code)
      PROVE  Described'
  BY <1>t, <1>3 DEF AllocStmt, Described, TypeOK
<1>4. ASSUME NEW h \in Handle, NEW code \in Code, Call(h, code), ~AllocStmt(h, code), NoClose
      PROVE  Described'
  <2>1. h \in allocated
    BY <1>4 DEF Call, OtherCall, CountingCall
  <2>2. /\ allocated' = allocated
        /\ \A g \in Handle : impDescriptor[g] => impDescriptor'[g]
    BY <1>t, <1>4, <2>1, DescriptorStays
  <2>3. ASSUME NEW g \in Handle, g # h
        PROVE  result'[g] = result[g]
    <3>1. CASE Quiet
      BY <3>1 DEF Quiet
    <3>2. CASE Effect(h)
      BY <1>t, <2>3, <3>2, FootprintOfCall, Isolation
    <3> QED BY <1>t, <1>4, <3>1, <3>2, CallSteps
  <2> QED BY <1>t, <2>1, <2>2, <2>3 DEF Described
<1> QED BY <1>1, <1>2, <1>3, <1>4 DEF DescribedInv, Next

\* Without SQL_CLOSE every open cursor can be described.
THEOREM CursorsAreDescribed == NeverCloses => []OpenCursorIsDescribed
<1>1. DescribedInv => OpenCursorIsDescribed
  BY DEF DescribedInv, Described, OpenCursorIsDescribed, Describable, CursorOpen
<1>2. DescribedInv /\ [Next /\ NoClose]_vars => DescribedInv'
  BY DescribedStep
<1>3. NeverCloses => Init /\ [][Next /\ NoClose]_vars
  BY DEF NeverCloses, NoClose
<1> QED BY <1>1, <1>2, <1>3, DescribedInit, PTL
=============================================================================
