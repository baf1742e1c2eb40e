------------------------------- MODULE Rowset -------------------------------
(***************************************************************************)
(* Where the rows of a result are written: bindColumn, the attributes that *)
(* place a rowset, fetch and fetchScroll (OdbcStatement.java), and the     *)
(* loops of jstatement.cpp that write what Java has read into the memory   *)
(* of the application.                                                     *)
(*                                                                         *)
(* One handle with an open cursor.  Java reads the rows into an array of   *)
(* slots; C++ writes the number of rows, marks the status entries, and     *)
(* then goes through the rows and bindings, slot by slot.  An address is   *)
(* the place of one object: a value, a length, a status or a counter.      *)
(***************************************************************************)
EXTENDS Integers, Sequences

CONSTANTS
    Column,     \* the columns of the result
    MaxRows,    \* bound on the rows of a result
    MaxBound,   \* bound on the bindings of a handle
    Address,    \* the addresses of values and lengths a column can be bound to
    Place,      \* the pairs of them that applications use
    Offset,     \* the bind offsets, row sizes, rowset sizes and pointers that
    RowSize,    \*   applications give
    Size,
    Pointer,
    NullCell,   \* the cells <<row, column>> of the result that hold NULL
    Kinds,      \* how bindings fare, see Kind
    Null        \* no value

\* The null pointer.
NULL == 0

ASSUME BoundAssumption == MaxRows \in Nat /\ MaxBound \in Nat
ASSUME AddressAssumption ==
    /\ Address \subseteq Nat
    /\ Place \subseteq [value : Address \cup {NULL}, length : Address \cup {NULL}]
    /\ Offset \subseteq Nat /\ RowSize \subseteq Nat /\ Size \subseteq Nat /\ Pointer \subseteq Nat
    /\ {0} \subseteq Offset \cap RowSize \cap Size \cap Pointer
ASSUME NullAssumption ==
    Null \notin Nat \cup {"busy", "SQL_SUCCESS", "SQL_NO_DATA", "SQL_ERROR", "exception", "crashed"}

VARIABLES
    cursor,     \* the result set: its number of rows, and how many were read
    binds,      \* bindParameters, in the order of the calls
    attr,       \* bindDataOffset, bindDataRowSize, bindDataArraySize, bindDataStatus
                \*   and bindDataRowsFetched
    step,       \* what the fetch under way does next; "idle" without one, "crashed" for ever
    call,       \* the last fetch: its kind, the rows read before it and by it, where it writes
    stored,     \* what it has written for columns: the slot, the address, the content
    status,     \* the status entries it has written
    counted,    \* the number of rows it has told, or Null
    code,       \* its answer
    asked       \* the offset and the row size the application has set for rows

driver == <<binds, attr>>
told   == <<stored, status, counted>>  \* what the application finds in its memory
vars   == <<cursor, driver, step, call, told, code, asked>>

\* How a binding fares: the value is stored (or is a string and there is no buffer for it);
\* the buffer is too small and is passed over; Java cannot read the type; C++ cannot write it.
Kind == {"fits", "tight", "throws", "escapes"}
ASSUME KindAssumption == Kinds \subseteq Kind

Binding == [column : Column, kind : Kinds, value : Address \cup {NULL}, length : Address \cup {NULL}]

Position == {c \in [rows : 0 .. MaxRows, pos : 0 .. MaxRows] : c.pos <= c.rows}

Part == {"value", "length", "null"}

TypeOK ==
    /\ cursor \in Position
    /\ binds \in Seq(Binding) /\ Len(binds) <= MaxBound
    /\ attr \in [offset : Offset, rowSize : RowSize, size : Size, status : Pointer, rowsFetched : Pointer]
    /\ step \in {"idle", "java", "count", "mark", "entries", "crashed"}
    /\ call \in [kind : {"fetch", "scroll", "extended"}, from : 0 .. MaxRows, n : 0 .. MaxRows,
                 row : 0 .. MaxRows, param : 1 .. MaxBound + 1]
    /\ stored \subseteq [slot : Nat, at : Nat, what : (1 .. MaxRows) \X Column \X Part]
    /\ DOMAIN status \subseteq Nat /\ \A i \in DOMAIN status : status[i] \in {"SQL_ROW_NOROW", "SQL_ROW_SUCCESS"}
    /\ counted \in 0 .. MaxRows \cup {Null}
    /\ code \in {"busy", "SQL_SUCCESS", "SQL_NO_DATA", "SQL_ERROR", "exception", "crashed", Null}
    /\ asked \in [offset : Offset, rowSize : RowSize]

Empty == [i \in {} |-> "SQL_ROW_NOROW"]

Init ==
    /\ cursor \in Position /\ cursor.pos = 0
    /\ binds = <<>>
    /\ attr = [offset |-> 0, rowSize |-> 0, size |-> 0, status |-> NULL, rowsFetched |-> NULL]
    /\ step = "idle"
    /\ call = [kind |-> "fetch", from |-> 0, n |-> 0, row |-> 0, param |-> 1]
    /\ stored = {} /\ status = Empty /\ counted = Null
    /\ code = Null
    /\ asked = [offset |-> 0, rowSize |-> 0]

-----------------------------------------------------------------------------
(* The calls between fetches.                                              *)

\* Another call than a fetch; what the last one has written is no longer of interest.
Quiet(answer) ==
    /\ step = "idle"
    /\ stored' = {} /\ status' = Empty /\ counted' = Null
    /\ code' = answer
    /\ UNCHANGED <<step, call>>

\* SQLExecute: a new result.
Execute ==
    /\ Quiet(Null)
    /\ cursor' \in Position /\ cursor'.pos = 0
    /\ UNCHANGED <<driver, asked>>

\* SQLBindCol appends, whatever is bound already and whatever the pointers are.
BindCol(c, k, p) ==
    /\ Quiet(Null)
    /\ Len(binds) < MaxBound
    /\ binds' = Append(binds, [column |-> c, kind |-> k, value |-> p.value, length |-> p.length])
    /\ UNCHANGED <<cursor, attr, asked>>

\* SQLFreeStmt with SQL_UNBIND.
Unbind ==
    /\ Quiet(Null)
    /\ binds' = <<>>
    /\ UNCHANGED <<cursor, attr, asked>>

\* SQL_ATTR_ROW_BIND_OFFSET_PTR, whose value is taken for the offset itself, and
\* SQL_BIND_TYPE (SQL_ATTR_ROW_BIND_TYPE).
SetForRows(f, v) ==
    /\ Quiet(Null)
    /\ attr' = [attr EXCEPT ![f] = v]
    /\ asked' = [asked EXCEPT ![f] = v]
    /\ UNCHANGED <<cursor, binds>>

\* SQL_ATTR_PARAM_BIND_OFFSET_PTR and SQL_ATTR_PARAM_BIND_TYPE, attributes of parameters, set
\* the same fields.
SetForParams(f, v) ==
    /\ Quiet(Null)
    /\ attr' = [attr EXCEPT ![f] = v]
    /\ UNCHANGED <<cursor, binds, asked>>

\* SQL_ATTR_ROW_ARRAY_SIZE and SQL_ROWSET_SIZE.
SetSize(n) ==
    /\ Quiet(Null)
    /\ attr' = [attr EXCEPT !.size = n]
    /\ UNCHANGED <<cursor, binds, asked>>

\* SQL_ATTR_ROW_STATUS_PTR and SQL_ATTR_ROWS_FETCHED_PTR.
SetPointer(f, p) ==
    /\ Quiet(Null)
    /\ attr' = [attr EXCEPT ![f] = p]
    /\ UNCHANGED <<cursor, binds, asked>>

\* The attributes of rows and what is bound to them.
RowSettings ==
    \/ \E c \in Column, k \in Kinds, p \in Place : BindCol(c, k, p)
    \/ Unbind
    \/ \E v \in Offset : SetForRows("offset", v)
    \/ \E v \in RowSize : SetForRows("rowSize", v)
    \/ \E n \in Size : SetSize(n)
    \/ \E f \in {"status", "rowsFetched"}, p \in Pointer : SetPointer(f, p)

\* The attributes of parameters.
ParamSettings ==
    \/ \E v \in Offset : SetForParams("offset", v)
    \/ \E v \in RowSize : SetForParams("rowSize", v)

Settings == RowSettings \/ ParamSettings

-----------------------------------------------------------------------------
(* A fetch: the part in Java.                                              *)

Begin(kind) ==
    /\ step = "idle"
    /\ step' = "java"
    /\ call' = [kind |-> kind, from |-> cursor.pos, n |-> 0, row |-> 0, param |-> 1]
    /\ stored' = {} /\ status' = Empty /\ counted' = Null
    /\ code' = "busy"
    /\ UNCHANGED <<cursor, binds, asked>>

Fetch       == Begin("fetch") /\ UNCHANGED attr
FetchScroll == Begin("scroll") /\ UNCHANGED attr

\* SQLExtendedFetch sets the two pointers by calls of their own, and keeps them set.
ExtendedFetch(rows, statuses) ==
    /\ Begin("extended")
    /\ attr' = [attr EXCEPT !.status = statuses, !.rowsFetched = rows]

\* When the second of these calls fails the first pointer stays, and nothing is fetched.
ExtendedFetchFails(statuses) ==
    /\ Quiet("SQL_ERROR")
    /\ attr' = [attr EXCEPT !.status = statuses]
    /\ UNCHANGED <<cursor, binds, asked>>

\* The rows a fetch asks for, and how many of them there are.
Want     == IF call.kind = "fetch" THEN 1 ELSE attr.size
\* Fault: next() is not asked whether there is a row.
RowsBlind == Want
Rows     == IF Want <= cursor.rows - cursor.pos THEN Want ELSE cursor.rows - cursor.pos
Readable == \A i \in 1 .. Len(binds) : binds[i].kind # "throws"

\* Fault: next() is called before the loop looks at the rowset size.
ReadOnAhead(k) ==
    cursor' = [cursor EXCEPT !.pos = IF k = Want /\ @ + k < cursor.rows THEN @ + k + 1 ELSE @ + k]
ReadOn(k) == cursor' = [cursor EXCEPT !.pos = @ + k]

Answer(answer) ==
    /\ step' = IF answer = "crashed" THEN "crashed" ELSE "idle"
    /\ code' = answer

\* next() finds nothing for the first row.
JavaEnds ==
    /\ step = "java"
    /\ Want > 0 /\ Rows = 0
    /\ Answer("SQL_NO_DATA")
    /\ UNCHANGED <<cursor, driver, call, told, asked>>

\* The array is complete, with as many rows as there are.
JavaReads ==
    /\ step = "java"
    /\ Want > 0 => Rows > 0
    /\ Rows > 0 => Readable
    /\ ReadOn(Rows)
    /\ call' = [call EXCEPT !.n = Rows]
    /\ IF call.kind # "fetch"
       THEN step' = "count" /\ UNCHANGED code
       ELSE IF binds = <<>>
            THEN Answer("SQL_SUCCESS")
            ELSE step' = "entries" /\ UNCHANGED code
    /\ UNCHANGED <<driver, told, asked>>

\* next() throws, or a column of the row it went to cannot be read: the array is dropped.
\* The call is also refused for an orientation that is not supported.
JavaFails ==
    /\ step = "java"
    /\ \E k \in 0 .. Rows : (k > 1 => Readable) /\ ReadOn(k)
    /\ Answer("SQL_ERROR")
    /\ UNCHANGED <<driver, call, told, asked>>

-----------------------------------------------------------------------------
(* A fetch: the part in C++.                                               *)

\* The array that Java returns: a slot for each binding of each row, with the addresses
\* that are to be written and what was read.
\* Fault: the lengths are not moved from row to row.
SlotLengthStays(r, i) ==
    LET b == binds[i]
    IN  [slot   |-> r * Len(binds) + i,
         value  |-> b.value + attr.offset + r * attr.rowSize,
         length |-> b.length + attr.offset,
         cell   |-> <<call.from + r + 1, b.column>>,
         kind   |-> b.kind]
Slot(r, i) ==
    LET b == binds[i]
        address(p) == p + attr.offset + r * attr.rowSize
    IN  [slot   |-> r * Len(binds) + i,
         value  |-> address(b.value),
         length |-> address(b.length),
         cell   |-> <<call.from + r + 1, b.column>>,
         kind   |-> b.kind]

Slots == {Slot(ri[1], ri[2]) : ri \in (0 .. call.n - 1) \X (1 .. Len(binds))}

\* *pcrow = rowCount, before anything else of the rowset is written.
WriteCount ==
    /\ step = "count"
    /\ IF attr.rowsFetched = NULL
       THEN Answer("crashed") /\ UNCHANGED counted
       ELSE /\ counted' = call.n
            /\ IF call.n = 0 \/ binds = <<>>
               THEN Answer("SQL_SUCCESS")
               ELSE step' = "mark" /\ UNCHANGED code
    /\ UNCHANGED <<cursor, driver, call, stored, status, asked>>

\* As many entries are marked as the array has slots: those of all bindings of all rows.
\* Fault: one entry too many.
MarkedThrough == 0 .. Len(binds) * attr.size
MarkedEntries == 0 .. Len(binds) * attr.size - 1

Mark ==
    /\ step = "mark"
    /\ IF attr.status = NULL
       THEN Answer("crashed") /\ UNCHANGED status
       ELSE /\ status' = [i \in MarkedEntries |-> "SQL_ROW_NOROW"]
            /\ step' = "entries" /\ UNCHANGED code
    /\ UNCHANGED <<cursor, driver, call, stored, counted, asked>>

\* The entry of a row is set for each of its bindings, before the value is written.
\* Fault: the entry of the binding.
ReportBinding ==
    status' = IF call.kind = "fetch" THEN status ELSE [status EXCEPT ![call.param - 1] = "SQL_ROW_SUCCESS"]
ReportRow ==
    status' = IF call.kind = "fetch" THEN status ELSE [status EXCEPT ![call.row] = "SQL_ROW_SUCCESS"]

Store(e, at, part) == [slot |-> e.slot, at |-> at, what |-> <<e.cell[1], e.cell[2], part>>]

\* bindResultToVariable: what it writes for a slot before it returns, throws or crashes.
\* Fault: the size of the buffer is not looked at.
WrittenUnchecked(e) ==
    IF e.length = NULL THEN {}
    ELSE IF e.cell \in NullCell THEN {Store(e, e.length, "null")}
    ELSE {Store(e, e.length, "length")}
         \cup IF e.kind # "escapes" /\ e.value # NULL THEN {Store(e, e.value, "value")} ELSE {}
Written(e) ==
    IF e.length = NULL THEN {}
    ELSE IF e.cell \in NullCell THEN {Store(e, e.length, "null")}
    ELSE {Store(e, e.length, "length")}
         \cup IF e.kind = "fits" /\ e.value # NULL THEN {Store(e, e.value, "value")} ELSE {}

Crashes(e) == e.length = NULL \/ (e.cell \notin NullCell /\ e.kind = "fits" /\ e.value = NULL)
Escapes(e) == e.cell \notin NullCell /\ e.kind = "escapes"

\* The next slot, or the answer after the last.
\* Fault: the rows are counted with the bindings.
AdvanceRow ==
    IF call.row < call.n - 1
    THEN call' = [call EXCEPT !.row = @ + 1] /\ UNCHANGED <<step, code>>
    ELSE Answer("SQL_SUCCESS") /\ UNCHANGED call
\* Fault: the row is not counted.
AdvanceBinding ==
    IF call.param < Len(binds)
    THEN call' = [call EXCEPT !.param = @ + 1] /\ UNCHANGED <<step, code>>
    ELSE IF call.row < call.n - 1
    THEN call' = [call EXCEPT !.param = 1] /\ UNCHANGED <<step, code>>
    ELSE Answer("SQL_SUCCESS") /\ UNCHANGED call
Advance ==
    IF call.param < Len(binds)
    THEN call' = [call EXCEPT !.param = @ + 1] /\ UNCHANGED <<step, code>>
    ELSE IF call.row < call.n - 1
    THEN call' = [call EXCEPT !.row = @ + 1, !.param = 1] /\ UNCHANGED <<step, code>>
    ELSE Answer("SQL_SUCCESS") /\ UNCHANGED call

WriteEntry ==
    /\ step = "entries"
    /\ ReportRow
    /\ \E e \in Slots :
           /\ e.slot = call.row * Len(binds) + call.param
           /\ stored' = stored \cup Written(e)
           /\ CASE Crashes(e) -> Answer("crashed") /\ UNCHANGED call
                [] ~Crashes(e) /\ Escapes(e) -> Answer("exception") /\ UNCHANGED call
                [] OTHER -> Advance
    /\ UNCHANGED <<cursor, driver, counted, asked>>

Proceed == JavaEnds \/ JavaReads \/ JavaFails \/ WriteCount \/ Mark \/ WriteEntry

Begins ==
    \/ Fetch
    \/ FetchScroll
    \/ \E rows, statuses \in Pointer : ExtendedFetch(rows, statuses)

\* A crash ends the process.
Crashed == step = "crashed" /\ UNCHANGED vars

Next ==
    \/ Execute
    \/ Settings
    \/ \E statuses \in Pointer : ExtendedFetchFails(statuses)
    \/ Begins
    \/ Proceed
    \/ Crashed

Spec == Init /\ [][Next]_vars

-----------------------------------------------------------------------------
(* What the application relies on.                                         *)

Done(answer) == step = "idle" /\ code = answer

\* The binding of a column that is in force: the last.
Current(i) == \A j \in 1 .. Len(binds) : binds[j].column = binds[i].column => j <= i

Places(i) == {binds[i].value, binds[i].length}

\* The application lends disjoint memory: columns do not share a place, and what is bound of
\* one row fits into the row size.
Disjoint ==
    /\ \A i, j \in 1 .. Len(binds) :
           /\ binds[i].column # binds[j].column => Places(i) \cap Places(j) = {}
           /\ call.n > 1 => \A a \in Places(i), b \in Places(j) : a - b < attr.rowSize
    /\ \A i \in 1 .. Len(binds) : binds[i].value # binds[i].length

\* What is found at an address after the fetch, unless nothing was written there.
Holds(at, what) ==
    \E w \in stored : /\ w.at = at /\ w.what = what
                      /\ \A v \in stored : v.at = at => v.slot <= w.slot

\* With SQL_SUCCESS each row and bound column is found at its address, for this offset and row
\* size, even when columns were bound before at other places: the last binding is the one
\* written last.
RowsAt(offset, rowSize) ==
    Done("SQL_SUCCESS") /\ Disjoint =>
        \A r \in 0 .. call.n - 1, i \in 1 .. Len(binds) :
            LET b == binds[i]
                row == call.from + r + 1
                at(p) == p + offset + r * rowSize
                tell(part) == <<row, b.column, part>>
            IN  Current(i) =>
                    IF <<row, b.column>> \in NullCell
                    THEN Holds(at(b.length), tell("null"))
                    ELSE /\ Holds(at(b.length), tell("length"))
                         /\ b.kind = "fits" => Holds(at(b.value), tell("value"))

\* The rows of a successful fetch are found where the fields of the statement say.
RowsInPlace == RowsAt(attr.offset, attr.rowSize)

\* Whatever fails, each row is written at its places only, and no value into a buffer that is
\* too small for it.  (A null pointer is a place like others once an offset is added to it.)
StoredInPlaces ==
    \A w \in stored : \E r \in 0 .. Want - 1, i \in 1 .. Len(binds) :
        /\ w.what[1] = call.from + r + 1 /\ w.what[2] = binds[i].column
        /\ w.at = (IF w.what[3] = "value" THEN binds[i].value ELSE binds[i].length)
                     + attr.offset + r * attr.rowSize
        /\ w.what[3] = "value" => binds[i].kind = "fits"

\* With one column the status entries written are those of the array of the rowset.
StatusInArray == Len(binds) <= 1 => DOMAIN status \subseteq 0 .. attr.size - 1

\* With SQL_SUCCESS the entries of the rowset tell which rows there are.
StatusesTell ==
    Done("SQL_SUCCESS") /\ call.kind # "fetch" /\ call.n > 0 /\ binds # <<>> =>
        \A i \in 0 .. attr.size - 1 :
            i \in DOMAIN status /\ (status[i] = "SQL_ROW_SUCCESS" <=> i < call.n)

\* The count told with SQL_SUCCESS is by how much the cursor has moved, and it is short of the
\* rowset only at the end of the result: an application that sees it short may stop.
CountIsHonest ==
    Done("SQL_SUCCESS") /\ call.kind # "fetch" =>
        /\ counted = cursor.pos - call.from
        /\ counted < attr.size => cursor.pos = cursor.rows

\* Fetching a rowset is one step to the application, which writes the rowset and nothing else.
Promise == INSTANCE Rowsets WITH
    cursor <- IF code = "busy" THEN [cursor EXCEPT !.pos = call.from] ELSE cursor,
    layout <- [binds |-> binds, offset |-> attr.offset, rowSize |-> attr.rowSize, size |-> attr.size],
    placed <- IF code = "busy" THEN {} ELSE {<<w.at, w.what>> : w \in stored}

Implements == Promise!Spec

-----------------------------------------------------------------------------
(* An application with some settings that fetches until it is told to stop.*)

Bindable ==
    {[column |-> c, kind |-> k, value |-> p.value, length |-> p.length] :
        c \in Column, k \in Kinds, p \in Place}

DrainInit ==
    /\ cursor \in Position /\ cursor.pos = 0
    /\ \E n \in 0 .. MaxBound : binds \in [1 .. n -> Bindable]
    /\ attr \in [offset : Offset, rowSize : RowSize, size : Size, status : Pointer, rowsFetched : Pointer]
    /\ step = "idle"
    /\ call = [kind |-> "fetch", from |-> 0, n |-> 0, row |-> 0, param |-> 1]
    /\ stored = {} /\ status = Empty /\ counted = Null
    /\ code = Null
    /\ asked = [offset |-> attr.offset, rowSize |-> attr.rowSize]

Drain ==
    \/ code \in {Null, "SQL_SUCCESS"} /\ (Fetch \/ FetchScroll)
    \/ Proceed

\* It calls again whenever it can, and every call goes on.
DrainSpec == DrainInit /\ [][Drain]_vars /\ WF_vars(Drain)

\* What is left: rows of the result; steps to the next rowset, or to the end; rows and bindings
\* of the rowset that is being written.
Rest ==
    <<cursor.rows - cursor.pos,
      CASE step = "count" -> 5
        [] step = "mark" -> 4
        [] step = "entries" -> 3
        [] step = "idle" /\ code \in {Null, "SQL_SUCCESS"} -> 2
        [] step = "java" -> 1
        [] OTHER -> 0,
      call.n - call.row,
      Len(binds) + 1 - call.param>>

Less(a, b) == \E k \in 1 .. 4 : a[k] < b[k] /\ \A j \in 1 .. k - 1 : a[j] = b[j]

\* No step is for nothing: each leaves less rows, or as many and less to do for the rowset.
EachStepCounts == [][attr.size > 0 => Rest' \in [1 .. 4 -> Nat] /\ Less(Rest', Rest)]_vars

\* It comes to an end, with SQL_NO_DATA or a failure; but a rowset of no rows is delivered for
\* ever, and no rows is what the size is until it is set.
DrainEnds == attr.size > 0 => <>(code \notin {Null, "busy", "SQL_SUCCESS"})

-----------------------------------------------------------------------------
(* What a comment of the code says, and the code does not do.               *)

\* OdbcStatement.java: bindDataOffset is SQL_ATTR_ROW_BIND_OFFSET_PTR, and bindDataRowSize is
\* SQL_ATTR_ROW_BIND_TYPE.
FieldsAreRowAttributes == asked = [offset |-> attr.offset, rowSize |-> attr.rowSize]

\* The attributes of parameters are the only cause: for an application that never sets them the
\* comments are true, and the rows are found where the application has asked for them.
RowsOnly ==
    \/ Execute
    \/ RowSettings
    \/ \E statuses \in Pointer : ExtendedFetchFails(statuses)
    \/ Begins
    \/ Proceed
    \/ Crashed

NeverSetsParams == Init /\ [][RowsOnly]_vars

RowsWhereAsked == RowsAt(asked.offset, asked.rowSize)
=============================================================================
