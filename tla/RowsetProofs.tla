---------------------------- MODULE RowsetProofs ----------------------------
(***************************************************************************)
(* Proofs about Rowset, for any columns, addresses, offsets and sizes.     *)
(*                                                                         *)
(* The loop of C++ goes through the slots row by row.  Its invariant is    *)
(* that the slots before the present one, and no others, have been         *)
(* written, and that the statuses of the rows before have been set.        *)
(***************************************************************************)
EXTENDS Rowset, TLAPS

(* Arithmetic of slots.                                                    *)

LEMMA ProductNat == ASSUME NEW a \in Nat, NEW b \in Nat PROVE a * b \in Nat
  OBVIOUS

LEMMA SumNat == \A a, b, c \in Nat : a + b \in Nat /\ a + b + c \in Nat
  OBVIOUS

LEMMA ProductGrows ==
  ASSUME NEW a \in Nat, NEW b \in Nat, a >= 1
  PROVE  a * b >= b
<1>1. a * b = b + (a - 1) * b
  OBVIOUS
<1>2. (a - 1) * b \in Nat
  BY ProductNat
<1> QED BY <1>1, <1>2

\* The slots of an earlier row come before those of a later one.
LEMMA SlotsInOrder ==
  ASSUME NEW n \in Nat, NEW r \in Nat, NEW s \in Nat, NEW i \in 1 .. n, NEW j \in 1 .. n, r < s
  PROVE  r * n + i < s * n + j
<1>1. s * n = r * n + (s - r) * n
  OBVIOUS
<1>2. (s - r) * n >= n
  BY ProductGrows
<1>3. r * n \in Nat /\ s * n \in Nat /\ (s - r) * n \in Nat
  BY ProductNat
<1> QED BY <1>1, <1>2, <1>3

LEMMA SlotsDiffer ==
  ASSUME NEW n \in Nat, NEW r \in Nat, NEW s \in Nat, NEW i \in 1 .. n, NEW j \in 1 .. n,
         r * n + i = s * n + j
  PROVE  r = s /\ i = j
<1>1. ~(r < s)
  BY SlotsInOrder
<1>2. ~(s < r)
  BY SlotsInOrder
<1>3. r = s
  BY <1>1, <1>2
<1>4. r * n \in Nat
  BY ProductNat
<1> QED BY <1>3, <1>4

-----------------------------------------------------------------------------
(* Types.                                                                  *)

USE BoundAssumption, AddressAssumption, NullAssumption, KindAssumption

\* What the parts of a fetch need to know of each other.
Fetching == step \in {"java", "count", "mark", "entries"}

Control ==
    /\ (code = "busy") <=> Fetching
    /\ (code = "crashed") <=> (step = "crashed")
    /\ step = "java" => call.from = cursor.pos
    /\ step \in {"java", "count", "mark"} => call.row = 0 /\ call.param = 1 /\ stored = {}
    /\ step \in {"java", "count", "mark"} => status = Empty
    /\ step \in {"count", "mark"} => call.kind # "fetch"
    /\ step \in {"mark", "entries"} => call.n > 0 /\ Len(binds) > 0
    /\ step = "entries" => call.row < call.n /\ call.param <= Len(binds)
    /\ step \in {"count", "mark", "entries"} \/ Done("SQL_SUCCESS") =>
           /\ call.n <= Want
           /\ Want > 0 => call.n > 0
           /\ cursor.pos = call.from + call.n
           /\ call.n < Want => cursor.pos = cursor.rows
    /\ (step \in {"mark", "entries"} \/ Done("SQL_SUCCESS")) /\ call.kind # "fetch" => counted = call.n

\* An empty fetch to start from.
LEMMA InitTypes == Init => TypeOK /\ Control
<1> SUFFICES ASSUME Init PROVE TypeOK /\ Control
  OBVIOUS
<1>1. TypeOK
  BY DEF Init, TypeOK, Position, Empty, NULL
<1>2. Control
  BY DEF Init, Control, Fetching, Done
<1> QED BY <1>1, <1>2

\* Calls other than fetches.
LEMMA QuietTypes ==
  ASSUME TypeOK, NEW a \in {Null, "SQL_ERROR"}, Quiet(a)
  PROVE  /\ step' = "idle" /\ call' = call /\ call' \in [kind : {"fetch", "scroll", "extended"},
                 from : 0 .. MaxRows, n : 0 .. MaxRows, row : 0 .. MaxRows, param : 1 .. MaxBound + 1]
         /\ stored' = {} /\ status' = Empty /\ counted' = Null /\ code' = a
         /\ Control'
<1>1. step' = "idle" /\ code' \in {Null, "SQL_ERROR"}
  BY DEF Quiet
<1>2. Control'
  BY <1>1 DEF Control, Fetching, Done
<1> QED BY <1>1, <1>2 DEF Quiet, TypeOK

LEMMA SettingTypes ==
  ASSUME TypeOK, Execute \/ Settings \/ \E p \in Pointer : ExtendedFetchFails(p)
  PROVE  TypeOK' /\ Control'
<1> DEFINE Attr == [offset : Offset, rowSize : RowSize, size : Size, status : Pointer, rowsFetched : Pointer]
           Asked == [offset : Offset, rowSize : RowSize]
<1>1. \E a \in {Null, "SQL_ERROR"} : Quiet(a)
  BY DEF Execute, Settings, RowSettings, ParamSettings, BindCol, Unbind, SetForRows, SetForParams, SetSize, SetPointer, ExtendedFetchFails
<1>2. Control'
  BY <1>1, QuietTypes
<1>3. /\ step' = "idle" /\ stored' = {} /\ status' = Empty /\ counted' = Null
      /\ call' \in [kind : {"fetch", "scroll", "extended"}, from : 0 .. MaxRows, n : 0 .. MaxRows,
                     row : 0 .. MaxRows, param : 1 .. MaxBound + 1]
      /\ code' \in {Null, "SQL_ERROR"}
  BY <1>1, QuietTypes
<1>4. DOMAIN status' = {}
  BY <1>3 DEF Empty
<1>5. cursor' \in Position
  BY DEF TypeOK, Execute, Settings, RowSettings, ParamSettings, BindCol, Unbind, SetForRows, SetForParams, SetSize, SetPointer, ExtendedFetchFails
<1>6. binds' \in Seq(Binding) /\ Len(binds') <= MaxBound
  <2>1. ASSUME NEW c \in Column, NEW k \in Kinds, NEW p \in Place, BindCol(c, k, p)
        PROVE  binds' \in Seq(Binding) /\ Len(binds') <= MaxBound
    <3>1. p.value \in Address \cup {NULL} /\ p.length \in Address \cup {NULL}
      OBVIOUS
    <3>2. [column |-> c, kind |-> k, value |-> p.value, length |-> p.length] \in Binding
      BY <3>1 DEF Binding
    <3>3. binds \in Seq(Binding) /\ Len(binds) \in Nat /\ Len(binds) < MaxBound
      BY <2>1 DEF TypeOK, BindCol
    <3>4. binds' = Append(binds, [column |-> c, kind |-> k, value |-> p.value, length |-> p.length])
      BY <2>1 DEF BindCol
    <3> HIDE DEF Binding
    <3> QED BY <3>2, <3>3, <3>4
  <2>2. CASE binds' = binds
    BY <2>2 DEF TypeOK
  <2>3. CASE binds' = <<>>
    BY <2>3
  <2> QED
    BY <2>1, <2>3, <2>2 DEF Execute, Settings, RowSettings, ParamSettings, Unbind, SetForRows, SetForParams, SetSize, SetPointer, ExtendedFetchFails, driver
<1>7. attr' \in Attr /\ asked' \in Asked
  <2> attr \in Attr /\ asked \in Asked
    BY DEF TypeOK
  <2>1. CASE Execute \/ Unbind \/ \E c \in Column, k \in Kinds, p \in Place : BindCol(c, k, p)
    BY <2>1 DEF Execute, Unbind, BindCol, driver
  <2>2. CASE \E v \in Offset : SetForRows("offset", v) \/ SetForParams("offset", v)
    <3>1. \E v \in Offset : attr' = [attr EXCEPT !.offset = v] /\ asked' \in {asked, [asked EXCEPT !.offset = v]}
      BY <2>2 DEF SetForRows, SetForParams
    <3> QED BY <3>1
  <2>3. CASE \E v \in RowSize : SetForRows("rowSize", v) \/ SetForParams("rowSize", v)
    <3>1. \E v \in RowSize : attr' = [attr EXCEPT !.rowSize = v] /\ asked' \in {asked, [asked EXCEPT !.rowSize = v]}
      BY <2>3 DEF SetForRows, SetForParams
    <3> QED BY <3>1
  <2>4. CASE \E n \in Size : SetSize(n)
    BY <2>4 DEF SetSize
  <2>5. CASE \E f \in {"status", "rowsFetched"}, p \in Pointer : SetPointer(f, p)
    BY <2>5 DEF SetPointer
  <2>6. CASE \E p \in Pointer : ExtendedFetchFails(p)
    BY <2>6 DEF ExtendedFetchFails
  <2> QED BY <2>1, <2>2, <2>3, <2>4, <2>5, <2>6 DEF Settings, RowSettings, ParamSettings
<1>8. TypeOK'
  BY <1>3, <1>4, <1>5, <1>6, <1>7 DEF TypeOK
<1> QED BY <1>2, <1>8

LEMMA BeginTypes ==
  ASSUME TypeOK, Control, Begins
  PROVE  TypeOK' /\ Control'
<1>1. PICK kind \in {"fetch", "scroll", "extended"} : Begin(kind)
  BY DEF Begins, Fetch, FetchScroll, ExtendedFetch
<1>2. attr' \in [offset : Offset, rowSize : RowSize, size : Size, status : Pointer, rowsFetched : Pointer]
  BY DEF TypeOK, Begins, Fetch, FetchScroll, ExtendedFetch
<1>3. /\ step' = "java" /\ code' = "busy" /\ cursor' = cursor
      /\ stored' = {} /\ status' = Empty /\ counted' = Null /\ DOMAIN status' = {}
      /\ call' = [kind |-> kind, from |-> cursor.pos, n |-> 0, row |-> 0, param |-> 1]
  BY <1>1 DEF Begin, Empty
<1>4. call' \in [kind : {"fetch", "scroll", "extended"}, from : 0 .. MaxRows, n : 0 .. MaxRows,
                 row : 0 .. MaxRows, param : 1 .. MaxBound + 1]
  BY <1>3 DEF TypeOK, Position
<1>5. TypeOK'
  BY <1>1, <1>2, <1>3, <1>4 DEF TypeOK, Begin
<1>6. Control'
  BY <1>3 DEF Control, Fetching, Done
<1> QED BY <1>5, <1>6

-----------------------------------------------------------------------------
(* The part in Java.                                                       *)

LEMMA RowsBounds ==
  ASSUME TypeOK
  PROVE  /\ Want \in Nat /\ Rows \in Nat /\ Rows <= Want /\ cursor.pos + Rows <= cursor.rows
         /\ Rows < Want => cursor.pos + Rows = cursor.rows
         /\ Rows \in 0 .. MaxRows
<1>1. cursor.pos \in 0 .. MaxRows /\ cursor.rows \in 0 .. MaxRows /\ cursor.pos <= cursor.rows
  BY DEF TypeOK, Position
<1>2. Want \in Nat
  BY DEF TypeOK, Want
<1> QED BY <1>1, <1>2 DEF Rows

LEMMA ReadOnTypes ==
  ASSUME TypeOK, NEW k \in 0 .. Rows, ReadOn(k)
  PROVE  cursor' \in Position /\ cursor'.pos = cursor.pos + k /\ cursor'.rows = cursor.rows
<1>1. k \in Nat /\ cursor.pos + k <= cursor.rows
  BY RowsBounds DEF TypeOK, Position
<1>2. cursor.pos \in Nat /\ cursor.rows \in 0 .. MaxRows /\ cursor.pos + k \in 0 .. MaxRows
  BY <1>1 DEF TypeOK, Position
<1>3. cursor \in [rows : 0 .. MaxRows, pos : 0 .. MaxRows] /\ cursor' = [cursor EXCEPT !.pos = @ + k]
  BY DEF TypeOK, Position, ReadOn
<1>4. cursor' = [rows |-> cursor.rows, pos |-> cursor.pos + k]
  BY <1>3
<1> QED BY <1>1, <1>2, <1>4 DEF Position

LEMMA JavaTypes ==
  ASSUME TypeOK, Control, JavaEnds \/ JavaReads \/ JavaFails
  PROVE  TypeOK' /\ Control'
<1>0. step = "java" /\ code = "busy" /\ call.from = cursor.pos /\ stored = {} /\ status = Empty
      /\ call.row = 0 /\ call.param = 1
  BY DEF Control, Fetching, JavaEnds, JavaReads, JavaFails
<1>1. CASE JavaEnds
  <2>1. TypeOK'
    BY <1>1 DEF JavaEnds, Answer, TypeOK, driver, told
  <2>2. Control'
    BY <1>0, <1>1 DEF JavaEnds, Answer, Control, Fetching, Done
  <2> QED BY <2>1, <2>2
<1>2. CASE JavaFails
  <2>1. PICK k \in 0 .. Rows : ReadOn(k)
    BY <1>2 DEF JavaFails
  <2>2. TypeOK'
    BY <1>2, <2>1, ReadOnTypes DEF JavaFails, Answer, TypeOK, driver, told
  <2>3. Control'
    BY <1>0, <1>2 DEF JavaFails, Answer, Control, Fetching, Done
  <2> QED BY <2>2, <2>3
<1>3. CASE JavaReads
  <2>1. cursor' \in Position /\ cursor'.pos = cursor.pos + Rows /\ cursor'.rows = cursor.rows
    BY <1>3, RowsBounds, ReadOnTypes DEF JavaReads
  <2>2. /\ call' = [call EXCEPT !.n = Rows]
        /\ (Want > 0 => Rows > 0) /\ UNCHANGED <<binds, attr, stored, status, counted, asked>>
        /\ \/ call.kind # "fetch" /\ step' = "count" /\ code' = "busy"
           \/ call.kind = "fetch" /\ binds = <<>> /\ step' = "idle" /\ code' = "SQL_SUCCESS"
           \/ call.kind = "fetch" /\ binds # <<>> /\ step' = "entries" /\ code' = "busy"
    BY <1>0, <1>3 DEF JavaReads, Answer, driver, told
  <2>3. call' \in [kind : {"fetch", "scroll", "extended"}, from : 0 .. MaxRows, n : 0 .. MaxRows,
                 row : 0 .. MaxRows, param : 1 .. MaxBound + 1]
    BY <2>2, RowsBounds DEF TypeOK
  <2>4. TypeOK'
    BY <2>1, <2>2, <2>3 DEF TypeOK
  <2>5. /\ call'.n = Rows /\ call'.kind = call.kind /\ call'.from = call.from
        /\ call'.row = 0 /\ call'.param = 1 /\ Want' = Want
    BY <1>0, <2>2 DEF TypeOK, Want
  <2>6. binds # <<>> => Len(binds) > 0
    BY DEF TypeOK
  <2>7. call.kind = "fetch" => Want = 1
    BY DEF Want
  <2>8. Control'
    BY <1>0, <2>1, <2>2, <2>5, <2>6, <2>7, RowsBounds DEF Control, Fetching, Done
  <2> QED BY <2>4, <2>8
<1> QED BY <1>1, <1>2, <1>3
-----------------------------------------------------------------------------
(* The part in C++.                                                        *)

LEMMA SlotTypes ==
  ASSUME TypeOK, NEW r \in Nat, NEW i \in 1 .. Len(binds)
  PROVE  /\ Slot(r, i).slot = r * Len(binds) + i /\ Slot(r, i).slot \in Nat
         /\ Slot(r, i).value = binds[i].value + attr.offset + r * attr.rowSize
         /\ Slot(r, i).length = binds[i].length + attr.offset + r * attr.rowSize
         /\ Slot(r, i).value \in Nat /\ Slot(r, i).length \in Nat
         /\ Slot(r, i).cell = <<call.from + r + 1, binds[i].column>>
         /\ Slot(r, i).kind = binds[i].kind
         /\ binds[i] \in Binding
<1>1. binds[i] \in Binding /\ Len(binds) \in Nat
  BY DEF TypeOK
<1>2. binds[i].value \in Nat /\ binds[i].length \in Nat
  BY <1>1 DEF Binding, NULL
<1>3. attr.offset \in Nat /\ attr.rowSize \in Nat
  BY DEF TypeOK
<1>4. r * attr.rowSize \in Nat /\ r * Len(binds) \in Nat
  BY <1>1, <1>3, ProductNat
<1>5. /\ binds[i].value + attr.offset + r * attr.rowSize \in Nat
      /\ binds[i].length + attr.offset + r * attr.rowSize \in Nat
  BY ONLY <1>2, <1>3, <1>4, SumNat
<1>6. r * Len(binds) + i \in Nat
  <2>1. i \in Nat
    BY <1>1
  <2> QED BY <1>4, <2>1, SumNat
<1> QED BY <1>1, <1>5, <1>6 DEF Slot

\* The slot that is read from the array is that of the present row and binding.
LEMMA SlotRead ==
  ASSUME TypeOK, Control, step = "entries",
         NEW e \in Slots, e.slot = call.row * Len(binds) + call.param
  PROVE  e = Slot(call.row, call.param)
<1>1. \E ri \in (0 .. call.n - 1) \X (1 .. Len(binds)) : e = Slot(ri[1], ri[2])
  BY DEF Slots
<1>2. PICK r \in Nat, i \in 1 .. Len(binds) : e = Slot(r, i)
  BY <1>1
<1>3. Len(binds) \in Nat /\ call.row \in Nat /\ call.param \in 1 .. Len(binds)
  BY DEF TypeOK, Control
<1>4. r * Len(binds) + i = call.row * Len(binds) + call.param
  BY <1>2, SlotTypes
<1> DEFINE n == Len(binds)  s == call.row  j == call.param
<1>5. n \in Nat /\ r \in Nat /\ s \in Nat /\ i \in 1 .. n /\ j \in 1 .. n /\ r * n + i = s * n + j
  BY <1>2, <1>3, <1>4
<1> HIDE DEF n, s, j
<1>6. r = s /\ i = j
  BY ONLY <1>5, SlotsDiffer
<1> QED BY <1>2, <1>6 DEF s, j

LEMMA WrittenTypes ==
  ASSUME TypeOK, NEW r \in Nat, NEW i \in 1 .. Len(binds), call.from + r + 1 <= MaxRows
  PROVE  Written(Slot(r, i)) \subseteq [slot : Nat, at : Nat, what : (1 .. MaxRows) \X Column \X Part]
<1> DEFINE e == Slot(r, i)
<1>1. call.from + r + 1 \in 1 .. MaxRows
  BY DEF TypeOK
<1>2. binds[i].column \in Column
  BY SlotTypes DEF Binding
<1>7. e.cell = <<call.from + r + 1, binds[i].column>> /\ e.slot \in Nat /\ e.value \in Nat /\ e.length \in Nat
  BY SlotTypes
<1>8. Written(Slot(r, i)) = Written(e)
  OBVIOUS
<1> HIDE DEF e
<1>3. e.slot \in Nat /\ e.value \in Nat /\ e.length \in Nat /\ e.cell[1] \in 1 .. MaxRows /\ e.cell[2] \in Column
  BY <1>1, <1>2, <1>7
<1>4. \A at \in Nat, part \in Part :
          Store(e, at, part) \in [slot : Nat, at : Nat, what : (1 .. MaxRows) \X Column \X Part]
  BY <1>3 DEF Store
<1>5. Written(e) \subseteq {Store(e, e.length, "null"), Store(e, e.length, "length"), Store(e, e.value, "value")}
  BY DEF Written
<1>6. "null" \in Part /\ "length" \in Part /\ "value" \in Part
  BY DEF Part
<1>9. Written(e) \subseteq [slot : Nat, at : Nat, what : (1 .. MaxRows) \X Column \X Part]
  <2>1. /\ Store(e, e.length, "null") \in [slot : Nat, at : Nat, what : (1 .. MaxRows) \X Column \X Part]
        /\ Store(e, e.length, "length") \in [slot : Nat, at : Nat, what : (1 .. MaxRows) \X Column \X Part]
        /\ Store(e, e.value, "value") \in [slot : Nat, at : Nat, what : (1 .. MaxRows) \X Column \X Part]
    BY <1>3, <1>4, <1>6, Zenon
  <2> QED BY <1>5, <2>1, Zenon
<1> QED BY <1>8, <1>9

LEMMA CountTypes ==
  ASSUME TypeOK, Control, WriteCount
  PROVE  TypeOK' /\ Control'
<1>1. step = "count" /\ UNCHANGED <<cursor, binds, attr, call, stored, status, asked>> /\ Want' = Want
  BY DEF WriteCount, driver, Want
<1>2. \/ step' = "crashed" /\ code' = "crashed" /\ counted' = counted
      \/ step' = "idle" /\ code' = "SQL_SUCCESS" /\ counted' = call.n
      \/ step' = "mark" /\ code' = "busy" /\ counted' = call.n /\ call.n # 0 /\ binds # <<>>
  BY DEF WriteCount, Answer, Control, Fetching
<1>3. call.n \in 0 .. MaxRows
  BY DEF TypeOK
<1>4. TypeOK'
  BY <1>1, <1>2, <1>3 DEF TypeOK
<1>5. binds # <<>> => Len(binds) > 0
  BY DEF TypeOK
<1>6. Control'
  BY <1>1, <1>2, <1>3, <1>5 DEF Control, Fetching, Done
<1> QED BY <1>4, <1>6

LEMMA MarkedBounds ==
  ASSUME TypeOK
  PROVE  /\ Len(binds) * attr.size \in Nat
         /\ Len(binds) > 0 => 0 .. attr.size - 1 \subseteq MarkedEntries
         /\ Len(binds) <= 1 => MarkedEntries \subseteq 0 .. attr.size - 1
<1>1. Len(binds) \in Nat /\ attr.size \in Nat
  <2>1. binds \in Seq(Binding)
    BY DEF TypeOK
  <2>2. attr.size \in Nat
    BY DEF TypeOK
  <2> HIDE DEF Binding
  <2> QED BY <2>1, <2>2
<1>2. Len(binds) * attr.size \in Nat
  BY <1>1, ProductNat
<1>3. Len(binds) > 0 => Len(binds) * attr.size >= attr.size
  BY <1>1, ProductGrows
<1>4. Len(binds) <= 1 => Len(binds) * attr.size <= attr.size
  <2>1. CASE Len(binds) = 0
    BY <1>1, <2>1
  <2>2. CASE Len(binds) = 1
    BY <1>1, <2>2
  <2> QED BY <1>1, <2>1, <2>2
<1> QED BY <1>1, <1>2, <1>3, <1>4 DEF MarkedEntries

LEMMA MarkTypes ==
  ASSUME TypeOK, Control, Mark
  PROVE  TypeOK' /\ Control'
<1>1. step = "mark" /\ UNCHANGED <<cursor, binds, attr, call, stored, counted, asked>> /\ Want' = Want
  BY DEF Mark, driver, Want
<1>2. \/ step' = "crashed" /\ code' = "crashed" /\ status' = status
      \/ step' = "entries" /\ code' = "busy" /\ status' = [i \in MarkedEntries |-> "SQL_ROW_NOROW"]
  BY DEF Mark, Answer, Control, Fetching
<1>3. DOMAIN status' \subseteq Nat /\ \A i \in DOMAIN status' : status'[i] \in {"SQL_ROW_NOROW", "SQL_ROW_SUCCESS"}
  <2>1. MarkedEntries \subseteq Nat
    BY MarkedBounds DEF MarkedEntries
  <2> QED BY <1>2, <2>1 DEF TypeOK
<1>4. TypeOK'
  BY <1>1, <1>2, <1>3 DEF TypeOK
<1>5. Control'
  BY <1>1, <1>2 DEF Control, Fetching, Done, TypeOK
<1> QED BY <1>4, <1>5

\* What WriteEntry does, with the slot it reads.
Entry(e) ==
    /\ UNCHANGED <<cursor, binds, attr, counted, asked>>
    /\ stored' = stored \cup Written(e)
    /\ \/ Crashes(e) /\ step' = "crashed" /\ code' = "crashed" /\ call' = call
       \/ ~Crashes(e) /\ Escapes(e) /\ step' = "idle" /\ code' = "exception" /\ call' = call
       \/ /\ ~Crashes(e) /\ ~Escapes(e)
          /\ \/ /\ call.param < Len(binds)
                /\ step' = "entries" /\ code' = "busy" /\ call' = [call EXCEPT !.param = call.param + 1]
             \/ /\ call.param = Len(binds) /\ call.row < call.n - 1
                /\ step' = "entries" /\ code' = "busy"
                /\ call' = [call EXCEPT !.row = call.row + 1, !.param = 1]
             \/ /\ call.param = Len(binds) /\ call.row = call.n - 1
                /\ step' = "idle" /\ code' = "SQL_SUCCESS" /\ call' = call

LEMMA EntryStep ==
  ASSUME TypeOK, Control, WriteEntry
  PROVE  Entry(Slot(call.row, call.param)) /\ step = "entries" /\ code = "busy"
<1>1. step = "entries" /\ code = "busy"
  BY DEF WriteEntry, Control, Fetching
<1>2. PICK e \in Slots :
          /\ e.slot = call.row * Len(binds) + call.param
          /\ stored' = stored \cup Written(e)
          /\ CASE Crashes(e) -> Answer("crashed") /\ UNCHANGED call
               [] ~Crashes(e) /\ Escapes(e) -> Answer("exception") /\ UNCHANGED call
               [] OTHER -> Advance
  BY DEF WriteEntry
<1>3. e = Slot(call.row, call.param)
  BY <1>1, <1>2, SlotRead
<1>4. call.row \in Nat /\ call.n \in Nat /\ call.param \in Nat /\ Len(binds) \in Nat
      /\ call.row < call.n /\ call.param <= Len(binds)
  BY <1>1 DEF TypeOK, Control
<1>8. UNCHANGED <<cursor, binds, attr, counted, asked>>
  BY DEF WriteEntry, driver
<1>9. /\ Crashes(e) => Answer("crashed") /\ UNCHANGED call
      /\ ~Crashes(e) /\ Escapes(e) => Answer("exception") /\ UNCHANGED call
      /\ ~Crashes(e) /\ ~Escapes(e) => Advance
  BY ONLY <1>2
<1>5. ASSUME Crashes(e) PROVE Entry(e)
  <2>1. Answer("crashed") /\ call' = call /\ stored' = stored \cup Written(e)
    BY <1>2, <1>5, <1>9, Zenon
  <2>2. step' = "crashed" /\ code' = "crashed"
    BY <2>1 DEF Answer
  <2> QED BY <1>5, <1>8, <2>1, <2>2, Zenon DEF Entry
<1>6. ASSUME ~Crashes(e) /\ Escapes(e) PROVE Entry(e)
  <2>1. Answer("exception") /\ call' = call /\ stored' = stored \cup Written(e)
    BY <1>2, <1>6, <1>9, Zenon
  <2>2. step' = "idle" /\ code' = "exception"
    BY <2>1 DEF Answer
  <2> QED BY <1>6, <1>8, <2>1, <2>2, Zenon DEF Entry
<1>7. ASSUME ~Crashes(e) /\ ~Escapes(e) PROVE Entry(e)
  <2>1. Advance
    BY <1>7, <1>9
  <2>2. \/ /\ call.param < Len(binds)
           /\ step' = "entries" /\ code' = "busy" /\ call' = [call EXCEPT !.param = call.param + 1]
        \/ /\ call.param = Len(binds) /\ call.row < call.n - 1
           /\ step' = "entries" /\ code' = "busy"
           /\ call' = [call EXCEPT !.row = call.row + 1, !.param = 1]
        \/ /\ call.param = Len(binds) /\ call.row = call.n - 1
           /\ step' = "idle" /\ code' = "SQL_SUCCESS" /\ call' = call
    BY <1>1, <1>4, <2>1 DEF Advance, Answer
  <2>3. stored' = stored \cup Written(e)
    BY <1>2, Zenon
  <2> QED BY <1>7, <1>8, <2>2, <2>3, Zenon DEF Entry
<1>10. Entry(e)
  BY <1>5, <1>6, <1>7
<1> QED BY <1>1, <1>3, <1>10

LEMMA EntryTypes ==
  ASSUME TypeOK, Control, WriteEntry
  PROVE  TypeOK' /\ Control'
<1> DEFINE Calls == [kind : {"fetch", "scroll", "extended"}, from : 0 .. MaxRows, n : 0 .. MaxRows,
                     row : 0 .. MaxRows, param : 1 .. MaxBound + 1]
<1>1. Entry(Slot(call.row, call.param)) /\ step = "entries" /\ code = "busy"
  BY EntryStep
<1>2. call \in Calls /\ Len(binds) \in Nat /\ Len(binds) <= MaxBound /\ call.row < call.n /\ call.param <= Len(binds)
  BY <1>1 DEF TypeOK, Control
<1>11. \/ call' = call
       \/ call.param < Len(binds) /\ call' = [call EXCEPT !.param = call.param + 1]
       \/ call.row < call.n - 1 /\ call' = [call EXCEPT !.row = call.row + 1, !.param = 1]
  BY <1>1 DEF Entry
<1>3. call' \in Calls
  <2>1. ASSUME call.param < Len(binds) PROVE call.param + 1 \in 1 .. MaxBound + 1
    BY <1>2, <2>1
  <2>2. ASSUME call.row < call.n - 1 PROVE call.row + 1 \in 0 .. MaxRows
    BY <1>2, <2>2
  <2>3. 1 \in 1 .. MaxBound + 1
    OBVIOUS
  <2> QED BY <1>2, <1>11, <2>1, <2>2, <2>3
<1>4. call'.kind = call.kind /\ call'.from = call.from /\ call'.n = call.n /\ Want' = Want
  BY <1>1, <1>2, <1>11 DEF Entry, Want
<1>5. call.from + call.row + 1 <= MaxRows
  BY <1>1, <1>2 DEF TypeOK, Position, Control
<1>6. stored' \subseteq [slot : Nat, at : Nat, what : (1 .. MaxRows) \X Column \X Part]
  <2>1. call.row \in Nat /\ call.param \in 1 .. Len(binds)
    BY <1>2
  <2> QED BY <1>1, <1>5, <2>1, WrittenTypes DEF Entry, TypeOK
<1>7. DOMAIN status' = DOMAIN status
      /\ \A i \in DOMAIN status' : status'[i] \in {"SQL_ROW_NOROW", "SQL_ROW_SUCCESS"}
  BY DEF WriteEntry, ReportRow, TypeOK
<1>8. step' \in {"idle", "entries", "crashed"} /\ code' \in {"busy", "SQL_SUCCESS", "exception", "crashed"}
      /\ UNCHANGED <<cursor, binds, attr, counted, asked>>
  BY <1>1 DEF Entry
<1>9. TypeOK'
  BY <1>3, <1>6, <1>7, <1>8 DEF TypeOK
<1>12. \/ step' = "crashed" /\ code' = "crashed"
       \/ step' = "idle" /\ code' = "exception"
       \/ /\ step' = "entries" /\ code' = "busy" /\ call'.row < call'.n /\ call'.param <= Len(binds)
       \/ step' = "idle" /\ code' = "SQL_SUCCESS"
  <2>1. ASSUME step' = "entries", code' = "busy" PROVE call'.row < call'.n /\ call'.param <= Len(binds)
    <3>1. \/ call.param < Len(binds) /\ call' = [call EXCEPT !.param = call.param + 1]
          \/ call.row < call.n - 1 /\ call' = [call EXCEPT !.row = call.row + 1, !.param = 1]
      BY <1>1, <2>1 DEF Entry
    <3>2. call.row \in Nat /\ call.param \in Nat /\ call.n \in Nat /\ 1 <= Len(binds)
      BY <1>2
    <3>3. CASE call.param < Len(binds) /\ call' = [call EXCEPT !.param = call.param + 1]
      <4>1. call'.param = call.param + 1 /\ call'.row = call.row /\ call'.n = call.n
        BY ONLY <1>2, <3>3
      <4> QED BY <1>2, <3>2, <3>3, <4>1
    <3>4. CASE call.row < call.n - 1 /\ call' = [call EXCEPT !.row = call.row + 1, !.param = 1]
      <4>1. call'.param = 1 /\ call'.row = call.row + 1 /\ call'.n = call.n
        BY ONLY <1>2, <3>4
      <4> QED BY <1>2, <3>2, <3>4, <4>1
    <3> QED BY <3>1, <3>3, <3>4
  <2>2. \/ step' = "crashed" /\ code' = "crashed"
        \/ step' = "idle" /\ code' = "exception"
        \/ step' = "entries" /\ code' = "busy"
        \/ step' = "idle" /\ code' = "SQL_SUCCESS"
    BY <1>1, Zenon DEF Entry
  <2> QED BY <2>1, <2>2
<1>10. Control'
  BY <1>1, <1>4, <1>8, <1>12 DEF Control, Fetching, Done
<1> QED BY <1>9, <1>10

-----------------------------------------------------------------------------

LEMMA StutterTypes ==
  ASSUME TypeOK, Control, UNCHANGED vars
  PROVE  TypeOK' /\ Control'
<1> UNCHANGED <<cursor, binds, attr, step, call, stored, status, counted, code, asked>>
  BY DEF vars, driver, told
<1> QED BY DEF TypeOK, Control, Fetching, Done, Want

LEMMA NextTypes ==
  ASSUME TypeOK, Control, [Next]_vars
  PROVE  TypeOK' /\ Control'
BY SettingTypes, BeginTypes, JavaTypes, CountTypes, MarkTypes, EntryTypes, StutterTypes
   DEF Next, Proceed, Crashed

\* The variables keep their types, and the parts of a fetch follow each other: above all, the
\* cursor has moved by the rows that are written (OdbcStatement.fetchScroll, JStatement::fetchscroll).
THEOREM TypeCorrect == Spec => []TypeOK
<1>1. TypeOK /\ Control /\ [Next]_vars => TypeOK' /\ Control'
  BY NextTypes
<1> QED BY <1>1, InitTypes, PTL DEF Spec

\* The count that is told is by how much the cursor moved (jstatement.cpp, *pcrow = rowCount).
THEOREM CountsAreHonest == Spec => []CountIsHonest
<1>1. TypeOK /\ Control => CountIsHonest
  <2> SUFFICES ASSUME TypeOK, Control, Done("SQL_SUCCESS"), call.kind # "fetch" PROVE CountIsHonest
    BY DEF CountIsHonest
  <2>1. counted = call.n /\ cursor.pos = call.from + call.n /\ (call.n < Want => cursor.pos = cursor.rows)
    BY DEF Control
  <2>2. Want = attr.size /\ call.n \in Nat /\ call.from \in Nat
    BY DEF Want, TypeOK
  <2> QED BY <2>1, <2>2 DEF CountIsHonest
<1>2. TypeOK /\ Control /\ [Next]_vars => TypeOK' /\ Control'
  BY NextTypes
<1> QED BY <1>1, <1>2, InitTypes, PTL DEF Spec

-----------------------------------------------------------------------------
(* Statuses.                                                               *)

Statuses ==
    /\ DOMAIN status \subseteq MarkedEntries
    /\ step = "entries" /\ call.kind # "fetch" =>
           /\ DOMAIN status = MarkedEntries
           /\ \A i \in MarkedEntries :
                  status[i] = "SQL_ROW_SUCCESS" <=> (i < call.row \/ (i = call.row /\ call.param > 1))
    /\ Done("SQL_SUCCESS") /\ call.kind # "fetch" /\ call.n > 0 /\ binds # <<>> =>
           /\ DOMAIN status = MarkedEntries
           /\ \A i \in MarkedEntries : status[i] = "SQL_ROW_SUCCESS" <=> i < call.n

LEMMA NoStatuses ==
  ASSUME status = Empty, ~(step = "entries" /\ call.kind # "fetch"),
         Done("SQL_SUCCESS") => call.kind = "fetch" \/ call.n = 0 \/ binds = <<>>
  PROVE  Statuses
<1>1. DOMAIN status = {}
  BY DEF Empty
<1> QED BY <1>1 DEF Statuses

LEMMA EmptyPrimed ==
  ASSUME status' = Empty, ~(step' = "entries" /\ call'.kind # "fetch"),
         step' = "idle" /\ code' = "SQL_SUCCESS" => call'.kind = "fetch" \/ call'.n = 0 \/ binds' = <<>>
  PROVE  Statuses'
<1>1. DOMAIN status' = {}
  BY DEF Empty
<1> QED BY <1>1 DEF Statuses, Done

\* Before any status is written, and after the last was.
LEMMA OtherStatuses ==
  ASSUME TypeOK, Control, Statuses,
         \/ Execute \/ Settings \/ Begins \/ JavaEnds \/ JavaReads \/ JavaFails \/ WriteCount
         \/ \E p \in Pointer : ExtendedFetchFails(p)
  PROVE  Statuses'
<1>1. CASE Execute \/ Settings \/ \E p \in Pointer : ExtendedFetchFails(p)
  <2>1. PICK a \in {Null, "SQL_ERROR"} : Quiet(a)
    BY <1>1 DEF Execute, Settings, RowSettings, ParamSettings, BindCol, Unbind, SetForRows, SetForParams, SetSize, SetPointer, ExtendedFetchFails
  <2> QED BY <2>1, EmptyPrimed DEF Quiet
<1>2. CASE Begins
  <2>1. \E kind \in {"fetch", "scroll", "extended"} : Begin(kind)
    BY <1>2 DEF Begins, Fetch, FetchScroll, ExtendedFetch
  <2> QED BY <2>1, EmptyPrimed DEF Begin
<1>3. CASE JavaEnds \/ JavaFails
  <2>1. status' = Empty /\ step' = "idle" /\ code' \in {"SQL_NO_DATA", "SQL_ERROR"}
    BY <1>3 DEF JavaEnds, JavaFails, Answer, told, Control
  <2> QED BY <2>1, EmptyPrimed
<1>4. CASE JavaReads
  <2>1. status' = Empty /\ binds' = binds /\ call' = [call EXCEPT !.n = Rows]
    BY <1>4 DEF JavaReads, told, driver, Control
  <2>2. call'.kind = call.kind
    BY <2>1 DEF TypeOK
  <2>3. step' = "entries" \/ (step' = "idle" /\ code' = "SQL_SUCCESS") => call.kind = "fetch"
    BY <1>4 DEF JavaReads, Answer
  <2> QED BY <2>1, <2>2, <2>3, EmptyPrimed
<1>5. CASE WriteCount
  <2>1. status' = Empty /\ binds' = binds /\ call' = call /\ step' # "entries"
    BY <1>5 DEF WriteCount, driver, Control, Answer
  <2>2. step' = "idle" /\ code' = "SQL_SUCCESS" => call.n = 0 \/ binds = <<>>
    BY <1>5 DEF WriteCount, Answer
  <2> QED BY <2>1, <2>2, EmptyPrimed
<1> QED BY <1>1, <1>2, <1>3, <1>4, <1>5

LEMMA MarkStatuses ==
  ASSUME TypeOK, Control, Statuses, Mark
  PROVE  Statuses'
<1>1. /\ MarkedEntries' = MarkedEntries /\ call' = call /\ call.row = 0 /\ call.param = 1 /\ status = Empty
      /\ step' \in {"crashed", "entries"}
  BY DEF Mark, driver, MarkedEntries, Control, Answer
<1>2. CASE status' = status /\ step' = "crashed"
  BY <1>1, <1>2 DEF Statuses, Done
<1>3. CASE status' = [i \in MarkedEntries |-> "SQL_ROW_NOROW"] /\ step' = "entries"
  <2>1. \A i \in MarkedEntries : i \in Nat
    BY MarkedBounds DEF MarkedEntries
  <2> HIDE DEF MarkedEntries
  <2>2. DOMAIN status' = MarkedEntries /\ \A i \in MarkedEntries : status'[i] # "SQL_ROW_SUCCESS"
    BY <1>3
  <2> QED BY <1>1, <1>3, <2>1, <2>2 DEF Statuses, Done
<1> QED BY <1>2, <1>3 DEF Mark, Answer

LEMMA EntryStatuses ==
  ASSUME TypeOK, Control, Statuses, WriteEntry
  PROVE  Statuses'
<1>1. Entry(Slot(call.row, call.param)) /\ step = "entries" /\ code = "busy"
  BY EntryStep
<1>2. MarkedEntries' = MarkedEntries /\ binds' = binds
  BY <1>1, Zenon DEF MarkedEntries, Entry
<1>3. /\ call.row \in Nat /\ call.n \in Nat /\ call.param \in Nat /\ call.row < call.n /\ call.param <= Len(binds)
      /\ call.param >= 1 /\ Len(binds) \in Nat /\ Len(binds) > 0 /\ call.n <= Want
  BY <1>1 DEF TypeOK, Control
<1>4. CASE call.kind = "fetch"
  <2>1. status' = status /\ call'.kind = "fetch"
    BY <1>1, <1>4 DEF WriteEntry, ReportRow, Entry, TypeOK
  <2> QED BY <1>2, <1>4, <2>1 DEF Statuses
<1>5. CASE call.kind # "fetch"
  <2>1. /\ DOMAIN status = MarkedEntries
        /\ \A i \in MarkedEntries :
               status[i] = "SQL_ROW_SUCCESS" <=> (i < call.row \/ (i = call.row /\ call.param > 1))
    BY <1>1, <1>5 DEF Statuses
  <2>2. call.row \in MarkedEntries
    <3>1. call.row \in 0 .. attr.size - 1
      <4>1. Want = attr.size
        BY <1>5 DEF Want
      <4>2. attr.size \in Nat
        BY DEF TypeOK
      <4> QED BY <1>3, <4>1, <4>2
    <3> QED BY <1>3, <3>1, MarkedBounds
  <2>3. status' = [status EXCEPT ![call.row] = "SQL_ROW_SUCCESS"]
    BY <1>5 DEF WriteEntry, ReportRow
  <2>4. \A i \in MarkedEntries : i \in Nat
    BY MarkedBounds DEF MarkedEntries
  <2> HIDE DEF MarkedEntries
  <2>5. /\ DOMAIN status' = MarkedEntries
        /\ \A i \in MarkedEntries : status'[i] = "SQL_ROW_SUCCESS" <=> i <= call.row
    BY <1>3, <2>1, <2>2, <2>3, <2>4
  <2>6. \/ step' = "crashed"
        \/ step' = "idle" /\ code' = "exception"
        \/ step' = "entries" /\ call'.row = call.row /\ call'.param = call.param + 1
        \/ step' = "entries" /\ call'.row = call.row + 1 /\ call'.param = 1
        \/ step' = "idle" /\ code' = "SQL_SUCCESS" /\ call' = call /\ call.row = call.n - 1
    <3>1. \/ step' = "crashed"
          \/ step' = "idle" /\ code' = "exception"
          \/ step' = "entries" /\ call' = [call EXCEPT !.param = call.param + 1]
          \/ step' = "entries" /\ call' = [call EXCEPT !.row = call.row + 1, !.param = 1]
          \/ step' = "idle" /\ code' = "SQL_SUCCESS" /\ call' = call /\ call.row = call.n - 1
      BY <1>1, Zenon DEF Entry
    <3> QED BY <3>1 DEF TypeOK
  <2>7. step' = "entries" =>
            \A i \in MarkedEntries :
                status'[i] = "SQL_ROW_SUCCESS" <=> (i < call'.row \/ (i = call'.row /\ call'.param > 1))
    BY <1>3, <2>4, <2>5, <2>6
  <2>8. step' = "idle" /\ code' = "SQL_SUCCESS" =>
            \A i \in MarkedEntries : status'[i] = "SQL_ROW_SUCCESS" <=> i < call'.n
    BY <1>3, <2>4, <2>5, <2>6
  <2> QED BY <1>2, <2>5, <2>7, <2>8 DEF Statuses, Done
<1> QED BY <1>4, <1>5

LEMMA NextStatuses ==
  ASSUME TypeOK, Control, Statuses, [Next]_vars
  PROVE  Statuses'
<1>1. CASE UNCHANGED vars
  BY <1>1 DEF vars, driver, told, Statuses, Done, MarkedEntries
<1> QED BY <1>1, OtherStatuses, MarkStatuses, EntryStatuses DEF Next, Proceed, Crashed

LEMMA StatusInvariant == Spec => [](TypeOK /\ Control /\ Statuses)
<1>1. Init => TypeOK /\ Control /\ Statuses
  <2> SUFFICES ASSUME Init PROVE Statuses
    BY InitTypes
  <2> QED BY NoStatuses DEF Init, Done
<1>2. TypeOK /\ Control /\ Statuses /\ [Next]_vars => (TypeOK /\ Control /\ Statuses)'
  BY NextTypes, NextStatuses
<1> QED BY <1>1, <1>2, PTL DEF Spec

\* With one bound column no status beyond the rowset is written (jstatement.cpp, totalRows).
THEOREM StatusesInArray == Spec => []StatusInArray
<1>1. TypeOK /\ Statuses => StatusInArray
  BY MarkedBounds DEF Statuses, StatusInArray
<1> QED BY <1>1, StatusInvariant, PTL

\* After SQL_SUCCESS the statuses tell rows from no rows (jstatement.cpp, rowStatusArray).
THEOREM StatusesAreTrue == Spec => []StatusesTell
<1>1. TypeOK /\ Control /\ Statuses => StatusesTell
  <2> SUFFICES ASSUME TypeOK, Statuses, Done("SQL_SUCCESS"), call.kind # "fetch", call.n > 0, binds # <<>>,
                      NEW i \in 0 .. attr.size - 1
               PROVE  i \in DOMAIN status /\ (status[i] = "SQL_ROW_SUCCESS" <=> i < call.n)
    BY DEF StatusesTell
  <2>1. Len(binds) > 0
    BY DEF TypeOK
  <2>2. i \in MarkedEntries
    BY <2>1, MarkedBounds
  <2> QED BY <2>2 DEF Statuses
<1> QED BY <1>1, StatusInvariant, PTL

-----------------------------------------------------------------------------
(* What has been written.                                                  *)

All        == (0 .. call.n - 1) \X (1 .. Len(binds))
Before     == {ri \in All : ri[1] < call.row \/ (ri[1] = call.row /\ ri[2] < call.param)}
SlotOf(ri) == Slot(ri[1], ri[2])
WrittenFor(S) == UNION {Written(SlotOf(ri)) : ri \in S}
Sound(S)   == \A ri \in S : ~Crashes(SlotOf(ri)) /\ ~Escapes(SlotOf(ri))

Memory ==
    /\ stored \subseteq WrittenFor(All) /\ (stored # {} => call.n <= Want)
    /\ step = "entries" => stored = WrittenFor(Before) /\ Sound(Before)
    /\ Done("SQL_SUCCESS") => stored = WrittenFor(All) /\ Sound(All)

LEMMA EmptyMemory ==
  ASSUME stored' = {}, step' = "entries" => Before' = {}, step' = "idle" /\ code' = "SQL_SUCCESS" => All' = {}
  PROVE  Memory'
BY DEF Memory, WrittenFor, Sound, Done

LEMMA OtherMemory ==
  ASSUME TypeOK, Control, Memory,
         \/ Execute \/ Settings \/ Begins \/ JavaEnds \/ JavaReads \/ JavaFails \/ WriteCount
         \/ \E p \in Pointer : ExtendedFetchFails(p)
  PROVE  Memory'
<1>1. CASE Execute \/ Settings \/ \E p \in Pointer : ExtendedFetchFails(p)
  <2>1. PICK a \in {Null, "SQL_ERROR"} : Quiet(a)
    BY <1>1 DEF Execute, Settings, RowSettings, ParamSettings, BindCol, Unbind, SetForRows, SetForParams, SetSize, SetPointer, ExtendedFetchFails
  <2> QED BY <2>1, EmptyMemory DEF Quiet
<1>2. CASE Begins
  <2>1. \E kind \in {"fetch", "scroll", "extended"} : Begin(kind)
    BY <1>2 DEF Begins, Fetch, FetchScroll, ExtendedFetch
  <2> QED BY <2>1, EmptyMemory DEF Begin
<1>3. CASE JavaEnds \/ JavaFails
  <2>1. stored' = {} /\ step' = "idle" /\ code' \in {"SQL_NO_DATA", "SQL_ERROR"}
    BY <1>3 DEF JavaEnds, JavaFails, Answer, told, Control
  <2> QED BY <2>1, EmptyMemory
<1>4. CASE JavaReads
  <2>1. stored' = {} /\ binds' = binds /\ call' = [call EXCEPT !.n = Rows] /\ call.row = 0 /\ call.param = 1
    BY <1>4 DEF JavaReads, told, driver, Control
  <2>2. call'.row = 0 /\ call'.param = 1
    BY <2>1 DEF TypeOK
  <2>3. Before' = {}
    BY <2>2 DEF Before, All
  <2>4. step' = "idle" /\ code' = "SQL_SUCCESS" => binds' = <<>>
    BY <1>4, <2>1 DEF JavaReads, Answer
  <2>5. binds' = <<>> => All' = {}
    BY DEF All
  <2> QED BY <2>1, <2>3, <2>4, <2>5, EmptyMemory
<1>5. CASE WriteCount
  <2>1. stored' = {} /\ binds' = binds /\ call' = call /\ step' # "entries"
    BY <1>5 DEF WriteCount, driver, Control, Answer
  <2>2. step' = "idle" /\ code' = "SQL_SUCCESS" => call.n = 0 \/ binds = <<>>
    BY <1>5 DEF WriteCount, Answer
  <2>3. call.n = 0 \/ binds = <<>> => All' = {}
    BY <2>1 DEF All
  <2> QED BY <2>1, <2>2, <2>3, EmptyMemory
<1> QED BY <1>1, <1>2, <1>3, <1>4, <1>5

LEMMA MarkMemory ==
  ASSUME TypeOK, Control, Memory, Mark
  PROVE  Memory'
<1>1. stored' = {} /\ binds' = binds /\ call' = call /\ call.row = 0 /\ call.param = 1 /\ step' # "idle"
  BY DEF Mark, driver, Control, Answer
<1>2. Before' = {}
  BY <1>1 DEF Before, All
<1> QED BY <1>1, <1>2, EmptyMemory

\* The slot that is written is the first that was not.
LEMMA NextSlot ==
  ASSUME TypeOK, Control, step = "entries"
  PROVE  /\ <<call.row, call.param>> \in All
         /\ Before \subseteq All
         /\ \A ri \in All : /\ call.param < Len(binds) =>
                                 ((ri[1] < call.row \/ (ri[1] = call.row /\ ri[2] < call.param + 1)) <=>
                                  (ri \in Before \/ ri = <<call.row, call.param>>))
                            /\ call.param = Len(binds) =>
                                 ((ri[1] < call.row + 1 \/ (ri[1] = call.row + 1 /\ ri[2] < 1)) <=>
                                  (ri \in Before \/ ri = <<call.row, call.param>>))
<1>1. /\ call.row \in Nat /\ call.n \in Nat /\ call.param \in Nat /\ call.row < call.n /\ call.param <= Len(binds)
      /\ call.param >= 1 /\ Len(binds) \in Nat
  BY DEF TypeOK, Control
<1>2. <<call.row, call.param>> \in All
  BY <1>1 DEF All
<1>3. ASSUME NEW ri \in All PROVE ri[1] \in Nat /\ ri[2] \in 1 .. Len(binds) /\ ri = <<ri[1], ri[2]>>
  BY DEF All
<1>4. ASSUME NEW ri \in All, call.param < Len(binds)
      PROVE  (ri[1] < call.row \/ (ri[1] = call.row /\ ri[2] < call.param + 1)) <=>
             (ri \in Before \/ ri = <<call.row, call.param>>)
  BY <1>1, <1>3, <1>4 DEF Before
<1>5. ASSUME NEW ri \in All, call.param = Len(binds)
      PROVE  (ri[1] < call.row + 1 \/ (ri[1] = call.row + 1 /\ ri[2] < 1)) <=>
             (ri \in Before \/ ri = <<call.row, call.param>>)
  BY <1>1, <1>3, <1>5 DEF Before
<1> QED BY <1>2, <1>4, <1>5 DEF Before

LEMMA EntryMemory ==
  ASSUME TypeOK, Control, Memory, WriteEntry
  PROVE  Memory'
<1> DEFINE this == <<call.row, call.param>>
<1>1. Entry(SlotOf(this)) /\ step = "entries" /\ code = "busy"
  BY EntryStep DEF SlotOf
<1>2. /\ call.row \in Nat /\ call.n \in Nat /\ call.param \in Nat /\ call.row < call.n /\ call.param <= Len(binds)
      /\ call.param >= 1 /\ Len(binds) \in Nat /\ call.n <= Want
  BY <1>1 DEF TypeOK, Control
<1>3. /\ UNCHANGED <<binds, attr>> /\ call'.n = call.n /\ call'.from = call.from /\ call'.kind = call.kind
      /\ stored' = stored \cup Written(SlotOf(this))
  <2>1. /\ UNCHANGED <<binds, attr>> /\ stored' = stored \cup Written(SlotOf(this))
        /\ \/ call' = call
           \/ call' = [call EXCEPT !.param = call.param + 1]
           \/ call' = [call EXCEPT !.row = call.row + 1, !.param = 1]
    BY <1>1, Zenon DEF Entry
  <2> QED BY <2>1 DEF TypeOK
<1>4. All' = All /\ Want' = Want
  BY <1>3 DEF All, Want
<1>7. ASSUME NEW ri
      PROVE  /\ Written(SlotOf(ri))' = Written(SlotOf(ri))
             /\ Crashes(SlotOf(ri))' <=> Crashes(SlotOf(ri))
             /\ Escapes(SlotOf(ri))' <=> Escapes(SlotOf(ri))
  BY <1>3 DEF SlotOf, Slot, Written, Store, Crashes, Escapes
<1>8. this \in All /\ Before \subseteq All
  BY <1>1, NextSlot
<1>9. stored = WrittenFor(Before) /\ Sound(Before)
  BY <1>1 DEF Memory
<1>10. stored' = WrittenFor(Before \cup {this})
  BY <1>3, <1>9, Zenon DEF WrittenFor
<1>11. ~Crashes(SlotOf(this)) /\ ~Escapes(SlotOf(this)) => Sound(Before \cup {this})
  BY <1>9, Zenon DEF Sound
<1> HIDE DEF this
<1>12. stored' \subseteq WrittenFor(All)
  BY <1>8, <1>10, Zenon DEF WrittenFor
<1>13. ASSUME step' = "entries" PROVE Before' = Before \cup {this} /\ Sound(Before \cup {this})
  <2>1. ~Crashes(SlotOf(this)) /\ ~Escapes(SlotOf(this))
    BY <1>1, <1>13, Zenon DEF Entry
  <2>2. \/ call.param < Len(binds) /\ call' = [call EXCEPT !.param = call.param + 1]
        \/ call.param = Len(binds) /\ call' = [call EXCEPT !.row = call.row + 1, !.param = 1]
    BY <1>1, <1>13, Zenon DEF Entry
  <2>3. \A ri \in All : ri[1] < call'.row \/ (ri[1] = call'.row /\ ri[2] < call'.param) <=>
                        ri \in Before \/ ri = this
    <3>1. CASE call.param < Len(binds) /\ call' = [call EXCEPT !.param = call.param + 1]
      <4>1. call'.row = call.row /\ call'.param = call.param + 1
        BY <3>1 DEF TypeOK
      <4> QED BY <1>1, <3>1, <4>1, NextSlot DEF this
    <3>2. CASE call.param = Len(binds) /\ call' = [call EXCEPT !.row = call.row + 1, !.param = 1]
      <4>1. call'.row = call.row + 1 /\ call'.param = 1
        BY <3>2 DEF TypeOK
      <4> QED BY <1>1, <3>2, <4>1, NextSlot DEF this
    <3> QED BY <2>2, <3>1, <3>2
  <2>4. Before' = {ri \in All : ri[1] < call'.row \/ (ri[1] = call'.row /\ ri[2] < call'.param)}
    BY <1>4 DEF Before
  <2>5. Before' = Before \cup {this}
    BY <1>8, <2>3, <2>4
  <2> QED BY <1>11, <2>1, <2>5
<1>14. ASSUME step' = "idle", code' = "SQL_SUCCESS" PROVE All = Before \cup {this} /\ Sound(Before \cup {this})
  <2>1. ~Crashes(SlotOf(this)) /\ ~Escapes(SlotOf(this)) /\ call.param = Len(binds) /\ call.row = call.n - 1
    BY <1>1, <1>14, Zenon DEF Entry
  <2>2. \A ri \in All : ri[1] < call.row + 1
    BY <1>2, <2>1 DEF All
  <2>3. \A ri \in All : ri \in Before \/ ri = this
    BY <1>1, <2>1, <2>2, NextSlot DEF this
  <2> QED BY <1>8, <1>11, <2>1, <2>3
<1>15. WrittenFor(All)' = WrittenFor(All) /\ (Sound(All)' <=> Sound(All))
  BY <1>4, <1>7 DEF WrittenFor, Sound
<1>16. ASSUME step' = "entries" PROVE WrittenFor(Before)' = stored' /\ Sound(Before)'
  <2>1. Before' = Before \cup {this} /\ Sound(Before \cup {this})
    BY <1>13, <1>16
  <2>2. WrittenFor(Before)' = WrittenFor(Before \cup {this})
    BY <1>7, <2>1 DEF WrittenFor
  <2>3. Sound(Before)'
    BY <1>7, <2>1 DEF Sound
  <2> QED BY <1>10, <2>2, <2>3
<1>17. ASSUME step' = "idle", code' = "SQL_SUCCESS" PROVE WrittenFor(All)' = stored' /\ Sound(All)'
  BY <1>10, <1>14, <1>15, <1>17
<1> QED BY <1>2, <1>3, <1>4, <1>12, <1>15, <1>16, <1>17 DEF Memory, Done

LEMMA NextMemory ==
  ASSUME TypeOK, Control, Memory, [Next]_vars
  PROVE  Memory'
<1>1. CASE UNCHANGED vars
  <2>1. UNCHANGED <<binds, attr, step, call, stored, code>>
    BY <1>1 DEF vars, driver, told
  <2>2. ASSUME NEW ri
        PROVE  /\ Written(SlotOf(ri))' = Written(SlotOf(ri))
               /\ Crashes(SlotOf(ri))' <=> Crashes(SlotOf(ri))
               /\ Escapes(SlotOf(ri))' <=> Escapes(SlotOf(ri))
    BY <2>1 DEF SlotOf, Slot, Written, Store, Crashes, Escapes
  <2>3. All' = All /\ Before' = Before /\ Want' = Want
    BY <2>1 DEF All, Before, Want
  <2> QED BY <2>1, <2>2, <2>3 DEF Memory, WrittenFor, Sound, Done
<1> QED BY <1>1, OtherMemory, MarkMemory, EntryMemory DEF Next, Proceed, Crashed

LEMMA MemoryInvariant == Spec => [](TypeOK /\ Control /\ Memory)
<1>1. Init => TypeOK /\ Control /\ Memory
  <2> SUFFICES ASSUME Init PROVE Memory
    BY InitTypes
  <2> QED BY DEF Init, Memory, Done
<1>2. TypeOK /\ Control /\ Memory /\ [Next]_vars => (TypeOK /\ Control /\ Memory)'
  BY NextTypes, NextMemory
<1> QED BY <1>1, <1>2, PTL DEF Spec

\* The place of a binding that something is written for.
PlaceOf(w, i) == IF w.what[3] = "value" THEN binds[i].value ELSE binds[i].length

\* What is written for a slot, and where.
LEMMA WrittenFields ==
  ASSUME TypeOK, NEW r \in Nat, NEW i \in 1 .. Len(binds), NEW w \in Written(Slot(r, i))
  PROVE  /\ w.slot = r * Len(binds) + i
         /\ w.what[1] = call.from + r + 1 /\ w.what[2] = binds[i].column
         /\ w.at = PlaceOf(w, i) + attr.offset + r * attr.rowSize
         /\ w.what[3] = "value" => binds[i].kind = "fits"
<1> DEFINE e == Slot(r, i)
<1>1. /\ e.slot = r * Len(binds) + i
      /\ e.value = binds[i].value + attr.offset + r * attr.rowSize
      /\ e.length = binds[i].length + attr.offset + r * attr.rowSize
      /\ e.cell = <<call.from + r + 1, binds[i].column>> /\ e.kind = binds[i].kind
  BY SlotTypes
<1>2. w \in Written(e)
  OBVIOUS
<1> HIDE DEF e
<1>3. \/ w = Store(e, e.length, "null")
      \/ w = Store(e, e.length, "length")
      \/ w = Store(e, e.value, "value") /\ e.kind = "fits"
  BY <1>2 DEF Written
<1>4. w.slot = e.slot /\ w.what[1] = e.cell[1] /\ w.what[2] = e.cell[2]
  BY <1>3 DEF Store
<1>5. w.at = (IF w.what[3] = "value" THEN e.value ELSE e.length) /\ (w.what[3] = "value" => e.kind = "fits")
  BY <1>3 DEF Store
<1>6. w.at = PlaceOf(w, i) + attr.offset + r * attr.rowSize
  BY ONLY <1>1, <1>5 DEF PlaceOf
<1> QED BY <1>1, <1>4, <1>5, <1>6

LEMMA MemoryInPlaces ==
  ASSUME TypeOK, Memory
  PROVE  StoredInPlaces
<1> SUFFICES ASSUME NEW w \in stored
    PROVE \E r \in 0 .. Want - 1, i \in 1 .. Len(binds) :
      /\ w.what[1] = call.from + r + 1 /\ w.what[2] = binds[i].column
      /\ w.at = (IF w.what[3] = "value" THEN binds[i].value ELSE binds[i].length)
                   + attr.offset + r * attr.rowSize
      /\ w.what[3] = "value" => binds[i].kind = "fits"
  BY DEF StoredInPlaces
<1>1. PICK ri \in All : w \in Written(SlotOf(ri))
  BY DEF Memory, WrittenFor
<1>2. call.n <= Want /\ Want \in Nat /\ call.n \in Nat
  BY RowsBounds DEF Memory, TypeOK
<1>3. ri[1] \in 0 .. Want - 1 /\ ri[1] \in Nat /\ ri[2] \in 1 .. Len(binds) /\ w \in Written(Slot(ri[1], ri[2]))
  BY <1>1, <1>2 DEF All, SlotOf
<1> QED BY <1>3, WrittenFields DEF PlaceOf

\* Only the places of the rowset are written (jstatement.cpp, bindResultToVariable).
THEOREM WritesInPlaces == Spec => []StoredInPlaces
BY MemoryInPlaces, MemoryInvariant, PTL

-----------------------------------------------------------------------------
(* Rows in place.                                                          *)

\* Rows that are further apart than what is bound of them do not meet.
LEMMA RowsApart ==
  ASSUME NEW a \in Nat, NEW b \in Nat, NEW o \in Nat, NEW d \in Nat, NEW r \in Nat, NEW s \in Nat,
         a - b < d, r < s
  PROVE  a + o + r * d # b + o + s * d
<1>1. s * d = r * d + (s - r) * d /\ s - r \in Nat /\ s - r >= 1
  OBVIOUS
<1>2. (s - r) * d >= d
  BY <1>1, ProductGrows
<1>3. r * d \in Nat /\ s * d \in Nat /\ (s - r) * d \in Nat
  BY <1>1, ProductNat
<1> DEFINE x == r * d  y == s * d  z == (s - r) * d
<1>4. y = x + z /\ z >= d /\ x \in Nat /\ y \in Nat /\ z \in Nat
  BY <1>1, <1>2, <1>3
<1> HIDE DEF x, y, z
<1>5. a + o + x # b + o + y
  BY <1>4
<1> QED BY <1>5 DEF x, y

\* Nothing is written over a binding that is in force.
LEMMA NothingOver ==
  ASSUME TypeOK, Memory, Disjoint, NEW r \in 0 .. call.n - 1, NEW i \in 1 .. Len(binds), Current(i),
         NEW w \in Written(Slot(r, i)), NEW v \in stored, v.at = w.at
  PROVE  v.slot <= w.slot
<1>1. PICK ri \in All : v \in Written(SlotOf(ri))
  BY DEF Memory, WrittenFor
<1>2. PICK s \in 0 .. call.n - 1, j \in 1 .. Len(binds) : v \in Written(Slot(s, j))
  BY <1>1 DEF All, SlotOf
<1>3. r \in Nat /\ s \in Nat /\ call.n \in Nat /\ attr.offset \in Nat /\ attr.rowSize \in Nat /\ Len(binds) \in Nat
  <2>1. call.n \in Nat
    BY DEF TypeOK
  <2>2. attr.offset \in Nat /\ attr.rowSize \in Nat
    BY DEF TypeOK
  <2>3. Len(binds) \in Nat
    BY DEF TypeOK
  <2> QED BY <2>1, <2>2, <2>3
<1>4. w.slot = r * Len(binds) + i /\ v.slot = s * Len(binds) + j
  <2>1. w.slot = r * Len(binds) + i
    BY ONLY TypeOK, <1>3, i \in 1 .. Len(binds), w \in Written(Slot(r, i)), WrittenFields
  <2>2. v.slot = s * Len(binds) + j
    BY ONLY TypeOK, <1>2, <1>3, j \in 1 .. Len(binds), WrittenFields
  <2> QED BY <2>1, <2>2
<1> DEFINE a == PlaceOf(w, i)
           b == PlaceOf(v, j)
           o == attr.offset
           d == attr.rowSize
<1>13. a \in Places(i) /\ b \in Places(j)
  BY DEF Places, PlaceOf
<1>5. w.at = a + o + r * d
  BY <1>3, WrittenFields, Zenon
<1>6. v.at = b + o + s * d
  BY <1>2, <1>3, WrittenFields, Zenon
<1>7. a \in Nat /\ b \in Nat
  <2>1. binds[i] \in Binding /\ binds[j] \in Binding
    BY <1>3, SlotTypes
  <2>2. /\ binds[i].value \in Nat /\ binds[i].length \in Nat
        /\ binds[j].value \in Nat /\ binds[j].length \in Nat
    BY <2>1 DEF Binding, NULL
  <2> QED BY <2>2 DEF PlaceOf
<1>16. a \in Places(i) /\ b \in Places(j) /\ d = attr.rowSize
  BY <1>13
<1> HIDE DEF a, b, o, d
<1>14. a \in Nat /\ b \in Nat /\ o \in Nat /\ d \in Nat /\ r \in Nat /\ s \in Nat
  BY <1>3, <1>7 DEF o, d
<1>15. a + o + r * d = b + o + s * d
  BY <1>5, <1>6
<1>8. r = s
  <2>1. CASE call.n <= 1
    BY <1>2, <1>3, <2>1
  <2>2. CASE call.n > 1
    <3>1. a - b < d /\ b - a < d
      BY <1>16, <2>2 DEF Disjoint
    <3>2. ~(r < s)
      BY ONLY <1>14, <1>15, <3>1, RowsApart
    <3>3. ~(s < r)
      BY ONLY <1>14, <1>15, <3>1, RowsApart
    <3> QED BY <1>3, <3>2, <3>3
  <2> QED BY <1>3, <2>1, <2>2
<1>9. a = b
  <2> DEFINE x == r * d
  <2>1. x \in Nat
    BY <1>14, ProductNat
  <2>2. a + o + x = b + o + x
    BY <1>8, <1>15
  <2> HIDE DEF x
  <2> QED BY <1>14, <2>1, <2>2
<1>10. binds[j].column = binds[i].column
  BY <1>9, <1>16 DEF Disjoint
<1>11. j <= i
  BY <1>10 DEF Current
<1>12. r * Len(binds) \in Nat
  BY <1>3, ProductNat
<1> QED BY <1>4, <1>8, <1>11, <1>12

\* A rowset that is complete is found where the fields say.
LEMMA CompleteIsPlaced == TypeOK /\ Memory => RowsInPlace
<1> SUFFICES ASSUME TypeOK, Memory, Done("SQL_SUCCESS"), Disjoint,
                    NEW r \in 0 .. call.n - 1, NEW i \in 1 .. Len(binds), Current(i)
             PROVE  LET b == binds[i]
                        row == call.from + r + 1
                        at(p) == p + attr.offset + r * attr.rowSize
                        tell(part) == <<row, b.column, part>>
                    IN  IF <<row, b.column>> \in NullCell
                        THEN Holds(at(b.length), tell("null"))
                        ELSE /\ Holds(at(b.length), tell("length"))
                             /\ b.kind = "fits" => Holds(at(b.value), tell("value"))
  BY DEF RowsInPlace, RowsAt
<1> DEFINE e == Slot(r, i)
<1>1. r \in Nat
  BY DEF TypeOK
<1>2. /\ e.value = binds[i].value + attr.offset + r * attr.rowSize
      /\ e.length = binds[i].length + attr.offset + r * attr.rowSize
      /\ e.cell = <<call.from + r + 1, binds[i].column>> /\ e.kind = binds[i].kind
  BY <1>1, SlotTypes
<1>3. <<r, i>> \in All /\ SlotOf(<<r, i>>) = e
  BY DEF All, SlotOf
<1>4. Written(e) \subseteq stored /\ ~Crashes(e)
  BY <1>3, Zenon DEF Memory, WrittenFor, Sound
<1>5. ASSUME NEW w \in Written(e) PROVE Holds(w.at, w.what)
  BY <1>4, <1>5, NothingOver DEF Holds
<1> HIDE DEF e
<1>6. ASSUME NEW at, NEW part, Store(e, at, part) \in Written(e)
      PROVE  Holds(at, <<e.cell[1], e.cell[2], part>>)
  BY <1>5, <1>6 DEF Store
<1>7. CASE e.cell \in NullCell
  <2>1. Store(e, e.length, "null") \in Written(e)
    BY <1>4, <1>7 DEF Written, Crashes
  <2> QED BY <1>2, <1>6, <1>7, <2>1
<1>8. CASE e.cell \notin NullCell
  <2>1. Store(e, e.length, "length") \in Written(e)
    BY <1>4, <1>8 DEF Written, Crashes
  <2>2. e.kind = "fits" => Store(e, e.value, "value") \in Written(e)
    BY <1>4, <1>8 DEF Written, Crashes
  <2> QED BY <1>2, <1>6, <1>8, <2>1, <2>2
<1> QED BY <1>7, <1>8

\* After SQL_SUCCESS every bound cell of the rowset is found where the fields say, for any
\* places, offset and row size the application lends (OdbcStatement.fetchScroll).
THEOREM RowsArePlaced == Spec => []RowsInPlace
BY CompleteIsPlaced, MemoryInvariant, PTL

-----------------------------------------------------------------------------
(* A fetch is one step of Rowsets.                                         *)

Seen   == {<<w.at, w.what>> : w \in stored}
Bound  == [binds |-> binds, offset |-> attr.offset, rowSize |-> attr.rowSize, size |-> attr.size]
Moved  == IF code = "busy" THEN [cursor EXCEPT !.pos = call.from] ELSE cursor
Shown  == IF code = "busy" THEN {} ELSE Seen

\* A slot holds what Rowsets says of its binding, or part of it when writing it ends the fetch.
LEMMA CellOfSlot ==
  ASSUME TypeOK, NEW r \in Nat, NEW i \in 1 .. Len(binds)
  PROVE  /\ {<<w.at, w.what>> : w \in Written(Slot(r, i))} \subseteq Promise!Cell(call.from, r, binds[i])
         /\ ~Crashes(Slot(r, i)) =>
                {<<w.at, w.what>> : w \in Written(Slot(r, i))} = Promise!Cell(call.from, r, binds[i])
<1> DEFINE e == Slot(r, i)
           row == call.from + r + 1
           tell(part) == <<row, binds[i].column, part>>
<1>1. /\ e.value = binds[i].value + attr.offset + r * attr.rowSize
      /\ e.length = binds[i].length + attr.offset + r * attr.rowSize
      /\ e.cell = <<row, binds[i].column>> /\ e.kind = binds[i].kind
  BY SlotTypes
<1>2. Promise!Cell(call.from, r, binds[i]) =
          IF e.cell \in NullCell
          THEN {<<e.length, tell("null")>>}
          ELSE {<<e.length, tell("length")>>} \cup
               IF e.kind = "fits" THEN {<<e.value, tell("value")>>} ELSE {}
  BY <1>1 DEF Promise!Cell
<1> HIDE DEF e
<1>3. \A at, part : LET w == Store(e, at, part) IN <<w.at, w.what>> = <<at, tell(part)>>
  BY <1>1 DEF Store
<1> HIDE DEF tell
<1>4. CASE e.length = NULL
  BY <1>4 DEF Written, Crashes, e
<1>5. CASE e.length # NULL /\ e.cell \in NullCell
  <2>1. Written(e) = {Store(e, e.length, "null")}
    BY <1>5 DEF Written
  <2>2. {<<w.at, w.what>> : w \in Written(e)} = {<<e.length, tell("null")>>}
    BY <1>3, <2>1
  <2> QED BY <1>2, <1>5, <2>2 DEF e
<1>6. CASE e.length # NULL /\ e.cell \notin NullCell /\ e.kind = "fits" /\ e.value # NULL
  <2>1. Written(e) = {Store(e, e.length, "length"), Store(e, e.value, "value")}
    BY <1>6 DEF Written
  <2>2. {<<w.at, w.what>> : w \in Written(e)} = {<<e.length, tell("length")>>, <<e.value, tell("value")>>}
    BY <1>3, <2>1
  <2> QED BY <1>2, <1>6, <2>2 DEF e
<1>7. CASE e.length # NULL /\ e.cell \notin NullCell /\ ~(e.kind = "fits" /\ e.value # NULL)
  <2>1. Written(e) = {Store(e, e.length, "length")}
    BY <1>7 DEF Written
  <2>2. {<<w.at, w.what>> : w \in Written(e)} = {<<e.length, tell("length")>>}
    BY <1>3, <2>1
  <2>3. ~Crashes(e) => e.kind # "fits"
    BY <1>7 DEF Crashes
  <2> QED BY <1>2, <1>7, <2>2, <2>3 DEF e
<1> QED BY <1>4, <1>5, <1>6, <1>7

\* The same of all rows.
Placed ==
    /\ Seen \subseteq Promise!Image(call.from, call.n)
    /\ Done("SQL_SUCCESS") => Seen = Promise!Image(call.from, call.n)

LEMMA ImageOfSlots == ASSUME TypeOK, Memory PROVE Placed
<1>1. Promise!Image(call.from, call.n) =
          UNION {Promise!Cell(call.from, ri[1], binds[ri[2]]) : ri \in All}
  BY DEF Promise!Image, All
<1>2. ASSUME NEW ri \in All
      PROVE  /\ {<<w.at, w.what>> : w \in Written(SlotOf(ri))} \subseteq Promise!Cell(call.from, ri[1], binds[ri[2]])
             /\ ~Crashes(SlotOf(ri)) =>
                    {<<w.at, w.what>> : w \in Written(SlotOf(ri))} = Promise!Cell(call.from, ri[1], binds[ri[2]])
  <2>1. ri[1] \in Nat /\ ri[2] \in 1 .. Len(binds)
    BY DEF All, TypeOK
  <2> QED BY <2>1, CellOfSlot DEF SlotOf
<1>3. ASSUME NEW w \in stored PROVE <<w.at, w.what>> \in Promise!Image(call.from, call.n)
  <2>1. PICK ri \in All : w \in Written(SlotOf(ri))
    BY DEF Memory, WrittenFor
  <2>2. <<w.at, w.what>> \in Promise!Cell(call.from, ri[1], binds[ri[2]])
    BY <1>2, <2>1
  <2> QED BY <1>1, <2>2
<1>4. ASSUME Done("SQL_SUCCESS"), NEW x \in Promise!Image(call.from, call.n) PROVE x \in Seen
  <2>1. PICK ri \in All : x \in Promise!Cell(call.from, ri[1], binds[ri[2]])
    BY <1>1
  <2>2. stored = WrittenFor(All) /\ ~Crashes(SlotOf(ri))
    BY <1>4, Zenon DEF Memory, Sound
  <2>3. PICK w \in Written(SlotOf(ri)) : x = <<w.at, w.what>>
    BY <1>2, <2>1, <2>2
  <2>4. w \in stored
    BY <2>2, <2>3, Zenon DEF WrittenFor
  <2> QED BY <2>3, <2>4 DEF Seen
<1> QED BY <1>3, <1>4 DEF Seen, Placed

PromiseInv == TypeOK /\ Control /\ Memory /\ Placed

LEMMA PromiseInvariant == Spec => []PromiseInv
<1>1. TypeOK /\ Control /\ Memory => PromiseInv
  BY ImageOfSlots DEF PromiseInv
<1> QED BY <1>1, MemoryInvariant, PTL

LEMMA PromiseInit == Init => Promise!Init
BY DEF Init, Promise!Init, Empty

\* What all steps of a fetch have in common.
LEMMA ProceedFacts ==
  ASSUME PromiseInv, PromiseInv', Proceed
  PROVE  /\ code = "busy" /\ UNCHANGED <<binds, attr>>
         /\ call'.from = call.from /\ call'.kind = call.kind
         /\ cursor'.rows = cursor.rows /\ cursor' = [cursor EXCEPT !.pos = cursor'.pos]
         /\ Bound' = Bound
         /\ Placed' => /\ Seen' \subseteq Promise!Image(call.from, call'.n)
                       /\ Done("SQL_SUCCESS")' => Seen' = Promise!Image(call.from, call'.n)
<1> USE DEF PromiseInv
<1>1. code = "busy" /\ UNCHANGED <<binds, attr>>
  BY DEF Proceed, JavaEnds, JavaReads, JavaFails, WriteCount, Mark, WriteEntry, driver, Control, Fetching
<1>2. call'.from = call.from /\ call'.kind = call.kind
  <2>1. CASE WriteEntry
    <3>1. \/ call' = call
          \/ call' = [call EXCEPT !.param = call.param + 1]
          \/ call' = [call EXCEPT !.row = call.row + 1, !.param = 1]
      BY <2>1, EntryStep, Zenon DEF Entry
    <3> QED BY <3>1 DEF TypeOK
  <2> QED BY <2>1 DEF Proceed, JavaEnds, JavaReads, JavaFails, WriteCount, Mark, TypeOK
<1>3. cursor'.rows = cursor.rows /\ cursor' = [cursor EXCEPT !.pos = cursor'.pos]
  <2>1. cursor' = cursor \/ \E k \in Nat : cursor' = [cursor EXCEPT !.pos = cursor.pos + k]
    BY RowsBounds DEF Proceed, JavaEnds, JavaReads, JavaFails, WriteCount, Mark, WriteEntry, ReadOn
  <2>2. cursor.rows \in Nat /\ cursor = [cursor EXCEPT !.pos = cursor.pos]
    BY DEF TypeOK, Position
  <2>3. ASSUME NEW k \in Nat, cursor' = [cursor EXCEPT !.pos = cursor.pos + k]
        PROVE  cursor'.rows = cursor.rows /\ cursor' = [cursor EXCEPT !.pos = cursor'.pos]
    BY <2>3 DEF TypeOK, Position
  <2> QED BY <2>1, <2>2, <2>3
<1>4. Promise!Image(call.from, call.n)' = Promise!Image(call.from, call'.n)
  BY <1>1, <1>2 DEF Promise!Image, Promise!Cell
<1> QED BY <1>1, <1>2, <1>3, <1>4 DEF Bound, Placed

LEMMA BeginsAre ==
  ASSUME Begins
  PROVE  /\ \E kind \in {"fetch", "scroll", "extended"} : Begin(kind)
         /\ attr' = attr \/ \E p, q \in Pointer : attr' = [attr EXCEPT !.status = q, !.rowsFetched = p]
<1>1. CASE Fetch
  BY <1>1, Zenon DEF Fetch
<1>2. CASE FetchScroll
  BY <1>2, Zenon DEF FetchScroll
<1>3. ASSUME NEW p \in Pointer, NEW q \in Pointer, ExtendedFetch(p, q)
      PROVE  Begin("extended") /\ attr' = [attr EXCEPT !.status = q, !.rowsFetched = p]
  BY <1>3, Zenon DEF ExtendedFetch
<1> QED BY <1>1, <1>2, <1>3, Zenon DEF Begins

\* Calls other than fetches, and the calls of a fetch.
LEMMA CallPromised ==
  ASSUME PromiseInv, Execute \/ Settings \/ Begins \/ \E p \in Pointer : ExtendedFetchFails(p)
  PROVE  Promise!Open \/ Promise!Set \/ Promise!Call
<1> USE DEF PromiseInv
<1>1. CASE Execute
  <2>1. code # "busy" /\ code' = Null /\ stored' = {} /\ cursor'.pos = 0 /\ binds' = binds /\ attr' = attr
    BY <1>1 DEF Execute, Quiet, Control, Fetching, driver
  <2> QED BY <2>1 DEF Promise!Open
<1>2. CASE Settings \/ \E p \in Pointer : ExtendedFetchFails(p)
  <2>1. code # "busy" /\ code' \in {Null, "SQL_ERROR"} /\ stored' = {} /\ cursor' = cursor
    BY <1>2 DEF Settings, RowSettings, ParamSettings, BindCol, Unbind, SetForRows, SetForParams, SetSize, SetPointer, ExtendedFetchFails,
                Quiet, Control, Fetching
  <2> QED BY <2>1 DEF Promise!Set
<1>3. CASE Begins
  <2>1. /\ code # "busy" /\ code' = "busy" /\ stored' = {} /\ cursor' = cursor /\ binds' = binds
        /\ call'.from = cursor.pos
    <3>1. \E kind \in {"fetch", "scroll", "extended"} : Begin(kind)
      BY <1>3, BeginsAre, Zenon
    <3> QED BY <3>1 DEF Begin, Control, Fetching, TypeOK
  <2>2. attr'.offset = attr.offset /\ attr'.rowSize = attr.rowSize /\ attr'.size = attr.size
    <3>1. attr' = attr \/ \E p, q \in Pointer : attr' = [attr EXCEPT !.status = q, !.rowsFetched = p]
      BY <1>3, BeginsAre, Zenon
    <3>2. attr \in [offset : Offset, rowSize : RowSize, size : Size, status : Pointer, rowsFetched : Pointer]
      BY DEF TypeOK
    <3>3. ASSUME NEW p \in Pointer, NEW q \in Pointer, attr' = [attr EXCEPT !.status = q, !.rowsFetched = p]
          PROVE  attr'.offset = attr.offset /\ attr'.rowSize = attr.rowSize /\ attr'.size = attr.size
      BY ONLY <3>2, <3>3
    <3> QED BY <3>1, <3>3, Zenon
  <2>3. [cursor EXCEPT !.pos = cursor.pos] = cursor
    BY DEF TypeOK, Position
  <2> QED BY <2>1, <2>2, <2>3 DEF Promise!Call
<1> QED BY <1>1, <1>2, <1>3

\* A fetch that has come to its answer.
LEMMA AnswerPromised ==
  ASSUME PromiseInv, PromiseInv', Proceed, code' # "busy"
  PROVE  Promise!Deliver \/ Promise!End \/ Promise!Fail
<1> USE DEF PromiseInv
<1> DEFINE at == [cursor EXCEPT !.pos = call.from]
<1>1. /\ code = "busy" /\ UNCHANGED <<binds, attr>> /\ call'.from = call.from /\ call'.kind = call.kind
      /\ cursor'.rows = cursor.rows /\ cursor' = [cursor EXCEPT !.pos = cursor'.pos]
      /\ Seen' \subseteq Promise!Image(call.from, call'.n)
      /\ Done("SQL_SUCCESS")' => Seen' = Promise!Image(call.from, call'.n)
  BY ProceedFacts
<1>2. /\ cursor.pos \in Nat /\ cursor.rows \in Nat /\ cursor.pos <= cursor.rows /\ call.from \in Nat /\ call.n \in Nat
      /\ cursor'.pos \in Nat /\ cursor'.pos <= cursor.rows /\ call'.n \in Nat
  BY <1>1 DEF TypeOK, Position
<1>3. at.pos = call.from /\ at.rows = cursor.rows
  BY DEF TypeOK, Position
<1>4. Want' = Want /\ Want \in {1, attr.size} /\ Want \in Nat
  BY <1>1, RowsBounds DEF Want
<1>5. ASSUME step' = "idle", code' = "SQL_SUCCESS" PROVE Promise!Deliver
  <2>1. /\ call'.n <= Want /\ (Want > 0 => call'.n > 0) /\ cursor'.pos = call.from + call'.n
        /\ call'.n < Want => cursor'.pos = cursor.rows
    BY <1>1, <1>4, <1>5 DEF Control, Done
  <2>2. call'.n \in 0 .. cursor.rows /\ call'.n \in 0 .. Want /\ call.from + call'.n <= cursor.rows
    BY <1>2, <1>4, <2>1
  <2>3. cursor' = [at EXCEPT !.pos = call.from + call'.n]
    BY <1>1, <2>1
  <2>4. Seen' = Promise!Image(call.from, call'.n)
    BY <1>1, <1>5 DEF Done
  <2>5. \E want \in {1, attr.size}, n \in 0 .. cursor.rows :
           /\ n \in 0 .. want /\ call.from + n <= cursor.rows /\ (n < want => call.from + n = cursor.rows)
           /\ want > 0 => n > 0
           /\ cursor' = [at EXCEPT !.pos = call.from + n]
           /\ Seen' = Promise!Image(call.from, n)
    <3> HIDE DEF at
    <3> QED BY ONLY <1>4, <2>1, <2>2, <2>3, <2>4
  <2>6. (IF code = "busy" THEN at ELSE cursor) = at /\ (IF code = "busy" THEN at ELSE cursor)' = cursor'
    BY <1>1, <1>5
  <2>7. (IF code = "busy" THEN {} ELSE Seen)' = Seen'
    BY <1>5
  <2>8. Bound' = Bound /\ Bound.size = attr.size
    BY <1>1 DEF Bound
  <2> QED BY <1>1, <1>3, <1>5, <2>5, <2>6, <2>7, <2>8, Zenon DEF Promise!Deliver, Promise!RowsOf, Seen, Bound
<1>6. ASSUME JavaEnds PROVE Promise!End
  <2>1. Rows = 0 /\ Want > 0 /\ code' = "SQL_NO_DATA" /\ cursor' = cursor /\ stored' = {} /\ call.from = cursor.pos
    BY <1>6 DEF JavaEnds, Answer, told, Control
  <2>2. cursor.pos = cursor.rows
    BY <1>2, <1>4, <2>1, RowsBounds
  <2>3. at = cursor
    BY <2>1 DEF TypeOK, Position
  <2> QED BY <1>1, <2>1, <2>2, <2>3 DEF Promise!End
<1>7. ASSUME code' \in {"SQL_ERROR", "exception", "crashed"} PROVE Promise!Fail
  <2>1. PICK n \in 0 .. cursor.rows :
            /\ n \in 0 .. Want /\ call.from + n <= cursor.rows /\ (n < Want => call.from + n = cursor.rows)
            /\ cursor'.pos \in call.from .. call.from + n
            /\ Seen' \subseteq Promise!Image(call.from, n)
    <3>1. CASE JavaFails
      <4>1. stored' = {} /\ call.from = cursor.pos
        BY <3>1 DEF JavaFails, told, Control
      <4>2. PICK k \in 0 .. Rows : cursor' = [cursor EXCEPT !.pos = cursor.pos + k]
        BY <3>1 DEF JavaFails, ReadOn
      <4>3. cursor'.pos = cursor.pos + k
        BY <4>2 DEF TypeOK, Position
      <4>4. Seen' = {}
        BY <4>1 DEF Seen
      <4> QED BY <1>2, <1>4, <4>1, <4>3, <4>4, RowsBounds
    <3>2. CASE WriteCount \/ Mark \/ WriteEntry
      <4>1. step \in {"count", "mark", "entries"} /\ cursor' = cursor
        BY <3>2 DEF WriteCount, Mark, WriteEntry
      <4>2. call.n <= Want /\ cursor.pos = call.from + call.n /\ (call.n < Want => cursor.pos = cursor.rows)
        BY <4>1 DEF Control
      <4>3. call' = call
        BY <1>7, <3>2, EntryStep, Zenon DEF WriteCount, Mark, Entry
      <4> QED BY <1>1, <1>2, <1>4, <4>1, <4>2, <4>3
    <3>3. ~JavaEnds /\ ~JavaReads
      BY <1>1, <1>7 DEF JavaEnds, JavaReads, Answer
    <3> QED BY <3>1, <3>2, <3>3 DEF Proceed
  <2>2. \E want \in {1, attr.size}, m \in 0 .. cursor.rows :
           /\ m \in 0 .. want /\ call.from + m <= cursor.rows /\ (m < want => call.from + m = cursor.rows)
           /\ cursor'.pos \in call.from .. call.from + m
           /\ Seen' \subseteq Promise!Image(call.from, m)
    BY <1>4, <2>1
  <2> QED BY <1>1, <1>3, <1>7, <2>2 DEF Promise!Fail, Promise!RowsOf, Seen
<1>8. \/ step' = "idle" /\ code' = "SQL_SUCCESS"
      \/ JavaEnds
      \/ code' \in {"SQL_ERROR", "exception", "crashed"}
  <2>1. CASE WriteEntry
    BY <2>1, EntryStep, Zenon DEF Entry
  <2> QED BY <1>1, <2>1 DEF Proceed, JavaReads, JavaFails, WriteCount, Mark, Answer
<1> QED BY <1>5, <1>6, <1>7, <1>8

LEMMA PromiseStep ==
  ASSUME PromiseInv, PromiseInv', [Next]_vars
  PROVE  [Promise!Next]_<<Moved, Bound, Shown, code>>
<1>1. CASE Proceed /\ code' = "busy"
  BY <1>1, ProceedFacts DEF Moved, Shown, Bound
<1>2. CASE Crashed \/ UNCHANGED vars
  BY <1>2 DEF Crashed, vars, driver, told, Moved, Shown, Bound, Seen
<1> QED BY <1>1, <1>2, CallPromised, AnswerPromised, Zenon DEF Next, Promise!Next

\* A fetch of any number of calls and writes is one step to the application: it delivers a full
\* rowset, finds the end, or fails with part of it (OdbcStatement.fetchScroll, JStatement::fetchscroll).
THEOREM ImplementsRowsets == Spec => Implements
<1>1. PromiseInv /\ PromiseInv' /\ [Next]_vars =>
          [Promise!Next]_<<IF code = "busy" THEN [cursor EXCEPT !.pos = call.from] ELSE cursor,
                           [binds |-> binds, offset |-> attr.offset, rowSize |-> attr.rowSize, size |-> attr.size],
                           IF code = "busy" THEN {} ELSE {<<w.at, w.what>> : w \in stored},
                           code>>
  BY PromiseStep DEF Moved, Bound, Shown, Seen
<1> QED BY <1>1, PromiseInit, PromiseInvariant, PTL DEF Spec, Promise!Spec, Promise!vars, Implements

-----------------------------------------------------------------------------
(* An application that fetches to the end.                                 *)

LEMMA DrainStarts == DrainInit => TypeOK /\ Control /\ Memory
<1> SUFFICES ASSUME DrainInit PROVE TypeOK /\ Control /\ Memory
  OBVIOUS
<1>1. binds \in Seq(Binding) /\ Len(binds) <= MaxBound
  <2>1. PICK n \in 0 .. MaxBound : binds \in [1 .. n -> Bindable]
    BY Zenon DEF DrainInit
  <2>2. Bindable \subseteq Binding
    BY DEF Bindable, Binding
  <2>3. binds \in [1 .. n -> Binding] /\ n \in Nat /\ n <= MaxBound
    BY <2>1, <2>2
  <2> QED BY <2>3
<1>2. TypeOK
  BY <1>1 DEF DrainInit, TypeOK, Position, Empty
<1>3. Control /\ Memory
  BY DEF DrainInit, Control, Fetching, Done, Memory
<1> QED BY <1>2, <1>3

LEMMA DrainSteps == [Drain]_vars => [Next]_vars
BY DEF Drain, Next, Begins

LEMMA DrainInvariant == DrainSpec => []PromiseInv
<1>1. TypeOK /\ Control /\ Memory /\ [Drain]_vars => (TypeOK /\ Control /\ Memory)'
  BY DrainSteps, NextTypes, NextMemory
<1>2. TypeOK /\ Control /\ Memory => PromiseInv
  BY ImageOfSlots DEF PromiseInv
<1> QED BY <1>1, <1>2, DrainStarts, PTL DEF DrainSpec

\* Whatever the bindings and the settings of the application are when it begins to fetch, only
\* the places of its rowsets are written (jstatement.cpp, bindResultToVariable).
THEOREM DrainsWriteInPlaces == DrainSpec => []StoredInPlaces
<1>1. PromiseInv => StoredInPlaces
  BY MemoryInPlaces DEF PromiseInv
<1> QED BY <1>1, DrainInvariant, PTL

\* And every fetch of it is one step (OdbcStatement.fetchScroll, JStatement::fetchscroll).
THEOREM DrainsImplementRowsets == DrainSpec => Implements
<1>1. DrainInit => Promise!Init
  BY DEF DrainInit, Promise!Init, Empty
<1>2. PromiseInv /\ PromiseInv' /\ [Drain]_vars =>
          [Promise!Next]_<<IF code = "busy" THEN [cursor EXCEPT !.pos = call.from] ELSE cursor,
                           [binds |-> binds, offset |-> attr.offset, rowSize |-> attr.rowSize, size |-> attr.size],
                           IF code = "busy" THEN {} ELSE {<<w.at, w.what>> : w \in stored},
                           code>>
  BY DrainSteps, PromiseStep DEF Moved, Bound, Shown, Seen
<1> QED BY <1>1, <1>2, DrainInvariant, PTL DEF DrainSpec, Promise!Spec, Promise!vars, Implements

-----------------------------------------------------------------------------
(* Every step counts.                                                      *)

RowsLeft  == cursor.rows - cursor.pos
Phase     == CASE step = "count" -> 5
               [] step = "mark" -> 4
               [] step = "entries" -> 3
               [] step = "idle" /\ code \in {Null, "SQL_SUCCESS"} -> 2
               [] step = "java" -> 1
               [] OTHER -> 0
RowsToDo  == call.n - call.row
BindsToDo == Len(binds) + 1 - call.param

LEMMA LessOf ==
  ASSUME NEW a1, NEW a2, NEW a3, NEW a4, NEW b1, NEW b2, NEW b3, NEW b4,
         \/ a1 < b1
         \/ a1 = b1 /\ a2 < b2
         \/ a1 = b1 /\ a2 = b2 /\ a3 < b3
         \/ a1 = b1 /\ a2 = b2 /\ a3 = b3 /\ a4 < b4
  PROVE  Less(<<a1, a2, a3, a4>>, <<b1, b2, b3, b4>>)
<1> DEFINE a == <<a1, a2, a3, a4>>
           b == <<b1, b2, b3, b4>>
<1>1. a[1] = a1 /\ a[2] = a2 /\ a[3] = a3 /\ a[4] = a4 /\ b[1] = b1 /\ b[2] = b2 /\ b[3] = b3 /\ b[4] = b4
  OBVIOUS
<1> HIDE DEF a, b
<1>2. CASE a1 < b1
  <2>1. \A j \in 1 .. 1 - 1 : a[j] = b[j]
    OBVIOUS
  <2> QED BY <1>1, <1>2, <2>1 DEF Less, a, b
<1>3. CASE a1 = b1 /\ a2 < b2
  <2>1. \A j \in 1 .. 2 - 1 : a[j] = b[j]
    BY <1>1, <1>3
  <2> QED BY <1>1, <1>3, <2>1 DEF Less, a, b
<1>4. CASE a1 = b1 /\ a2 = b2 /\ a3 < b3
  <2>1. \A j \in 1 .. 3 - 1 : a[j] = b[j]
    BY <1>1, <1>4
  <2> QED BY <1>1, <1>4, <2>1 DEF Less, a, b
<1>5. CASE a1 = b1 /\ a2 = b2 /\ a3 = b3 /\ a4 < b4
  <2>1. \A j \in 1 .. 4 - 1 : a[j] = b[j]
    BY <1>1, <1>5
  <2> QED BY <1>1, <1>5, <2>1 DEF Less, a, b
<1> QED BY <1>2, <1>3, <1>4, <1>5

\* The rows left, the step and what is to be done, one of which gets smaller.
Counted ==
    /\ RowsLeft' \in Nat /\ Phase' \in Nat /\ RowsToDo' \in Nat /\ BindsToDo' \in Nat
    /\ \/ RowsLeft' < RowsLeft
       \/ RowsLeft' = RowsLeft /\ Phase' < Phase
       \/ RowsLeft' = RowsLeft /\ Phase' = Phase /\ RowsToDo' < RowsToDo
       \/ RowsLeft' = RowsLeft /\ Phase' = Phase /\ RowsToDo' = RowsToDo /\ BindsToDo' < BindsToDo

LEMMA DrainCounts ==
  ASSUME TypeOK, Control, TypeOK', Drain, attr.size > 0
  PROVE  Counted
<1>1. /\ RowsLeft \in Nat /\ RowsLeft' \in Nat /\ Phase' \in Nat
      /\ call.n \in Nat /\ call.row \in Nat /\ call.param \in Nat /\ Len(binds) \in Nat
      /\ cursor.rows \in Nat /\ cursor.pos \in Nat
  <2>1. cursor \in Position /\ cursor' \in Position /\ binds \in Seq(Binding)
    BY DEF TypeOK
  <2>2. call.n \in Nat /\ call.row \in Nat /\ call.param \in Nat
    BY DEF TypeOK
  <2>3. RowsLeft \in Nat /\ RowsLeft' \in Nat /\ cursor.rows \in Nat /\ cursor.pos \in Nat
    BY <2>1 DEF Position, RowsLeft
  <2>4. Phase' \in Nat
    BY DEF Phase
  <2> QED BY <2>1, <2>2, <2>3, <2>4
<1>2. PICK n \in Nat, p \in Nat, q \in Nat, m \in Nat :
          n = Len(binds) /\ p = call.param /\ q = call.row /\ m = call.n
  BY <1>1
<1>3. /\ RowsToDo = m - q /\ RowsToDo' = call'.n - call'.row
      /\ BindsToDo = n + 1 - p /\ (binds' = binds => BindsToDo' = n + 1 - call'.param)
  BY <1>2 DEF RowsToDo, BindsToDo
<1>4. ASSUME call' = call, binds' = binds, q <= m, p <= n + 1
       PROVE  RowsToDo' \in Nat /\ BindsToDo' \in Nat
  <2>1. RowsToDo' = m - q /\ BindsToDo' = n + 1 - p
    BY <1>2, <1>3, <1>4, Zenon
  <2> QED BY <1>4, <2>1
<1>5. Want \in Nat /\ Want > 0 /\ Rows \in Nat /\ cursor.pos + Rows <= cursor.rows
  BY RowsBounds DEF Want, TypeOK
<1>6. CASE code \in {Null, "SQL_SUCCESS"} /\ (Fetch \/ FetchScroll)
  <2>1. /\ step = "idle" /\ step' = "java" /\ cursor' = cursor /\ binds' = binds
        /\ call'.n = 0 /\ call'.row = 0 /\ call'.param = 1
    BY <1>6 DEF Fetch, FetchScroll, Begin
  <2>2. Phase = 2 /\ Phase' = 1
    BY <1>6, <2>1 DEF Phase
  <2>3. RowsLeft' = RowsLeft
    BY <2>1 DEF RowsLeft
  <2>4. RowsToDo' = 0 - 0 /\ BindsToDo' = n + 1 - 1
    BY <1>3, <2>1, Zenon
  <2>5. RowsToDo' \in Nat /\ BindsToDo' \in Nat
    BY <2>4
  <2> QED BY <1>1, <2>2, <2>3, <2>5 DEF Counted
<1>7. CASE JavaEnds \/ JavaFails
  <2>1. /\ step = "java" /\ step' = "idle" /\ code' \in {"SQL_NO_DATA", "SQL_ERROR"} /\ binds' = binds /\ call' = call
        /\ call.row = 0 /\ call.param = 1
    BY <1>7 DEF JavaEnds, JavaFails, Answer, driver, Control
  <2>2. Phase = 1 /\ Phase' = 0
    BY <2>1 DEF Phase
  <2>3. RowsLeft' <= RowsLeft
    <3>1. CASE JavaEnds
      BY <1>1, <3>1 DEF JavaEnds, RowsLeft
    <3>2. CASE JavaFails
      <4>1. PICK k \in 0 .. Rows : cursor' = [cursor EXCEPT !.pos = cursor.pos + k]
        BY <3>2 DEF JavaFails, ReadOn
      <4>2. cursor'.rows = cursor.rows /\ cursor'.pos = cursor.pos + k
        BY <4>1 DEF TypeOK, Position
      <4> QED BY <1>1, <1>5, <4>2, SMTT(20) DEF RowsLeft
    <3> QED BY <1>7, <3>1, <3>2
  <2>4. RowsToDo' \in Nat /\ BindsToDo' \in Nat
    <3>1. q = 0 /\ p = 1
      BY <1>2, <2>1, Zenon
    <3>2. q <= m /\ p <= n + 1
      BY <3>1
    <3> QED BY <1>4, <2>1, <3>2, Zenon
  <2> QED BY <1>1, <2>2, <2>3, <2>4 DEF Counted
<1>8. CASE JavaReads
  <2>1. /\ cursor' = [cursor EXCEPT !.pos = cursor.pos + Rows] /\ Rows > 0
        /\ call' = [call EXCEPT !.n = Rows] /\ binds' = binds /\ call.row = 0 /\ call.param = 1
    BY <1>5, <1>8 DEF JavaReads, ReadOn, driver, Control
  <2>2. cursor'.rows = cursor.rows /\ cursor'.pos = cursor.pos + Rows
    BY <2>1 DEF TypeOK, Position
  <2>3. call'.n = Rows /\ call'.row = 0 /\ call'.param = 1
    BY <2>1 DEF TypeOK
  <2>4. RowsLeft' < RowsLeft
    <3>1. PICK r \in Nat : r = Rows /\ r > 0
      BY <1>5, <2>1, Zenon
    <3>2. RowsLeft = cursor.rows - cursor.pos /\ RowsLeft' = cursor.rows - (cursor.pos + r)
      BY <2>2, <3>1, Zenon DEF RowsLeft
    <3>3. cursor.pos + r <= cursor.rows
      BY <1>5, <3>1, Zenon
    <3> QED BY <1>1, <3>1, <3>2, <3>3
  <2>5. RowsToDo' = Rows - 0 /\ BindsToDo' = n + 1 - 1
    BY <1>3, <2>1, <2>3, Zenon
  <2>6. RowsToDo' \in Nat /\ BindsToDo' \in Nat
    <3>1. PICK r \in Nat : r = Rows
      BY <1>5, Zenon
    <3>2. r - 0 \in Nat /\ n + 1 - 1 \in Nat
      OBVIOUS
    <3> QED BY <2>5, <3>1, <3>2, Zenon
  <2> QED BY <1>1, <2>4, <2>6 DEF Counted
<1>9. CASE WriteCount \/ Mark
  <2>1. /\ cursor' = cursor /\ binds' = binds /\ call' = call /\ call.row = 0 /\ call.param = 1
    BY <1>9 DEF WriteCount, Mark, driver, Control
  <2>2. Phase' < Phase
    BY <1>9 DEF WriteCount, Mark, Answer, Phase
  <2>3. RowsLeft' = RowsLeft
    BY <2>1 DEF RowsLeft
  <2>4. RowsToDo' \in Nat /\ BindsToDo' \in Nat
    <3>1. q = 0 /\ p = 1
      BY <1>2, <2>1, Zenon
    <3>2. q <= m /\ p <= n + 1
      BY <3>1
    <3> QED BY <1>4, <2>1, <3>2, Zenon
  <2> QED BY <1>1, <2>2, <2>3, <2>4 DEF Counted
<1>10. CASE WriteEntry
  <2>1. /\ cursor' = cursor /\ binds' = binds /\ step = "entries" /\ code = "busy"
        /\ call.row < call.n /\ call.param <= Len(binds)
    BY <1>10 DEF WriteEntry, driver, Control, Fetching
  <2>2. q < m /\ p <= n
    BY <1>2, <2>1, Zenon
  <2>3. Phase = 3 /\ RowsLeft' = RowsLeft
    BY <2>1 DEF Phase, RowsLeft
  <2>4. \/ call' = call /\ step' \in {"crashed", "idle"}
        \/ /\ call.param < Len(binds) /\ step' = "entries"
           /\ call' = [call EXCEPT !.param = call.param + 1]
        \/ /\ call.row < call.n - 1 /\ step' = "entries"
           /\ call' = [call EXCEPT !.row = call.row + 1, !.param = 1]
    BY <1>10, EntryStep, Zenon DEF Entry
  <2>5. CASE call' = call /\ step' \in {"crashed", "idle"}
    <3>1. Phase' < 3
      BY <2>5 DEF Phase
    <3>2. RowsToDo' \in Nat /\ BindsToDo' \in Nat
      <4>1. q <= m /\ p <= n + 1
        BY <2>2
      <4> QED BY <1>4, <2>1, <2>5, <4>1, Zenon
    <3> QED BY <1>1, <2>3, <3>1, <3>2 DEF Counted
  <2>6. CASE call.param < Len(binds) /\ step' = "entries" /\ call' = [call EXCEPT !.param = call.param + 1]
    <3>1. call'.n = call.n /\ call'.row = call.row /\ call'.param = call.param + 1 /\ Phase' = 3
      BY <2>6 DEF TypeOK, Phase
    <3>2. RowsToDo = m - q /\ RowsToDo' = m - q /\ BindsToDo = n + 1 - p /\ BindsToDo' = n + 1 - (p + 1)
      BY <1>2, <1>3, <2>1, <3>1, Zenon
    <3>3. RowsToDo' = RowsToDo /\ RowsToDo' \in Nat
      BY <2>2, <3>2
    <3>4. BindsToDo' \in Nat /\ BindsToDo' < BindsToDo
      BY <2>2, <3>2
    <3> QED BY <1>1, <2>3, <3>1, <3>3, <3>4 DEF Counted
  <2>7. CASE /\ call.row < call.n - 1 /\ step' = "entries"
             /\ call' = [call EXCEPT !.row = call.row + 1, !.param = 1]
    <3>1. call'.n = call.n /\ call'.row = call.row + 1 /\ call'.param = 1 /\ Phase' = 3
      BY <2>7 DEF TypeOK, Phase
    <3>2. RowsToDo = m - q /\ RowsToDo' = m - (q + 1) /\ BindsToDo' = n + 1 - 1
      BY <1>2, <1>3, <2>1, <3>1, Zenon
    <3>3. RowsToDo' \in Nat /\ RowsToDo' < RowsToDo
      BY <2>2, <3>2
    <3>4. BindsToDo' \in Nat
      BY <3>2
    <3> QED BY <1>1, <2>3, <3>1, <3>3, <3>4 DEF Counted
  <2> QED BY <2>4, <2>5, <2>6, <2>7
<1> QED BY <1>6, <1>7, <1>8, <1>9, <1>10 DEF Drain, Proceed

\* A loop of fetches cannot go on for ever: with a rowset size above 0 each of its steps, in Java
\* and in C++, leaves less to do in an order without infinite descent, for results, rowsets and
\* bindings of any number (OdbcStatement.fetchScroll, JStatement::fetchscroll).
THEOREM DrainsProgress == DrainSpec => EachStepCounts
<1>1. ASSUME PromiseInv, PromiseInv', Drain, attr.size > 0
      PROVE  Rest' \in [1 .. 4 -> Nat] /\ Less(Rest', Rest)
  <2>1. Counted
    BY <1>1, DrainCounts DEF PromiseInv
  <2>2. Rest = <<RowsLeft, Phase, RowsToDo, BindsToDo>>
    BY Zenon DEF Rest, RowsLeft, Phase, RowsToDo, BindsToDo
  <2>3. Rest' = <<RowsLeft', Phase', RowsToDo', BindsToDo'>>
    BY Zenon DEF Rest, RowsLeft, Phase, RowsToDo, BindsToDo
  <2>4. <<RowsLeft', Phase', RowsToDo', BindsToDo'>> \in [1 .. 4 -> Nat]
    BY <2>1 DEF Counted
  <2>5. Less(<<RowsLeft', Phase', RowsToDo', BindsToDo'>>, <<RowsLeft, Phase, RowsToDo, BindsToDo>>)
    BY <2>1, LessOf, Zenon DEF Counted
  <2> QED BY <2>2, <2>3, <2>4, <2>5, Zenon
<1>2. PromiseInv /\ PromiseInv' /\ [Drain]_vars =>
          [attr.size > 0 => Rest' \in [1 .. 4 -> Nat] /\ Less(Rest', Rest)]_vars
  BY <1>1
<1> QED BY <1>2, DrainInvariant, PTL DEF DrainSpec, EachStepCounts

-----------------------------------------------------------------------------
(* Only the attributes of parameters move rows from where they are asked.  *)

\* What is asked for rows and what the fields hold change together (OdbcStatement.setAttrInteger).
LEMMA AskedIsSet ==
  ASSUME TypeOK, FieldsAreRowAttributes, [RowsOnly]_vars
  PROVE  FieldsAreRowAttributes'
<1> USE DEF FieldsAreRowAttributes
<1>1. attr \in [offset : Offset, rowSize : RowSize, size : Size, status : Pointer, rowsFetched : Pointer]
  BY DEF TypeOK
<1>2. CASE RowSettings
  <2>1. CASE Unbind \/ \E c \in Column, k \in Kinds, p \in Place : BindCol(c, k, p)
    BY <2>1 DEF Unbind, BindCol
  <2>2. CASE \E v \in Offset : SetForRows("offset", v)
    <3>1. PICK v \in Offset : attr' = [attr EXCEPT !.offset = v] /\ asked' = [asked EXCEPT !.offset = v]
      BY <2>2 DEF SetForRows
    <3> QED BY <1>1, <3>1
  <2>3. CASE \E v \in RowSize : SetForRows("rowSize", v)
    <3>1. PICK v \in RowSize : attr' = [attr EXCEPT !.rowSize = v] /\ asked' = [asked EXCEPT !.rowSize = v]
      BY <2>3 DEF SetForRows
    <3> QED BY <1>1, <3>1
  <2>4. CASE \E n \in Size : SetSize(n)
    BY <1>1, <2>4 DEF SetSize
  <2>5. CASE \E f \in {"status", "rowsFetched"}, p \in Pointer : SetPointer(f, p)
    BY <1>1, <2>5 DEF SetPointer
  <2> QED BY <1>2, <2>1, <2>2, <2>3, <2>4, <2>5 DEF RowSettings
<1>3. CASE Execute
  BY <1>3 DEF Execute, driver
<1>4. CASE \E statuses \in Pointer : ExtendedFetchFails(statuses)
  BY <1>1, <1>4 DEF ExtendedFetchFails
<1>5. CASE Begins
  <2>1. CASE Fetch \/ FetchScroll
    BY <2>1 DEF Fetch, FetchScroll, Begin
  <2>2. CASE \E rows, statuses \in Pointer : ExtendedFetch(rows, statuses)
    BY <1>1, <2>2 DEF ExtendedFetch, Begin
  <2> QED BY <1>5, <2>1, <2>2 DEF Begins
<1>6. CASE Proceed
  BY <1>6 DEF Proceed, JavaEnds, JavaReads, JavaFails, WriteCount, Mark, WriteEntry, driver
<1>7. CASE Crashed \/ UNCHANGED vars
  BY <1>7 DEF Crashed, vars, driver
<1> QED BY <1>2, <1>3, <1>4, <1>5, <1>6, <1>7 DEF RowsOnly

LEMMA RowsOnlySteps == [RowsOnly]_vars => [Next]_vars
BY DEF RowsOnly, Next, Settings

LEMMA RowsOnlyInvariant == NeverSetsParams => [](TypeOK /\ Control /\ Memory /\ FieldsAreRowAttributes)
<1>1. Init => TypeOK /\ Control /\ Memory /\ FieldsAreRowAttributes
  BY InitTypes DEF Init, Memory, Done, FieldsAreRowAttributes
<1>2. TypeOK /\ Control /\ Memory /\ FieldsAreRowAttributes /\ [RowsOnly]_vars
      => (TypeOK /\ Control /\ Memory /\ FieldsAreRowAttributes)'
  BY NextTypes, NextMemory, AskedIsSet, RowsOnlySteps
<1> QED BY <1>1, <1>2, PTL DEF NeverSetsParams

\* While no attribute of parameters is set, the fields hold what is asked for rows: the comments
\* of OdbcStatement.java are wrong for no other reason (bindDataOffset, bindDataRowSize).
THEOREM FieldsStayRowAttributes == NeverSetsParams => []FieldsAreRowAttributes
BY RowsOnlyInvariant, PTL

\* While no attribute of parameters is set, every bound cell of a rowset is found where the
\* application has asked for it (OdbcStatement.fetchScroll).
THEOREM RowsAreWhereAsked == NeverSetsParams => []RowsWhereAsked
<1>1. TypeOK /\ Memory /\ FieldsAreRowAttributes => RowsWhereAsked
  <2> SUFFICES ASSUME TypeOK, Memory, FieldsAreRowAttributes PROVE RowsWhereAsked
    OBVIOUS
  <2>1. asked.offset = attr.offset /\ asked.rowSize = attr.rowSize
    BY DEF FieldsAreRowAttributes
  <2> QED BY <2>1, CompleteIsPlaced DEF RowsInPlace, RowsWhereAsked
<1> QED BY <1>1, RowsOnlyInvariant, PTL
=============================================================================
