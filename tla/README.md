# TLA+ models of jdbc-over-odbc

The repository is an ODBC driver (`src/jodbc/`, C++) whose every call is carried
out by a JDBC driver, inside a Java virtual machine that the ODBC driver starts
in the application's process (`src/src/main/java/org/dmitri/jodbc/`, Java). The
modules in this directory say what the driver promises an application that uses
its handles, what it keeps between calls, and which orders of calls and which
failures it has to survive; TLC checks them on small instances and TLAPS proves
the most important results for instances of any size.

Paths below are relative to the repository; `OdbcStatement.java` and its
neighbours are in `src/main/java/org/dmitri/jodbc/`, the C++ files in `jodbc/`.

- [The system](#the-system)
- [Modules](#modules), one section per component
- [Runs](#runs), bounds and fairness
- [Theorems](#theorems)
- [What is left out](#what-is-left-out) and [Plan](#plan)

## The system

```
 application threads
      |  SQLAllocHandle, SQLConnectW, SQLPrepareW, SQLFetch ...
      v
 jodbc.cpp ---- checks the handle for NULL, picks the object
      |
 JStatement, JDatabase (jstatement.cpp, jdatabase.cpp) ---- texts: unicode.cpp
      |  a lambda
      v
 java_callback (jvm.hpp) ---- a new thread: attach, run, clear, detach
      |  JNI
      v
 JniEntrypoint.java ---- looks the statement up in OdbcDatabase.statements
      |
 OdbcStatement, OdbcDatabase, OdbcImpDescriptor ---- java.sql
```

Every ODBC function blocks until the thread it has started is done, so the calls
of one application thread follow each other, and those of several threads
interleave. There is no lock anywhere in the driver.

| component | state it keeps | operations | what is hard | what makes it correct | modules |
|---|---|---|---|---|---|
| Statement handles (`OdbcStatement.java`, `jstatement.cpp`) | references to a `PreparedStatement` and a `ResultSet`, a descriptor, bound columns, attributes | prepare, execute, fetch, scroll, more results, count, close, bind | references to objects JDBC closes behind the driver's back; `close()` in empty catch blocks; steps of which one fails | no row passed over in silence, no old rows or old text after a failure, nothing leaks, handles do not disturb each other | `OdbcStatement` over `Jdbc`, implementing `Cursors` |
| Rowsets (`bindColumn`, `setAttr`, `fetch`, `fetchScroll`; `jstatement.cpp:340-520`) | a list of bindings, offset, row size, rowset size, two pointers | bind, unbind, set, fetch, scroll, extended fetch | rows read in Java and written in C++ slot by slot; bindings that pile up; fields shared by attributes; a null pointer in the middle | each row where it was asked for and nothing else, statuses and count that tell the truth | `Rowset`, implementing `Rowsets` |
| JVM and call bridge (`jvm.cpp`, `jvm.hpp`), handle allocation (`jodbc.cpp`) | `globalJvm`, the JVM of the process, threads and their pending exceptions, `OdbcDatabase.statements` | start the JVM, call a method, allocate an environment, a connection, a statement | threads racing on an unlocked pointer and an unlocked `HashMap`; Java and C++ exceptions; a null object behind a handle | a call is synchronous and its answer honest, one JVM, handles that were given out are found, every call returns | `Bridge`, implementing `Calls` |
| Connection (`jdatabase.cpp`, `OdbcDatabase.java`) | the parameters of the Java object, the JDBC connection, a flag | connect, reconnect | a sequence of separate calls, none undone on failure, on an object that outlives the attempt | connecting is atomic | `Connection`, implementing `Sessions` |
| Text conversion (`unicode.cpp`, `unicode.hpp`, parts of `jvm.cpp`) | a source, a buffer, two positions | UTF-16 to UTF-8 and back, copying to the application | buffers sized by a formula, lengths in bytes or units, surrogates | nothing dropped or beyond a buffer, what arrives was sent, all or nothing, the loops end | `Text`, implementing `Passages` |
| JNI dispatch (`JniEntrypoint.java`) | none | finds the statement of a handle, passes calls on | a handle that is not in the table | part of the actions of the three modules above | |
| ODBC entry points (`jodbc.cpp`) | none | one function per ODBC call | which result is looked at and which is not | allocation in `Bridge`, the rest part of the actions above | |
| Result description (`OdbcImpDescriptor.java`, `jdescriptor.cpp`) | a table of descriptors | register, remove, answer fields | the descriptor and the result set have different lives | an open cursor can be described | `OdbcStatement` (its existence), `Answers` (how fields are told) |
| Information functions and attributes (`getInfo`, `getConnectionAttr`, `getAttr`, the functions of `jvm.cpp` that tell an answer) | none | `SQLGetInfoW` and four `Get` functions | two tables of numbers for one question, lengths in bytes or units, rooms that are ignored | numbers stay in their variables, a text asked for twice arrives | `Answers` |
| Enumerations | none | tables of constants | | | as far as the other modules tell their values apart |

How they interact: `Bridge` shows that a call through `java_callback` takes place
between its start and its answer, on behalf of one thread (`Calls`). This is why
`OdbcStatement` and `Connection` may take one call into Java as one step: calls on
different handles interleave at the granularity of such calls, and a handle is
used by one thread at a time, as ODBC asks of an application. A connection makes
one call per parameter, hence one step each in `Connection`; a function on a
statement makes its changes of state in one Java method, hence one action each in
`OdbcStatement`. There a fetch is one step that moves the cursor; `Rowset` takes the
same step apart, for one handle, to see what is written before it fails. The models
assume no serialisation by the driver manager.

The 39 behaviours that are hard to test are listed in `PROJECT.json` under
`hazards`, each at its line and with the properties that watch it.

## Modules

`PROJECT.json` (`map`) ties each definition to the lines it models. Definitions
whose comment begins with "Fault:" are not part of any specification: each is an
action or operator as a plausible bug would have it, and there to show that a
property is able to fail.

### Statement handles: Jdbc, OdbcStatement, Cursors

`Jdbc` has the JDBC objects as `OdbcStatement.java` uses them: a prepared
statement knows its text and whether it ran, a result set its statement, its
number of rows and its position. Closing a statement, executing it again or moving
to its next result closes its result sets, which is where references go stale. The
pools `PStmt` and `RSet` bound how many objects exist at a time; one that is closed
and referred to by nobody stands for one that was collected, and comes back as a
new one. When no object is free, a call that needs one is not enabled.

`OdbcStatement` has one action per function on a handle; its last argument is the
answer, among `SQL_SUCCESS`, `SQL_NO_DATA`, `SQL_ERROR` and `exception` (a C++
exception came out of the call). Every JDBC call may throw, and `close()` may throw
before or after it took effect.

| action | code |
|---|---|
| `Prepare`, with `CloseOldPlan`, `PrepareThrows`, `TimeoutThrows`, `PrepareReturns` | `OdbcStatement.prepareStatement`: the first try block closes what there was and hides what is thrown; the second prepares, registers a descriptor, sets the timeout |
| `ExecDirect` | `prepareStatement` and `execute` in one call |
| `Execute` | `execute`: close the old result set, hide what is thrown, execute |
| `MoreResults` | `moreResults`: the field is replaced or left with a closed result set |
| `FreeStmt` | `SQLFreeStmt`: `SQL_CLOSE` also removes the descriptor; `SQL_UNBIND`; the options that do nothing |
| `Fetch`, `FetchScroll` | `fetch` and `fetchScroll` with `fetchColumn`, and `bindResultToVariable` in `jstatement.cpp`: rows are read one by one into an array and delivered together; a column that cannot be read fails in Java, one that cannot be written throws in C++ |
| `GetData` | `SQLGetData`: reads, moves nothing |
| `RowCount`, `DiagCursorRowCount` | `getRowCount` and `getRowCountCursor`: `last()`, `getRow()`, `beforeFirst()` on the very cursor that is fetched |
| `BindCol`, `SetArraySize`, `SetQueryTimeout` | the settings that change what the others do |
| `NumResultCols` | whether there is a descriptor and metadata behind it |
| `AllocStmt` | `createStatement` |

`asked`, `opened`, `seen`, `errored`, `swallowed` and `leaked` are what an
application was told and what a catch block has hidden; no action of the driver
reads them. Properties that have exceptions ("unless `prepareStatement` hid an
exception of `close()`") name the catch block that makes the exception, so that
they say exactly how much of the promise the code keeps.

Two restricted specifications say how far two of the findings reach. `NeverCounts` is the
driver under an application that never asks for the number of rows (no `SQLRowCount`, no
`SQL_DIAG_CURSOR_ROW_COUNT`), `NeverCloses` under one that never frees with `SQL_CLOSE`.
Under the first cursors only go forward (`ForwardOnly`) and the rows an application has
seen are those its cursor has passed, each once (`SeenIsPassed`); under the second an open
cursor always has its descriptor (`OpenCursorIsDescribed`).

The fetch actions assume that the application has given pointers that can be written
through; `Rowset` has what happens otherwise.

`Cursors` is what an application may rely on, without objects: every handle has at
most one plan and one cursor, and only calls on the handle change them.

### Rowsets: Rowset, Rowsets

`Rowset` is one handle with an open cursor and the memory of its application. An
address is the place of one object: a value, a length, a status or a counter.

| action | code |
|---|---|
| `BindCol`, `Unbind` | `OdbcStatement.bindColumn`, which appends, and `freeResourceUnbind` |
| `SetForRows`, `SetForParams`, `SetSize`, `SetPointer` | `setAttr`: two attributes of rows and two of parameters share two fields, the value of an offset pointer is taken for the offset |
| `ExtendedFetch`, `ExtendedFetchFails` | `SQLExtendedFetch` (`jodbc.cpp:680-690`): two pointers set by two calls, then a scroll |
| `JavaEnds`, `JavaReads`, `JavaFails` | `fetch`, `fetchScroll` and `fetchColumn`: rows read into an array, or dropped |
| `WriteCount`, `Mark` | `jstatement.cpp:471-484`: the count, then the entries of statuses, both before the first row |
| `WriteEntry` with `Slot`, `Written`, `Crashes`, `Escapes`, `Advance` | the loops of `fetch` and `fetchscroll` over the slots, and `bindResultToVariable` |

A binding has a kind that says how it fares (`fits`, `tight`, `throws`, `escapes`); a
string without a buffer to write it to counts as `fits` and has its value in no place.
`stored` is a set of writes with the slot each came from, since the last write to an
address is the one an application finds. `step = "crashed"` is the end of the process:
a write through a null pointer. What is assumed: memory of the application does not
change under the call; and of the 8-byte writes into 4-byte locals
(`jstatement.cpp:412`), which are undefined behaviour, the outcome of the build the
repository tests, in which the values arrive.

`DrainSpec` is the same driver under an application that has made all its settings and
fetches until it is told something other than `SQL_SUCCESS`. `NeverSetsParams` is the
driver under an application that never sets an attribute of parameters, for which the
rows are where it has asked for them (`RowsWhereAsked`) and not only where the fields of
the statement say (`RowsInPlace`).

`Rowsets` is what is promised: between a call and its answer nothing is to be seen; a
success puts exactly the cells of the rows in place (`Image`), as many as the rowset
size asks for or the result has left; a failure has written a part of that and may have
lost rows.

### Information and attributes: Answers

`Answers` has the questions of `SQLGetInfoW` and of `SQLGetConnectAttr`,
`SQLGetStmtAttr`, `SQLColAttributeW` and `SQLGetDescFieldW`, with the room that comes
with each and whether there is a variable. An answer is a record of the return code,
the bytes written, the value, and the length told. `JavaInt`, `JavaShort`, `DriverText`
and `DatabaseText` are the table of `OdbcDatabase.getInfo`; `Fallback` is the table of
`SQLGetInfoW` itself, which answers with `SQL_SUCCESS` whatever has failed before.
`Number`, `Text`, `Label` and `Long` are the functions of `jvm.cpp` that tell an
answer. No two of them agree on what a room is; the differences are in the model.

A text stands for its length, and numbers that come from JDBC for 1; both fit 32 bits.
The driver is built for 32 bits (`src/Makefile`), so a pointer, as the handle of a
descriptor is, has four bytes.
Assumed of the application: it always gives a pointer for the length, and no room is
-1. The length of `SQLGetInfoW` is a local that some paths never assign
(`Garbage`, written -1). `works` is an outage at the database, or a statement without a
result: the calls of JDBC throw.

### JVM and call bridge: Bridge, Calls

`Bridge` takes `create_vm`, `java_callback` and the lambdas run by it step by step;
`step[t]` names what comes next for thread `t`. `AllocEnv`, `CheckJvm`, `CreateJvm`,
`JvmStarted` and `PublishJvm` are `SQLAllocHandle(SQL_HANDLE_ENV)`, with the check
of `globalJvm`, `JNI_CreateJavaVM` (which refuses a second virtual machine in a
process) and the assignment of the pointer as separate steps. `EnterCallback`,
`AttachWorker`, a lambda, `ClearException`, `DetachWorker` and `GiveHandle` are any
other call. The lambdas are `preInitConnection` (`InitConnection`, `Crash`),
`createStatement` (`BeginPut`, `EndPut`, `CreateStatementThrows`: the two steps of
`HashMap.put`, which may lose an entry if the table has changed in between) and a
method on a statement (`RunMethod`, `ConvertResult`, `ConvertThrows`).

`SQL_SUCCESS` here stands for any answer that is no error (`SQL_NO_DATA` too). A
lambda that checks its method's exception with `ExceptionDescribe` clears the
exception with it. `AttachCurrentThread` is taken to succeed, as the code does. A
connection whose class or object is null is handed out all the same, and the next
call on it ends the process (`crashed`): the run does not check deadlock for this
reason alone. `SpecInTurn` is the bridge under an application that allocates the statements
of a connection one at a time, and otherwise calls from as many threads as it likes; it
never meets the exception that `EveryHandleFound` and `EntriesStay` make. The thread that started the virtual machine stays attached to it.

`Calls` is a synchronous call: invoked, run at most once, answered, and answered
with success only if it ran.

### Connection: Connection, Sessions

`JDatabase::connect` reads `ClassPath`, `URL`, `DriverClass`, `User`, `Password` and
`Debug` of the data source from `odbc.ini`, in this order, calls a setter of
`OdbcDatabase` for each that is not empty, and calls `connect`. Each is a step of
`Connection` (`SkipEmpty`, `SetParameter`, `SetParameterFails`, `JavaConnect`,
`JavaConnectFails`); the steps of attempts on different handles interleave. A missing entry is
read as its own name (the default value the code passes), an empty one is passed
over and leaves what an earlier attempt has set. The JDBC connection is assigned
only when it was opened; the flag of the `JDatabase` is set even when the connection
string does not fit the output buffer and the answer is an error. With no data
source in the connection string (`ConnectNowhere`), an empty string on a connected
handle is answered `SQL_SUCCESS` and anything else `SQL_ERROR`.

Connecting a connected handle is legal here, as `test/test-jdbc.cpp:231-248` does
it; the JDBC connection is replaced and the old one never closed. `SQLDisconnect`
returns `SQL_SUCCESS` and does nothing, so it has no action. The user and password
given to `SQLConnectW` are ignored by the code. Attempts on one handle are assumed
not to overlap. A missing `Debug` sets the level of logging of the process; logging
is left out.

One variable is a history that no step reads: `tried[h]`, the data sources that attempts
on the handle have named. With it `LeftoversAreKnown` says how far what an earlier attempt
set can travel: an empty entry leaves a value of a source that was tried on the same
handle, and nothing else, so that a handle on which one source alone was tried gets
what that source says.

`Sessions` is an atomic connect: a session with the entries of the data source that
was asked for begins, or nothing changes but the answer.

### Text: Text, Passages

`Text` converts a text one turn of the loop at a time, in three cases: `utf-16` is
`ucs2_to_utf8` as `ustring::utf8` calls it, from the application towards Java;
`java` is `utf8_to_ucs2_lf` on what `GetStringUTFChars` returns; `plain` the same
function through the macro `utf8_to_unicode`, which passes no length. Each branch of
a loop is an action. `target` is the buffer of `Room` items with what has been stored
in it, `len` the length the code counts, which is advanced whether or not something
was stored. Items are integers: bytes, and UTF-16 units with their width.
What a branch computes has a name (`TwoOf`, `ThreeOf`, `FourOf`, `UnitOfTwo` ...), and is
compared with `Bytes`, the definition of UTF-8. Then `Copy`
copies what arrived to the application in one of five ways, chosen by `api`:

| `api` | code | used by |
|---|---|---|
| `field` | `jstringToString`, and `jarrayToString` (`jvm.cpp:112`) | `SQLGetDescFieldW`, `SQLGetInfoW` |
| `label` | `jarrayToString` (`jvm.cpp:173`) | `SQLColAttributeW` |
| `name` | `JStatement::describeColumn` | `SQLDescribeColW` |
| `sql` | `JDatabase::getNativeSql`, `javaConnect` | `SQLNativeSqlW`, `SQLDriverConnectW` |
| `char` | `jstringToChar` | a bound or fetched `SQL_C_CHAR` |

Some count bytes and some units, as in the code.

What the code does and a reader might not expect, all of it in the model: Java
strings arrive in the modified UTF-8 of JNI; a lone high surrogate swallows the unit
after it, so that `SentAsUtf8` is about well-formed texts only; `U+0000` cuts a text;
the wide `strcpy` writes no terminator when the text fills the buffer exactly; the narrow copy
writes a terminator after the last byte; a bound value that is too long is passed
over with `SQL_SUCCESS` and the length 0. `lower_identifier` is always `FALSE` and
the line feed and error checks always off. Supplementary characters towards Java are
sent as UTF-8 and not as the modified form `NewStringUTF` takes; what Java makes
of them is outside the model.

`Passages` is what passing a text promises, without turns and buffers: in one step the
text is on the other side, as its UTF-8 or, from Java, as it was up to its first
`U+0000`; in another the application is given the whole of it, within the room that the
function it asked takes for its own, or an error, or the length 0. What
the bytes of a text are is a constant operator here, which `Text` fills in.

## Runs

Each run checks the definitions `PROJECT.json` lists for it; each of these also has
a mutant, a change of one mapped definition under which TLC finds it violated.

| run | instance | shows |
|---|---|---|
| `lifecycle` | 2 handles, 3 statements, 3 result sets, 1 text, no rows | who holds, owns and leaks which JDBC object (`OpenMeansAnnounced`, `NoLeak`), and that handles implement `Cursors` |
| `fetch` | 1 handle, up to 2 rows, 1 bound column of each kind, rowsets of 0 to 2 | `NoSilentSkip`: no row is passed over unless the application was told, or `getRowCountCursor` hid it; `NoDataMeansAll`: when a fetch answers `SQL_NO_DATA` every row of the result has been delivered, under the same exceptions |
| `prepare` | 1 handle, 2 texts, with and without a timeout | `RunsWhatWasAsked`: what can be executed is the last text given |
| `descriptor` | 1 handle | violation of `OpenCursorIsDescribed`: after `SQL_CLOSE` and `SQLExecute` the open cursor has no descriptor |
| `forwardonly` | 1 handle | violation of `ForwardOnly`: counting rows rewinds the cursor |
| `bridge` | 2 threads, 1 connection, 2 statements | answers are honest, workers detach, one JVM, handles are found, calls are synchronous and return, a call always has a step to take (`NeverStuck`), an entry stays in its table while no allocations overlap (`EntriesStay`), in every interleaving and with every failure |
| `connect` | 1 handle, 2 data sources, 13 contents of `odbc.ini` | connecting is atomic, a session has nothing but what data sources tried on its handle give (`LeftoversAreKnown`), and every attempt is answered |
| `rowset` | 2 columns, 2 bindings at shared or disjoint places, 2 rows, rowsets of 0 and 2, every order of settings | `RowsInPlace`, `StatusInArray`, `StatusesTell`, `CountIsHonest` |
| `bindings` | 1 column, up to 2 bindings of every kind, null pointers, 3 rows, rowsets of 0, 1, 2, 4 | `StoredInPlaces` and `Implements` under every failure and crash, that every step of a loop of fetches leaves less to do (`EachStepCounts`), and `DrainEnds` |
| `attributes` | 1 column | violation of `FieldsAreRowAttributes`: attributes of parameters change the layout of rows |
| `text` | every text of up to 3 units out of 11, both directions, buffers of 0 to 8 | `SentAsUtf8`, `ArrivesUnchanged`, `NothingDropped`, `NothingOverrun`; the loops stay in their source (`ReadsStay`) and end; a passage implements `Passages` (`IsPassed`), with each of the five functions |
| `answers` | every question, 8 rooms, texts of 0 and 2 units | `AskedTwice`, `NumbersFit` |

The three violations are real disagreements: the first with `test/test-jdbc.cpp:685-686`,
which asserts that an executed statement can be described, the second with the cursor
type the driver reports (`OdbcStatement.java:271`, `SQL_CURSOR_FORWARD_ONLY`), the third
with the comments at `OdbcStatement.java:40` and `:43`, which call the two fields
`SQL_ATTR_ROW_BIND_TYPE` and `SQL_ATTR_ROW_BIND_OFFSET_PTR`. Each takes a sequence of
legal calls no test of the repository makes.

Other things the models show and no document denies: the count of rows is not written
with `SQL_NO_DATA` (`jstatement.cpp:467`); without a bound column no status is written,
and with two or more entries beyond the rowset are (`StatusInArray` holds for one
column); `SQL_STATIC_SENSITIVITY` is 5 in one table of `SQLGetInfo` and 7 in the other;
a rowset size of 0, which is what it is until it is set, makes every `SQLFetchScroll` a
success with no rows (`DrainEnds`).

### Bounds

- `MaxRows`, `MaxBound`, `MaxArraySize` and `MaxTimeout` bound what an application or a
  data source brings. Two rows and rowsets of two make a rowset fail in its second row,
  end in the middle of a rowset, and be counted between rows. `lifecycle` has no rows:
  its properties are about which object is open, which no action makes depend on rows.
- Three statements and result sets for two handles let one handle leak an object and
  still get another while the second handle holds one of its own.
- In `bridge`, two threads suffice for every race: each race in the code is of one
  thread's check with another's write. The same instance with three threads passes
  too as far as safety goes (about three minutes with symmetry) and is left out for its
  length. Statement handles and JDBC objects are interchangeable in `lifecycle`, `fetch`
  and `prepare`, where symmetry is used: these check safety alone.
- `connect` has one handle: attempts on different handles share nothing but
  `odbc.ini`, which does not change, and the theorems hold for any number of handles.
  Two data sources let one leave values behind for the other.
  The contents are complete, or lack one entry of one data source, or have it empty.
- The units of `text` are the boundaries of every branch: 7F, 80, 7FF, 800, the first
  and last high and low surrogates, and the last unit; 0 is added where it can arrive.
  No branch looks back or further ahead than one character, so three units put every
  pair of branches after each other and every kind of character at both ends.
  Buffers of 0 to 8 are smaller, equal to and larger than three units, their six bytes
  and a terminator, in either measure.
- `rowset` has two bindings, so that a column can be bound twice, two columns share a
  place, or lie side by side; a row size of 4 holds both columns and one of 0 neither. An
  offset of 20 is away from all places. `bindings` has rowsets that are shorter than the
  result, that end with it and beyond it, and null pointers on either side of a binding;
  its settings are chosen once, since `rowset` has every order of them.
- In `answers` no answer depends on more than the settings and the database, and
  `AskedTwice` on two answers in a row. The rooms are the sizes at which a comparison
  turns for a text of the table, and a type code.

### Fairness

`OdbcStatement` states none: nothing has to happen unless the application calls.
`Bridge!FairSpec` has weak fairness of the steps of each thread once a call has begun
(`Proceed`): threads are scheduled by the operating system, `JNI_CreateJavaVM` and Java
methods end; nothing is assumed of the application, nor that a call is ever made. The safety properties of `bridge` are checked under
the same specification, which has the same reachable states.
`Connection!FairSpec` has weak fairness of `Proceed` per handle: each of its steps is a
call, and calls return by `CallsReturn`. In `Text` it is a loop on the processor.
`Rowset!DrainSpec` has weak fairness of `Drain`: calls go on, and this one application,
described by the specification, calls again as long as it is told `SQL_SUCCESS`.

## Theorems

The theorems hold for every value of the constants that meets the assumptions, which
TLC evaluates on every run: bounds are natural numbers (`BoundAssumption`,
`HandleAssumption`, `LengthAssumption`), `Null` is no other value (`NullAssumption`,
`PositionAssumption`), statements are no result sets (`PoolAssumption`), units have
16 bits and are not 0 (`UnitAssumption`), a missing entry is no value and `odbc.ini`
has values (`AbsentAssumption`, `IniAssumption`).

### OdbcStatementProofs

`TypeCorrect`, `CursorFromStatement`, `HandlesShareNothing`, `RunsTheLastText`,
`CursorsAreAnnounced`, `RowsAreNotSkipped`, `NothingLeaks` and `ImplementsCursors`: for
any number of handles, JDBC objects, texts and rows.

`HoldingInv` is what is inductive about references: `TypeOK`, `OwnersOpen` (an open
result set has an open statement), `ResultOfStatement` and `NoSharing`. None is
inductive alone. Closing a statement closes its result sets, and that none of these is
another handle's needs that the other's comes from its own statement, which is a
different one; and a fresh statement has no result sets only because owners are open.
`HonestInv` adds `Honest(h)` for each handle: what its application was told about its
plan, its cursor and its rows (`RunsAsked`, `Announced`, `AllSeen`). The lemma `Steps`
puts every action into one of a few effects on the two references and on the cursor (moved
by a fetch, moved by a count, changed or left alone); each conjunct is
shown once per effect, not once per action. `CallSteps` and `OtherSteps` are the same for
one call, with and without the calls that count rows. `FootprintOfCall` says which objects a call
on a handle can touch, and `Isolation` that no other handle holds them; from these
follow both the other handles' part of `HonestInv` and the refinement of `Cursors`.
`NoLeak` is shown from `HoldingInv` by which references a call drops (`LeakOfCall`).

### OdbcFetchProofs

`NoDataIsHonest`, `RowsComeOnce`, `CursorsGoForward` and `CursorsAreDescribed`: what a loop
of fetches is told at its end, and the causes of two of the violations.

`NoDataIsHonest` (`Spec => NoDataMeansAll`) needs both inclusions: `Honest` has that no row
before the cursor is missing from what was delivered, and `RealInv` adds that nothing was
delivered that is no row of the result (`SeenReal`), which has to be shown of every action
that replaces the cursor, since what was seen of the old one must be forgotten with it. A step that answers `SQL_NO_DATA` again, and changes
nothing, is a stutter, of which the property says nothing new.

The other three are about restricted specifications. `ForwardOnly` fails in the run
`forwardonly` and `OpenCursorIsDescribed` in `descriptor`; `CursorsGoForward`
(`NeverCounts => ForwardOnly`) and `CursorsAreDescribed` (`NeverCloses =>
[]OpenCursorIsDescribed`) say that counting rows and `SQL_CLOSE` are the whole cause, for any
number of handles and rows. `BehindInv` says that what was delivered lies behind the cursor
and that no failed count was hidden, and with `RealInv` gives `RowsComeOnce`: each row is
delivered once, in order. `DescribedInv` says that an allocated handle has its descriptor from the beginning; that only
`SQL_CLOSE` takes it away is a lemma with a step per action (`DescriptorStays`). The lemma
they share, `ChangingSettles`, is that a call which does not move a cursor closes it,
replaces it by one of which nothing was delivered, or leaves it alone (`Settled`).

### BridgeProofs

`TypeCorrect`, `AnswersAreHonest`, `WorkersAreGone`, `OneThreadPublishes`,
`JvmIsForGood`, `HandlesAreFound`, `EntriesAreKept`, `HandlesInTurnAreFound`,
`EntriesInTurnAreKept`, `ImplementsCalls` and `CallsDoReturn`, for any number of threads, connections and statements. The invariant `IInv` says which calls a step can belong to
(`CallFits`), at most one thread is between creating the JVM and publishing it, and the
pointer is null until then (`JvmOnce`), who has seen the JVM (`JvmSeen`), what a worker
has done by each of its steps (`Progress`), and what the table holds while a put is
under way (`Table`): the table a `put` has read is current unless the connection is in
`overlapped`. There is one lemma per conjunct, with a step per action (`TypeStep`,
`CallFitsStep`, `JvmOnceStep` ...). For the refinement, a step of a
thread is one of the three of `Calls` or a stutter, and it leaves the phases of other
threads alone. `EntriesAreKept` is an action property: the table that a `put` writes back
is the one it has read with one entry more, which loses nothing as long as `Table` says
that what was read is current.

`HandlesInTurnAreFound` and `EntriesInTurnAreKept` are about `SpecInTurn`. One thread at most
has an allocation under way on a connection, so that none is ever in `overlapped` (`InTurn`,
inductive together with `IInv`): with allocations in turn every handle is found and no
entry is lost, without an exception. Nothing else the threads do at the same time has to be
put in turn.

`CallsDoReturn` is liveness: `FairSpec /\ []NeverStuck => CallsReturn`. `Left(t)` is
the number of steps a call has still to take, at most eight. A step of the thread
lowers it, one of another thread leaves it as it is (`StepCounts`, `StepKeeps`); weak
fairness makes each number lead to a smaller one, and eight such leaps, combined in
temporal logic, to the answer. That the fair step is enabled is `NeverStuck`, a
hypothesis, since `ENABLED` is out of the prover's reach; `bridge` checks it as an
invariant, so that no state of the instance violates the hypothesis.

### ConnectionProofs

`TypeCorrect`, `ToldIsConnected`, `ImplementsSessions`, `NothingElseIsLeft` and
`AttemptsDoEnd`, for any number of handles and data sources and any contents of `odbc.ini`. Atomicity is not visible in the state
at the moment of the last step unless the steps before it are remembered: `Taken(h)`
says that every entry the attempt has read so far and was not empty is what the Java
object holds now. `Told(h)` says that the flag, and a `SQL_SUCCESS`, come with a
connection.

`NothingElseIsLeft` is `LeftoversAreKnown`. It speaks of sessions, and a session is begun
with what the Java object holds, so its invariant `FromTried` says the same of the fields
of that object at any moment, between two attempts too, and that the data source of an
attempt under way is one of those tried. `KnownStays` is the part all steps share: what
is known stays known, since the sources tried only grow and `odbc.ini` does not change.

`AttemptsDoEnd` is proved as `CallsDoReturn` is, with the same kind of hypothesis: an
attempt has seven steps at most, one per entry and `connect`. Here no run has the
hypothesis as a property of its own: with one handle, a reachable state in which the
attempt has no step would violate `AttemptsEnd`, which `connect` checks.

### TextProofs

`TypeCorrect`, `NothingIsDropped`, `TheUtf8IsSent`, `NothingIsLost`, `NothingIsOverrun`,
`TheTextArrives`, `NothingIsReadBeyond`, `PassagesAreShort`, `WholeTexts`, `CopiesStay` and
`ImplementsPassages`: for texts of any length over any 16-bit units but
`U+0000`, which only Java's texts may hold, and for buffers of any size.

The definition of UTF-8 concatenates the bytes of the characters, so that a proof about
the loops is an induction over the text. `TextLemmas` does it without an operator as a
parameter: `Least` is the least number principle for sets, from the library's
`WFMin` and `NatLessThanWellFounded`; `UpTo` is induction for the set of the numbers for
which a claim holds; `PrefixesRecur` derives from them that `Prefixes` has the values its
recursion says, and `PieceOfJoined` says where a character's bytes are found in the
whole. `TwoBytes`, `ThreeBytes` and `FourBytes` are the arithmetic: what a branch of
`ucs2_to_utf8` computes is the UTF-8 of the character, and what a branch of
`utf8_to_ucs2_lf` computes of these bytes is the character again.

`Sending` and `Receiving` put the four branches of each loop into one form. The invariant
of the first loop is `Pace`, which bounds the length by what was read, three bytes per
unit (a pair of surrogates makes four bytes of two units; the last turn may read one unit
beyond the end, after which nothing is stored), and, if surrogates are paired, `Spelled`:
what is stored are the characters read so far, and the next unit is no low surrogate. The
invariant of the second is `Between`: the number of bytes read is the length of the
characters stored, whose units the buffer holds. From it follows which lead byte
is ahead (`NextCharacter`), hence which branch is taken (`SameTurn`), that no byte is
refused and that the loop stops at the end only. `append_string` stores nothing when the
buffer is full but advances the length, so `NothingIsDropped` is a fact about the
formula `4 * size + 1`; `NothingIsOverrun` rests on no character having fewer bytes than
units.

That what is sent is the UTF-8 of the text says little if two texts could have the same
UTF-8. `NothingIsLost` says they have not, if their surrogates are paired: no character's
bytes begin another's (`OneCharacter`, arithmetic on the digits of a code point), and so two
texts of the same bytes that agree up to a character agree on it (`SameFurther`).

`NothingIsReadBeyond` follows from the branches a turn can take: towards Java a turn reads
two units at most, and the second is the terminator at the furthest; from Java the lead
byte says how many bytes there are (`NextCharacter`). `PassagesAreShort` is the
variant of the loops. `ImplementsPassages` puts the others together: a turn is a stutter,
the last one is `Pass` because of `TheUtf8IsSent` and `TheTextArrives`, and a copy is
`Give`, by a lemma on what each of the five functions writes (`AnswerTells`). Only the
refinement says that an answer is either the whole text or told to be less, and also that
what has arrived stays while it is copied.

### RowsetProofs

`TypeCorrect`, `CountsAreHonest`, `StatusesInArray`, `StatusesAreTrue`, `WritesInPlaces`,
`RowsArePlaced`, `ImplementsRowsets`, of `NeverSetsParams` `FieldsStayRowAttributes` and
`RowsAreWhereAsked`, and of `DrainSpec` `DrainsWriteInPlaces`,
`DrainsImplementRowsets` and `DrainsProgress`: for any columns, places, offsets, row sizes,
rowset sizes and bindings. Places and settings are numbers that include the null pointer
(`AddressAssumption`), `Null` is none of them and no answer (`NullAssumption`).

The invariant has three parts. `Control` ties the program's place to the data: how far
the cursor has moved since the call began, how many rows the array has, and which slot
is next. `Statuses` says what the entries are once they are marked: success up to the
row under way, no row behind it. `Memory` says that what is stored is what the slots
before the present one write, no more and no less. `RowsInPlace` needs more than that
each cell was written: that none was overwritten by a cell of another row or column
(`NothingOver`), which is arithmetic about places, `attr.rowSize` and `Disjoint`; and that
of two bindings of a column the later is also written later. For the refinement,
`PromiseInv` says which rowset the call in progress wants; a step of the fetch is a
stutter until the answer, which is `Deliver`, `End` or `Fail`.

`FieldsStayRowAttributes` says that attributes of parameters are the whole cause of the
violation in `attributes`: without them what is asked for rows and the two fields change
together (`AskedIsSet`). `RowsAreWhereAsked` follows from it by the lemma behind
`RowsArePlaced` (`CompleteIsPlaced`).

`DrainSpec` has other initial states and fewer steps. Its initial states satisfy the
same invariants, and each of its steps is a step of `Next`, from which the first two of its
theorems follow. `DrainsProgress` is the variant of the loop of fetches: `Rest` is the
rows left in the result, then the steps to the next rowset or to the end, then the rows and
the bindings the present rowset still has, and each step makes it smaller in the
lexicographic order. It needs a rowset
size above 0, without which a fetch delivers nothing for ever, and on
`Control`, which says that a rowset of rows has taken as many from the result.

### AnswersProofs

`TypeCorrect`, `TextsFit` and `NumbersInRoom`: for any rooms, lengths of texts and rowset
sizes. `AskedTwice` speaks of two answers, and is inductive only with `Lengths`: each
answer kept, and the one before it, told the length of its text, of the database's text
of the moment; the length of a driver's text is in the table. What an answer tells
depends on the question alone, so that most leaves are a case split on a table.

### Proved, and not run

Some properties have theorems and no run of their own. `WholeOrNothing` and
`StaysInBuffer` (`WholeTexts`, `CopiesStay`) are parts of what `IsPassed` asks,
`SuccessMeansConnected` (`ToldIsConnected`) of `ConnectsAtomically`. `ResultOfStatement`
(`CursorFromStatement`) and `NoSharing` (`HandlesShareNothing`) are parts of the invariant that
`NoLeak` and the refinement of `Cursors` rest on, `JvmStays`
(`JvmIsForGood`) a consequence of what `OneJvm` rests on. `EachStepCounts` of `Text`
(`PassagesAreShort`) is the variant behind `Ends`, and `TellsTheText` (`NothingIsLost`)
quantifies over all texts. What holds under the restricted specifications (`NeverCounts`,
`NeverCloses`, `SpecInTurn`, `NeverSetsParams`) is proved and has no run: their steps are
steps of `Next`, and the runs that check `Next` have the same states and more. Replacing
the SPECIFICATION of `forwardonly.cfg`, `descriptor.cfg` or `attributes.cfg` by the restricted
one makes TLC pass.

### Model-checked only

- `NeverStuck` of `Bridge`, since it states `ENABLED`; that of `Connection` is a
  hypothesis only, checked through `AttemptsEnd`.
- `Ends` of `Text` and `DrainEnds` of `Rowset`. That every step lowers a variant is proved
  (`EachStepCounts`), for the variant of texts and results of any size; that a variant
  without infinite descent makes fair loops end is an induction in temporal logic over
  numbers without a bound, which the prover cannot do.
- The three violations.

## What is left out

- **Values**: what is stored in a buffer, and whether a number or a date is converted
  right. `Rowset` says where a value goes and `Answers` how wide it is.
- **Tables of constants without a case**: `SQLGetFunctions` and `SQLGetDiagRec` answer
  each question with a constant. The fields of `describeColumn` and `getDiagField` are
  formatted and copied by the functions `Text` and `Answers` have.
- **The numbering of descriptors**, and the cache of type information in
  `OdbcDatabase.java`, which has no caller.
- **Leaked connections**: nothing in the code closes a JDBC connection or removes a
  statement from its table, so no operation exists for a property to be about.
  `SQLDisconnect`, `SQLFreeHandle` and `SQLSetEnvAttr` return `SQL_SUCCESS` and do nothing.
- **The layout of locals** that are overwritten by a wider type: undefined behaviour,
  of which the outcome of the tested build is taken.
- **Two threads on one handle**, which ODBC leaves to the application; and connecting
  while statements of the connection run.
- **wchar_t conversions and big-endian branches** of `unicode.cpp` (used by tests only,
  or not compiled).
- **Tests, build, logging, formatting.**

## Plan

Done, in this order: `Jdbc`, `OdbcStatement`, `Cursors` and their proofs; `Bridge`,
`Calls` and their proofs; `Text`, `Passages` and their proofs; `Connection`, `Sessions` and their
proofs; `Rowset`, `Rowsets` and their proofs; `Answers` and its proofs.

Left, most important first:

1. Numeric conversion to the bound types (`jlongToLong` and others, `jvm.cpp:191-233`),
   with the width of integers.
2. `Descriptors`: `OdbcImpDescriptor`'s table with register and remove.
