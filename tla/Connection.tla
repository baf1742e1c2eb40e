----------------------------- MODULE Connection -----------------------------
(***************************************************************************)
(* Connecting: JDatabase (jdatabase.cpp) and OdbcDatabase.java.            *)
(*                                                                         *)
(* A connect reads the entries of a data source in odbc.ini one after the  *)
(* other, gives each to the Java object by a call of its own, and then has *)
(* it connect with whatever the object holds by then.  Nothing is undone   *)
(* when a step fails, and the Java object outlives the attempt: the next   *)
(* attempt starts from what is left of this one.  An application may       *)
(* connect a handle that is connected.  The steps of attempts on different *)
(* handles interleave; attempts on one handle do not overlap.              *)
(***************************************************************************)
EXTENDS Integers, Sequences

CONSTANTS
    Handle,     \* the connection handles
    Dsn,        \* the data sources
    Value,      \* the values of entries of odbc.ini that are not empty
    Driver,     \* the driver classes that can be loaded
    Absent,     \* an entry that odbc.ini does not have
    Ini,        \* the possible contents of odbc.ini
    Null        \* Java's null

\* The entries, in the order in which they are read.
Props == <<"ClassPath", "URL", "DriverClass", "User", "Password", "Debug">>

\* The fields of OdbcDatabase with a setter; Debug is the level of logging.
Parameter == {"ClassPath", "URL", "DriverClass", "User", "Password"}

Entry == Parameter \cup {"Debug"}

ASSUME AbsentAssumption == Absent \notin Value
ASSUME IniAssumption    == Ini \subseteq [Dsn -> [Entry -> Value \cup {"", Absent}]]
ASSUME NullAssumption   ==
    /\ Null \notin {"SQL_SUCCESS", "SQL_ERROR"}
    /\ Null \notin [dsn : Dsn, given : [Parameter -> Value \cup Entry \cup {Null}]]

VARIABLES
    ini,        \* the contents of odbc.ini
    dsn,        \* dsn[h]: the data source of the attempt under way
    next,       \* next[h]: the entry the attempt reads next; 0 when there is no attempt
    params,     \* params[h]: the fields of the Java object of the handle
    connection, \* connection[h]: the JDBC connection it holds
    connected,  \* connected[h]: the flag of the JDatabase
    answer,     \* answer[h]: the answer to the last attempt
    \* What an observer remembers; no step reads it.
    tried       \* tried[h]: the data sources that attempts on the handle have named

vars == <<ini, dsn, next, params, connection, connected, answer, tried>>

\* A JDBC connection, by the fields it was opened with.
Opened == [dsn : Dsn, given : [Parameter -> Value \cup Entry \cup {Null}]]

TypeOK ==
    /\ ini \in Ini
    /\ dsn \in [Handle -> Dsn \cup {Null}]
    /\ next \in [Handle -> 0 .. Len(Props) + 1]
    /\ params \in [Handle -> [Parameter -> Value \cup Entry \cup {Null}]]
    /\ connection \in [Handle -> Opened \cup {Null}]
    /\ connected \in [Handle -> BOOLEAN]
    /\ answer \in [Handle -> {"SQL_SUCCESS", "SQL_ERROR", Null}]
    /\ tried \in [Handle -> SUBSET Dsn]

\* The constructors of JDatabase and OdbcDatabase.
Init ==
    /\ ini \in Ini
    /\ dsn = [h \in Handle |-> Null]
    /\ next = [h \in Handle |-> 0]
    /\ params = [h \in Handle |-> [p \in Parameter |-> Null]]
    /\ connection = [h \in Handle |-> Null]
    /\ connected = [h \in Handle |-> FALSE]
    /\ answer = [h \in Handle |-> Null]
    /\ tried = [h \in Handle |-> {}]

-----------------------------------------------------------------------------
\* The attempt of h ends with a code.
Answered(h, code) ==
    /\ next' = [next EXCEPT ![h] = 0]
    /\ answer' = [answer EXCEPT ![h] = code]
    /\ UNCHANGED <<ini, dsn, tried>>

\* SQLConnect, and SQLDriverConnect with a connection string that names d.
Connect(h, d) ==
    /\ next[h] = 0
    /\ dsn' = [dsn EXCEPT ![h] = d]
    /\ next' = [next EXCEPT ![h] = 1]
    /\ answer' = [answer EXCEPT ![h] = Null]
    /\ tried' = [tried EXCEPT ![h] = @ \cup {d}]
    /\ UNCHANGED <<ini, params, connection, connected>>

\* SQLDriverConnect with a connection string, empty or not, that names none.
ConnectNowhere(h, empty) ==
    /\ next[h] = 0
    /\ Answered(h, IF connected[h] /\ empty THEN "SQL_SUCCESS" ELSE "SQL_ERROR")
    /\ UNCHANGED <<params, connection, connected>>

-----------------------------------------------------------------------------
(* An attempt, call by call.                                               *)

Reading(h)  == next[h] \in 1 .. Len(Props)

\* Fault: what is missing is passed on as it is.
ReadRaw(h) == ini[dsn[h]][Props[next[h]]]

\* SQLGetPrivateProfileString: the default of an entry is its own name.
Given(d, e) == IF ini[d][e] = Absent THEN e ELSE ini[d][e]

Read(h) == Given(dsn[h], Props[next[h]])

\* Fault: an empty entry is not counted.
SkipEmptyInPlace(h) == Reading(h) /\ Read(h) = "" /\ UNCHANGED vars

\* Fault: an empty entry is given its own name, as a missing one is.
SkipEmptyNamed(h) ==
    /\ Reading(h)
    /\ Read(h) = ""
    /\ next' = [next EXCEPT ![h] = @ + 1]
    /\ params' = IF Props[next[h]] \in Parameter
                 THEN [params EXCEPT ![h][Props[next[h]]] = Props[next[h]]]
                 ELSE params
    /\ UNCHANGED <<ini, dsn, connection, connected, answer, tried>>

\* An empty entry is passed over: the field keeps its value.
SkipEmpty(h) ==
    /\ Reading(h)
    /\ Read(h) = ""
    /\ next' = [next EXCEPT ![h] = @ + 1]
    /\ UNCHANGED <<ini, dsn, params, connection, connected, answer, tried>>

\* setConnectionParameter.
SetParameter(h) ==
    /\ Reading(h)
    /\ Read(h) # ""
    /\ next' = [next EXCEPT ![h] = @ + 1]
    /\ params' = IF Props[next[h]] \in Parameter
                 THEN [params EXCEPT ![h][Props[next[h]]] = Read(h)]
                 ELSE params
    /\ UNCHANGED <<ini, dsn, connection, connected, answer, tried>>

\* The call fails (Java is out of memory, say): the attempt ends.
SetParameterFails(h) ==
    /\ Reading(h)
    /\ Read(h) # ""
    /\ Answered(h, "SQL_ERROR")
    /\ UNCHANGED <<params, connection, connected>>

\* OdbcDatabase.connect after the last entry: the class is loaded and the driver
\* gives a connection.  The handle is connected even if the connection string does
\* not fit the application's buffer.
JavaConnect(h, fits) ==
    /\ next[h] = Len(Props) + 1
    /\ params[h]["DriverClass"] \in Driver
    /\ connection' = [connection EXCEPT ![h] = [dsn |-> dsn[h], given |-> params[h]]]
    /\ connected' = [connected EXCEPT ![h] = TRUE]
    /\ Answered(h, IF fits THEN "SQL_SUCCESS" ELSE "SQL_ERROR")
    /\ UNCHANGED params

\* Fault: the connection is dropped before there is a new one.
JavaConnectDrops(h) ==
    /\ next[h] = Len(Props) + 1
    /\ connection' = [connection EXCEPT ![h] = Null]
    /\ Answered(h, "SQL_ERROR")
    /\ UNCHANGED <<params, connected>>

\* The class cannot be loaded, or the driver gives no connection.
JavaConnectFails(h) ==
    /\ next[h] = Len(Props) + 1
    /\ Answered(h, "SQL_ERROR")
    /\ UNCHANGED <<params, connection, connected>>

Proceed(h) ==
    \/ SkipEmpty(h) \/ SetParameter(h) \/ SetParameterFails(h)
    \/ \E fits \in BOOLEAN : JavaConnect(h, fits)
    \/ JavaConnectFails(h)

Next ==
    \E h \in Handle :
        \/ \E d \in Dsn : Connect(h, d)
        \/ \E empty \in BOOLEAN : ConnectNowhere(h, empty)
        \/ Proceed(h)

Spec == Init /\ [][Next]_vars

\* A thread that connects is not stopped for ever, and every call of Java returns
\* (CallsReturn in Bridge).
FairTo(h) == WF_vars(Proceed(h))
Fair      == \A h \in Handle : FairTo(h)
FairSpec  == Spec /\ Fair

-----------------------------------------------------------------------------
(* What makes connecting correct.                                          *)

\* An application that has been told SQL_SUCCESS has a connection to make
\* statements on, whether the attempt opened it or found it.
SuccessMeansConnected ==
    \A h \in Handle : answer[h] = "SQL_SUCCESS" => connection[h] # Null

\* The six reads, the five fields, the calls and the flag implement an atomic
\* connect: the connection a handle holds is with the data source that was asked
\* for, has its entries and not those an earlier attempt left behind (except where
\* the entry is empty), and no attempt that fails before it has a new connection
\* loses the one there was.
S == INSTANCE Sessions WITH
        entry   <- [d \in Dsn |-> [p \in Parameter |-> Given(d, p)]],
        session <- connection

ConnectsAtomically == S!Spec

\* Every parameter is unset, or is what a data source tried on the handle gives for it.
Known(h, given) ==
    \A p \in Parameter :
        given[p] = Null \/ \E d \in tried[h] : Given(d, p) # "" /\ given[p] = Given(d, p)

\* What earlier attempts, failed half way or not, leave in the Java object is all that can get
\* into a session where an entry is empty: a handle on which one data source alone was tried
\* has the entries of that one or none (setConnectionParameter, and the fields of
\* OdbcDatabase, which outlive the attempt).
LeftoversAreKnown ==
    \A h \in Handle : connection[h] # Null => Known(h, connection[h].given)

\* Whatever odbc.ini has or lacks and whatever the object holds, an attempt that is
\* under way can go on.  AttemptsEnd could not hold of a state that violates it.
NeverStuck == \A h \in Handle : next[h] # 0 => ENABLED <<Proceed(h)>>_vars

\* Every attempt is answered.
Ends(h)     == next[h] # 0 ~> next[h] = 0
AttemptsEnd == \A h \in Handle : Ends(h)
=============================================================================
