------------------------------ MODULE Sessions ------------------------------
(***************************************************************************)
(* What a connection handle promises an application: connecting is atomic. *)
(* The handle has one session or none.  A session is with the data source  *)
(* that was asked for and has every entry of it that is not empty; an      *)
(* attempt that fails leaves the session there was; and an answer          *)
(* SQL_SUCCESS means that there is a session, that of the last attempt if  *)
(* the attempt named a data source.                                        *)
(***************************************************************************)
CONSTANTS
    Handle,     \* the connection handles
    Dsn,        \* the data sources
    Parameter,  \* the parameters of a session
    Null

VARIABLES
    entry,      \* entry[d][p]: what odbc.ini gives for parameter p of data source d
    session,    \* session[h]: the data source of the handle's session and its parameters
    answer      \* the answer to the last attempt to connect

Init ==
    /\ session = [h \in Handle |-> Null]
    /\ answer = [h \in Handle |-> Null]

\* An attempt begins.
Ask(h) ==
    /\ answer' = [answer EXCEPT ![h] = Null]
    /\ UNCHANGED <<entry, session>>

\* A session with data source d begins; an empty entry leaves the parameter to
\* chance.  The answer is an error if the application's buffer is too small for
\* the connection string: the session begins all the same.
Begin(h, d) ==
    /\ session'[h] # Null /\ session'[h].dsn = d
    /\ \A p \in Parameter : entry[d][p] = "" \/ session'[h].given[p] = entry[d][p]
    /\ session' = [session EXCEPT ![h] = session'[h]]
    /\ answer' \in {[answer EXCEPT ![h] = code] : code \in {"SQL_SUCCESS", "SQL_ERROR"}}
    /\ UNCHANGED entry

\* The attempt fails.
Fail(h) ==
    /\ answer' = [answer EXCEPT ![h] = "SQL_ERROR"]
    /\ UNCHANGED <<entry, session>>

\* An empty connection string asks for the session there is.
Confirm(h) ==
    /\ session[h] # Null
    /\ answer' = [answer EXCEPT ![h] = "SQL_SUCCESS"]
    /\ UNCHANGED <<entry, session>>

Next ==
    \E h \in Handle : Ask(h) \/ Fail(h) \/ Confirm(h) \/ \E d \in Dsn : Begin(h, d)

Spec == Init /\ [][Next]_<<entry, session, answer>>
=============================================================================
