------------------------------ MODULE Answers ------------------------------
(***************************************************************************)
(* What an application is told when it asks for information or attributes: *)
(* SQLGetInfo with its two tables, one in Java and one in C++ that answers *)
(* when the first has not, and the attributes of connections, statements,  *)
(* columns and descriptors.                                                *)
(*                                                                         *)
(* A question is asked with a pointer to a variable, or none, and with the *)
(* room that the application says there is; the answer is the return code, *)
(* the bytes that were written to the variable, and the length that was    *)
(* told.  A text stands for its length in units of two bytes.              *)
(***************************************************************************)
EXTENDS Integers

CONSTANTS
    Room,       \* the rooms that applications give: bytes, or a type code below 0
    TextLength, \* the possible lengths of a text of the database
    Size,       \* the rowset sizes that are set
    Handle,     \* the handle of the statement
    Null        \* no value

ASSUME RoomAssumption == Room \subseteq Int \ {-1}
ASSUME TextAssumption == TextLength \subseteq Nat
ASSUME SizeAssumption == Size \subseteq Nat /\ 0 \in Size

VARIABLES
    works,      \* the database answers the calls of JDBC, and the statement has a result to describe
    name,       \* the length of the texts it gives
    size,       \* bindDataArraySize of the statement
    answer,     \* the last answer: to which question, asked how, and what was told
    before      \* the answer before, if it was to the same question; its room is forgotten

vars == <<works, name, size, answer, before>>

-----------------------------------------------------------------------------
(* The tables.                                                             *)

\* OdbcDatabase.getInfo: numbers that are passed as int, and as short.
JavaInt == [
    SQL_POS_OPERATIONS |-> \h1F, SQL_POSITIONED_STATEMENTS |-> 0, SQL_STATIC_SENSITIVITY |-> 5,
    SQL_LOCK_TYPES |-> 1, SQL_GETDATA_EXTENSIONS |-> 4, SQL_TXN_ISOLATION_OPTION |-> \h2F,
    SQL_BOOKMARK_PERSISTENCE |-> \h52, SQL_SCROLL_OPTIONS |-> \h17, SQL_SCROLL_CONCURRENCY |-> \hF,
    SQL_DYNAMIC_CURSOR_ATTRIBUTES1 |-> \h1FE47, SQL_KEYSET_CURSOR_ATTRIBUTES1 |-> \hFFE4F,
    SQL_STATIC_CURSOR_ATTRIBUTES1 |-> \h8124F, SQL_FORWARD_ONLY_CURSOR_ATTRIBUTES1 |-> \hE001,
    SQL_KEYSET_CURSOR_ATTRIBUTES2 |-> \h11FDF, SQL_STATIC_CURSOR_ATTRIBUTES2 |-> \h1F81,
    SQL_CURSOR_COMMIT_BEHAVIOR |-> 1, SQL_CURSOR_ROLLBACK_BEHAVIOR |-> 1, SQL_TXN_CAPABLE |-> 2,
    SQL_ACTIVE_STATEMENTS |-> 1, SQL_DEFAULT_TXN_ISOLATION |-> 2]
JavaShort == [
    SQL_ODBC_SQL_CONFORMANCE |-> 1, SQL_ODBC_API_CONFORMANCE |-> 2, SQL_MAX_CATALOG_NAME_LEN |-> 128,
    SQL_MAX_COLUMN_NAME_LEN |-> 128, SQL_MAX_SCHEMA_NAME_LEN |-> 128, SQL_MAX_TABLE_NAME_LEN |-> 128]

\* Its texts: those of the driver, and those of the database.
DriverText == [
    SQL_DATA_SOURCE_READ_ONLY |-> 1, SQL_DRIVER_NAME |-> 14, SQL_ODBC_VER |-> 10,
    SQL_DRIVER_ODBC_VER |-> 5, SQL_NEED_LONG_DATA_LEN |-> 1, SQL_MULT_RESULT_SETS |-> 1,
    SQL_OWNER_TERM |-> 5, SQL_IDENTIFIER_QUOTE_CHAR |-> 1, SQL_CATALOG_NAME_SEPARATOR |-> 1]
DatabaseText == {"SQL_DBMS_NAME", "SQL_DBMS_VER", "SQL_DATABASE_NAME"}

\* SQLGetInfoW: the numbers of its own table, and of how many bytes they are.
\* Fault: every number is of four bytes.
OfInt(q) == 4
Small    == {"SQL_CURSOR_ROLLBACK_BEHAVIOR", "SQL_ACTIVE_CONNECTIONS", "SQL_ACTIVE_STATEMENTS"}
Bytes(q) == IF q \in Small THEN 2 ELSE 4

Fallback == [
    SQL_POS_OPERATIONS |-> \h1F, SQL_STATIC_SENSITIVITY |-> 7, SQL_BOOKMARK_PERSISTENCE |-> \h56,
    SQL_SCROLL_OPTIONS |-> \h1F, SQL_DYNAMIC_CURSOR_ATTRIBUTES1 |-> 0,
    SQL_KEYSET_CURSOR_ATTRIBUTES1 |-> \hFFFCF, SQL_STATIC_CURSOR_ATTRIBUTES1 |-> \hF1E4F,
    SQL_FORWARD_ONLY_CURSOR_ATTRIBUTES1 |-> 1, SQL_KEYSET_CURSOR_ATTRIBUTES2 |-> \h1DFFF,
    SQL_STATIC_CURSOR_ATTRIBUTES2 |-> \h1075, SQL_CURSOR_ROLLBACK_BEHAVIOR |-> 2,
    SQL_ACTIVE_CONNECTIONS |-> 0, SQL_ACTIVE_STATEMENTS |-> 0]

InfoNumber == DOMAIN JavaInt \cup DOMAIN JavaShort \cup DOMAIN Fallback
InfoText   == DOMAIN DriverText \cup DatabaseText
Info       == InfoNumber \cup InfoText \cup {"an unknown type"}

ConnectAttr  == {"SQL_CURRENT_QUALIFIER", "SQL_TXN_ISOLATION", "SQL_CA_SS_VARIANT_SERVER_TYPE",
                 "another connection attribute"}
StmtNumber   == [SQL_CURSOR_TYPE |-> 0, SQL_CONCURRENCY |-> 1]
AnyDesc      == {"SQL_ATTR_APP_ROW_DESC", "SQL_ATTR_APP_PARAM_DESC", "SQL_ATTR_IMP_PARAM_DESC"}
StmtAttr     == DOMAIN StmtNumber \cup AnyDesc
                \cup {"SQL_ATTR_IMP_ROW_DESC", "SQL_ROWSET_SIZE", "SQL_ATTR_ROW_ARRAY_SIZE",
                      "another statement attribute"}
ColumnNumber == {"SQL_COLUMN_DISPLAY_SIZE", "SQL_COLUMN_LENGTH", "SQL_COLUMN_UNSIGNED",
                 "SQL_COLUMN_AUTO_INCREMENT"}
ColumnEmpty  == {"SQL_DESC_BASE_TABLE_NAME", "SQL_DESC_BASE_COLUMN_NAME", "SQL_DESC_CATALOG_NAME",
                 "SQL_DESC_SCHEMA_NAME", "SQL_COLUMN_TABLE_NAME"}
ColumnAttr   == ColumnNumber \cup ColumnEmpty
                \cup {"SQL_COLUMN_LABEL", "SQL_COLUMN_UPDATABLE", "1212", "another column attribute"}
FieldNumber  == {"SQL_DESC_LENGTH", "SQL_DESC_SCALE", "SQL_DESC_PRECISION", "SQL_DESC_COUNT"}
FieldText    == {"SQL_DESC_NAME", "SQL_DESC_TYPE_NAME"}
Field        == FieldNumber \cup FieldText \cup {"another field"}

Question == Info \cup ConnectAttr \cup StmtAttr \cup ColumnAttr \cup Field

ASSUME NullAssumption == Null \notin Question \cup Nat \cup {Handle}

-----------------------------------------------------------------------------
(* How an answer is told: the functions of jvm.cpp.                        *)

Told(ret, wrote, value, length) == [ret |-> ret, wrote |-> wrote, value |-> value, length |-> length]

\* Nothing but the return code; and a length that was never assigned.
Only(ret) == Told(ret, 0, Null, Null)
Garbage   == -1

Failed == Only("SQL_ERROR")

\* jarrayToInt and jarrayToShort; the length is told in any case, by their caller.
Number(value, bytes, room, given) ==
    IF room \in 0 .. bytes - 1 \/ ~given THEN Told("SQL_ERROR", 0, Null, bytes)
    ELSE Told("SQL_SUCCESS", bytes, value, bytes)

\* strcpy of n units: a terminator is stored if one fits.  A room below 0 is taken for a large one.
\* Fault: the rest of the room is padded.
StrcpyPads(n, room) == IF room > n THEN 2 * room ELSE 2 * n
Strcpy(n, room)     == IF room > n \/ room < 0 THEN 2 * (n + 1) ELSE 2 * n

\* jarrayToString as SQLGetInfo and SQLGetConnectAttr use it, and jstringToString: the room is
\* compared with units, and the length told is in bytes.
\* Fault: the length told is in units.
TextInUnits(n, room, given, untold) ==
    IF ~given THEN Told("SQL_SUCCESS", 0, Null, n)
    ELSE IF room >= 0 /\ n > room THEN Told("SQL_ERROR", 0, Null, untold)
    ELSE Told("SQL_SUCCESS", Strcpy(n, room), n, n)
Text(n, room, given, untold) ==
    IF ~given THEN Told("SQL_SUCCESS", 0, Null, 2 * n)
    ELSE IF room >= 0 /\ n > room THEN Told("SQL_ERROR", 0, Null, untold)
    ELSE Told("SQL_SUCCESS", Strcpy(n, room), n, 2 * n)

\* jarrayToString as SQLColAttribute uses it: all in bytes, and nothing is told without a pointer.
Label(n, room, given) ==
    IF ~given THEN Only("SQL_SUCCESS")
    ELSE IF room >= 0 /\ 2 * n > room THEN Failed
    ELSE Told("SQL_SUCCESS", Strcpy(n, IF room < 0 THEN room ELSE room \div 2), n, 2 * n)

\* jlongToLong with the room or, below 0, the type code: -4 to -6 are of four bytes, -7 and -8 of two.
Long(value, room, given) ==
    IF ~given THEN Told("SQL_SUCCESS", 0, Null, 0)
    ELSE IF room \in {4, -4, -5, -6} THEN Told("SQL_SUCCESS", 4, value, 0)
    ELSE IF room \in {2, -7, -8} THEN Told("SQL_SUCCESS", 2, value, 0)
    ELSE Told("SQL_ERROR", 0, Null, 0)

-----------------------------------------------------------------------------
(* What each function answers.                                             *)

\* JDatabase::getInfo; Java throws for a type it does not know, or when the database fails.
JavaInfo(q, room, given) ==
    CASE q \in DOMAIN JavaInt    -> Number(JavaInt[q], 4, room, given)
      [] q \in DOMAIN JavaShort  -> Number(JavaShort[q], 2, room, given)
      [] q \in DOMAIN DriverText -> Text(DriverText[q], room, given, Garbage)
      [] q \in DatabaseText /\ works -> Text(name, room, given, Garbage)
      [] OTHER -> Failed

\* The local fallback answers whatever has failed; the length stays as Java's attempt left it.
InfoAnswer(q, room, given) ==
    LET java == JavaInfo(q, room, given)
    IN  IF java.ret = "SQL_SUCCESS" THEN java
        ELSE IF given /\ q \in DOMAIN Fallback
             THEN Told("SQL_SUCCESS", Bytes(q), Fallback[q], java.length)
             ELSE Told("SQL_SUCCESS", 0, Null, java.length)

\* JDatabase::getConnectionAttr ignores what becomes of the answer.  The server type is a Long
\* that is read as an Integer, into the length.
ConnectAnswers(q, room, given) ==
    CASE q \in {"SQL_CURRENT_QUALIFIER", "SQL_TXN_ISOLATION"} /\ ~works -> {Failed}
      [] q = "SQL_CURRENT_QUALIFIER" /\ works ->
             {[Text(name, room, given, Null) EXCEPT !.ret = "SQL_SUCCESS"]}
      [] q = "SQL_TXN_ISOLATION" /\ works ->
             {IF given THEN Told("SQL_SUCCESS", 4, 2, 0) ELSE Told("SQL_SUCCESS", 0, Null, 0)}
      [] q = "SQL_CA_SS_VARIANT_SERVER_TYPE" -> {Told("SQL_SUCCESS", 0, Null, n) : n \in {4, Garbage}}
      [] OTHER -> {Only("SQL_SUCCESS")}

\* JStatement::getStatementAttr: the handle of a descriptor, which is that of the statement, is
\* written over the number that Java returned for it, whatever the return code and the room: a
\* pointer of four bytes, in a build for 32 bits.
StmtAnswer(q, room, given) ==
    CASE q \in DOMAIN StmtNumber -> Long(StmtNumber[q], room, given)
      [] q = "SQL_ROWSET_SIZE" ->
             IF given THEN Told("SQL_SUCCESS", 4, size, Null) ELSE Only("SQL_SUCCESS")
      [] q = "SQL_ATTR_ROW_ARRAY_SIZE" -> Only("SQL_SUCCESS")
      [] q \in AnyDesc \cup {"SQL_ATTR_IMP_ROW_DESC"} ->
             IF ~given THEN Only("crashed")
             ELSE [Long(0, IF q \in AnyDesc THEN 4 ELSE room, given)
                      EXCEPT !.wrote = 4, !.value = Handle]
      [] OTHER -> Failed

\* JStatement::getColumnAttribute: a number is told by itself, and as four bytes to the variable,
\* whatever its room.
ColumnAnswer(q, room, given) ==
    CASE q \in ColumnNumber /\ works -> [Long(1, 4, given) EXCEPT !.length = IF given THEN -6 ELSE Null]
      [] q = "SQL_COLUMN_LABEL" /\ works -> Label(name, room, given)
      [] q \in ColumnEmpty -> Label(0, room, given)
      [] q = "SQL_COLUMN_UPDATABLE" -> Told("SQL_SUCCESS", 0, Null, 4)
      [] q = "1212" -> Told("SQL_SUCCESS", 0, Null, 0)
      [] OTHER -> Failed

\* JStatement::getDescriptorField.
FieldAnswer(q, room, given) ==
    CASE q \in FieldNumber /\ works -> IF given THEN Told("SQL_SUCCESS", 4, 1, Null) ELSE Only("crashed")
      [] q \in FieldText /\ works -> Text(name, room, given, Null)
      [] OTHER -> Failed

-----------------------------------------------------------------------------
(* The calls.                                                              *)

NoCall == [q |-> Null, room |-> 0, given |-> FALSE, told |-> Only("SQL_SUCCESS")]

Init ==
    /\ works \in BOOLEAN
    /\ name \in TextLength
    /\ size = 0
    /\ answer = NoCall /\ before = NoCall

Running == answer.told.ret # "crashed"

Asked(q, room, given, told) ==
    /\ Running
    /\ answer' = [q |-> q, room |-> room, given |-> given, told |-> told]
    /\ before' = IF answer.q = q THEN [answer EXCEPT !.room = 0] ELSE NoCall
    /\ UNCHANGED <<works, name, size>>

GetInfo(q, room, given)      == Asked(q, room, given, InfoAnswer(q, room, given))
GetStmtAttr(q, room, given)  == Asked(q, room, given, StmtAnswer(q, room, given))
ColAttribute(q, room, given) == Asked(q, room, given, ColumnAnswer(q, room, given))
GetDescField(q, room, given) == Asked(q, room, given, FieldAnswer(q, room, given))
GetConnectAttr(q, room, given) ==
    \E told \in ConnectAnswers(q, room, given) : Asked(q, room, given, told)

\* A call that asks nothing, or a change at the database.
Other == Running /\ answer' = NoCall /\ before' = NoCall /\ UNCHANGED name

\* SQL_ROWSET_SIZE and SQL_ATTR_ROW_ARRAY_SIZE are one field.
SetSize(n) == Other /\ size' = n /\ UNCHANGED works

\* Attributes of connections and fields of descriptors are taken and forgotten.
SetNothing == Other /\ UNCHANGED <<works, size>>

Outage == Other /\ works' = ~works /\ UNCHANGED size

Crashed == ~Running /\ UNCHANGED vars

Ask ==
    \E room \in Room, given \in BOOLEAN :
        \/ \E q \in Info : GetInfo(q, room, given)
        \/ \E q \in ConnectAttr : GetConnectAttr(q, room, given)
        \/ \E q \in StmtAttr : GetStmtAttr(q, room, given)
        \/ \E q \in ColumnAttr : ColAttribute(q, room, given)
        \/ \E q \in Field : GetDescField(q, room, given)

Next ==
    \/ Ask
    \/ \E n \in Size : SetSize(n)
    \/ SetNothing
    \/ Outage
    \/ Crashed

Spec == Init /\ [][Next]_vars

-----------------------------------------------------------------------------
(* What the application relies on.                                         *)

AnyText == InfoText \cup FieldText \cup ColumnEmpty \cup {"SQL_COLUMN_LABEL", "SQL_CURRENT_QUALIFIER"}

Tale   == [ret : {"SQL_SUCCESS", "SQL_ERROR", "crashed"}, wrote : Nat,
           value : Nat \cup {Handle, Null}, length : Int \cup {Null}]
Answer == [q : Question \cup {Null}, room : Room \cup {0}, given : BOOLEAN, told : Tale]

\* The variables have their types, and a text is written whole or not at all, with its terminator or
\* without (jarrayToString, jstringToString, strcpy).
TypeOK ==
    /\ works \in BOOLEAN /\ name \in TextLength /\ size \in Size
    /\ answer \in Answer /\ before \in Answer
    /\ answer.q \in AnyText /\ answer.told.value # Null
           => answer.told.wrote \in {2 * answer.told.value, 2 * answer.told.value + 2}

\* The number of units of a text.
Units(q) == IF q \in DOMAIN DriverText THEN DriverText[q] ELSE name

\* An application that asks for the length of a text first, and then for the text with room for it
\* and a terminator, gets all of it and nothing beyond its room, though the functions compare the room
\* with units of two bytes and tell the length in bytes (jarrayToString, jstringToString).
AskedTwice ==
    (/\ works
     /\ answer.q \in InfoText \cup FieldText \cup {"SQL_CURRENT_QUALIFIER"} /\ answer.given
     /\ before.q = answer.q /\ ~before.given /\ answer.room = before.told.length + 2)
    => /\ answer.told.ret = "SQL_SUCCESS"
       /\ answer.told.value = Units(answer.q)
       /\ answer.told.wrote <= answer.room

\* The numbers of two bytes: those of Java's shorts, and of the fallback.
Shorts == DOMAIN JavaShort \cup {"SQL_CURSOR_ROLLBACK_BEHAVIOR", "SQL_ACTIVE_CONNECTIONS", "SQL_ACTIVE_STATEMENTS"}
Width(q) == IF q \in Shorts THEN 2 ELSE 4

\* SQLGetInfo writes no number beyond the variable of an application that gives its size as the room,
\* or 0, as for a number it may: neither the table of Java, which has ints where the other has
\* shorts, nor the fallback, which writes whatever the room is.
NumbersFit ==
    answer.q \in InfoNumber /\ answer.given /\ answer.room \in {0, Width(answer.q)}
        => answer.told.wrote <= Width(answer.q)
=============================================================================
