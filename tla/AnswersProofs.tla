--------------------------- MODULE AnswersProofs ---------------------------
(***************************************************************************)
(* Theorems about Answers.                                                 *)
(***************************************************************************)
EXTENDS Answers, TLAPS

\* The numbers of the tables are numbers.
LEMMA TableNumbers ==
    /\ \A q \in DOMAIN JavaInt : JavaInt[q] \in Nat
    /\ \A q \in DOMAIN JavaShort : JavaShort[q] \in Nat
    /\ \A q \in DOMAIN Fallback : Fallback[q] \in Nat
    /\ \A q \in DOMAIN DriverText : DriverText[q] \in Nat
    /\ \A q \in DOMAIN StmtNumber : StmtNumber[q] \in Nat
  BY DEF JavaInt, JavaShort, Fallback, DriverText, StmtNumber

\* A text is told whole or not at all.
Whole(told) == told.value # Null => told.wrote \in {2 * told.value, 2 * told.value + 2}

\* What jarrayToString, jstringToString and the others tell is a tale, of a whole text.
LEMMA Tellings ==
  ASSUME NEW n \in Nat, NEW room \in Int, NEW given \in BOOLEAN, NEW untold \in Int \cup {Null}
  PROVE  /\ Text(n, room, given, untold) \in Tale /\ Whole(Text(n, room, given, untold))
         /\ Label(n, room, given) \in Tale /\ Whole(Label(n, room, given))
  BY NullAssumption DEF Text, Label, Tale, Told, Only, Failed, Strcpy, Whole

\* So is a number, that of jarrayToInt or jarrayToShort, or of jlongToLong.
LEMMA NumberTold ==
  ASSUME NEW n \in Nat, NEW bytes \in Nat, NEW room \in Int, NEW given \in BOOLEAN
  PROVE  Number(n, bytes, room, given) \in Tale
  BY DEF Number, Tale, Told
LEMMA LongTold ==
  ASSUME NEW n \in Nat, NEW room \in Int, NEW given \in BOOLEAN
  PROVE  Long(n, room, given) \in Tale
  BY DEF Long, Tale, Told

\* No question is in two tables of Java, and no text in the fallback.
LEMMA TablesApart ==
    /\ DOMAIN JavaInt \cap (DOMAIN JavaShort \cup InfoText) = {}
    /\ DOMAIN JavaShort \cap InfoText = {}
    /\ DOMAIN DriverText \cap DatabaseText = {}
    /\ DOMAIN Fallback \cap InfoText = {}
  BY DEF JavaInt, JavaShort, Fallback, InfoText, DriverText, DatabaseText

\* JDatabase::getInfo, table by table.
LEMMA JavaTold ==
  ASSUME NEW q \in Info, NEW room \in Int, NEW given \in BOOLEAN, name \in Nat
  PROVE  /\ q \in DOMAIN JavaInt => JavaInfo(q, room, given) = Number(JavaInt[q], 4, room, given)
         /\ q \in DOMAIN JavaShort => JavaInfo(q, room, given) = Number(JavaShort[q], 2, room, given)
         /\ q \in InfoText /\ (q \in DatabaseText => works)
               => JavaInfo(q, room, given) = Text(Units(q), room, given, Garbage)
         /\ q \notin DOMAIN JavaInt \cup DOMAIN JavaShort \cup InfoText => JavaInfo(q, room, given) = Failed
         /\ q \in DatabaseText /\ ~works => JavaInfo(q, room, given) = Failed
  BY TablesApart DEF JavaInfo, InfoText, Units

\* SQLGetInfo tells a tale.
LEMMA InfoTold ==
  ASSUME NEW q \in Info, NEW room \in Int, NEW given \in BOOLEAN, name \in Nat
  PROVE  /\ InfoAnswer(q, room, given) \in Tale
         /\ q \in InfoText => Whole(InfoAnswer(q, room, given))
  <1> DEFINE java == JavaInfo(q, room, given)
  <1>1. CASE q \in DOMAIN JavaInt
    <2>1. java \in Tale
      BY <1>1, JavaTold, TableNumbers, NumberTold
    <2> QED BY <2>1, <1>1, TablesApart, TableNumbers DEF InfoAnswer, Told, Tale, Bytes
  <1>2. CASE q \in DOMAIN JavaShort
    <2>1. java \in Tale
      BY <1>2, JavaTold, TableNumbers, NumberTold
    <2> QED BY <2>1, <1>2, TablesApart, TableNumbers DEF InfoAnswer, Told, Tale, Bytes
  <1>3. CASE q \in InfoText
    <2>1. Units(q) \in Nat /\ Garbage \in Int
      BY <1>3, TableNumbers DEF Units, Garbage
    <2>2. java \in Tale /\ Whole(java)
      <3>1. CASE q \in DatabaseText => works
        BY <1>3, <2>1, <3>1, JavaTold, Tellings
      <3>2. CASE q \in DatabaseText /\ ~works
        BY <3>2, JavaTold DEF Failed, Only, Told, Tale, Whole
      <3> QED BY <3>1, <3>2
    <2> QED BY <2>2, <1>3, TablesApart DEF InfoAnswer, Told, Tale, Whole
  <1>4. CASE q \notin DOMAIN JavaInt \cup DOMAIN JavaShort \cup InfoText
    <2>1. java = Failed
      BY <1>4, JavaTold
    <2> QED BY <2>1, <1>4, TableNumbers DEF InfoAnswer, Told, Tale, Bytes, Failed, Only
  <1> QED BY <1>1, <1>2, <1>3, <1>4

\* The other functions tell tales too.
LEMMA OthersTold ==
  ASSUME NEW room \in Int, NEW given \in BOOLEAN, name \in Nat, size \in Nat
  PROVE  /\ \A q \in ConnectAttr : \A told \in ConnectAnswers(q, room, given) :
               told \in Tale /\ (q = "SQL_CURRENT_QUALIFIER" => Whole(told))
         /\ \A q \in StmtAttr : StmtAnswer(q, room, given) \in Tale
         /\ \A q \in ColumnAttr :
               /\ ColumnAnswer(q, room, given) \in Tale
               /\ q \notin ColumnNumber => Whole(ColumnAnswer(q, room, given))
         /\ \A q \in Field :
               /\ FieldAnswer(q, room, given) \in Tale
               /\ q \in FieldText => Whole(FieldAnswer(q, room, given))
  <1>1. ASSUME NEW q \in ConnectAttr, NEW told \in ConnectAnswers(q, room, given)
        PROVE  told \in Tale /\ (q = "SQL_CURRENT_QUALIFIER" => Whole(told))
    <2>1. CASE q = "SQL_CURRENT_QUALIFIER" /\ works
      <3>1. told = [Text(name, room, given, Null) EXCEPT !.ret = "SQL_SUCCESS"]
        BY <1>1, <2>1 DEF ConnectAnswers
      <3> QED BY <3>1, <2>1, Tellings DEF Tale, Whole
    <2>2. CASE q = "SQL_CURRENT_QUALIFIER" /\ ~works
      BY <1>1, <2>2 DEF ConnectAnswers, Failed, Only, Told, Tale, Whole
    <2>3. CASE q # "SQL_CURRENT_QUALIFIER"
      <3>1. told \in {Failed, Only("SQL_SUCCESS"), Told("SQL_SUCCESS", 4, 2, 0), Told("SQL_SUCCESS", 0, Null, 0),
                      Told("SQL_SUCCESS", 0, Null, 4), Told("SQL_SUCCESS", 0, Null, Garbage)}
        BY <1>1, <2>3 DEF ConnectAttr, ConnectAnswers
      <3> QED BY <3>1, <2>3 DEF Failed, Only, Told, Tale, Garbage
    <2> QED BY <2>1, <2>2, <2>3
  <1>2. ASSUME NEW q \in StmtAttr PROVE StmtAnswer(q, room, given) \in Tale
    <2>1. CASE q \in DOMAIN StmtNumber
      <3>1. StmtAnswer(q, room, given) = Long(StmtNumber[q], room, given)
        BY <2>1 DEF StmtAnswer, StmtNumber, AnyDesc
      <3> QED BY <3>1, <2>1, LongTold, TableNumbers
    <2>2. CASE q \in AnyDesc \cup {"SQL_ATTR_IMP_ROW_DESC"}
      <3> DEFINE first == Long(0, IF q \in AnyDesc THEN 4 ELSE room, given)
      <3>1. first \in Tale
        BY LongTold
      <3>2. StmtAnswer(q, room, given)
              = IF ~given THEN Only("crashed") ELSE [first EXCEPT !.wrote = 4, !.value = Handle]
        BY <2>2 DEF StmtAnswer, StmtNumber, AnyDesc
      <3> HIDE DEF first
      <3>3. [first EXCEPT !.wrote = 4, !.value = Handle] \in Tale
        BY <3>1 DEF Tale
      <3>4. Only("crashed") \in Tale
        BY DEF Tale, Only, Told
      <3> QED BY <3>2, <3>3, <3>4
    <2>3. CASE q \notin DOMAIN StmtNumber \cup AnyDesc \cup {"SQL_ATTR_IMP_ROW_DESC"}
      BY <2>3 DEF StmtAttr, StmtAnswer, Failed, Only, Told, Tale
    <2> QED BY <2>1, <2>2, <2>3
  <1>3. ASSUME NEW q \in ColumnAttr
        PROVE  /\ ColumnAnswer(q, room, given) \in Tale
               /\ q \notin ColumnNumber => Whole(ColumnAnswer(q, room, given))
    <2>1. CASE q \in ColumnNumber /\ works
      <3>1. ColumnAnswer(q, room, given) = [Long(1, 4, given) EXCEPT !.length = IF given THEN -6 ELSE Null]
        BY <2>1 DEF ColumnAnswer, ColumnNumber, ColumnEmpty
      <3> DEFINE told == Long(1, 4, given)
      <3>2. told \in Tale
        BY LongTold
      <3> HIDE DEF told
      <3>3. \A l \in Int \cup {Null} : [told EXCEPT !.length = l] \in Tale
        BY <3>2 DEF Tale
      <3> QED BY <3>1, <3>3, <2>1 DEF told
    <2>2. CASE q = "SQL_COLUMN_LABEL" /\ works
      <3>1. ColumnAnswer(q, room, given) = Label(name, room, given)
        BY <2>2 DEF ColumnAnswer, ColumnNumber, ColumnEmpty
      <3> QED BY <3>1, Tellings
    <2>3. CASE q \in ColumnEmpty
      <3>1. ColumnAnswer(q, room, given) = Label(0, room, given)
        BY <2>3 DEF ColumnAnswer, ColumnNumber, ColumnEmpty
      <3> QED BY <3>1, Tellings
    <2>4. CASE q \notin ColumnEmpty /\ (q \in ColumnNumber \cup {"SQL_COLUMN_LABEL"} => ~works)
      <3>1. ColumnAnswer(q, room, given)
              \in {Failed, Told("SQL_SUCCESS", 0, Null, 4), Told("SQL_SUCCESS", 0, Null, 0)}
        BY <2>4 DEF ColumnAttr, ColumnAnswer, ColumnNumber, ColumnEmpty
      <3> QED BY <3>1 DEF Failed, Only, Told, Tale, Whole
    <2> QED BY <2>1, <2>2, <2>3, <2>4
  <1>4. ASSUME NEW q \in Field
        PROVE  /\ FieldAnswer(q, room, given) \in Tale
               /\ q \in FieldText => Whole(FieldAnswer(q, room, given))
    <2>1. CASE q \in FieldText /\ works
      <3>1. FieldAnswer(q, room, given) = Text(name, room, given, Null)
        BY <2>1 DEF FieldAnswer, FieldText, FieldNumber
      <3> QED BY <3>1, Tellings
    <2>2. CASE ~(q \in FieldText /\ works)
      BY <2>2 DEF FieldAnswer, FieldText, FieldNumber, Failed, Only, Told, Tale, Whole
    <2> QED BY <2>1, <2>2
  <1> QED BY <1>1, <1>2, <1>3, <1>4

-----------------------------------------------------------------------------
(* The invariant.                                                          *)

\* An application that asks without a variable for a text is told its length.
Lengths(a) ==
    a.q \in InfoText \cup FieldText \cup {"SQL_CURRENT_QUALIFIER"} /\ ~a.given /\ works
        => a.told.length = 2 * Units(a.q)

\* jarrayToString and jstringToString, of a text of n units.
LEMMA TextFits ==
  ASSUME NEW n \in Nat, NEW room \in Int, NEW given \in BOOLEAN, NEW untold
  PROVE  /\ ~given => Text(n, room, given, untold).length = 2 * n
         /\ given /\ room = 2 * n + 2 => /\ Text(n, room, given, untold).ret = "SQL_SUCCESS"
                                         /\ Text(n, room, given, untold).value = n
                                         /\ Text(n, room, given, untold).wrote <= room
  <1>1. CASE ~given
    BY <1>1 DEF Text, Told
  <1>2. CASE given /\ room = 2 * n + 2
    <2>1. Text(n, room, given, untold) = Told("SQL_SUCCESS", Strcpy(n, room), n, 2 * n)
      BY <1>2 DEF Text
    <2>2. Strcpy(n, room) = room
      BY <1>2 DEF Strcpy
    <2> DEFINE text == Text(n, room, given, untold)
    <2>3. text.ret = "SQL_SUCCESS" /\ text.value = n /\ text.wrote = Strcpy(n, room)
      BY <2>1 DEF Told
    <2> HIDE DEF text
    <2>4. text.wrote <= room
      BY <2>2, <2>3
    <2> QED BY <1>2, <2>3, <2>4 DEF text
  <1> QED BY <1>1, <1>2

\* jarrayToInt and jarrayToShort.
LEMMA NumberFits ==
  ASSUME NEW n, NEW bytes \in Nat, NEW room \in Int, NEW given \in BOOLEAN
  PROVE  Number(n, bytes, room, given).ret = "SQL_SUCCESS"
           => Number(n, bytes, room, given).wrote = bytes /\ (0 <= room => bytes <= room)
  BY DEF Number, Told

\* What a function answers to a question asked so.
Says(q, room, given, told) ==
    \/ q \in Info /\ told = InfoAnswer(q, room, given)
    \/ q \in ConnectAttr /\ told \in ConnectAnswers(q, room, given)
    \/ q \in StmtAttr /\ told = StmtAnswer(q, room, given)
    \/ q \in ColumnAttr /\ told = ColumnAnswer(q, room, given)
    \/ q \in Field /\ told = FieldAnswer(q, room, given)

\* No question is put to two functions.
LEMMA QuestionsApart ==
    /\ (InfoText \cup InfoNumber) \cap (ConnectAttr \cup StmtAttr \cup ColumnAttr \cup Field) = {}
    /\ FieldText \subseteq Field /\ FieldText \cap (Info \cup ConnectAttr \cup StmtAttr \cup ColumnAttr) = {}
    /\ "SQL_CURRENT_QUALIFIER" \notin Info \cup StmtAttr \cup ColumnAttr \cup Field
    /\ InfoText \subseteq Info /\ InfoNumber \subseteq Info /\ InfoText \cap InfoNumber = {}
  BY DEF Info, InfoText, InfoNumber, JavaInt, JavaShort, Fallback, DriverText, DatabaseText, ConnectAttr,
         StmtAttr, StmtNumber, AnyDesc, ColumnAttr, ColumnNumber, ColumnEmpty, Field, FieldText, FieldNumber

\* The texts that are no questions to SQLGetInfo are not told by other functions than their own.
LEMMA TextQuestions ==
    /\ AnyText \cap (StmtAttr \cup ColumnNumber \cup FieldNumber) = {}
    /\ AnyText \cap Info = InfoText
    /\ AnyText \cap ConnectAttr = {"SQL_CURRENT_QUALIFIER"}
    /\ AnyText \cap Field = FieldText
  BY DEF AnyText, Info, InfoText, InfoNumber, JavaInt, JavaShort, Fallback, DriverText, DatabaseText, ConnectAttr,
         StmtAttr, StmtNumber, AnyDesc, ColumnAttr, ColumnNumber, ColumnEmpty, Field, FieldText, FieldNumber

\* Every answer has its type, and is of a whole text.
LEMMA SaysTyped ==
  ASSUME NEW q, NEW room \in Int, NEW given \in BOOLEAN, NEW told, Says(q, room, given, told), name \in Nat, size \in Nat
  PROVE  told \in Tale /\ (q \in AnyText => Whole(told))
  <1>1. CASE q \in Info /\ told = InfoAnswer(q, room, given)
    BY <1>1, InfoTold, TextQuestions
  <1>2. CASE q \in ConnectAttr /\ told \in ConnectAnswers(q, room, given)
    BY <1>2, OthersTold, TextQuestions
  <1>3. CASE q \in StmtAttr /\ told = StmtAnswer(q, room, given)
    BY <1>3, OthersTold, TextQuestions
  <1>4. CASE q \in ColumnAttr /\ told = ColumnAnswer(q, room, given)
    BY <1>4, OthersTold, TextQuestions
  <1>5. CASE q \in Field /\ told = FieldAnswer(q, room, given)
    BY <1>5, OthersTold, TextQuestions
  <1> QED BY <1>1, <1>2, <1>3, <1>4, <1>5 DEF Says

\* A text is told as Text tells it, as long as the database works.
LEMMA SaysText ==
  ASSUME NEW q, NEW room \in Int, NEW given \in BOOLEAN, NEW told, Says(q, room, given, told), name \in Nat, works,
         q \in InfoText \cup FieldText \cup {"SQL_CURRENT_QUALIFIER"}
  PROVE  /\ Units(q) \in Nat
         /\ ~given => told.length = 2 * Units(q)
         /\ given /\ room = 2 * Units(q) + 2
                => told.ret = "SQL_SUCCESS" /\ told.value = Units(q) /\ told.wrote <= room
  <1> DEFINE n == Units(q)
  <1>0. n \in Nat
    BY TableNumbers DEF Units
  <1>1. CASE q \in InfoText
    <2> DEFINE text == Text(n, room, given, Garbage)
    <2>1. told = InfoAnswer(q, room, given)
      BY <1>1, QuestionsApart DEF Says
    <2>2. JavaInfo(q, room, given) = text
      BY <1>1, JavaTold, QuestionsApart
    <2>3. given \/ text.ret = "SQL_SUCCESS" => told.length = text.length
      BY <2>1, <2>2, QuestionsApart DEF InfoAnswer, Told
    <2>4. ~given => text.ret = "SQL_SUCCESS"
      BY DEF Text, Told
    <2>5. text.ret = "SQL_SUCCESS" => told = text
      BY <2>1, <2>2 DEF InfoAnswer
    <2> HIDE DEF text
    <2>6. /\ ~given => text.length = 2 * n
          /\ given /\ room = 2 * n + 2 => /\ text.ret = "SQL_SUCCESS"
                                              /\ text.value = n
                                              /\ text.wrote <= room
      BY <1>0, TextFits DEF Garbage, text
    <2> QED BY <1>0, <2>4, <2>5, <2>6
  <1>2. CASE q \in FieldText
    <2>1. told = Text(n, room, given, Null)
      <3>1. told = FieldAnswer(q, room, given)
        BY <1>2, QuestionsApart DEF Says
      <3>2. n = name
        BY <1>2, QuestionsApart DEF Units, InfoText
      <3> QED BY <3>1, <3>2, <1>2 DEF FieldAnswer, FieldText, FieldNumber
    <2> QED BY <1>0, <2>1, TextFits
  <1>3. CASE q = "SQL_CURRENT_QUALIFIER"
    <2>1. told = [Text(n, room, given, Null) EXCEPT !.ret = "SQL_SUCCESS"]
      <3>1. told \in ConnectAnswers(q, room, given)
        BY <1>3, QuestionsApart DEF Says
      <3>2. n = name
        BY <1>3, QuestionsApart DEF Units, InfoText
      <3> QED BY <3>1, <3>2, <1>3 DEF ConnectAnswers
    <2>2. Text(n, room, given, Null) \in Tale
      BY <1>0, Tellings
    <2>3. /\ told.ret = "SQL_SUCCESS"
          /\ told.value = Text(n, room, given, Null).value
          /\ told.wrote = Text(n, room, given, Null).wrote
          /\ told.length = Text(n, room, given, Null).length
      BY <2>1, <2>2 DEF Tale
    <2> QED BY <1>0, <2>3, TextFits
  <1> QED BY <1>1, <1>2, <1>3

\* A number of SQLGetInfo is written within its width.
LEMMA SaysNumber ==
  ASSUME NEW q, NEW room \in Int, NEW given \in BOOLEAN, NEW told, Says(q, room, given, told), name \in Nat, q \in InfoNumber,
         room \in {0, Width(q)}
  PROVE  told.wrote <= Width(q)
  <1> DEFINE java == JavaInfo(q, room, given)
  <1>1. told = InfoAnswer(q, room, given)
    BY QuestionsApart DEF Says
  <1>2. q \in Info /\ q \notin InfoText /\ Width(q) \in {2, 4}
    BY QuestionsApart DEF Width
  <1>3. java.ret = "SQL_SUCCESS" => java.wrote <= Width(q)
    <2>1. CASE q \in DOMAIN JavaInt
      <3>1. java = Number(JavaInt[q], 4, room, given)
        BY <2>1, <1>2, JavaTold
      <3>2. java.ret = "SQL_SUCCESS" => java.wrote = 4 /\ (0 <= room => 4 <= room)
        BY <3>1, NumberFits, 4 \in Nat
      <3> QED BY <3>2, <1>2
    <2>2. CASE q \in DOMAIN JavaShort
      <3>1. java = Number(JavaShort[q], 2, room, given)
        BY <2>2, <1>2, JavaTold
      <3>2. java.ret = "SQL_SUCCESS" => java.wrote = 2
        BY <3>1, NumberFits, 2 \in Nat
      <3> QED BY <3>2, <1>2
    <2>3. CASE q \notin DOMAIN JavaInt \cup DOMAIN JavaShort
      BY <2>3, <1>2, JavaTold DEF Failed, Only, Told
    <2> QED BY <2>1, <2>2, <2>3
  <1>4. q \in DOMAIN Fallback => Bytes(q) <= Width(q)
    BY DEF Bytes, Small, Width, Shorts, Fallback, JavaShort
  <1>5. /\ java.ret = "SQL_SUCCESS" => told.wrote = java.wrote
        /\ java.ret # "SQL_SUCCESS" /\ q \in DOMAIN Fallback => told.wrote \in {0, Bytes(q)}
        /\ java.ret # "SQL_SUCCESS" /\ q \notin DOMAIN Fallback => told.wrote = 0
    BY <1>1 DEF InfoAnswer, Told
  <1> HIDE DEF java
  <1> QED BY <1>2, <1>3, <1>4, <1>5

\* The types, the lengths that were told, and what the application relies on.
Typed ==
    /\ works \in BOOLEAN /\ name \in TextLength /\ size \in Size
    /\ answer \in Answer /\ before \in Answer

Inv ==
    /\ Typed
    /\ answer.q \in AnyText => Whole(answer.told)
    /\ Lengths(answer) /\ Lengths(before)
    /\ AskedTwice
    /\ NumbersFit

LEMMA InitHolds == Init => Inv
  <1> SUFFICES ASSUME Init PROVE Inv
    OBVIOUS
  <1>1. NoCall \in Answer /\ NoCall.q = Null
    BY DEF NoCall, Answer, Only, Told, Tale
  <1>2. Null \notin AnyText \cup InfoText \cup FieldText \cup {"SQL_CURRENT_QUALIFIER"} \cup InfoNumber
    BY NullAssumption DEF AnyText, Question, Info, ConnectAttr, ColumnAttr, Field
  <1>3. Typed
    BY <1>1, SizeAssumption DEF Init, Typed
  <1> QED BY <1>1, <1>2, <1>3 DEF Init, Inv, Lengths, AskedTwice, NumbersFit

\* An answer of any of the functions keeps the invariant.
LEMMA AskedHolds ==
  ASSUME Inv, NEW q \in Question, NEW room \in Room, NEW given \in BOOLEAN, NEW told,
         Says(q, room, given, told), Asked(q, room, given, told)
  PROVE  Inv'
  <1>1. name \in Nat /\ size \in Nat /\ room \in Int
    BY TextAssumption, SizeAssumption, RoomAssumption DEF Inv, Typed
  <1>0. works /\ q \in InfoText \cup FieldText \cup {"SQL_CURRENT_QUALIFIER"} /\ given
            /\ room = 2 * Units(q) + 2
            => told.ret = "SQL_SUCCESS" /\ told.value = Units(q) /\ told.wrote <= room
    BY <1>1, SaysText
  <1>2. told \in Tale /\ (q \in AnyText => Whole(told))
    BY <1>1, SaysTyped
  <1>3. answer' = [q |-> q, room |-> room, given |-> given, told |-> told]
    BY DEF Asked
  <1>4. answer' \in Answer /\ answer'.q = q /\ answer'.room = room /\ answer'.given = given /\ answer'.told = told
    BY <1>2, <1>3 DEF Answer
  <1>5. works' = works /\ name' = name /\ size' = size
    BY DEF Asked
  <1>6. before' \in Answer /\ Lengths(before)' /\ (before'.q = q /\ ~before'.given => Lengths(before)')
    <2>1. CASE answer.q = q
      <3>1. before' = [answer EXCEPT !.room = 0]
        BY <2>1 DEF Asked
      <3>2. /\ before' \in Answer
            /\ before'.q = answer.q /\ before'.given = answer.given /\ before'.told = answer.told
        BY <3>1 DEF Inv, Typed, Answer
      <3> QED BY <3>2, <1>5 DEF Inv, Lengths, Units
    <2>2. CASE answer.q # q
      <3>1. before' = NoCall
        BY <2>2 DEF Asked
      <3>2. before' \in Answer /\ before'.q = Null
        BY <3>1 DEF NoCall, Answer, Only, Told, Tale
      <3>3. Null \notin InfoText \cup FieldText \cup {"SQL_CURRENT_QUALIFIER"}
        BY NullAssumption DEF Question, Info, ConnectAttr, Field
      <3> QED BY <3>2, <3>3 DEF Lengths
    <2> QED BY <2>1, <2>2
  <1>7. Typed'
    BY <1>4, <1>5, <1>6 DEF Inv, Typed
  <1>8. (answer.q \in AnyText => Whole(answer.told))'
    BY <1>2, <1>4 DEF Whole
  <1>9. Lengths(answer)'
    BY <1>1, <1>4, <1>5, SaysText DEF Lengths, Units
  <1>10. AskedTwice'
    <2> SUFFICES ASSUME works, q \in InfoText \cup FieldText \cup {"SQL_CURRENT_QUALIFIER"}, given,
                        before'.q = q, ~before'.given, room = before'.told.length + 2
                 PROVE  told.ret = "SQL_SUCCESS" /\ told.value = Units(q) /\ told.wrote <= room
      BY <1>4, <1>5 DEF AskedTwice, Units
    <2>1. before'.told.length = 2 * Units(q)
      BY <1>5, <1>6 DEF Lengths, Units
    <2>2. given /\ room = 2 * Units(q) + 2
      BY <2>1
    <2> QED BY <2>2, <1>0
  <1>11. NumbersFit'
    BY <1>1, <1>4, SaysNumber DEF NumbersFit
  <1> QED BY <1>6, <1>7, <1>8, <1>9, <1>10, <1>11 DEF Inv

\* So does a call that asks nothing, or a change at the database.
LEMMA OtherHolds ==
  ASSUME Inv, Other, works' \in BOOLEAN, size' \in Size
  PROVE  Inv'
  <1>1. answer' = NoCall /\ before' = NoCall /\ name' = name
    BY DEF Other
  <1>2. NoCall \in Answer /\ NoCall.q = Null
    BY DEF NoCall, Answer, Only, Told, Tale
  <1>3. Null \notin AnyText \cup InfoText \cup FieldText \cup {"SQL_CURRENT_QUALIFIER"} \cup InfoNumber
    BY NullAssumption DEF AnyText, Question, Info, ConnectAttr, ColumnAttr, Field
  <1>4. Typed'
    BY <1>1, <1>2 DEF Inv, Typed
  <1> QED BY <1>1, <1>2, <1>3, <1>4 DEF Inv, Lengths, AskedTwice, NumbersFit

LEMMA NextHolds == Inv /\ [Next]_vars => Inv'
  <1> SUFFICES ASSUME Inv, [Next]_vars PROVE Inv'
    OBVIOUS
  <1>1. ASSUME NEW room \in Room, NEW given \in BOOLEAN, NEW q \in Info, GetInfo(q, room, given) PROVE Inv'
    BY <1>1, AskedHolds DEF GetInfo, Says, Question
  <1>2. ASSUME NEW room \in Room, NEW given \in BOOLEAN, NEW q \in ConnectAttr, GetConnectAttr(q, room, given)
        PROVE  Inv'
    BY <1>2, AskedHolds DEF GetConnectAttr, Says, Question
  <1>3. ASSUME NEW room \in Room, NEW given \in BOOLEAN, NEW q \in StmtAttr, GetStmtAttr(q, room, given)
        PROVE  Inv'
    BY <1>3, AskedHolds DEF GetStmtAttr, Says, Question
  <1>4. ASSUME NEW room \in Room, NEW given \in BOOLEAN, NEW q \in ColumnAttr, ColAttribute(q, room, given)
        PROVE  Inv'
    BY <1>4, AskedHolds DEF ColAttribute, Says, Question
  <1>5. ASSUME NEW room \in Room, NEW given \in BOOLEAN, NEW q \in Field, GetDescField(q, room, given) PROVE Inv'
    BY <1>5, AskedHolds DEF GetDescField, Says, Question
  <1>6. ASSUME NEW n \in Size, SetSize(n) PROVE Inv'
    BY <1>6, OtherHolds DEF SetSize, Inv, Typed
  <1>7. CASE SetNothing
    BY <1>7, OtherHolds DEF SetNothing, Inv, Typed
  <1>8. CASE Outage
    BY <1>8, OtherHolds DEF Outage, Inv, Typed
  <1>9. CASE UNCHANGED vars
    BY <1>9 DEF vars, Inv, Typed, Lengths, Units, AskedTwice, NumbersFit, Whole
  <1> QED BY <1>1, <1>2, <1>3, <1>4, <1>5, <1>6, <1>7, <1>8, <1>9 DEF Next, Ask, Crashed

\* What jarrayToString, jlongToLong and the functions that call them tell has its type, and a text is
\* written whole or not at all, for any rooms and texts.
THEOREM TypeCorrect == Spec => []TypeOK
  <1>1. Inv => TypeOK
    BY DEF Inv, Typed, TypeOK, Whole
  <1> QED BY <1>1, InitHolds, NextHolds, PTL DEF Spec

\* An application that asks for a length and then for the text gets it within its room
\* (SQLGetInfo, SQLGetConnectAttr, SQLGetDescField), for any texts.
THEOREM TextsFit == Spec => []AskedTwice
  <1>1. Inv => AskedTwice
    BY DEF Inv
  <1> QED BY <1>1, InitHolds, NextHolds, PTL DEF Spec

\* No number of SQLGetInfo is written beyond a variable whose size was told, or 0.
THEOREM NumbersInRoom == Spec => []NumbersFit
  <1>1. Inv => NumbersFit
    BY DEF Inv
  <1> QED BY <1>1, InitHolds, NextHolds, PTL DEF Spec
=============================================================================
