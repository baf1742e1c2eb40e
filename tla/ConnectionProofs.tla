-------------------------- MODULE ConnectionProofs --------------------------
(***************************************************************************)
(* Proofs about Connection, for any number of handles and data sources and *)
(* any contents of odbc.ini.                                               *)
(***************************************************************************)
EXTENDS Connection, TLAPS

Text == Value \cup Entry

Typed ==
    /\ ini \in Ini
    /\ dsn \in [Handle -> Dsn \cup {Null}]
    /\ next \in [Handle -> 0 .. 7]
    /\ params \in [Handle -> [Parameter -> Text \cup {Null}]]
    /\ connection \in [Handle -> Opened \cup {Null}]
    /\ connected \in [Handle -> BOOLEAN]
    /\ answer \in [Handle -> {"SQL_SUCCESS", "SQL_ERROR", Null}]
    /\ tried \in [Handle -> SUBSET Dsn]

\* What an attempt has read so far is what the Java object holds.
Taken(h) ==
    next[h] > 0 =>
        /\ dsn[h] \in Dsn
        /\ \A i \in 1 .. 6 : i < next[h] /\ Props[i] \in Parameter =>
               Given(dsn[h], Props[i]) = "" \/ params[h][Props[i]] = Given(dsn[h], Props[i])

\* The flag and the answer tell of a connection.
Told(h) == connected[h] \/ answer[h] = "SQL_SUCCESS" => connection[h] # Null

IInv == Typed /\ \A h \in Handle : Taken(h) /\ Told(h)

-----------------------------------------------------------------------------
LEMMA PropsFacts ==
    /\ Len(Props) = 6
    /\ \A i \in 1 .. 6 : Props[i] \in Entry
    /\ \A p \in Parameter : \E i \in 1 .. 6 : Props[i] = p
    /\ \A i, j \in 1 .. 6 : Props[i] = Props[j] => i = j
<1>1. Props = <<"ClassPath", "URL", "DriverClass", "User", "Password", "Debug">>
  BY DEF Props
<1>2. /\ Props[1] = "ClassPath" /\ Props[2] = "URL" /\ Props[3] = "DriverClass"
      /\ Props[4] = "User" /\ Props[5] = "Password" /\ Props[6] = "Debug"
      /\ Len(Props) = 6
  BY <1>1
<1>3. \A i \in 1 .. 6 : i = 1 \/ i = 2 \/ i = 3 \/ i = 4 \/ i = 5 \/ i = 6
  OBVIOUS
<1>4. \A i \in 1 .. 6 : Props[i] \in Entry
  BY <1>2, <1>3 DEF Entry, Parameter
<1>5. \A p \in Parameter : \E i \in 1 .. 6 : Props[i] = p
  BY <1>2 DEF Parameter
<1>6. \A i, j \in 1 .. 6 : Props[i] = Props[j] => i = j
  BY <1>2, <1>3
<1> QED BY <1>2, <1>4, <1>5, <1>6

LEMMA GivenTyped ==
    ASSUME Typed, NEW d \in Dsn, NEW e \in Entry
    PROVE  Given(d, e) \in Text \cup {""}
<1>1. ini \in [Dsn -> [Entry -> Value \cup {"", Absent}]]
  BY IniAssumption DEF Typed
<1>2. ini[d] \in [Entry -> Value \cup {"", Absent}]
  BY <1>1
<1>3. ini[d][e] \in Value \cup {"", Absent}
  BY <1>2
<1> QED BY <1>3 DEF Given, Text

LEMMA NullIsNoAnswer == Null # "SQL_SUCCESS" /\ Null # "SQL_ERROR"
  BY NullAssumption

LEMMA NullIsNoConnection == Null \notin Opened
  BY NullAssumption DEF Opened

-----------------------------------------------------------------------------
LEMMA InvInit ==
    ASSUME Init
    PROVE  IInv
<1>1. Typed
  BY DEF Init, Typed
<1>2. ASSUME NEW h \in Handle
      PROVE  Taken(h) /\ Told(h)
  BY <1>2, NullIsNoAnswer DEF Init, Taken, Told
<1> QED BY <1>1, <1>2 DEF IInv

\* A handle that a step leaves alone.
LEMMA Untouched ==
    ASSUME NEW g \in Handle, Taken(g), Told(g), ini' = ini,
           dsn'[g] = dsn[g], next'[g] = next[g], params'[g] = params[g],
           connection'[g] = connection[g], connected'[g] = connected[g], answer'[g] = answer[g]
    PROVE  Taken(g)' /\ Told(g)'
  BY DEF Taken, Told, Given

\* An attempt that ends without a connection.
LEMMA Ended ==
    ASSUME IInv, NEW h \in Handle, Answered(h, "SQL_ERROR"),
           UNCHANGED <<params, connection, connected>>
    PROVE  IInv'
<1>1. Typed'
  BY DEF IInv, Typed, Answered
<1>2. ASSUME NEW g \in Handle
      PROVE  Taken(g)' /\ Told(g)'
  <2>1. CASE g = h
    <3>1. next'[h] = 0 /\ answer'[h] = "SQL_ERROR"
      BY DEF IInv, Typed, Answered
    <3>2. Told(h)
      BY DEF IInv
    <3> QED BY <2>1, <3>1, <3>2 DEF Taken, Told
  <2>2. CASE g # h
    BY <2>2, Untouched DEF IInv, Typed, Answered
  <2> QED BY <2>1, <2>2
<1> QED BY <1>1, <1>2 DEF IInv

\* What a read adds to what the Java object holds.
OneMoreRead(h) ==
    /\ UNCHANGED <<ini, dsn, connection, connected, answer>>
    /\ next' = [next EXCEPT ![h] = @ + 1]
    /\ \A g \in Handle : g # h => params'[g] = params[g]
    /\ \A p \in Parameter : p # Props[next[h]] => params'[h][p] = params[h][p]
    /\ Props[next[h]] \in Parameter => Read(h) = "" \/ params'[h][Props[next[h]]] = Read(h)

LEMMA OneMore ==
    ASSUME IInv, NEW h \in Handle, Reading(h), Typed', OneMoreRead(h)
    PROVE  IInv'
<1>1. next[h] \in 1 .. 6 /\ next'[h] = next[h] + 1
  BY PropsFacts DEF IInv, Typed, Reading, OneMoreRead
<1>2. ASSUME NEW g \in Handle
      PROVE  Taken(g)' /\ Told(g)'
  <2>1. CASE g = h
    <3>1. Taken(h) /\ Told(h)
      BY DEF IInv
    <3>2. next[h] > 0
      BY <1>1
    <3>3. Told(h)'
      BY <3>1 DEF Told, OneMoreRead
    <3>4. dsn'[h] = dsn[h] /\ dsn[h] \in Dsn
      BY <3>1, <3>2 DEF Taken, OneMoreRead
    <3>5. ASSUME NEW i \in 1 .. 6, i < next'[h], Props[i] \in Parameter
          PROVE  \/ Given(dsn[h], Props[i]) = ""
                 \/ params'[h][Props[i]] = Given(dsn[h], Props[i])
      <4>1. CASE i = next[h]
        BY <3>5, <4>1 DEF Read, OneMoreRead
      <4>2. CASE i # next[h]
        <5>1. i < next[h]
          <6>1. i \in Int /\ next[h] \in Int /\ i < next[h] + 1
            BY <1>1, <3>5
          <6> QED BY <4>2, <6>1
        <5>2. i < next[h] /\ Props[i] # Props[next[h]]
          BY <1>1, <4>2, <5>1, PropsFacts
        <5>3. params'[h][Props[i]] = params[h][Props[i]]
          BY <3>5, <5>2 DEF OneMoreRead
        <5> QED BY <3>1, <3>2, <3>5, <5>2, <5>3 DEF Taken
      <4> QED BY <4>1, <4>2
    <3>6. ini' = ini
      BY DEF OneMoreRead
    <3>7. Taken(h)'
      BY <3>4, <3>5, <3>6 DEF Taken, Given
    <3> QED BY <2>1, <3>3, <3>7
  <2>2. CASE g # h
    BY <2>2, Untouched DEF IInv, Typed, OneMoreRead
  <2> QED BY <2>1, <2>2
<1> QED BY <1>2 DEF IInv

LEMMA InvStep ==
    ASSUME IInv, [Next]_vars
    PROVE  IInv'
<1>1. ASSUME NEW h \in Handle, NEW d \in Dsn, Connect(h, d)
      PROVE  IInv'
  <2>1. Typed'
    BY <1>1 DEF Connect, IInv, Typed
  <2>2. ASSUME NEW g \in Handle
        PROVE  Taken(g)' /\ Told(g)'
    <3>1. CASE g = h
      <4>1. next'[h] = 1 /\ dsn'[h] = d /\ answer'[h] = Null
        BY <1>1 DEF Connect, IInv, Typed
      <4>2. Told(h)'
        BY <1>1, <4>1, NullIsNoAnswer DEF Connect, IInv, Told
      <4>3. Taken(h)'
        BY <4>1 DEF Taken
      <4> QED BY <3>1, <4>2, <4>3
    <3>2. CASE g # h
      BY <1>1, <3>2, Untouched DEF Connect, IInv, Typed
    <3> QED BY <3>1, <3>2
  <2> QED BY <2>1, <2>2 DEF IInv
<1>2. ASSUME NEW h \in Handle, NEW empty \in BOOLEAN, ConnectNowhere(h, empty)
      PROVE  IInv'
  <2>1. CASE connected[h] /\ empty
    <3>1. Typed'
      BY <1>2 DEF ConnectNowhere, Answered, IInv, Typed
    <3>2. ASSUME NEW g \in Handle
          PROVE  Taken(g)' /\ Told(g)'
      <4>1. CASE g = h
        <5>1. next'[h] = 0 /\ connection'[h] = connection[h] /\ connected[h]
          BY <1>2, <2>1 DEF ConnectNowhere, Answered, IInv, Typed
        <5>2. Told(h)
          BY DEF IInv
        <5> QED BY <4>1, <5>1, <5>2 DEF Taken, Told
      <4>2. CASE g # h
        BY <1>2, <4>2, Untouched DEF ConnectNowhere, Answered, IInv, Typed
      <4> QED BY <4>1, <4>2
    <3> QED BY <3>1, <3>2 DEF IInv
  <2>2. CASE ~(connected[h] /\ empty)
    BY <1>2, <2>2, Ended DEF ConnectNowhere
  <2> QED BY <2>1, <2>2
<1>3. ASSUME NEW h \in Handle, SkipEmpty(h)
      PROVE  IInv'
  <2>1. next[h] + 1 \in 0 .. 7 /\ Typed
    <3>1. next[h] \in 1 .. 6
      BY <1>3, PropsFacts DEF SkipEmpty, Reading
    <3>2. Typed
      BY DEF IInv
    <3> QED BY <3>1, <3>2
  <2>2. Typed'
    BY <1>3, <2>1 DEF SkipEmpty, Typed
  <2> QED BY <1>3, <2>2, OneMore DEF SkipEmpty, OneMoreRead
<1>4. ASSUME NEW h \in Handle, SetParameter(h)
      PROVE  IInv'
  <2>1. next[h] \in 1 .. 6 /\ dsn[h] \in Dsn /\ Props[next[h]] \in Entry
    <3>1. next[h] \in 1 .. 6 /\ Taken(h)
      BY <1>4, PropsFacts DEF SetParameter, Reading, IInv
    <3>2. next[h] > 0
      BY <3>1
    <3> QED BY <3>1, <3>2, PropsFacts DEF Taken
  <2>2. Read(h) \in Text
    BY <1>4, <2>1, GivenTyped DEF SetParameter, Read, IInv
  <2>3. params' \in [Handle -> [Parameter -> Text \cup {Null}]]
    BY <1>4, <2>2 DEF SetParameter, IInv, Typed
  <2>4. Typed'
    <3>1. next[h] + 1 \in 0 .. 7 /\ Typed
      BY <2>1 DEF IInv
    <3> QED BY <1>4, <2>3, <3>1 DEF SetParameter, Typed
  <2>5. /\ \A g \in Handle : g # h => params'[g] = params[g]
        /\ \A p \in Parameter : p # Props[next[h]] => params'[h][p] = params[h][p]
        /\ Props[next[h]] \in Parameter => params'[h][Props[next[h]]] = Read(h)
    BY <1>4 DEF SetParameter, IInv, Typed
  <2> QED BY <1>4, <2>4, <2>5, OneMore DEF SetParameter, OneMoreRead
<1>5. ASSUME NEW h \in Handle, SetParameterFails(h) \/ JavaConnectFails(h)
      PROVE  IInv'
  BY <1>5, Ended DEF SetParameterFails, JavaConnectFails
<1>6. ASSUME NEW h \in Handle, NEW fits \in BOOLEAN, JavaConnect(h, fits)
      PROVE  IInv'
  <2>1. [dsn |-> dsn[h], given |-> params[h]] \in Opened
    <3>1. next[h] > 0 /\ Taken(h) /\ params[h] \in [Parameter -> Text \cup {Null}]
      BY <1>6, PropsFacts DEF JavaConnect, IInv, Typed
    <3> QED BY <3>1 DEF Taken, Opened, Text
  <2>2. Typed'
    BY <1>6, <2>1 DEF JavaConnect, Answered, IInv, Typed
  <2>3. ASSUME NEW g \in Handle
        PROVE  Taken(g)' /\ Told(g)'
    <3>1. CASE g = h
      <4>1. next'[h] = 0 /\ connection'[h] \in Opened
        BY <1>6, <2>1 DEF JavaConnect, Answered, IInv, Typed
      <4> QED BY <3>1, <4>1, NullIsNoConnection DEF Taken, Told
    <3>2. CASE g # h
      BY <1>6, <3>2, Untouched DEF JavaConnect, Answered, IInv, Typed
    <3> QED BY <3>1, <3>2
  <2> QED BY <2>2, <2>3 DEF IInv
<1>7. CASE UNCHANGED vars
  <2>1. Typed'
    BY <1>7 DEF vars, IInv, Typed
  <2>2. ASSUME NEW g \in Handle
        PROVE  Taken(g)' /\ Told(g)'
    BY <1>7, Untouched DEF vars, IInv
  <2> QED BY <2>1, <2>2 DEF IInv
<1> QED BY <1>1, <1>2, <1>3, <1>4, <1>5, <1>6, <1>7 DEF Next, Proceed

LEMMA Invariance == Spec => []IInv
  BY InvInit, InvStep, PTL DEF Spec

-----------------------------------------------------------------------------
\* The variables keep their types, whatever order the calls come in.
THEOREM TypeCorrect == Spec => []TypeOK
<1>1. IInv => TypeOK
  BY PropsFacts DEF IInv, Typed, TypeOK, Text
<1> QED BY <1>1, Invariance, PTL

\* An application that has been told SQL_SUCCESS has a connection, however many
\* attempts failed and at whichever step (JDatabase::connect, javaConnect).
THEOREM ToldIsConnected == Spec => []SuccessMeansConnected
<1>1. IInv => SuccessMeansConnected
  BY DEF IInv, Told, SuccessMeansConnected
<1> QED BY <1>1, Invariance, PTL

-----------------------------------------------------------------------------
\* The parameters a connection is opened with, as the abstract session has them.
LEMMA EntriesGiven ==
    ASSUME IInv, NEW h \in Handle, next[h] = 7, NEW p \in Parameter
    PROVE  dsn[h] \in Dsn /\ (Given(dsn[h], p) = "" \/ params[h][p] = Given(dsn[h], p))
<1>1. Taken(h)
  BY DEF IInv
<1>2. PICK i \in 1 .. 6 : Props[i] = p
  BY PropsFacts
<1>3. i < next[h] /\ next[h] > 0
  OBVIOUS
<1> QED BY <1>1, <1>2, <1>3 DEF Taken

LEMMA SessionsInit ==
    ASSUME Init
    PROVE  S!Init
  BY DEF Init, S!Init

LEMMA SessionsStep ==
    ASSUME IInv, [Next]_vars
    PROVE  S!Next \/ UNCHANGED <<ini, connection, answer>>
<1>1. ASSUME NEW h \in Handle, NEW d \in Dsn, Connect(h, d)
      PROVE  S!Ask(h)
  BY <1>1 DEF Connect, S!Ask, Given
<1>2. ASSUME NEW h \in Handle, NEW empty \in BOOLEAN, ConnectNowhere(h, empty)
      PROVE  S!Confirm(h) \/ S!Fail(h)
  <2>1. CASE connected[h] /\ empty
    <3>1. connection[h] # Null
      BY <2>1 DEF IInv, Told
    <3> QED BY <1>2, <2>1, <3>1 DEF ConnectNowhere, Answered, S!Confirm, Given
  <2>2. CASE ~(connected[h] /\ empty)
    BY <1>2, <2>2 DEF ConnectNowhere, Answered, S!Fail, Given
  <2> QED BY <2>1, <2>2
<1>3. ASSUME NEW h \in Handle, SkipEmpty(h) \/ SetParameter(h)
      PROVE  UNCHANGED <<ini, connection, answer>>
  BY <1>3 DEF SkipEmpty, SetParameter
<1>4. ASSUME NEW h \in Handle, SetParameterFails(h) \/ JavaConnectFails(h)
      PROVE  S!Fail(h)
  BY <1>4 DEF SetParameterFails, JavaConnectFails, Answered, S!Fail, Given
<1>5. ASSUME NEW h \in Handle, NEW fits \in BOOLEAN, JavaConnect(h, fits)
      PROVE  dsn[h] \in Dsn /\ S!Begin(h, dsn[h])
  <2>1. next[h] = 7 /\ ini' = ini
    BY <1>5, PropsFacts DEF JavaConnect, Answered
  <2>2. dsn[h] \in Dsn
    BY <2>1, EntriesGiven DEF Parameter
  <2>3. connection'[h] = [dsn |-> dsn[h], given |-> params[h]]
    BY <1>5 DEF JavaConnect, IInv, Typed
  <2>4. connection'[h] # Null
    <3>1. [dsn |-> dsn[h], given |-> params[h]] \in Opened
      BY <2>2 DEF IInv, Typed, Opened, Text
    <3> QED BY <2>3, <3>1, NullIsNoConnection
  <2> DEFINE entry == [d \in Dsn |-> [p \in Parameter |-> Given(d, p)]]
  <2>5. ASSUME NEW p \in Parameter
        PROVE  entry[dsn[h]][p] = "" \/ connection'[h].given[p] = entry[dsn[h]][p]
    <3>1. Given(dsn[h], p) = "" \/ params[h][p] = Given(dsn[h], p)
      BY <2>1, EntriesGiven
    <3>2. connection'[h].given = params[h]
      BY <2>3
    <3>3. entry[dsn[h]][p] = Given(dsn[h], p)
      BY <2>2
    <3> QED BY <3>1, <3>2, <3>3
  <2>6. connection' = [connection EXCEPT ![h] = connection'[h]]
    BY <1>5, <2>3 DEF JavaConnect
  <2>7. answer' \in {[answer EXCEPT ![h] = code] : code \in {"SQL_SUCCESS", "SQL_ERROR"}}
    BY <1>5 DEF JavaConnect, Answered
  <2>8. entry' = entry
    BY <2>1 DEF Given
  <2>9. connection'[h].dsn = dsn[h]
    BY <2>3
  <2> HIDE DEF entry
  <2>10. /\ connection'[h] # Null /\ connection'[h].dsn = dsn[h]
         /\ \A p \in Parameter : entry[dsn[h]][p] = "" \/ connection'[h].given[p] = entry[dsn[h]][p]
         /\ connection' = [connection EXCEPT ![h] = connection'[h]]
         /\ answer' \in {[answer EXCEPT ![h] = code] : code \in {"SQL_SUCCESS", "SQL_ERROR"}}
         /\ entry' = entry
    BY <2>4, <2>5, <2>6, <2>7, <2>8, <2>9
  <2> QED BY <2>2, <2>10, Zenon DEF S!Begin, entry
<1>6. CASE UNCHANGED vars
  BY <1>6 DEF vars
<1> QED BY <1>1, <1>2, <1>3, <1>4, <1>5, <1>6 DEF Next, Proceed, S!Next

\* JDatabase::connect with its loop of calls, OdbcDatabase with its fields, and the
\* flag implement an atomic connect, for any number of handles, any data sources
\* and any contents of odbc.ini.
THEOREM ImplementsSessions == Spec => ConnectsAtomically
<1>1. IInv /\ [Next]_vars =>
          [S!Next]_<<[d \in Dsn |-> [p \in Parameter |-> Given(d, p)]], connection, answer>>
  BY SessionsStep DEF Given
<1> QED BY <1>1, SessionsInit, Invariance, PTL DEF Spec, S!Spec, ConnectsAtomically

-----------------------------------------------------------------------------
(* Where the parameters of a session come from.                            *)

\* The data source of the attempt under way is one that was tried, and what the Java object
\* holds, like what the session has, was given by one of those.
FromTried(h) ==
    /\ next[h] > 0 => dsn[h] \in tried[h]
    /\ Known(h, params[h])
    /\ connection[h] # Null => Known(h, connection[h].given)

TriedInv == IInv /\ \A h \in Handle : FromTried(h)

LEMMA TriedInit == Init => TriedInv
<1> SUFFICES ASSUME Init PROVE \A h \in Handle : FromTried(h)
  BY InvInit DEF TriedInv
<1> TAKE h \in Handle
<1>1. next[h] = 0 /\ connection[h] = Null /\ params[h] = [p \in Parameter |-> Null]
  BY DEF Init
<1> QED BY <1>1 DEF FromTried, Known

\* What the step leaves in the object, or takes from it for the session, was known before, or
\* is what the data source of the attempt gives.
LEMMA KnownStays ==
    ASSUME NEW h \in Handle, FromTried(h), ini' = ini, tried[h] \subseteq tried'[h],
           next'[h] > 0 => dsn'[h] \in tried'[h],
           \A p \in Parameter :
               \/ params'[h][p] = params[h][p]
               \/ \E d \in tried'[h] : Given(d, p) # "" /\ params'[h][p] = Given(d, p),
           \/ connection'[h] = connection[h]
           \/ connection'[h].given = params[h]
    PROVE  FromTried(h)'
<1>1. \A d, p : Given(d, p)' = Given(d, p)
  BY DEF Given
<1>2. ASSUME NEW given, Known(h, given), NEW p \in Parameter
      PROVE  given[p] = Null \/ \E d \in tried'[h] : Given(d, p) # "" /\ given[p] = Given(d, p)
  BY <1>2 DEF Known
<1>3. Known(h, params[h])'
  <2>1. ASSUME NEW p \in Parameter
        PROVE  \/ params'[h][p] = Null
               \/ \E d \in tried'[h] : Given(d, p) # "" /\ params'[h][p] = Given(d, p)
    BY <1>2 DEF FromTried
  <2> QED BY <1>1, <2>1 DEF Known
<1>4. (connection[h] # Null => Known(h, connection[h].given))'
  <2>1. ASSUME connection'[h] # Null, NEW p \in Parameter
        PROVE  \/ connection'[h].given[p] = Null
               \/ \E d \in tried'[h] : Given(d, p) # "" /\ connection'[h].given[p] = Given(d, p)
    BY <1>2, <2>1 DEF FromTried
  <2> QED BY <1>1, <2>1 DEF Known
<1> QED BY <1>3, <1>4 DEF FromTried

LEMMA TriedStep ==
    ASSUME TriedInv, [Next]_vars
    PROVE  TriedInv'
<1> SUFFICES ASSUME NEW g \in Handle PROVE FromTried(g)'
  BY InvStep DEF TriedInv
<1>0. FromTried(g) /\ Typed
  BY DEF TriedInv, IInv
<1>1. ASSUME NEW h \in Handle, NEW d \in Dsn, Connect(h, d)
      PROVE  FromTried(g)'
  <2>1. /\ ini' = ini /\ params' = params /\ connection' = connection
        /\ tried[g] \subseteq tried'[g] /\ (next'[g] > 0 => dsn'[g] \in tried'[g])
    BY <1>0, <1>1 DEF Connect, Typed, FromTried
  <2> QED BY <1>0, <2>1, KnownStays
<1>2. ASSUME NEW h \in Handle, NEW empty \in BOOLEAN, ConnectNowhere(h, empty)
      PROVE  FromTried(g)'
  <2>1. /\ UNCHANGED <<ini, dsn, params, connection, tried>>
        /\ next'[g] > 0 => next[g] > 0
    BY <1>0, <1>2 DEF ConnectNowhere, Answered, Typed
  <2> QED BY <1>0, <2>1, KnownStays DEF FromTried
<1>3. ASSUME NEW h \in Handle, SkipEmpty(h)
      PROVE  FromTried(g)'
  <2>1. next[h] \in 1 .. 6
    BY <1>3, PropsFacts DEF SkipEmpty, Reading
  <2>2. UNCHANGED <<ini, dsn, params, connection, tried>>
    BY <1>3 DEF SkipEmpty
  <2>3. next'[g] > 0 => next[g] > 0
    <3>1. g # h => next'[g] = next[g]
      BY <1>0, <1>3 DEF SkipEmpty, Typed
    <3> QED BY <2>1, <3>1
  <2> QED BY <1>0, <2>2, <2>3, KnownStays DEF FromTried
<1>4. ASSUME NEW h \in Handle, SetParameter(h)
      PROVE  FromTried(g)'
  <2>1. next[h] \in 1 .. 6
    BY <1>4, PropsFacts DEF SetParameter, Reading
  <2>2. UNCHANGED <<ini, dsn, connection, tried>> /\ (next'[g] > 0 => next[g] > 0)
    <3>1. UNCHANGED <<ini, dsn, connection, tried>>
      BY <1>4 DEF SetParameter
    <3>2. g # h => next'[g] = next[g]
      BY <1>0, <1>4 DEF SetParameter, Typed
    <3> QED BY <2>1, <3>1, <3>2
  <2>3. dsn[h] \in tried[h]
    BY <2>1 DEF TriedInv, FromTried
  <2>4. Read(h) # "" /\ Read(h) = Given(dsn[h], Props[next[h]])
    BY <1>4 DEF SetParameter, Read
  <2>5. ASSUME NEW p \in Parameter
        PROVE  params'[g][p] = params[g][p] \/ (g = h /\ p = Props[next[h]] /\ params'[g][p] = Read(h))
    BY <1>0, <1>4 DEF SetParameter, Typed
  <2>6. \A p \in Parameter :
            \/ params'[g][p] = params[g][p]
            \/ \E d \in tried'[g] : Given(d, p) # "" /\ params'[g][p] = Given(d, p)
    BY <2>2, <2>3, <2>4, <2>5
  <2> QED BY <1>0, <2>2, <2>6, KnownStays DEF FromTried
<1>5. ASSUME NEW h \in Handle, SetParameterFails(h) \/ JavaConnectFails(h)
      PROVE  FromTried(g)'
  <2>1. Answered(h, "SQL_ERROR") /\ UNCHANGED <<params, connection>>
    BY <1>5 DEF SetParameterFails, JavaConnectFails
  <2>2. UNCHANGED <<ini, dsn, tried>> /\ (next'[g] > 0 => next[g] > 0)
    BY <1>0, <2>1 DEF Answered, Typed
  <2> QED BY <1>0, <2>1, <2>2, KnownStays DEF FromTried
<1>6. ASSUME NEW h \in Handle, NEW fits \in BOOLEAN, JavaConnect(h, fits)
      PROVE  FromTried(g)'
  <2>1. /\ UNCHANGED <<ini, dsn, params, tried>>
        /\ next'[g] > 0 => next[g] > 0
    BY <1>0, <1>6 DEF JavaConnect, Answered, Typed
  <2>2. connection'[g] = connection[g] \/ connection'[g].given = params[g]
    BY <1>0, <1>6 DEF JavaConnect, Typed
  <2> QED BY <1>0, <2>1, <2>2, KnownStays DEF FromTried
<1>7. CASE UNCHANGED vars
  BY <1>0, <1>7, KnownStays DEF vars, FromTried
<1> QED BY <1>1, <1>2, <1>3, <1>4, <1>5, <1>6, <1>7 DEF Next, Proceed

\* A session has nothing but what the data sources tried on its handle give, however many
\* attempts failed half way (setConnectionParameter, OdbcDatabase).
THEOREM NothingElseIsLeft == Spec => []LeftoversAreKnown
<1>1. TriedInv => LeftoversAreKnown
  BY DEF TriedInv, FromTried, LeftoversAreKnown
<1> QED BY <1>1, TriedInit, TriedStep, PTL DEF Spec

-----------------------------------------------------------------------------
(* Every attempt is answered.                                              *)

\* How many calls an attempt has left at most.
Left(h) == IF next[h] = 0 THEN 0 ELSE 8 - next[h]

LEMMA LeftTyped ==
    ASSUME IInv, NEW h \in Handle
    PROVE  Left(h) \in 0 .. 7 /\ (Left(h) = 0 <=> next[h] = 0)
<1>1. next[h] \in 0 .. 7
  BY DEF IInv, Typed
<1> QED BY <1>1 DEF Left

\* A call of its own brings an attempt nearer to its end.
LEMMA StepCounts ==
    ASSUME IInv, NEW h \in Handle, Proceed(h)
    PROVE  Left(h)' < Left(h)
<1>1. next[h] \in 1 .. 7 /\ (Reading(h) => next[h] \in 1 .. 6)
  <2>1. Reading(h) \/ next[h] = Len(Props) + 1
    BY Zenon DEF Proceed, SkipEmpty, SetParameter, SetParameterFails, JavaConnect, JavaConnectFails
  <2>2. Len(Props) = 6
    BY PropsFacts
  <2> QED BY <2>1, <2>2 DEF Reading
<1>2. next'[h] = 0 \/ (Reading(h) /\ next'[h] = next[h] + 1)
  BY DEF Proceed, SkipEmpty, SetParameter, SetParameterFails, JavaConnect, JavaConnectFails,
     Answered, IInv, Typed
<1> QED BY <1>1, <1>2 DEF Left

\* Attempts on other handles do not take it back, and the application does not begin a
\* second one before it is answered.
LEMMA StepKeeps ==
    ASSUME IInv, NEW h \in Handle, next[h] # 0, [Next]_vars
    PROVE  Left(h)' = Left(h) \/ Left(h)' < Left(h)
<1>1. CASE Proceed(h)
  BY <1>1, StepCounts
<1>2. ASSUME NEW g \in Handle, g # h, Proceed(g)
      PROVE  next'[h] = next[h]
  BY <1>2 DEF Proceed, SkipEmpty, SetParameter, SetParameterFails, JavaConnect, JavaConnectFails,
     Answered, IInv, Typed
<1>3. ASSUME NEW g \in Handle,
             \/ \E d \in Dsn : Connect(g, d)
             \/ \E empty \in BOOLEAN : ConnectNowhere(g, empty)
      PROVE  next'[h] = next[h]
  BY <1>3 DEF Connect, ConnectNowhere, Answered, IInv, Typed
<1>4. CASE UNCHANGED vars
  BY <1>4 DEF vars, Left
<1> QED BY <1>1, <1>2, <1>3, <1>4 DEF Next, Left

\* An attempt with n calls left comes nearer to its end.
Nears(h, n) == Left(h) = n ~> Left(h) < n

LEMMA Nearer ==
    ASSUME NEW h \in Handle, NEW n \in 1 .. 7
    PROVE  Spec /\ FairTo(h) /\ []NeverStuck => Nears(h, n)
<1>1. IInv /\ Left(h) = n /\ [Next]_vars => (Left(h) = n)' \/ (Left(h) < n)'
  BY StepKeeps, LeftTyped
<1>2. IInv /\ Left(h) = n /\ <<Proceed(h)>>_vars => (Left(h) < n)'
  BY StepCounts
<1>3. IInv /\ NeverStuck /\ Left(h) = n => ENABLED <<Proceed(h)>>_vars
  BY LeftTyped DEF NeverStuck
<1> QED BY <1>1, <1>2, <1>3, Invariance, PTL DEF Spec, FairTo, Nears

\* Every attempt is answered, for any number of handles and whatever odbc.ini has: it
\* has seven calls at most (one for each entry, and connect), no other attempt takes it
\* back, and it is never stuck.  That it is never stuck is the one hypothesis (ENABLED
\* is left to TLC).
THEOREM AttemptsDoEnd == FairSpec /\ []NeverStuck => AttemptsEnd
<1>1. ASSUME NEW h \in Handle
      PROVE  FairSpec /\ []NeverStuck => Ends(h)
  <2>1. FairSpec => Spec /\ FairTo(h)
    <3>1. Fair => FairTo(h)
      BY DEF Fair
    <3> QED BY <3>1, PTL DEF FairSpec
  <2>2. Spec /\ FairTo(h) /\ []NeverStuck =>
            /\ Nears(h, 1) /\ Nears(h, 2) /\ Nears(h, 3) /\ Nears(h, 4)
            /\ Nears(h, 5) /\ Nears(h, 6) /\ Nears(h, 7)
    <3>1. \A n \in 1 .. 7 : Spec /\ FairTo(h) /\ []NeverStuck => Nears(h, n)
      BY Nearer
    <3>2. 1 \in 1 .. 7 /\ 2 \in 1 .. 7 /\ 3 \in 1 .. 7 /\ 4 \in 1 .. 7
          /\ 5 \in 1 .. 7 /\ 6 \in 1 .. 7 /\ 7 \in 1 .. 7
      OBVIOUS
    <3> QED BY <3>1, <3>2
  <2>3. IInv => /\ Left(h) < 2 => Left(h) < 1 \/ Left(h) = 1
                /\ Left(h) < 3 => Left(h) < 2 \/ Left(h) = 2
                /\ Left(h) < 4 => Left(h) < 3 \/ Left(h) = 3
                /\ Left(h) < 5 => Left(h) < 4 \/ Left(h) = 4
                /\ Left(h) < 6 => Left(h) < 5 \/ Left(h) = 5
                /\ Left(h) < 7 => Left(h) < 6 \/ Left(h) = 6
                /\ Left(h) < 7 \/ Left(h) = 7
    BY LeftTyped
  <2>4. IInv /\ Left(h) < 1 => next[h] = 0
    BY LeftTyped
  <2> QED BY <2>1, <2>2, <2>3, <2>4, Invariance, PTL DEF Nears, Ends
<1> QED BY <1>1 DEF AttemptsEnd
=============================================================================
