---------------------------- MODULE BridgeProofs ----------------------------
(***************************************************************************)
(* Proofs about Bridge, for any number of threads, connections and         *)
(* statements.                                                             *)
(***************************************************************************)
EXTENDS Bridge, Integers, TLAPS

-----------------------------------------------------------------------------
(* The inductive invariant.                                                *)

\* What a call is about fits how far it is.
CallFits ==
    \A t \in Thread :
        /\ step[t] \in CreateStep => call[t].kind = "env"
        /\ step[t] \in {"enter", "finish"} \cup WorkerStep =>
               call[t].kind \in {"connection", "statement", "method"}
        /\ call[t].kind \in {"connection", "statement"} => call[t].on \in Connection
        /\ call[t].kind = "statement" => call[t].handle \in Statement

\* The pointer is set when the virtual machine runs, by the one thread that
\* started it.
JvmOnce ==
    /\ globalJvm => vm = "running"
    /\ \A t \in Thread :
           /\ step[t] = "starting" => vm = "starting"
           /\ step[t] = "publish" => vm = "running" /\ ~globalJvm
    /\ \A t, u \in Thread :
           step[t] \in {"starting", "publish"} /\ step[u] \in {"starting", "publish"} => t = u

\* A thread that has seen the virtual machine never finds it missing.
JvmSeen ==
    \A t \in Thread : sawJvm[t] =>
        /\ globalJvm
        /\ step[t] \notin {"create", "starting", "publish"}
        /\ step[t] = "idle" /\ call[t].kind = "env" => env[t]
        /\ step[t] = "finish" \/ (step[t] = "idle" /\ call[t].kind # "env") =>
               ran[t] \/ code[t] = "exception"

\* How far a call has come, and what its worker leaves behind at each step.
Progress ==
    \A t \in Thread :
        /\ step[t] \in {"enter", "attach", "java", "put"} => ~ran[t] /\ ~pending[t] /\ ~raised[t]
        /\ step[t] \in {"enter", "attach"} => ~attached[t]
        /\ step[t] \in {"convert", "clear", "detach"} => ran[t]
        /\ step[t] = "convert" => raised[t] = pending[t]
        /\ step[t] \in {"clear", "detach"} => code[t] \in {"SQL_SUCCESS", "SQL_ERROR"}
        /\ step[t] = "clear" /\ code[t] = "SQL_SUCCESS" /\ raised[t] => pending[t]
        /\ step[t] = "detach" => ~pending[t] /\ (code[t] = "SQL_SUCCESS" => ~raised[t])
        /\ step[t] \in {"finish", "idle"} \cup CreateStep =>
               /\ code[t] = "SQL_SUCCESS" => ran[t] /\ ~raised[t]
               /\ code[t] # "exception" => ~attached[t] /\ ~pending[t]

\* The table of a connection on which no two allocations have overlapped is what
\* the one in HashMap.put has found, and keeps what the others have put.
Table ==
    /\ \A t \in Thread : step[t] = "put" /\ call[t].on \notin overlapped =>
           /\ call[t].kind = "statement"
           /\ table[t] = statements[call[t].on]
           /\ \A u \in Thread : step[u] = "put" /\ call[u].on = call[t].on => u = t
    /\ \A t \in Thread :
           /\ step[t] \in {"convert", "clear", "detach", "finish"}
           /\ call[t].kind = "statement" /\ ran[t] /\ ~raised[t]
           => call[t].handle \in statements[call[t].on] \/ call[t].on \in overlapped
    /\ \A t \in Thread : step[t] = "put" => call[t].kind = "statement"
    /\ EveryHandleFound

IInv == TypeOK /\ CallFits /\ JvmOnce /\ JvmSeen /\ Progress /\ Table

-----------------------------------------------------------------------------
(* The steps, one by one.                                                  *)

\* The application makes one of its calls through java_callback.
Begins(t) ==
    \E c \in Call :
        /\ c.kind \in {"connection", "statement", "method"}
        /\ c.kind \in {"connection", "statement"} => c.on \in Connection
        /\ c.kind = "statement" => c.handle \in Statement
        /\ Begin(t, c)

\* Every step is a step of create_vm, of SQLAllocHandle, of java_callback or of
\* its worker, or the beginning of a call.
LEMMA StartIs ==
    ASSUME TypeOK, NEW t \in Thread, Start(t)
    PROVE  AllocEnv(t) \/ Begins(t)
<1>1. CASE \E d \in Connection : AllocConnection(t, d)
  <2>1. PICK d \in Connection : AllocConnection(t, d)
    BY <1>1
  <2>2. Begin(t, [kind |-> "connection", on |-> d, handle |-> Null])
    BY <2>1 DEF AllocConnection
  <2> QED BY <2>2 DEF Begins, Call
<1>2. CASE \E s \in Statement, d \in Connection : AllocStatement(t, s, d)
  <2>1. PICK s \in Statement, d \in Connection : AllocStatement(t, s, d)
    BY <1>2
  <2>2. Begin(t, [kind |-> "statement", on |-> d, handle |-> s])
    BY <2>1 DEF AllocStatement
  <2> QED BY <2>2 DEF Begins, Call
<1>3. CASE \E s \in Statement : CallMethod(t, s)
  <2>1. PICK s \in Statement : CallMethod(t, s)
    BY <1>3
  <2>2. connectionOf[s] \in Connection \cup {Null}
    BY DEF TypeOK
  <2>3. Begin(t, [kind |-> "method", on |-> connectionOf[s], handle |-> s])
    BY <2>1 DEF CallMethod
  <2> QED BY <2>2, <2>3 DEF Begins, Call
<1> QED BY <1>1, <1>2, <1>3 DEF Start


\* The types survive a step.
LEMMA TypeStep ==
    ASSUME IInv, NEW t \in Thread, AllocEnv(t) \/ Begins(t) \/ Proceed(t)
    PROVE  TypeOK'
<1> USE NullAssumption DEF At, Goto, heap, worker, IInv, TypeOK, Code, Call,
             Step, CreateStep, WorkerStep
<1>1. CASE CheckJvm(t)
  BY <1>1 DEF CheckJvm, EnvReturns
<1>2. CASE CreateJvm(t)
  BY <1>2 DEF CreateJvm, EnvReturns
<1>3. CASE JvmStarted(t)
  BY <1>3 DEF JvmStarted, EnvReturns
<1>4. CASE PublishJvm(t)
  BY <1>4 DEF PublishJvm, EnvReturns
<1>5. CASE EnterCallback(t)
  BY <1>5 DEF EnterCallback, CallbackEnds
<1>6. CASE AttachWorker(t)
  BY <1>6 DEF AttachWorker
<1>7. CASE InitConnection(t)
  <2>1. PICK reached \in {"none", "class", "object"} :
            /\ entrypoint' = [entrypoint EXCEPT ![call[t].on] = reached]
            /\ MethodEnds(t, reached # "object")
    BY <1>7 DEF InitConnection
  <2>2. PICK threw \in BOOLEAN : MethodEnds(t, threw)
    BY <2>1
  <2>3. entrypoint' \in [Connection -> {"none", "class", "object"}]
    BY <2>1 DEF IInv, TypeOK
  <2>4. /\ ran' \in [Thread -> BOOLEAN]
        /\ pending' \in [Thread -> BOOLEAN]
        /\ raised' \in [Thread -> BOOLEAN]
        /\ step' \in [Thread -> Step]
    BY <2>2 DEF IInv, TypeOK, MethodEnds, Goto, Step, WorkerStep
  <2> QED
    BY <1>7, <2>3, <2>4 DEF InitConnection, IInv, TypeOK
<1>8. CASE Crash(t)
  BY <1>8 DEF Crash
<1>9. CASE BeginPut(t)
  <2>1. call[t].on \in Connection
    BY <1>9 DEF BeginPut, IInv, CallFits
  <2>2. table' \in [Thread -> SUBSET Statement]
    BY <1>9, <2>1 DEF BeginPut, IInv, TypeOK
  <2>3. overlapped' \subseteq Connection
    BY <1>9, <2>1 DEF BeginPut, IInv, TypeOK
  <2>4. step' \in [Thread -> Step]
    BY <1>9 DEF BeginPut, Goto, IInv, TypeOK, Step, WorkerStep
  <2> QED
    BY <1>9, <2>2, <2>3, <2>4 DEF BeginPut, IInv, TypeOK
<1>10. CASE EndPut(t)
  <2>1. call[t].on \in Connection /\ call[t].handle \in Statement
    BY <1>10 DEF EndPut, At, IInv, CallFits, Table
  <2>2. PICK T \in {table[t], statements[call[t].on]} :
            statements' = [statements EXCEPT ![call[t].on] = T \cup {call[t].handle}]
    BY <1>10 DEF EndPut
  <2>3. T \cup {call[t].handle} \in SUBSET Statement
    BY <2>1, <2>2 DEF IInv, TypeOK
  <2>4. statements' \in [Connection -> SUBSET Statement]
    BY <2>2, <2>3 DEF IInv, TypeOK
  <2> QED
    BY <1>10, <2>4 DEF EndPut, MethodEnds, Goto, IInv, TypeOK, Step, WorkerStep
<1>11. CASE CreateStatementThrows(t)
  BY <1>11 DEF CreateStatementThrows, MethodEnds
<1>12. CASE RunMethod(t)
  BY <1>12 DEF RunMethod, MethodEnds
<1>13. CASE ConvertResult(t)
  BY <1>13 DEF ConvertResult
<1>14. CASE ConvertThrows(t)
  BY <1>14 DEF ConvertThrows, CallbackEnds
<1>15. CASE ClearException(t)
  BY <1>15 DEF ClearException
<1>16. CASE DetachWorker(t)
  BY <1>16 DEF DetachWorker
<1>17. CASE GiveHandle(t)
  <2>1. connections' \subseteq Connection
    <3>1. {d \in {call[t].on} : call[t].kind = "connection" /\ code[t] # "exception"} \subseteq Connection
      BY DEF IInv, CallFits
    <3> QED BY <1>17, <3>1 DEF GiveHandle, IInv, TypeOK
  <2>2. connectionOf' \in [Statement -> Connection \cup {Null}]
    BY <1>17 DEF GiveHandle, IInv, TypeOK, CallFits
  <2> QED
    BY <1>17, <2>1, <2>2 DEF GiveHandle, Goto, worker, IInv, TypeOK, Step
<1>18. CASE AllocEnv(t)
  BY <1>18 DEF AllocEnv, NoCall
<1>19. CASE Begins(t)
  BY <1>19 DEF Begins, Begin
<1> QED
  BY <1>1, <1>2, <1>3, <1>4, <1>5, <1>6, <1>7, <1>8, <1>9, <1>10,
     <1>11, <1>12, <1>13, <1>14, <1>15, <1>16, <1>17, <1>18, <1>19, Zenon DEF Proceed

\* A call goes on about what it began.
LEMMA CallFitsStep ==
    ASSUME IInv, NEW t \in Thread, AllocEnv(t) \/ Begins(t) \/ Proceed(t)
    PROVE  CallFits'
<1> USE NullAssumption DEF At, Goto, heap, worker, IInv, TypeOK, CallFits, Call,
             CreateStep, WorkerStep
<1>1. CASE CheckJvm(t)
  BY <1>1 DEF CheckJvm, EnvReturns
<1>2. CASE CreateJvm(t)
  BY <1>2 DEF CreateJvm, EnvReturns
<1>3. CASE JvmStarted(t)
  BY <1>3 DEF JvmStarted, EnvReturns
<1>4. CASE PublishJvm(t)
  BY <1>4 DEF PublishJvm, EnvReturns
<1>5. CASE EnterCallback(t)
  BY <1>5 DEF EnterCallback, CallbackEnds
<1>6. CASE AttachWorker(t)
  BY <1>6 DEF AttachWorker
<1>7. CASE InitConnection(t)
  BY <1>7 DEF InitConnection, MethodEnds
<1>8. CASE Crash(t)
  BY <1>8 DEF Crash
<1>9. CASE BeginPut(t)
  BY <1>9 DEF BeginPut
<1>10. CASE EndPut(t)
  BY <1>10 DEF EndPut, MethodEnds
<1>11. CASE CreateStatementThrows(t)
  BY <1>11 DEF CreateStatementThrows, MethodEnds
<1>12. CASE RunMethod(t)
  BY <1>12 DEF RunMethod, MethodEnds
<1>13. CASE ConvertResult(t)
  BY <1>13 DEF ConvertResult
<1>14. CASE ConvertThrows(t)
  BY <1>14 DEF ConvertThrows, CallbackEnds
<1>15. CASE ClearException(t)
  BY <1>15 DEF ClearException
<1>16. CASE DetachWorker(t)
  BY <1>16 DEF DetachWorker
<1>17. CASE GiveHandle(t)
  BY <1>17 DEF GiveHandle
<1>18. CASE AllocEnv(t)
  BY <1>18 DEF AllocEnv, NoCall
<1>19. CASE Begins(t)
  BY <1>19 DEF Begins, Begin
<1> QED
  BY <1>1, <1>2, <1>3, <1>4, <1>5, <1>6, <1>7, <1>8, <1>9, <1>10,
     <1>11, <1>12, <1>13, <1>14, <1>15, <1>16, <1>17, <1>18, <1>19, Zenon DEF Proceed

\* The virtual machine is started and published once.
LEMMA JvmOnceStep ==
    ASSUME IInv, NEW t \in Thread, AllocEnv(t) \/ Begins(t) \/ Proceed(t)
    PROVE  JvmOnce'
<1> USE NullAssumption DEF At, Goto, heap, worker, IInv, TypeOK, JvmOnce, CreateStep,
             WorkerStep
<1>1. CASE CheckJvm(t)
  BY <1>1 DEF CheckJvm, EnvReturns
<1>2. CASE CreateJvm(t)
  BY <1>2 DEF CreateJvm, EnvReturns
<1>3. CASE JvmStarted(t)
  BY <1>3 DEF JvmStarted, EnvReturns
<1>4. CASE PublishJvm(t)
  BY <1>4 DEF PublishJvm, EnvReturns
<1>5. CASE EnterCallback(t)
  BY <1>5 DEF EnterCallback, CallbackEnds
<1>6. CASE AttachWorker(t)
  BY <1>6 DEF AttachWorker
<1>7. CASE InitConnection(t)
  BY <1>7 DEF InitConnection, MethodEnds
<1>8. CASE Crash(t)
  BY <1>8 DEF Crash
<1>9. CASE BeginPut(t)
  BY <1>9 DEF BeginPut
<1>10. CASE EndPut(t)
  BY <1>10 DEF EndPut, MethodEnds
<1>11. CASE CreateStatementThrows(t)
  BY <1>11 DEF CreateStatementThrows, MethodEnds
<1>12. CASE RunMethod(t)
  BY <1>12 DEF RunMethod, MethodEnds
<1>13. CASE ConvertResult(t)
  BY <1>13 DEF ConvertResult
<1>14. CASE ConvertThrows(t)
  BY <1>14 DEF ConvertThrows, CallbackEnds
<1>15. CASE ClearException(t)
  BY <1>15 DEF ClearException
<1>16. CASE DetachWorker(t)
  BY <1>16 DEF DetachWorker
<1>17. CASE GiveHandle(t)
  BY <1>17 DEF GiveHandle
<1>18. CASE AllocEnv(t)
  BY <1>18 DEF AllocEnv, NoCall
<1>19. CASE Begins(t)
  BY <1>19 DEF Begins, Begin
<1> QED
  BY <1>1, <1>2, <1>3, <1>4, <1>5, <1>6, <1>7, <1>8, <1>9, <1>10,
     <1>11, <1>12, <1>13, <1>14, <1>15, <1>16, <1>17, <1>18, <1>19, Zenon DEF Proceed

\* What a thread has seen stays.
LEMMA JvmSeenStep ==
    ASSUME IInv, NEW t \in Thread, AllocEnv(t) \/ Begins(t) \/ Proceed(t)
    PROVE  JvmSeen'
<1> USE NullAssumption DEF At, Goto, heap, worker, IInv, TypeOK, JvmSeen, JvmOnce,
             CallFits, Progress, Call, CreateStep, WorkerStep
<1>1. CASE CheckJvm(t)
  BY <1>1 DEF CheckJvm, EnvReturns
<1>2. CASE CreateJvm(t)
  BY <1>2 DEF CreateJvm, EnvReturns
<1>3. CASE JvmStarted(t)
  BY <1>3 DEF JvmStarted, EnvReturns
<1>4. CASE PublishJvm(t)
  BY <1>4 DEF PublishJvm, EnvReturns
<1>5. CASE EnterCallback(t)
  BY <1>5 DEF EnterCallback, CallbackEnds
<1>6. CASE AttachWorker(t)
  BY <1>6 DEF AttachWorker
<1>7. CASE InitConnection(t)
  BY <1>7 DEF InitConnection, MethodEnds
<1>8. CASE Crash(t)
  BY <1>8 DEF Crash
<1>9. CASE BeginPut(t)
  BY <1>9 DEF BeginPut
<1>10. CASE EndPut(t)
  BY <1>10 DEF EndPut, MethodEnds
<1>11. CASE CreateStatementThrows(t)
  BY <1>11 DEF CreateStatementThrows, MethodEnds
<1>12. CASE RunMethod(t)
  BY <1>12 DEF RunMethod, MethodEnds
<1>13. CASE ConvertResult(t)
  BY <1>13 DEF ConvertResult
<1>14. CASE ConvertThrows(t)
  BY <1>14 DEF ConvertThrows, CallbackEnds
<1>15. CASE ClearException(t)
  BY <1>15 DEF ClearException
<1>16. CASE DetachWorker(t)
  BY <1>16 DEF DetachWorker
<1>17. CASE GiveHandle(t)
  BY <1>17 DEF GiveHandle
<1>18. CASE AllocEnv(t)
  BY <1>18 DEF AllocEnv, NoCall
<1>19. CASE Begins(t)
  BY <1>19 DEF Begins, Begin
<1> QED
  BY <1>1, <1>2, <1>3, <1>4, <1>5, <1>6, <1>7, <1>8, <1>9, <1>10,
     <1>11, <1>12, <1>13, <1>14, <1>15, <1>16, <1>17, <1>18, <1>19, Zenon DEF Proceed

\* Each step of a call finds what the one before it left.
LEMMA ProgressStep ==
    ASSUME IInv, NEW t \in Thread, AllocEnv(t) \/ Begins(t) \/ Proceed(t)
    PROVE  Progress'
<1> USE NullAssumption DEF At, Goto, heap, worker, IInv, TypeOK, Progress, CallFits,
             Code, CreateStep, WorkerStep
<1>1. CASE CheckJvm(t)
  BY <1>1 DEF CheckJvm, EnvReturns
<1>2. CASE CreateJvm(t)
  BY <1>2 DEF CreateJvm, EnvReturns
<1>3. CASE JvmStarted(t)
  BY <1>3 DEF JvmStarted, EnvReturns
<1>4. CASE PublishJvm(t)
  BY <1>4 DEF PublishJvm, EnvReturns
<1>5. CASE EnterCallback(t)
  BY <1>5 DEF EnterCallback, CallbackEnds
<1>6. CASE AttachWorker(t)
  BY <1>6 DEF AttachWorker
<1>7. CASE InitConnection(t)
  BY <1>7 DEF InitConnection, MethodEnds
<1>8. CASE Crash(t)
  BY <1>8 DEF Crash
<1>9. CASE BeginPut(t)
  BY <1>9 DEF BeginPut
<1>10. CASE EndPut(t)
  BY <1>10 DEF EndPut, MethodEnds
<1>11. CASE CreateStatementThrows(t)
  BY <1>11 DEF CreateStatementThrows, MethodEnds
<1>12. CASE RunMethod(t)
  BY <1>12 DEF RunMethod, MethodEnds
<1>13. CASE ConvertResult(t)
  BY <1>13 DEF ConvertResult
<1>14. CASE ConvertThrows(t)
  BY <1>14 DEF ConvertThrows, CallbackEnds
<1>15. CASE ClearException(t)
  BY <1>15 DEF ClearException
<1>16. CASE DetachWorker(t)
  BY <1>16 DEF DetachWorker
<1>17. CASE GiveHandle(t)
  BY <1>17 DEF GiveHandle
<1>18. CASE AllocEnv(t)
  BY <1>18 DEF AllocEnv, NoCall
<1>19. CASE Begins(t)
  BY <1>19 DEF Begins, Begin
<1> QED
  BY <1>1, <1>2, <1>3, <1>4, <1>5, <1>6, <1>7, <1>8, <1>9, <1>10,
     <1>11, <1>12, <1>13, <1>14, <1>15, <1>16, <1>17, <1>18, <1>19, Zenon DEF Proceed

\* Nothing put in a table is lost while allocations do not overlap.
LEMMA TableStep ==
    ASSUME IInv, NEW t \in Thread, AllocEnv(t) \/ Begins(t) \/ Proceed(t)
    PROVE  Table'
<1> USE NullAssumption DEF At, Goto, heap, worker, IInv, TypeOK, Table, EveryHandleFound,
             Progress, CallFits, Call, CreateStep, WorkerStep
<1>1. CASE CheckJvm(t)
  BY <1>1 DEF CheckJvm, EnvReturns
<1>2. CASE CreateJvm(t)
  BY <1>2 DEF CreateJvm, EnvReturns
<1>3. CASE JvmStarted(t)
  BY <1>3 DEF JvmStarted, EnvReturns
<1>4. CASE PublishJvm(t)
  BY <1>4 DEF PublishJvm, EnvReturns
<1>5. CASE EnterCallback(t)
  BY <1>5 DEF EnterCallback, CallbackEnds
<1>6. CASE AttachWorker(t)
  BY <1>6 DEF AttachWorker
<1>7. CASE InitConnection(t)
  BY <1>7 DEF InitConnection, MethodEnds
<1>8. CASE Crash(t)
  BY <1>8 DEF Crash
<1>9. CASE BeginPut(t)
  BY <1>9 DEF BeginPut
<1>10. CASE EndPut(t)
  BY <1>10 DEF EndPut, MethodEnds
<1>11. CASE CreateStatementThrows(t)
  BY <1>11 DEF CreateStatementThrows, MethodEnds
<1>12. CASE RunMethod(t)
  BY <1>12 DEF RunMethod, MethodEnds
<1>13. CASE ConvertResult(t)
  BY <1>13 DEF ConvertResult
<1>14. CASE ConvertThrows(t)
  BY <1>14 DEF ConvertThrows, CallbackEnds
<1>15. CASE ClearException(t)
  BY <1>15 DEF ClearException
<1>16. CASE DetachWorker(t)
  BY <1>16 DEF DetachWorker
<1>17. CASE GiveHandle(t)
  BY <1>17 DEF GiveHandle
<1>18. CASE AllocEnv(t)
  BY <1>18 DEF AllocEnv, NoCall
<1>19. CASE Begins(t)
  BY <1>19 DEF Begins, Begin
<1> QED
  BY <1>1, <1>2, <1>3, <1>4, <1>5, <1>6, <1>7, <1>8, <1>9, <1>10,
     <1>11, <1>12, <1>13, <1>14, <1>15, <1>16, <1>17, <1>18, <1>19, Zenon DEF Proceed

LEMMA InvInit ==
    ASSUME Init
    PROVE  IInv
<1>1. TypeOK
  BY DEF Init, TypeOK, NoCall, Call, Step
<1>2. CallFits /\ JvmOnce /\ JvmSeen
  BY DEF Init, CallFits, JvmOnce, JvmSeen, NoCall, CreateStep, WorkerStep
<1>3. Progress /\ Table
  BY NullAssumption DEF Init, Progress, Table, EveryHandleFound, CreateStep
<1> QED BY <1>1, <1>2, <1>3 DEF IInv

LEMMA InvStep ==
    ASSUME IInv, [Next]_vars
    PROVE  IInv'
<1>1. CASE Next
  <2>1. PICK t \in Thread : Start(t) \/ Proceed(t)
    BY <1>1 DEF Next
  <2>2. AllocEnv(t) \/ Begins(t) \/ Proceed(t)
    BY <2>1, StartIs DEF IInv
  <2> QED
    BY <2>2, TypeStep, CallFitsStep, JvmOnceStep, JvmSeenStep, ProgressStep, TableStep DEF IInv
<1>2. CASE UNCHANGED vars
  BY <1>2 DEF vars, heap, worker, IInv, TypeOK, CallFits, JvmOnce, JvmSeen, Progress, Table,
              EveryHandleFound
<1> QED BY <1>1, <1>2

LEMMA Invariant == Spec => []IInv
BY InvInit, InvStep, PTL DEF Spec

-----------------------------------------------------------------------------
(* What the invariant gives.                                               *)

\* The variables of the bridge keep their types.
THEOREM TypeCorrect == Spec => []TypeOK
BY Invariant, PTL DEF IInv

\* SQL_SUCCESS means that the Java method has run and that no exception was lost,
\* neither its own nor that of a conversion (java_callback, jvm.hpp).
THEOREM AnswersAreHonest == Spec => []SuccessMeansDone
<1>1. IInv => SuccessMeansDone
  BY DEF IInv, Progress, SuccessMeansDone, Answered
<1> QED BY <1>1, Invariant, PTL

\* A caller goes on only when its worker has detached from the virtual machine,
\* unless a C++ exception has ended the worker (java_callback, jvm.hpp).
THEOREM WorkersAreGone == Spec => []WorkersDetach
<1>1. IInv => WorkersDetach
  BY DEF IInv, Progress, WorkersDetach, Answered
<1> QED BY <1>1, Invariant, PTL

\* However many threads allocate environments, one starts the virtual machine and
\* assigns the pointer (create_vm, jvm.cpp).
THEOREM OneThreadPublishes == Spec => []OneJvm
<1>1. IInv => OneJvm
  BY DEF IInv, JvmOnce, OneJvm
<1> QED BY <1>1, Invariant, PTL

\* A thread that has seen the virtual machine is never refused for the lack of it
\* (create_vm, java_callback).
THEOREM JvmIsForGood == Spec => []JvmStays
<1>1. IInv => JvmStays
  BY DEF IInv, TypeOK, CallFits, JvmSeen, JvmStays, Answered
<1> QED BY <1>1, Invariant, PTL

\* A statement handle is found in the table of its connection, unless two threads
\* have allocated statements on it at once (createStatement, OdbcDatabase.java).
THEOREM HandlesAreFound == Spec => []EveryHandleFound
<1>1. IInv => EveryHandleFound
  BY DEF IInv, Table
<1> QED BY <1>1, Invariant, PTL

-----------------------------------------------------------------------------
(* The bridge implements a synchronous call.                               *)

phaseBar  == [t \in Thread |-> IF ~InCallback(t) THEN "idle"
                               ELSE IF ran[t] THEN "ran" ELSE "called"]
answerBar == [t \in Thread |-> IF InCallback(t) THEN Null ELSE code[t]]

\* The step of one thread changes the mapped state of no other.
LEMMA OthersKeep ==
    ASSUME IInv, NEW t \in Thread, AllocEnv(t) \/ Begins(t) \/ Proceed(t), 
           NEW u \in Thread, u # t
    PROVE  phaseBar'[u] = phaseBar[u] /\ answerBar'[u] = answerBar[u]

<1> USE DEF At, Goto, heap, worker, IInv, TypeOK, phaseBar, answerBar, InCallback
<1>1. CASE CheckJvm(t)
  BY <1>1 DEF CheckJvm, EnvReturns
<1>2. CASE CreateJvm(t)
  BY <1>2 DEF CreateJvm, EnvReturns
<1>3. CASE JvmStarted(t)
  BY <1>3 DEF JvmStarted, EnvReturns
<1>4. CASE PublishJvm(t)
  BY <1>4 DEF PublishJvm, EnvReturns
<1>5. CASE EnterCallback(t)
  BY <1>5 DEF EnterCallback, CallbackEnds
<1>6. CASE AttachWorker(t)
  BY <1>6 DEF AttachWorker
<1>7. CASE InitConnection(t)
  BY <1>7 DEF InitConnection, MethodEnds
<1>8. CASE Crash(t)
  BY <1>8 DEF Crash
<1>9. CASE BeginPut(t)
  BY <1>9 DEF BeginPut
<1>10. CASE EndPut(t)
  BY <1>10 DEF EndPut, MethodEnds
<1>11. CASE CreateStatementThrows(t)
  BY <1>11 DEF CreateStatementThrows, MethodEnds
<1>12. CASE RunMethod(t)
  BY <1>12 DEF RunMethod, MethodEnds
<1>13. CASE ConvertResult(t)
  BY <1>13 DEF ConvertResult
<1>14. CASE ConvertThrows(t)
  BY <1>14 DEF ConvertThrows, CallbackEnds
<1>15. CASE ClearException(t)
  BY <1>15 DEF ClearException
<1>16. CASE DetachWorker(t)
  BY <1>16 DEF DetachWorker
<1>17. CASE GiveHandle(t)
  BY <1>17 DEF GiveHandle
<1>18. CASE AllocEnv(t)
  BY <1>18 DEF AllocEnv, NoCall
<1>19. CASE Begins(t)
  BY <1>19 DEF Begins, Begin
<1> QED
  BY <1>1, <1>2, <1>3, <1>4, <1>5, <1>6, <1>7, <1>8, <1>9, <1>10,
     <1>11, <1>12, <1>13, <1>14, <1>15, <1>16, <1>17, <1>18, <1>19, Zenon DEF Proceed

\* What the step of a thread is for the abstract call.
LEMMA StepIs ==
    ASSUME IInv, NEW t \in Thread, AllocEnv(t) \/ Begins(t) \/ Proceed(t)
    PROVE  \/ phaseBar'[t] = phaseBar[t] /\ answerBar'[t] = answerBar[t]
           \/ phaseBar[t] = "idle" /\ phaseBar'[t] = "called" /\ answerBar'[t] = Null
           \/ phaseBar[t] = "called" /\ phaseBar'[t] = "ran" /\ answerBar'[t] = answerBar[t]
           \/ /\ phaseBar[t] \in {"called", "ran"}
              /\ phaseBar'[t] = "idle"
              /\ answerBar'[t] \in Code
              /\ answerBar'[t] = "SQL_SUCCESS" => phaseBar[t] = "ran"
<1> USE NullAssumption DEF At, Goto, heap, worker, IInv, TypeOK, Progress, Code, WorkerStep,
             CreateStep, phaseBar, answerBar, InCallback
<1>1. CASE CheckJvm(t)
  BY <1>1 DEF CheckJvm, EnvReturns
<1>2. CASE CreateJvm(t)
  BY <1>2 DEF CreateJvm, EnvReturns
<1>3. CASE JvmStarted(t)
  BY <1>3 DEF JvmStarted, EnvReturns
<1>4. CASE PublishJvm(t)
  BY <1>4 DEF PublishJvm, EnvReturns
<1>5. CASE EnterCallback(t)
  BY <1>5 DEF EnterCallback, CallbackEnds
<1>6. CASE AttachWorker(t)
  BY <1>6 DEF AttachWorker
<1>7. CASE InitConnection(t)
  BY <1>7 DEF InitConnection, MethodEnds
<1>8. CASE Crash(t)
  BY <1>8 DEF Crash
<1>9. CASE BeginPut(t)
  BY <1>9 DEF BeginPut
<1>10. CASE EndPut(t)
  BY <1>10 DEF EndPut, MethodEnds
<1>11. CASE CreateStatementThrows(t)
  BY <1>11 DEF CreateStatementThrows, MethodEnds
<1>12. CASE RunMethod(t)
  BY <1>12 DEF RunMethod, MethodEnds
<1>13. CASE ConvertResult(t)
  BY <1>13 DEF ConvertResult
<1>14. CASE ConvertThrows(t)
  BY <1>14 DEF ConvertThrows, CallbackEnds
<1>15. CASE ClearException(t)
  BY <1>15 DEF ClearException
<1>16. CASE DetachWorker(t)
  BY <1>16 DEF DetachWorker
<1>17. CASE GiveHandle(t)
  BY <1>17 DEF GiveHandle
<1>18. CASE AllocEnv(t)
  BY <1>18 DEF AllocEnv, NoCall
<1>19. CASE Begins(t)
  BY <1>19 DEF Begins, Begin
<1> QED
  BY <1>1, <1>2, <1>3, <1>4, <1>5, <1>6, <1>7, <1>8, <1>9, <1>10,
     <1>11, <1>12, <1>13, <1>14, <1>15, <1>16, <1>17, <1>18, <1>19, Zenon DEF Proceed

LEMMA CallsInit ==
    ASSUME Init
    PROVE  C!Init
BY DEF Init, C!Init, InCallback, WorkerStep

LEMMA CallsStep ==
    ASSUME IInv, [Next]_vars
    PROVE  [C!Next]_<<phaseBar, answerBar>>
<1>1. CASE Next
  <2>1. PICK t \in Thread : Start(t) \/ Proceed(t)
    BY <1>1 DEF Next
  <2>2. AllocEnv(t) \/ Begins(t) \/ Proceed(t)
    BY <2>1, StartIs DEF IInv
  <2>3. \A u \in Thread : u # t => phaseBar'[u] = phaseBar[u] /\ answerBar'[u] = answerBar[u]
    BY <2>2, OthersKeep
  <2>4. /\ phaseBar' = [phaseBar EXCEPT ![t] = phaseBar'[t]]
        /\ answerBar' = [answerBar EXCEPT ![t] = answerBar'[t]]
    BY <2>3 DEF phaseBar, answerBar
  <2>5. CASE phaseBar'[t] = phaseBar[t] /\ answerBar'[t] = answerBar[t]
    <3>1. phaseBar' = phaseBar /\ answerBar' = answerBar
      BY <2>3, <2>5 DEF phaseBar, answerBar
    <3> QED BY <3>1
  <2>6. CASE phaseBar[t] = "idle" /\ phaseBar'[t] = "called" /\ answerBar'[t] = Null
    <3>1. C!Invoke(t)
      BY <2>4, <2>6 DEF C!Invoke, phaseBar, answerBar
    <3> QED BY <3>1 DEF C!Next
  <2>7. CASE phaseBar[t] = "called" /\ phaseBar'[t] = "ran" /\ answerBar'[t] = answerBar[t]
    <3>1. answerBar' = answerBar
      BY <2>3, <2>7 DEF answerBar
    <3>2. C!Run(t)
      BY <2>4, <2>7, <3>1 DEF C!Run, phaseBar, answerBar
    <3> QED BY <3>2 DEF C!Next
  <2>8. CASE /\ phaseBar[t] \in {"called", "ran"}
             /\ phaseBar'[t] = "idle"
             /\ answerBar'[t] \in Code
             /\ answerBar'[t] = "SQL_SUCCESS" => phaseBar[t] = "ran"
    <3>1. PICK c \in C!Answer : c = answerBar'[t]
      BY <2>8 DEF C!Answer, Code
    <3>2. C!Return(t, c)
      BY <2>4, <2>8, <3>1 DEF C!Return, phaseBar, answerBar
    <3> QED BY <3>2 DEF C!Next
  <2> QED BY <2>2, <2>5, <2>6, <2>7, <2>8, StepIs
<1>2. CASE UNCHANGED vars
  BY <1>2 DEF vars, worker, phaseBar, answerBar, InCallback
<1> QED BY <1>1, <1>2

\* A thread, its future and its attached worker implement a synchronous call: the
\* Java method runs at most once, never outlives the call, and has run when the
\* answer is SQL_SUCCESS (java_callback, jvm.hpp).
THEOREM ImplementsCalls == Spec => CallsAreSynchronous
<1>1. Init => C!Init
  BY CallsInit
<1>2. IInv /\ [Next]_vars => [C!Next]_<<phaseBar, answerBar>>
  BY CallsStep
<1> QED
  BY <1>1, <1>2, Invariant, PTL DEF Spec, CallsAreSynchronous, C!Spec, phaseBar, answerBar
-----------------------------------------------------------------------------
(* No entry is lost.                                                       *)

\* Only the end of HashMap.put touches a table, and it keeps what it has found there.
LEMMA EntriesStep ==
    ASSUME IInv, [Next]_vars, NEW d \in Connection, d \notin overlapped'
    PROVE  statements[d] \subseteq statements'[d]
<1>1. ASSUME IInv, NEW t \in Thread, AllocEnv(t) \/ Begins(t) \/ Proceed(t)
      PROVE  statements[d] \subseteq statements'[d]
  <2>1. CASE EndPut(t)
    <3>1. PICK T \in {table[t], statements[call[t].on]} :
              statements' = [statements EXCEPT ![call[t].on] = T \cup {call[t].handle}]
      BY <2>1 DEF EndPut
    <3>2. CASE call[t].on = d
      <4>1. table[t] = statements[d]
        BY <1>1, <2>1, <3>2 DEF EndPut, At, IInv, Table
      <4> QED BY <3>1, <3>2, <4>1 DEF IInv, TypeOK
    <3>3. CASE call[t].on # d
      BY <3>1, <3>3 DEF IInv, TypeOK
    <3> QED BY <3>2, <3>3
  <2>2. CASE ~EndPut(t)
    <3>1. statements' = statements
      BY <1>1, <2>2 DEF Proceed, AllocEnv, Begins, Begin, CheckJvm, CreateJvm, JvmStarted, PublishJvm,
         EnterCallback, AttachWorker, InitConnection, Crash, BeginPut, CreateStatementThrows,
         RunMethod, ConvertResult, ConvertThrows, ClearException, DetachWorker, GiveHandle, heap
    <3> QED BY <3>1
  <2> QED BY <2>1, <2>2
<1>2. CASE Next
  <2>1. PICK t \in Thread : Start(t) \/ Proceed(t)
    BY <1>2 DEF Next
  <2>2. AllocEnv(t) \/ Begins(t) \/ Proceed(t)
    BY <2>1, StartIs DEF IInv
  <2> QED BY <1>1, <2>2
<1>3. CASE UNCHANGED vars
  BY <1>3 DEF vars, heap
<1> QED BY <1>2, <1>3

\* While allocations on a connection do not overlap, no entry is lost from its
\* table of statements (createStatement, OdbcDatabase.java).
THEOREM EntriesAreKept == Spec => EntriesStay
<1>1. IInv /\ [Next]_vars => [\A d \in Connection \ overlapped' : statements[d] \subseteq statements'[d]]_vars
  BY EntriesStep
<1> QED BY <1>1, Invariant, PTL DEF Spec, EntriesStay

-----------------------------------------------------------------------------
(* Allocations in turn.                                                    *)

\* One thread at most has an allocation under way on a connection, so that none overlaps another.
InTurn ==
    /\ overlapped = {}
    /\ \A d \in Connection, t, u \in Thread : Allocating(t, d) /\ Allocating(u, d) => t = u

\* A step of a call begins no other, and goes on with the one it is of.
LEMMA ProceedKeepsCalls ==
    ASSUME IInv, NEW t \in Thread, Proceed(t)
    PROVE  call' = call /\ step[t] # "idle" /\ \A u \in Thread \ {t} : step'[u] = step[u]
<1> USE DEF At, Goto, IInv, TypeOK
<1>1. CASE CheckJvm(t)
  BY <1>1 DEF CheckJvm, EnvReturns
<1>2. CASE CreateJvm(t)
  BY <1>2 DEF CreateJvm, EnvReturns
<1>3. CASE JvmStarted(t)
  BY <1>3 DEF JvmStarted, EnvReturns
<1>4. CASE PublishJvm(t)
  BY <1>4 DEF PublishJvm, EnvReturns
<1>5. CASE EnterCallback(t)
  BY <1>5 DEF EnterCallback, CallbackEnds
<1>6. CASE AttachWorker(t)
  BY <1>6 DEF AttachWorker
<1>7. CASE InitConnection(t)
  BY <1>7 DEF InitConnection, MethodEnds
<1>8. CASE Crash(t)
  BY <1>8 DEF Crash
<1>9. CASE BeginPut(t)
  BY <1>9 DEF BeginPut
<1>10. CASE EndPut(t)
  BY <1>10 DEF EndPut, MethodEnds
<1>11. CASE CreateStatementThrows(t)
  BY <1>11 DEF CreateStatementThrows, MethodEnds
<1>12. CASE RunMethod(t)
  BY <1>12 DEF RunMethod, MethodEnds
<1>13. CASE ConvertResult(t)
  BY <1>13 DEF ConvertResult
<1>14. CASE ConvertThrows(t)
  BY <1>14 DEF ConvertThrows, CallbackEnds
<1>15. CASE ClearException(t)
  BY <1>15 DEF ClearException
<1>16. CASE DetachWorker(t)
  BY <1>16 DEF DetachWorker
<1>17. CASE GiveHandle(t)
  BY <1>17 DEF GiveHandle
<1> QED
  BY <1>1, <1>2, <1>3, <1>4, <1>5, <1>6, <1>7, <1>8, <1>9, <1>10,
     <1>11, <1>12, <1>13, <1>14, <1>15, <1>16, <1>17, Zenon DEF Proceed

LEMMA InTurnSteps == [NextInTurn]_vars => [Next]_vars
BY DEF NextInTurn, StartInTurn, Next, Start

LEMMA InTurnStep ==
    ASSUME IInv, InTurn, [NextInTurn]_vars
    PROVE  InTurn'
<1>1. CASE UNCHANGED vars
  BY <1>1 DEF vars, heap, InTurn, Allocating
<1>2. ASSUME NEW t \in Thread, Proceed(t) PROVE InTurn'
  <2>1. call' = call /\ step[t] # "idle" /\ \A u \in Thread \ {t} : step'[u] = step[u]
    BY <1>2, ProceedKeepsCalls
  <2>2. ASSUME NEW d \in Connection, NEW u \in Thread, Allocating(u, d)' PROVE Allocating(u, d)
    BY <2>1, <2>2 DEF Allocating
  <2>3. overlapped' = {}
    <3>1. CASE BeginPut(t)
      <4>1. ASSUME NEW u \in Thread, step[u] = "put", call[u].on = call[t].on PROVE FALSE
        <5>1. call[t].on \in Connection /\ call[t].kind = "statement" /\ step[t] = "java"
          BY <3>1 DEF BeginPut, At, IInv, CallFits
        <5>2. call[u].kind = "statement"
          BY <4>1 DEF IInv, Table
        <5>3. Allocating(t, call[t].on) /\ Allocating(u, call[t].on)
          BY <4>1, <5>1, <5>2 DEF Allocating
        <5>4. t = u
          BY <5>1, <5>3 DEF InTurn
        <5> QED BY <4>1, <5>1, <5>4
      <4> QED BY <3>1, <4>1 DEF BeginPut, InTurn
    <3>2. CASE ~BeginPut(t)
      BY <1>2, <3>2 DEF InTurn, Proceed, CheckJvm, CreateJvm, JvmStarted, PublishJvm, EnterCallback,
         AttachWorker, InitConnection, Crash, EndPut, CreateStatementThrows, RunMethod, ConvertResult,
         ConvertThrows, ClearException, DetachWorker, GiveHandle, heap
    <3> QED BY <3>1, <3>2
  <2> QED BY <2>2, <2>3 DEF InTurn
<1>3. ASSUME NEW t \in Thread, StartInTurn(t) PROVE InTurn'
  <2>1. ASSUME NEW c, Begin(t, c),
               \A d \in Connection : c.kind = "statement" /\ c.on = d => \A u \in Thread : ~Allocating(u, d)
        PROVE  InTurn'
    <3>1. /\ overlapped' = overlapped
          /\ \A u \in Thread \ {t} : step'[u] = step[u] /\ call'[u] = call[u]
          /\ call'[t] = c
      BY <2>1 DEF Begin, heap, Goto, IInv, TypeOK
    <3>2. ASSUME NEW d \in Connection, NEW u \in Thread, u # t, Allocating(u, d)'
          PROVE  Allocating(u, d) /\ ~Allocating(t, d)'
      BY <2>1, <3>1, <3>2 DEF Allocating
    <3> QED BY <3>1, <3>2 DEF InTurn
  <2>2. CASE AllocEnv(t)
    BY <2>2 DEF AllocEnv, NoCall, heap, Goto, InTurn, Allocating, IInv, TypeOK
  <2>3. CASE \E d \in Connection : AllocConnection(t, d)
    BY <2>1, <2>3 DEF AllocConnection
  <2>4. CASE \E s \in Statement, d \in Connection :
                 AllocStatement(t, s, d) /\ \A u \in Thread : ~Allocating(u, d)
    BY <2>1, <2>4 DEF AllocStatement
  <2>5. CASE \E s \in Statement : CallMethod(t, s)
    BY <2>1, <2>5 DEF CallMethod
  <2> QED BY <1>3, <2>2, <2>3, <2>4, <2>5 DEF StartInTurn
<1> QED BY <1>1, <1>2, <1>3 DEF NextInTurn

LEMMA InTurnInvariant == SpecInTurn => [](IInv /\ InTurn)
<1>1. Init => IInv
  BY InvInit
<1>2. Init => InTurn
  BY DEF Init, InTurn, Allocating
<1>3. IInv /\ InTurn /\ [NextInTurn]_vars => (IInv /\ InTurn)'
  BY InvStep, InTurnStep, InTurnSteps
<1> QED BY <1>1, <1>2, <1>3, PTL DEF SpecInTurn

\* An application that allocates the statements of each connection in turn finds every handle it
\* was given, however its threads interleave (createStatement, OdbcDatabase.java).
THEOREM HandlesInTurnAreFound == SpecInTurn => []HandlesFound
<1>1. IInv /\ InTurn => HandlesFound
  BY DEF IInv, Table, EveryHandleFound, InTurn, HandlesFound
<1> QED BY <1>1, InTurnInvariant, PTL

\* For such an application no entry ever leaves a table of statements (createStatement,
\* OdbcDatabase.java).
THEOREM EntriesInTurnAreKept == SpecInTurn => EntriesKept
<1>1. IInv /\ InTurn' /\ [NextInTurn]_vars => [\A d \in Connection : statements[d] \subseteq statements'[d]]_vars
  BY EntriesStep, InTurnSteps DEF InTurn
<1> QED BY <1>1, InTurnInvariant, PTL DEF SpecInTurn, EntriesKept

-----------------------------------------------------------------------------
(* Every call returns.                                                     *)

\* How many steps the call of a thread has left at most.
StepsLeft == [
    idle    |-> 0, finish |-> 1, detach   |-> 2, clear  |-> 3, convert |-> 4,
    put     |-> 5, java   |-> 6, attach   |-> 7, enter  |-> 8,
    publish |-> 1, starting |-> 2, create |-> 3, check  |-> 4]

Left(t) == StepsLeft[step[t]]

LEMMA LeftTyped ==
    ASSUME TypeOK, NEW t \in Thread
    PROVE  Left(t) \in 0 .. 8 /\ (Left(t) = 0 <=> step[t] = "idle")
<1>1. step[t] \in Step
  BY DEF TypeOK
<1> QED BY <1>1 DEF Left, StepsLeft, Step, CreateStep, WorkerStep

\* A step of its own brings a call nearer to its end, or ends the process.
LEMMA StepCounts ==
    ASSUME IInv, NEW t \in Thread, Proceed(t)
    PROVE  Left(t)' < Left(t) \/ crashed'
<1> USE DEF At, Goto, IInv, TypeOK, Left, StepsLeft
<1>1. CASE CheckJvm(t)
  BY <1>1 DEF CheckJvm, EnvReturns
<1>2. CASE CreateJvm(t)
  BY <1>2 DEF CreateJvm, EnvReturns
<1>3. CASE JvmStarted(t)
  BY <1>3 DEF JvmStarted, EnvReturns
<1>4. CASE PublishJvm(t)
  BY <1>4 DEF PublishJvm, EnvReturns
<1>5. CASE EnterCallback(t)
  BY <1>5 DEF EnterCallback, CallbackEnds
<1>6. CASE AttachWorker(t)
  BY <1>6 DEF AttachWorker
<1>7. CASE InitConnection(t)
  BY <1>7 DEF InitConnection, MethodEnds
<1>8. CASE Crash(t)
  BY <1>8 DEF Crash
<1>9. CASE BeginPut(t)
  BY <1>9 DEF BeginPut
<1>10. CASE EndPut(t)
  BY <1>10 DEF EndPut, MethodEnds
<1>11. CASE CreateStatementThrows(t)
  BY <1>11 DEF CreateStatementThrows, MethodEnds
<1>12. CASE RunMethod(t)
  BY <1>12 DEF RunMethod, MethodEnds
<1>13. CASE ConvertResult(t)
  BY <1>13 DEF ConvertResult
<1>14. CASE ConvertThrows(t)
  BY <1>14 DEF ConvertThrows, CallbackEnds
<1>15. CASE ClearException(t)
  BY <1>15 DEF ClearException
<1>16. CASE DetachWorker(t)
  BY <1>16 DEF DetachWorker
<1>17. CASE GiveHandle(t)
  BY <1>17 DEF GiveHandle
<1> QED
  BY <1>1, <1>2, <1>3, <1>4, <1>5, <1>6, <1>7, <1>8, <1>9, <1>10,
     <1>11, <1>12, <1>13, <1>14, <1>15, <1>16, <1>17 DEF Proceed

\* No step of another thread takes a call that is under way back or forward.
LEMMA OthersWait ==
    ASSUME IInv, NEW t \in Thread, NEW u \in Thread, u # t,
           AllocEnv(u) \/ Begins(u) \/ Proceed(u)
    PROVE  step'[t] = step[t]
<1>1. step' = step \/ \E s \in Step : step' = [step EXCEPT ![u] = s]
  BY DEF Proceed, AllocEnv, Begins, Begin, CheckJvm, CreateJvm, JvmStarted, PublishJvm,
     EnterCallback, AttachWorker, InitConnection, Crash, BeginPut, EndPut, CreateStatementThrows,
     RunMethod, ConvertResult, ConvertThrows, ClearException, DetachWorker, GiveHandle,
     EnvReturns, CallbackEnds, MethodEnds, Goto, Step, CreateStep, WorkerStep
<1> QED BY <1>1 DEF IInv, TypeOK

\* What a step does to a call that is under way.
LEMMA StepKeeps ==
    ASSUME IInv, NEW t \in Thread, step[t] # "idle", [Next]_vars
    PROVE  step'[t] = step[t] \/ Left(t)' < Left(t) \/ crashed'
<1>1. CASE Next
  <2>1. PICK u \in Thread : Start(u) \/ Proceed(u)
    BY <1>1 DEF Next
  <2>2. AllocEnv(u) \/ Begins(u) \/ Proceed(u)
    BY <2>1, StartIs DEF IInv
  <2>3. CASE u # t
    BY <2>2, <2>3, OthersWait
  <2>4. CASE u = t
    <3>1. Proceed(t)
      BY <2>2, <2>4 DEF AllocEnv, Begins, Begin, At
    <3> QED BY <3>1, StepCounts
  <2> QED BY <2>3, <2>4
<1>2. CASE UNCHANGED vars
  BY <1>2 DEF vars
<1> QED BY <1>1, <1>2

\* A call with n steps left comes nearer to its end.
Nears(t, n) == Left(t) = n ~> Left(t) < n \/ crashed

LEMMA Nearer ==
    ASSUME NEW t \in Thread, NEW n \in 1 .. 8
    PROVE  Spec /\ FairTo(t) /\ []NeverStuck => Nears(t, n)
<1>1. IInv /\ Left(t) = n /\ [Next]_vars => (Left(t) = n)' \/ (Left(t) < n \/ crashed)'
  BY StepKeeps, LeftTyped DEF IInv, Left
<1>2. IInv /\ Left(t) = n /\ <<Proceed(t)>>_vars => (Left(t) < n \/ crashed)'
  BY StepCounts
<1>3. IInv /\ NeverStuck /\ Left(t) = n => ENABLED <<Proceed(t)>>_vars \/ crashed
  BY LeftTyped DEF NeverStuck, IInv
<1> QED BY <1>1, <1>2, <1>3, Invariant, PTL DEF Spec, FairTo, Nears

\* Every call returns, or the process has crashed: it has at most eight steps of its
\* own, no step of another thread takes it back, and it is never stuck.  That it is
\* never stuck is the one hypothesis (ENABLED is left to TLC).
THEOREM CallsDoReturn == FairSpec /\ []NeverStuck => CallsReturn
<1>1. ASSUME NEW t \in Thread
      PROVE  FairSpec /\ []NeverStuck => Returns(t)
  <2>1. FairSpec => Spec /\ FairTo(t)
    <3>1. Fair => FairTo(t)
      BY DEF Fair
    <3> QED BY <3>1, PTL DEF FairSpec
  <2>2. Spec /\ FairTo(t) /\ []NeverStuck =>
            /\ Nears(t, 1) /\ Nears(t, 2) /\ Nears(t, 3) /\ Nears(t, 4)
            /\ Nears(t, 5) /\ Nears(t, 6) /\ Nears(t, 7) /\ Nears(t, 8)
    <3>1. \A n \in 1 .. 8 : Spec /\ FairTo(t) /\ []NeverStuck => Nears(t, n)
      BY Nearer
    <3>2. 1 \in 1 .. 8 /\ 2 \in 1 .. 8 /\ 3 \in 1 .. 8 /\ 4 \in 1 .. 8
          /\ 5 \in 1 .. 8 /\ 6 \in 1 .. 8 /\ 7 \in 1 .. 8 /\ 8 \in 1 .. 8
      OBVIOUS
    <3> QED BY <3>1, <3>2
  <2>3. IInv => /\ Left(t) < 2 => Left(t) < 1 \/ Left(t) = 1
                /\ Left(t) < 3 => Left(t) < 2 \/ Left(t) = 2
                /\ Left(t) < 4 => Left(t) < 3 \/ Left(t) = 3
                /\ Left(t) < 5 => Left(t) < 4 \/ Left(t) = 4
                /\ Left(t) < 6 => Left(t) < 5 \/ Left(t) = 5
                /\ Left(t) < 7 => Left(t) < 6 \/ Left(t) = 6
                /\ Left(t) < 8 => Left(t) < 7 \/ Left(t) = 7
                /\ Left(t) < 8 \/ Left(t) = 8
    BY LeftTyped DEF IInv
  <2>4. IInv /\ Left(t) < 1 => step[t] = "idle"
    BY LeftTyped DEF IInv
  <2> QED BY <2>1, <2>2, <2>3, <2>4, Invariant, PTL DEF Nears, Returns
<1> QED BY <1>1 DEF CallsReturn
=============================================================================
