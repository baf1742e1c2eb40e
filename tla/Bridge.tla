------------------------------- MODULE Bridge -------------------------------
(***************************************************************************)
(* The bridge to the Java virtual machine (jvm.cpp, jvm.hpp) and the       *)
(* allocation of handles over it (SQLAllocHandle in jodbc.cpp).            *)
(*                                                                         *)
(* SQLAllocHandle(SQL_HANDLE_ENV) starts the virtual machine of the        *)
(* process, or finds it started, in a thread of its own (create_vm).       *)
(* Every other call goes through java_callback: a new thread attaches to   *)
(* the virtual machine, runs a Java method, turns an exception into        *)
(* SQL_ERROR, detaches and ends, while the caller waits for its future.    *)
(* Nothing is locked, so the steps of concurrent calls interleave.         *)
(***************************************************************************)
CONSTANTS
    Thread,         \* the threads of the application
    Connection,     \* the connection handles it may allocate
    Statement,      \* the statement handles it may allocate
    Null

ASSUME NullAssumption ==
    Null \notin Connection \cup Statement \cup {"SQL_SUCCESS", "SQL_ERROR", "exception"}

VARIABLES
    vm,             \* the virtual machine of the process
    globalJvm,      \* whether the pointer to it is set
    entrypoint,     \* per connection: "none", then the class, then the object
    connections,    \* the connection handles the application has been given
    connectionOf,   \* the connection of a statement handle it has been given
    statements,     \* the keys of OdbcDatabase.statements, per connection
    crashed,        \* a null class or object was passed to a JNI function
    \* per thread of the application:
    step,           \* the next step of its call
    call,           \* what its call is about
    table,          \* the table of statements as HashMap.put has found it
    pending,        \* a Java exception is pending in its worker
    attached,       \* its worker is attached to the virtual machine
    code,           \* the result of its last java_callback, once there is one
    \* What an observer remembers; no step reads these.
    ran,            \* the Java method of its last call has run
    raised,         \* a Java exception has been raised during its last call
    sawJvm,         \* globalJvm was set when its last call began
    env,            \* its last SQLAllocHandle(SQL_HANDLE_ENV) returned a handle
    overlapped      \* connections on which two allocations have been in put at once

worker == <<table, pending, attached, code, ran, raised>>
heap   == <<entrypoint, connections, connectionOf, statements, crashed, overlapped>>
vars   == <<vm, globalJvm, heap, step, call, worker, sawJvm, env>>

\* The steps, named by what comes next: of create_vm, of java_callback and of
\* the worker it starts; "finish" is what the entry point does with the result.
CreateStep == {"check", "create", "starting", "publish"}
WorkerStep == {"attach", "java", "put", "convert", "clear", "detach"}
Step       == {"idle", "enter", "finish"} \cup CreateStep \cup WorkerStep

Code == {"SQL_SUCCESS", "SQL_ERROR", "exception"}

NoCall == [kind |-> "none", on |-> Null, handle |-> Null]
Call   == [kind : {"none", "env", "connection", "statement", "method"},
           on : Connection \cup {Null}, handle : Statement \cup {Null}]

TypeOK ==
    /\ vm \in {"none", "starting", "running"}
    /\ globalJvm \in BOOLEAN
    /\ entrypoint \in [Connection -> {"none", "class", "object"}]
    /\ connections \subseteq Connection
    /\ connectionOf \in [Statement -> Connection \cup {Null}]
    /\ statements \in [Connection -> SUBSET Statement]
    /\ crashed \in BOOLEAN
    /\ step \in [Thread -> Step]
    /\ call \in [Thread -> Call]
    /\ table \in [Thread -> SUBSET Statement]
    /\ pending \in [Thread -> BOOLEAN]
    /\ attached \in [Thread -> BOOLEAN]
    /\ code \in [Thread -> Code \cup {Null}]
    /\ ran \in [Thread -> BOOLEAN]
    /\ raised \in [Thread -> BOOLEAN]
    /\ sawJvm \in [Thread -> BOOLEAN]
    /\ env \in [Thread -> BOOLEAN]
    /\ overlapped \subseteq Connection

Init ==
    /\ vm = "none"
    /\ globalJvm = FALSE
    /\ entrypoint = [d \in Connection |-> "none"]
    /\ connections = {}
    /\ connectionOf = [s \in Statement |-> Null]
    /\ statements = [d \in Connection |-> {}]
    /\ crashed = FALSE
    /\ step = [t \in Thread |-> "idle"]
    /\ call = [t \in Thread |-> NoCall]
    /\ table = [t \in Thread |-> {}]
    /\ pending = [t \in Thread |-> FALSE]
    /\ attached = [t \in Thread |-> FALSE]
    /\ code = [t \in Thread |-> Null]
    /\ ran = [t \in Thread |-> FALSE]
    /\ raised = [t \in Thread |-> FALSE]
    /\ sawJvm = [t \in Thread |-> FALSE]
    /\ env = [t \in Thread |-> FALSE]
    /\ overlapped = {}

At(t, s)   == step[t] = s /\ ~crashed
Goto(t, s) == step' = [step EXCEPT ![t] = s]

-----------------------------------------------------------------------------
(* Starting the virtual machine: SQLAllocHandle(SQL_HANDLE_ENV).           *)

AllocEnv(t) ==
    /\ At(t, "idle")
    /\ Goto(t, "check")
    /\ call' = [call EXCEPT ![t] = [NoCall EXCEPT !.kind = "env"]]
    /\ sawJvm' = [sawJvm EXCEPT ![t] = globalJvm]
    /\ UNCHANGED <<vm, globalJvm, heap, worker, env>>

\* SQLAllocHandle returns SQL_SUCCESS, with a handle or with a null one.
EnvReturns(t, handle) ==
    /\ Goto(t, "idle")
    /\ env' = [env EXCEPT ![t] = handle]

\* create_vm: the virtual machine has been started before, or not.
CheckJvm(t) ==
    /\ At(t, "check")
    /\ IF globalJvm THEN EnvReturns(t, TRUE) ELSE Goto(t, "create") /\ UNCHANGED env
    /\ UNCHANGED <<vm, globalJvm, heap, call, worker, sawJvm>>

\* Fault: JNI_CreateJavaVM is given the shared pointer to fill.
CreateInPlace(t) ==
    /\ At(t, "create")
    /\ IF vm = "none"
       THEN vm' = "starting" /\ globalJvm' = TRUE /\ Goto(t, "starting") /\ UNCHANGED env
       ELSE EnvReturns(t, FALSE) /\ UNCHANGED <<vm, globalJvm>>
    /\ UNCHANGED <<heap, call, worker, sawJvm>>

\* JNI_CreateJavaVM begins, or finds that the process has a virtual machine.
CreateJvm(t) ==
    /\ At(t, "create")
    /\ IF vm = "none"
       THEN vm' = "starting" /\ Goto(t, "starting") /\ UNCHANGED env
       ELSE EnvReturns(t, FALSE) /\ UNCHANGED vm
    /\ UNCHANGED <<globalJvm, heap, call, worker, sawJvm>>

\* JNI_CreateJavaVM ends.
JvmStarted(t) ==
    /\ At(t, "starting")
    /\ \/ vm' = "running" /\ Goto(t, "publish") /\ UNCHANGED env
       \/ vm' = "none" /\ EnvReturns(t, FALSE)
    /\ UNCHANGED <<globalJvm, heap, call, worker, sawJvm>>

\* globalJvm is assigned.
PublishJvm(t) ==
    /\ At(t, "publish")
    /\ globalJvm' = TRUE
    /\ EnvReturns(t, TRUE)
    /\ UNCHANGED <<vm, heap, call, worker, sawJvm>>

-----------------------------------------------------------------------------
(* Calls that go through java_callback.                                    *)

\* A thread calls java_callback for c.
Begin(t, c) ==
    /\ At(t, "idle")
    /\ Goto(t, "enter")
    /\ call' = [call EXCEPT ![t] = c]
    /\ pending' = [pending EXCEPT ![t] = FALSE]
    /\ attached' = [attached EXCEPT ![t] = FALSE]
    /\ code' = [code EXCEPT ![t] = Null]
    /\ ran' = [ran EXCEPT ![t] = FALSE]
    /\ raised' = [raised EXCEPT ![t] = FALSE]
    /\ sawJvm' = [sawJvm EXCEPT ![t] = globalJvm]
    /\ UNCHANGED <<vm, globalJvm, heap, table, env>>

\* No thread is allocating the connection d, or the statement s.
NobodyAllocates(c) == \A t \in Thread : step[t] = "idle" \/ call[t] # c

\* SQLAllocHandle(SQL_HANDLE_DBC): new JDatabase, preInitConnection.
AllocConnection(t, d) ==
    LET c == [kind |-> "connection", on |-> d, handle |-> Null]
    IN  /\ d \notin connections
        /\ NobodyAllocates(c)
        /\ Begin(t, c)

\* SQLAllocHandle(SQL_HANDLE_STMT): new JStatement, createStatement.
AllocStatement(t, s, d) ==
    LET c == [kind |-> "statement", on |-> d, handle |-> s]
    IN  /\ d \in connections
        /\ connectionOf[s] = Null
        /\ \A e \in Connection : NobodyAllocates([c EXCEPT !.on = e])
        /\ Begin(t, c)

\* Any function on a statement handle.
CallMethod(t, s) ==
    /\ connectionOf[s] # Null
    /\ Begin(t, [kind |-> "method", on |-> connectionOf[s], handle |-> s])

\* java_callback returns result: the caller has its answer.
CallbackEnds(t, result) ==
    /\ Goto(t, "finish")
    /\ code' = [code EXCEPT ![t] = result]

\* Fault: a call made before the virtual machine is there waits for it.
EnterWaits(t) ==
    /\ At(t, "enter")
    /\ globalJvm
    /\ Goto(t, "attach")
    /\ UNCHANGED <<vm, globalJvm, heap, call, worker, sawJvm, env>>

\* Fault: java_callback does not wait for the future.
EnterForgets(t) ==
    /\ At(t, "enter")
    /\ CallbackEnds(t, IF globalJvm THEN "SQL_SUCCESS" ELSE "SQL_ERROR")
    /\ UNCHANGED <<vm, globalJvm, heap, call, table, pending, attached, ran, raised, sawJvm, env>>

\* java_callback: no virtual machine; or a thread is started, or cannot be.
EnterCallback(t) ==
    /\ At(t, "enter")
    /\ IF ~globalJvm
       THEN CallbackEnds(t, "SQL_ERROR")
       ELSE \/ Goto(t, "attach") /\ UNCHANGED code
            \/ CallbackEnds(t, "exception")
    /\ UNCHANGED <<vm, globalJvm, heap, call, table, pending, attached, ran, raised, sawJvm, env>>

AttachWorker(t) ==
    /\ At(t, "attach")
    /\ attached' = [attached EXCEPT ![t] = TRUE]
    /\ Goto(t, "java")
    /\ UNCHANGED <<vm, globalJvm, heap, call, table, pending, code, ran, raised, sawJvm, env>>

-----------------------------------------------------------------------------
(* The lambdas that java_callback runs in the worker.                      *)

\* The Java method of t's call has ended, normally or with an exception.
MethodEnds(t, threw) ==
    /\ ran' = [ran EXCEPT ![t] = TRUE]
    /\ pending' = [pending EXCEPT ![t] = threw]
    /\ raised' = [raised EXCEPT ![t] = threw]
    /\ Goto(t, "convert")

\* preInitConnection: the class is not found; or it is, and getInstance fails
\* or returns the object that every later call on the connection goes to.
InitConnection(t) ==
    /\ At(t, "java")
    /\ call[t].kind = "connection"
    /\ \E reached \in {"none", "class", "object"} :
           /\ entrypoint' = [entrypoint EXCEPT ![call[t].on] = reached]
           /\ MethodEnds(t, reached # "object")
    /\ UNCHANGED <<vm, globalJvm, connections, connectionOf, statements, crashed, overlapped>>
    /\ UNCHANGED <<call, table, attached, code, sawJvm, env>>

\* A connection without its class or object: GetMethodID is given null.
Crash(t) ==
    /\ At(t, "java")
    /\ call[t].kind # "connection"
    /\ entrypoint[call[t].on] # "object"
    /\ crashed' = TRUE
    /\ UNCHANGED <<vm, globalJvm, entrypoint, connections, connectionOf, statements, overlapped>>
    /\ UNCHANGED <<step, call, worker, sawJvm, env>>

\* The Java method createStatement begins: HashMap.put looks up the table.
\* Another thread may be in put on the same table.
BeginPut(t) ==
    /\ At(t, "java")
    /\ call[t].kind = "statement"
    /\ entrypoint[call[t].on] = "object"
    /\ table' = [table EXCEPT ![t] = statements[call[t].on]]
    /\ overlapped' = overlapped \cup {d \in {call[t].on} :
                         \E u \in Thread : step[u] = "put" /\ call[u].on = d}
    /\ Goto(t, "put")
    /\ UNCHANGED <<vm, globalJvm, entrypoint, connections, connectionOf, statements, crashed>>
    /\ UNCHANGED <<call, pending, attached, code, ran, raised, sawJvm, env>>

\* Fault: createStatement makes a new table.
EndPutAlone(t) ==
    /\ At(t, "put")
    /\ statements' = [statements EXCEPT ![call[t].on] = {call[t].handle}]
    /\ MethodEnds(t, FALSE)
    /\ UNCHANGED <<vm, globalJvm, entrypoint, connections, connectionOf, crashed, overlapped>>
    /\ UNCHANGED <<call, table, attached, code, sawJvm, env>>

\* HashMap.put links the entry.  If the table has changed since, what another
\* thread has put may be lost.
EndPut(t) ==
    /\ At(t, "put")
    /\ LET d == call[t].on
       IN  \E T \in {table[t], statements[d]} :
               statements' = [statements EXCEPT ![d] = T \cup {call[t].handle}]
    /\ MethodEnds(t, FALSE)
    /\ UNCHANGED <<vm, globalJvm, entrypoint, connections, connectionOf, crashed, overlapped>>
    /\ UNCHANGED <<call, table, attached, code, sawJvm, env>>

\* createStatement throws before it has put anything.
CreateStatementThrows(t) ==
    /\ At(t, "java")
    /\ call[t].kind = "statement"
    /\ entrypoint[call[t].on] = "object"
    /\ MethodEnds(t, TRUE)
    /\ UNCHANGED <<vm, globalJvm, heap, call, table, attached, code, sawJvm, env>>

\* The method of a statement: it throws if the statement is not in the table.
RunMethod(t) ==
    /\ At(t, "java")
    /\ call[t].kind = "method"
    /\ entrypoint[call[t].on] = "object"
    /\ \E threw \in BOOLEAN :
           /\ call[t].handle \notin statements[call[t].on] => threw
           /\ MethodEnds(t, threw)
    /\ UNCHANGED <<vm, globalJvm, heap, call, table, attached, code, sawJvm, env>>

\* Fault: the result is not assigned when the method threw.
ConvertUnassigned(t) ==
    /\ At(t, "convert")
    /\ code' = [code EXCEPT ![t] = IF pending[t] THEN "unassigned" ELSE "SQL_SUCCESS"]
    /\ pending' = [pending EXCEPT ![t] = FALSE]
    /\ Goto(t, "clear")
    /\ UNCHANGED <<vm, globalJvm, heap, call, table, attached, ran, raised, sawJvm, env>>

\* The lambda returns: SQL_ERROR if the method threw, else what it makes of the
\* method's result (SQL_SUCCESS stands for every answer but an error), and a
\* conversion may raise an exception.  ExceptionDescribe clears an exception, and
\* SQL_ERROR goes with it.
ConvertResult(t) ==
    /\ At(t, "convert")
    /\ \E result \in {"SQL_SUCCESS", "SQL_ERROR"}, throws \in BOOLEAN, left \in BOOLEAN :
           /\ pending[t] => result = "SQL_ERROR"
           /\ throws => call[t].kind = "method" /\ ~pending[t]
           /\ left => pending[t] \/ throws
           /\ throws /\ ~left => result = "SQL_ERROR"
           /\ call[t].kind # "method" /\ ~pending[t] => result = "SQL_SUCCESS"
           /\ code' = [code EXCEPT ![t] = result]
           /\ pending' = [pending EXCEPT ![t] = left]
           /\ raised' = [raised EXCEPT ![t] = @ \/ throws]
    /\ Goto(t, "clear")
    /\ UNCHANGED <<vm, globalJvm, heap, call, table, attached, ran, sawJvm, env>>

\* A conversion throws a C++ exception: the worker ends without detaching, and
\* future.get() throws the exception on.
ConvertThrows(t) ==
    /\ At(t, "convert")
    /\ call[t].kind = "method" /\ ~pending[t]
    /\ CallbackEnds(t, "exception")
    /\ UNCHANGED <<vm, globalJvm, heap, call, table, pending, attached, ran, raised, sawJvm, env>>

-----------------------------------------------------------------------------
(* The end of java_callback, and of the function that called it.           *)

\* Fault: the exception is cleared and the result left as it is.
ClearOnly(t) ==
    /\ At(t, "clear")
    /\ pending' = [pending EXCEPT ![t] = FALSE]
    /\ Goto(t, "detach")
    /\ UNCHANGED <<vm, globalJvm, heap, call, table, attached, code, ran, raised, sawJvm, env>>

\* An exception the lambda has left pending makes an error of a success.
ClearException(t) ==
    /\ At(t, "clear")
    /\ code' = [code EXCEPT ![t] = IF pending[t] /\ @ = "SQL_SUCCESS" THEN "SQL_ERROR" ELSE @]
    /\ pending' = [pending EXCEPT ![t] = FALSE]
    /\ Goto(t, "detach")
    /\ UNCHANGED <<vm, globalJvm, heap, call, table, attached, ran, raised, sawJvm, env>>

\* Fault: the worker detaches only after a success.
DetachAfterSuccess(t) ==
    /\ At(t, "detach")
    /\ attached' = [attached EXCEPT ![t] = code[t] # "SQL_SUCCESS"]
    /\ Goto(t, "finish")
    /\ UNCHANGED <<vm, globalJvm, heap, call, table, pending, code, ran, raised, sawJvm, env>>

\* The worker detaches and ends; future.get() returns.
DetachWorker(t) ==
    /\ At(t, "detach")
    /\ attached' = [attached EXCEPT ![t] = FALSE]
    /\ Goto(t, "finish")
    /\ UNCHANGED <<vm, globalJvm, heap, call, table, pending, code, ran, raised, sawJvm, env>>

\* Fault: SQLAllocHandle does not look at the result of createStatement.
GiveHandleAnyway(t) ==
    LET c == call[t]
    IN  /\ At(t, "finish")
        /\ connections' = connections \cup {d \in {c.on} : c.kind = "connection"}
        /\ connectionOf' = IF c.kind = "statement"
                           THEN [connectionOf EXCEPT ![c.handle] = c.on] ELSE connectionOf
        /\ Goto(t, "idle")
        /\ UNCHANGED <<vm, globalJvm, entrypoint, statements, crashed, overlapped>>
        /\ UNCHANGED <<call, worker, sawJvm, env>>

\* SQLAllocHandle hands out a connection whatever preInitConnection has returned,
\* and a statement if createStatement has succeeded; otherwise it deletes it.  An
\* exception leaves the function at once.
GiveHandle(t) ==
    LET c == call[t]
    IN  /\ At(t, "finish")
        /\ connections' = connections \cup
               {d \in {c.on} : c.kind = "connection" /\ code[t] # "exception"}
        /\ connectionOf' = IF c.kind = "statement" /\ code[t] = "SQL_SUCCESS"
                           THEN [connectionOf EXCEPT ![c.handle] = c.on] ELSE connectionOf
        /\ Goto(t, "idle")
        /\ UNCHANGED <<vm, globalJvm, entrypoint, statements, crashed, overlapped>>
        /\ UNCHANGED <<call, worker, sawJvm, env>>

-----------------------------------------------------------------------------
\* What the thread and its workers do once a call has been made.
Proceed(t) ==
    \/ CheckJvm(t) \/ CreateJvm(t) \/ JvmStarted(t) \/ PublishJvm(t)
    \/ EnterCallback(t) \/ AttachWorker(t)
    \/ InitConnection(t) \/ Crash(t)
    \/ BeginPut(t) \/ EndPut(t) \/ CreateStatementThrows(t) \/ RunMethod(t)
    \/ ConvertResult(t) \/ ConvertThrows(t) \/ ClearException(t) \/ DetachWorker(t)
    \/ GiveHandle(t)

\* What the application does of its own accord.
Start(t) ==
    \/ AllocEnv(t)
    \/ \E d \in Connection : AllocConnection(t, d)
    \/ \E s \in Statement, d \in Connection : AllocStatement(t, s, d)
    \/ \E s \in Statement : CallMethod(t, s)

Next == \E t \in Thread : Start(t) \/ Proceed(t)

Spec == Init /\ [][Next]_vars

\* The operating system runs every thread; JNI_CreateJavaVM and the Java methods
\* end.  The application need not call.
FairTo(t) == WF_vars(Proceed(t))
Fair      == \A t \in Thread : FairTo(t)
FairSpec  == Spec /\ Fair

-----------------------------------------------------------------------------
(* What makes the bridge correct.                                          *)

Answered(t) == step[t] \in {"finish", "idle"}

\* A call that answers SQL_SUCCESS has had its Java method run, and no Java
\* exception was raised on the way: not by the method, nor by a conversion whose
\* failure the lambda did not look for.
SuccessMeansDone ==
    \A t \in Thread : Answered(t) /\ code[t] = "SQL_SUCCESS" => ran[t] /\ ~raised[t]

\* A worker has detached, with no exception pending, before its caller goes on,
\* unless a C++ exception has ended it.
WorkersDetach ==
    \A t \in Thread : Answered(t) /\ code[t] # "exception" => ~attached[t] /\ ~pending[t]

\* The pointer that the threads share without a lock is assigned once: while a
\* thread is creating the virtual machine, or is about to assign the pointer, it
\* is null and no other thread is doing the same.
OneJvm ==
    \A t \in Thread : step[t] \in {"starting", "publish"} =>
        /\ ~globalJvm
        /\ \A u \in Thread : step[u] \in {"starting", "publish"} => u = t

\* Once the virtual machine has been seen it is there for good: a call made after
\* that is not refused for the lack of one, and SQLAllocHandle returns no null
\* environment.
JvmStays ==
    \A t \in Thread : Answered(t) /\ sawJvm[t] =>
        IF call[t].kind = "env" THEN env[t] ELSE code[t] # "exception" => ran[t]

\* A statement handle the application has been given is in the table its methods
\* are looked up in, unless two threads have been allocating on the connection at
\* once: HashMap.put is not synchronised.
EveryHandleFound ==
    \A s \in Statement : connectionOf[s] # Null =>
        s \in statements[connectionOf[s]] \/ connectionOf[s] \in overlapped

\* No allocation loses what another has put: while allocations on a connection do
\* not overlap, no entry leaves its table (createStatement, OdbcDatabase.java).
EntriesStay ==
    [][\A d \in Connection \ overlapped' : statements[d] \subseteq statements'[d]]_vars

\* No call waits for another: whatever the other threads do, or leave undone, a
\* thread that has a call under way can take the next step of it (java_callback
\* waits for its own worker only, create_vm for its own thread).
NeverStuck ==
    \A t \in Thread : step[t] # "idle" /\ ~crashed => ENABLED <<Proceed(t)>>_vars

\* Every call returns, or the process has crashed.
Returns(t)  == step[t] # "idle" ~> (step[t] = "idle" \/ crashed)
CallsReturn == \A t \in Thread : Returns(t)

-----------------------------------------------------------------------------
(* The bridge as the rest of the driver sees it.                           *)

InCallback(t) == step[t] \in {"enter"} \cup WorkerStep

C == INSTANCE Calls WITH
         phase  <- [t \in Thread |-> IF ~InCallback(t) THEN "idle"
                                     ELSE IF ran[t] THEN "ran" ELSE "called"],
         answer <- [t \in Thread |-> IF InCallback(t) THEN Null ELSE code[t]]

\* A thread, a future and an attached worker implement a synchronous call.
CallsAreSynchronous == C!Spec

-----------------------------------------------------------------------------
(* An application that allocates the statements of a connection in turn.   *)

\* t has an allocation under way on d.
Allocating(t, d) == step[t] # "idle" /\ call[t].kind = "statement" /\ call[t].on = d

StartInTurn(t) ==
    \/ AllocEnv(t)
    \/ \E d \in Connection : AllocConnection(t, d)
    \/ \E s \in Statement, d \in Connection :
           AllocStatement(t, s, d) /\ \A u \in Thread : ~Allocating(u, d)
    \/ \E s \in Statement : CallMethod(t, s)

NextInTurn == \E t \in Thread : StartInTurn(t) \/ Proceed(t)

SpecInTurn == Init /\ [][NextInTurn]_vars

\* Whatever its other calls do meanwhile, all the handles it was given are found, and no table
\* loses an entry: the allocations are all it has to put in turn (HashMap.put).
HandlesFound == \A s \in Statement : connectionOf[s] # Null => s \in statements[connectionOf[s]]
EntriesKept  == [][\A d \in Connection : statements[d] \subseteq statements'[d]]_vars
=============================================================================
