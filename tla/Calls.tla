------------------------------- MODULE Calls -------------------------------
(***************************************************************************)
(* What the bridge to the virtual machine promises the rest of the driver: *)
(* a call is synchronous.  Between the moment a thread makes it and the    *)
(* moment it has the answer, the Java method of the call runs at most once *)
(* and never outlives the call, and the answer is SQL_SUCCESS only if the  *)
(* method has run.                                                         *)
(***************************************************************************)
CONSTANTS
    Thread,     \* the threads of the application
    Null

VARIABLES
    phase,      \* how far the call of a thread is
    answer      \* the answer to the last call of a thread that has none under way

Phase  == {"idle", "called", "ran"}
Answer == {"SQL_SUCCESS", "SQL_ERROR", "exception"}

Init ==
    /\ phase = [t \in Thread |-> "idle"]
    /\ answer = [t \in Thread |-> Null]

\* A thread calls.
Invoke(t) ==
    /\ phase[t] = "idle"
    /\ phase' = [phase EXCEPT ![t] = "called"]
    /\ answer' = [answer EXCEPT ![t] = Null]

\* The Java method of the call runs.
Run(t) ==
    /\ phase[t] = "called"
    /\ phase' = [phase EXCEPT ![t] = "ran"]
    /\ UNCHANGED answer

\* The thread has its answer.
Return(t, code) ==
    /\ phase[t] \in {"called", "ran"}
    /\ code = "SQL_SUCCESS" => phase[t] = "ran"
    /\ phase' = [phase EXCEPT ![t] = "idle"]
    /\ answer' = [answer EXCEPT ![t] = code]

Next == \E t \in Thread : Invoke(t) \/ Run(t) \/ \E code \in Answer : Return(t, code)

Spec == Init /\ [][Next]_<<phase, answer>>
=============================================================================
