------------------------------ MODULE Passages ------------------------------
(***************************************************************************)
(* What passing a text promises: it is on the other side in one step, as   *)
(* the text it was, and an application that asks for what has come from    *)
(* Java is given the whole of it within its buffer, or told that it is     *)
(* not.  Text implements it.                                               *)
(***************************************************************************)
EXTENDS Integers, Sequences

CONSTANTS
    WellFormed(_),  \* the surrogates of a text are paired
    Utf8(_),        \* its UTF-8
    JavaUtf8(_),    \* its bytes as Java gives them
    Cut(_),         \* the text up to its first U+0000
    NoAnswer,
    Nothing         \* no length

VARIABLES
    coding,         \* "utf-16" to Java, "java" from there, "plain" for a literal
    text,           \* the text that is passed
    passed,         \* what has come of it, if it has
    answer          \* what the application is given

vars == <<coding, text, passed, answer>>

Init ==
    /\ passed = {}
    /\ answer = NoAnswer

\* A text whose surrogates are not paired becomes something else on its way to Java.
Passes(t) ==
    IF coding = "utf-16"
    THEN WellFormed(text) => t = Utf8(text)
    ELSE t = Cut(text)

Pass ==
    /\ passed = {}
    /\ \E t \in passed' : passed' = {t} /\ Passes(t)
    /\ UNCHANGED <<coding, text, answer>>

\* How many elements a buffer takes, and what an element counts in a length.
Room(api, max) ==
    CASE api \in {"field", "sql"}  -> max
      [] api \in {"label", "name"} -> max \div 2
      [] api = "char"              -> max + 1

Width(api) == IF api \in {"field", "label"} THEN 2 ELSE 1

\* The length is that of the whole, unless it is 0 or missing.
Gives(a, whole) ==
    /\ a.written \in {<<>>, whole, Append(whole, 0)}
    /\ Len(a.written) <= Room(a.api, a.max)
    /\ a.reported \in {Nothing, 0, Width(a.api) * Len(whole)}
    /\ a.written = <<>> => a.ret = "SQL_ERROR" \/ a.reported = 0 \/ ~a.given \/ whole = <<>>
    /\ a.ret = "SQL_ERROR" => a.written = <<>>

Give ==
    /\ coding = "java" /\ passed # {}
    /\ answer = NoAnswer /\ answer' # NoAnswer
    /\ \E whole \in IF answer'.api = "char" THEN {JavaUtf8(text)} ELSE passed : Gives(answer', whole)
    /\ UNCHANGED <<coding, text, passed>>

Next == Pass \/ Give

Spec == Init /\ [][Next]_vars
=============================================================================
