-------------------------------- MODULE Text --------------------------------
(***************************************************************************)
(* How a text crosses the driver (unicode.cpp, unicode.hpp, jvm.cpp).      *)
(*                                                                         *)
(* The application's texts are UTF-16, the bridge carries UTF-8: on its    *)
(* way to Java a text goes through ucs2_to_utf8, and on its way back       *)
(* through utf8_to_ucs2_lf and then into a buffer of the application, by   *)
(* one of the functions that copy an answer.  The two conversions are      *)
(* loops over their source that never look back; a step is one turn of     *)
(* the loop.                                                               *)
(***************************************************************************)
EXTENDS Integers, Sequences

CONSTANTS
    Unit,           \* the UTF-16 code units that texts are made of
    MaxLength,      \* the length of the longest text
    MaxSize         \* the size of the largest buffer of the application

LastUnit == 65535
Element  == 0 .. LastUnit

ASSUME UnitAssumption   == Unit \subseteq 1 .. LastUnit
ASSUME LengthAssumption == MaxLength \in Nat /\ MaxSize \in Nat

VARIABLES
    coding,         \* what the source is: "utf-16", or the UTF-8 of "java", or "plain" UTF-8
    text,           \* the text that is passed
    source,         \* the same text, as the conversion reads it
    pos,            \* how much of the source has been read
    target,         \* the buffer that is converted into
    len,            \* how much of it is in use
    stage,          \* "convert", "copy", "done"
    answer          \* what the application is given

vars == <<coding, text, source, pos, target, len, stage, answer>>

Byte    == 0 .. 255
Unset   == -1
Nothing == -1
Api     == {"field", "label", "name", "sql", "char"}

Texts(S) == UNION {[1 .. n -> S] : n \in 0 .. MaxLength}

-----------------------------------------------------------------------------
(* UTF-8, as its definition has it: the reference.                         *)

High(u) == u \in 55296 .. 56319
Low(u)  == u \in 56320 .. 57343

\* Surrogates come in pairs.
WellFormed(t) ==
    \A k \in 1 .. Len(t) :
        /\ High(t[k]) => k < Len(t) /\ Low(t[k + 1])
        /\ Low(t[k]) => k > 1 /\ High(t[k - 1])

\* The sequences of s, the first k of them one after the other, for every k.
Prefixes(s) ==
    LET upTo[k \in 0 .. Len(s)] == IF k = 0 THEN <<>> ELSE upTo[k - 1] \o s[k]
    IN  upTo

Joined(s) == Prefixes(s)[Len(s)]

\* The bytes of a code point.
Bytes(c) ==
    IF c < 128 THEN <<c>>
    ELSE IF c < 2048 THEN <<192 + c \div 64, 128 + (c % 64)>>
    ELSE IF c < 65536 THEN <<224 + c \div 4096, 128 + ((c \div 64) % 64), 128 + (c % 64)>>
    ELSE <<240 + c \div 262144, 128 + ((c \div 4096) % 64), 128 + ((c \div 64) % 64), 128 + (c % 64)>>

\* The code point of a pair of surrogates.
CodePoint(high, low) == 65536 + (high - 55296) * 1024 + (low - 56320)

\* The characters of a well-formed text: a pair of surrogates counts for its first.
Characters(t) ==
    [k \in 1 .. Len(t) |->
        IF Low(t[k]) THEN <<>>
        ELSE IF High(t[k]) THEN Bytes(CodePoint(t[k], t[k + 1]))
        ELSE Bytes(t[k])]

Utf8(t) == Joined(Characters(t))

\* What GetStringUTFChars returns: every unit by itself, and U+0000 in two bytes.
JavaUnits(t) == [k \in 1 .. Len(t) |-> IF t[k] = 0 THEN <<192, 128>> ELSE Bytes(t[k])]

JavaUtf8(t) == Joined(JavaUnits(t))

\* A text up to its first U+0000.
Cut(t) ==
    SubSeq(t, 1, CHOOSE n \in 0 .. Len(t) :
                     /\ \A k \in 1 .. n : t[k] # 0
                     /\ n < Len(t) => t[n + 1] = 0)

-----------------------------------------------------------------------------
(* The buffers.                                                            *)

\* Fault: two bytes per unit.
BufcountTwo(c, n) == IF c = "utf-16" THEN 2 * n + 1 ELSE IF c = "java" THEN n + 1 ELSE 2 * n + 2

\* The size that the conversion is told, and what has been allocated:
\* utf8_to_ucs2_s gives the number of bytes for the number of units.
Bufcount(c, n) == IF c = "utf-16" THEN 4 * n + 1 ELSE IF c = "java" THEN n + 1 ELSE 2 * n + 2
Room(c, n)     == IF c = "utf-16" THEN 4 * n + 1 ELSE n + 1

TypeOK ==
    /\ coding \in {"utf-16", "java", "plain"}
    /\ text \in Texts(Unit \cup {0})
    /\ source \in Seq(Element)
    /\ pos \in Nat
    /\ len \in Nat
    /\ target \in [0 .. Bufcount(coding, Len(source)) - 1 ->
                      {Unset} \cup IF coding = "utf-16" THEN Byte ELSE Element]
    /\ stage \in {"convert", "copy", "done"}

NoAnswer == [api |-> "none", max |-> 0, given |-> FALSE, ret |-> "none",
             written |-> <<>>, reported |-> Nothing]

\* The application passes a text to Java (ustring::utf8), Java returns one
\* (ustring(from_jstring)), or a literal is converted (utf8_to_unicode).
Init ==
    /\ \/ coding = "utf-16" /\ text \in Texts(Unit) /\ source = text
       \/ coding = "java" /\ text \in Texts(Unit \cup {0}) /\ source = JavaUtf8(text)
       \/ coding = "plain" /\ text \in {t \in Texts(Unit) : WellFormed(t)} /\ source = Utf8(text)
    /\ pos = 0
    /\ len = 0
    /\ target = [k \in 0 .. Bufcount(coding, Len(source)) - 1 |-> Unset]
    /\ stage = "convert"
    /\ answer = NoAnswer

\* The k-th element from here; both kinds of source end in a 0.
Ahead(k) == IF pos + k < Len(source) THEN source[pos + k + 1] ELSE 0
More     == pos < Len(source) /\ Ahead(0) # 0

\* A turn of the loop reads n elements of the source; items has gone to the
\* buffer from index len on, as far as it was written.
Turn(n, items, written) ==
    /\ pos' = pos + n
    /\ target' = [k \in DOMAIN target |->
                     IF written /\ k - len \in 0 .. Len(items) - 1
                     THEN items[k - len + 1] ELSE target[k]]
    /\ UNCHANGED <<coding, text, source, stage, answer>>

Converting(utf16) == stage = "convert" /\ More /\ utf16 = (coding = "utf-16")

-----------------------------------------------------------------------------
(* ucs2_to_utf8.  The text never fills the buffer: if it did, append_char  *)
(* and append_string would drop bytes.                                     *)

Fits(n) == len + n < Bufcount(coding, Len(source))

\* Units by the number of their bytes; a high surrogate has the four of its pair.
OneByte(u) == u < 128
TwoByte(u) == 128 <= u /\ u < 2048
Several(u) == 2048 <= u

TwoOf(u)   == <<192 + u \div 64, 128 + (u % 64)>>
ThreeOf(u) == <<224 + u \div 4096, 128 + ((u \div 64) % 64), 128 + (u % 64)>>
FourOf(u, v) ==
    LET high == (u % 1024) + 64
        low  == v % 1024
    IN  <<240 + high \div 256, 128 + ((high \div 4) % 64),
          128 + (high % 4) * 16 + low \div 64, 128 + (low % 64)>>

\* append_char
ToOne ==
    /\ Converting(TRUE)
    /\ OneByte(Ahead(0))
    /\ Turn(1, <<Ahead(0)>>, Fits(1))
    /\ len' = IF Fits(1) THEN len + 1 ELSE len

\* append_string moves on by n bytes, whether it has stored them or not.
ToSeveral(n, bytes) ==
    /\ Turn(n, bytes, Fits(Len(bytes)))
    /\ len' = len + Len(bytes)

\* Fault: the low bits of the second byte are not masked.
ToTwoUnmasked ==
    /\ Converting(TRUE)
    /\ TwoByte(Ahead(0))
    /\ ToSeveral(1, <<192 + Ahead(0) \div 64, 128 + Ahead(0)>>)

ToTwo ==
    /\ Converting(TRUE)
    /\ TwoByte(Ahead(0))
    /\ ToSeveral(1, TwoOf(Ahead(0)))

\* Fault: the high surrogate is not adjusted by 16#10000.
ToFourUnadjusted ==
    LET high == Ahead(0) % 1024
        low  == Ahead(1) % 1024
    IN  /\ Converting(TRUE)
        /\ High(Ahead(0))
        /\ ToSeveral(2, <<240 + high \div 256, 128 + ((high \div 4) % 64),
                          128 + (high % 4) * 16 + low \div 64, 128 + (low % 64)>>)

\* Fault: a high surrogate without its pair is not consumed.
ToFourPaired ==
    /\ Converting(TRUE)
    /\ High(Ahead(0)) /\ Low(Ahead(1))
    /\ ToSeveral(2, FourOf(Ahead(0), Ahead(1)))

\* A high surrogate and whatever comes next.
ToFour ==
    /\ Converting(TRUE)
    /\ High(Ahead(0))
    /\ ToSeveral(2, FourOf(Ahead(0), Ahead(1)))

ToThree ==
    /\ Converting(TRUE)
    /\ Several(Ahead(0)) /\ ~High(Ahead(0))
    /\ ToSeveral(1, ThreeOf(Ahead(0)))

-----------------------------------------------------------------------------
(* utf8_to_ucs2_lf, without line feed conversion and without checks.       *)

\* The bytes that begin a character of two, three or four, and what they become.
Leads2(b) == 192 <= b /\ b < 224
Leads3(b) == 224 <= b /\ b < 240
Leads4(b) == 240 <= b /\ b < 248

UnitOfTwo(a, b)      == (a % 32) * 64 + (b % 64)
UnitOfThree(a, b, c) == (a % 16) * 4096 + (b % 64) * 64 + (c % 64)
HighOf(a, b, c)      == 55296 + (a % 8) * 256 + (b % 64) * 4 + (c % 64) \div 16 - 64
LowOf(c, d)          == 56320 + (c % 16) * 64 + (d % 64)

\* Units are stored one by one, while there is room.
From(n, units) ==
    /\ Turn(n, units, TRUE)
    /\ len' = len + Len(units)

\* Fault: the line feed conversion is on.
FromOneLf ==
    /\ Converting(FALSE)
    /\ OneByte(Ahead(0))
    /\ From(1, IF Ahead(0) = 10 THEN <<13, 10>> ELSE <<Ahead(0)>>)

FromOne ==
    /\ Converting(FALSE)
    /\ OneByte(Ahead(0))
    /\ From(1, <<Ahead(0)>>)

FromFour ==
    /\ Converting(FALSE)
    /\ Leads4(Ahead(0))
    /\ From(4, <<HighOf(Ahead(0), Ahead(1), Ahead(2)), LowOf(Ahead(2), Ahead(3))>>)

\* Fault: the bytes are those of a character of four.
FromThreeOfFour ==
    /\ Converting(FALSE)
    /\ Leads3(Ahead(0))
    /\ From(4, <<UnitOfThree(Ahead(0), Ahead(1), Ahead(2))>>)

FromThree ==
    /\ Converting(FALSE)
    /\ Leads3(Ahead(0))
    /\ From(3, <<UnitOfThree(Ahead(0), Ahead(1), Ahead(2))>>)

\* Fault: the first byte keeps its four low bits instead of five.
FromTwoNarrow ==
    /\ Converting(FALSE)
    /\ Leads2(Ahead(0))
    /\ From(2, <<(Ahead(0) % 16) * 64 + (Ahead(1) % 64)>>)

FromTwo ==
    /\ Converting(FALSE)
    /\ Leads2(Ahead(0))
    /\ From(2, <<UnitOfTwo(Ahead(0), Ahead(1))>>)

\* A byte that begins no character ends the conversion, and nothing is left of it.
Refused ==
    /\ More
    /\ coding # "utf-16"
    /\ \/ 128 <= Ahead(0) /\ Ahead(0) < 192
       \/ 248 <= Ahead(0)

\* The terminator is stored.
Stop ==
    LET n == IF Refused THEN 0 ELSE len
    IN  /\ stage = "convert"
        /\ ~More \/ Refused
        /\ len' = n
        /\ target' = [k \in DOMAIN target |-> IF k = n THEN 0 ELSE target[k]]
        /\ stage' = IF coding = "java" THEN "copy" ELSE "done"
        /\ UNCHANGED <<coding, text, source, pos, answer>>

-----------------------------------------------------------------------------
(* From Java to a buffer of the application.                               *)

\* The ustring that is made of the buffer ends at the first 0.
Arrived == Cut([k \in 1 .. len |-> target[k - 1]])

\* Fault: strcpy always stores the terminator.
StrcpyTerminates(units, max) ==
    IF max < Len(units) THEN [ret |-> "SQL_ERROR", written |-> <<>>]
    ELSE [ret |-> "SQL_SUCCESS", written |-> Append(units, 0)]

\* strcpy: refuses what is too long; stores a terminator if one fits.
Strcpy(units, max) ==
    IF max < Len(units) THEN [ret |-> "SQL_ERROR", written |-> <<>>]
    ELSE [ret |-> "SQL_SUCCESS",
          written |-> IF max > Len(units) THEN Append(units, 0) ELSE units]

Refusal == [ret |-> "SQL_ERROR", written |-> <<>>, reported |-> Nothing]

Reports(copy, n) == [ret |-> copy.ret, written |-> copy.written, reported |-> n]

LengthOnly(n) == [ret |-> "SQL_SUCCESS", written |-> <<>>, reported |-> n]

\* jstringToString, and jarrayToString as getInfo calls it.
Field(units, max, given) ==
    IF ~given THEN LengthOnly(2 * Len(units))
    ELSE IF Len(units) > max THEN Refusal
    ELSE Reports(Strcpy(units, max), 2 * Len(units))

\* jarrayToString as getColumnAttribute calls it: max counts bytes.
Label(units, max, given) ==
    IF ~given THEN LengthOnly(Nothing)
    ELSE IF 2 * Len(units) > max THEN Refusal
    ELSE Reports(Strcpy(units, max \div 2), 2 * Len(units))

\* describeColumn: a name that does not fit has length 0.
Name(units, max, given) ==
    IF ~given \/ max < 2 * (Len(units) + 1) THEN LengthOnly(0)
    ELSE Reports(Strcpy(units, max), Len(units))

\* getNativeSql and javaConnect: the length is reported even if nothing is copied.
Sql(units, max, given) ==
    IF ~given THEN LengthOnly(Len(units))
    ELSE Reports(Strcpy(units, max), Len(units))

\* bindResultToVariable and jstringToChar: a value that does not fit is passed over
\* and has length 0; one that does is copied with a terminator, as bytes.
Char(bytes, max, given) ==
    IF ~given THEN LengthOnly(Len(bytes))
    ELSE IF Len(bytes) > max THEN LengthOnly(0)
    ELSE Reports([ret |-> "SQL_SUCCESS", written |-> Append(bytes, 0)], Len(bytes))

Answer(api, max, given) ==
    CASE api = "field" -> Field(Arrived, max, given)
      [] api = "label" -> Label(Arrived, max, given)
      [] api = "name"  -> Name(Arrived, max, given)
      [] api = "sql"   -> Sql(Arrived, max, given)
      [] api = "char"  -> Char(source, max, given)

Copy ==
    /\ stage = "copy"
    /\ \E api \in Api, max \in 0 .. MaxSize, given \in BOOLEAN :
           LET a == Answer(api, max, given)
           IN  answer' = [api |-> api, max |-> max, given |-> given,
                          ret |-> a.ret, written |-> a.written, reported |-> a.reported]
    /\ stage' = "done"
    /\ UNCHANGED <<coding, text, source, pos, target, len>>

-----------------------------------------------------------------------------
Next ==
    \/ ToOne \/ ToTwo \/ ToThree \/ ToFour
    \/ FromOne \/ FromTwo \/ FromThree \/ FromFour
    \/ Stop \/ Copy

Spec == Init /\ [][Next]_vars

\* Nothing waits for anything.
FairSpec == Spec /\ WF_vars(Next)

-----------------------------------------------------------------------------
(* What makes a passage correct.                                           *)

\* The bytes that leave are the UTF-8 of the text, if its surrogates are paired.
Sent == [k \in 1 .. len |-> target[k - 1]]
SentAsUtf8 ==
    stage = "done" /\ coding = "utf-16" /\ WellFormed(text) => Sent = Utf8(text)

\* The text that arrives is the text that was sent, up to its first U+0000.
ArrivesUnchanged ==
    stage # "convert" /\ coding # "utf-16" => Arrived = Cut(text)

\* What the conversion has counted is stored, and in the end the terminator, and
\* all of it within what has been allocated.
Stored ==
    /\ len < Room(coding, Len(source))
    /\ \A k \in DOMAIN target : target[k] # Unset <=> k < len \/ (k = len /\ stage # "convert")

\* Towards Java, four bytes per unit and one for the terminator are enough for any
\* text, well-formed or not: append_char and append_string drop nothing.
NothingDropped == coding = "utf-16" => Stored

\* From Java, a unit per byte and one for the terminator are enough, and the too
\* large size that utf8_to_ucs2_s passes on does no harm.
NothingOverrun == coding # "utf-16" => Stored

\* The application is given the whole text or none of it; none of it without an
\* error only where a function says so by the length 0, or was given no buffer.
WholeOrNothing ==
    LET whole == IF answer.api = "char" THEN source ELSE Arrived
    IN  answer # NoAnswer =>
            IF answer.written = <<>>
            THEN \/ answer.ret = "SQL_ERROR"
                 \/ answer.reported = 0
                 \/ ~answer.given
                 \/ whole = <<>>
            ELSE answer.written \in {whole, Append(whole, 0)}

\* A copy stays within the size the function was given, in what the function
\* counts; the terminator of a narrow copy may be one more.
StaysInBuffer ==
    LET n == Len(answer.written)
    IN  CASE answer.api \in {"field", "sql"} -> n <= answer.max
          [] answer.api \in {"label", "name"} -> 2 * n <= answer.max
          [] answer.api = "char" -> n <= answer.max + 1
          [] OTHER -> TRUE

\* No turn reads beyond the source: a high surrogate that ends a text is taken
\* together with the terminator, and a character of UTF-8 is read without a look at
\* how many of its bytes there are.
ReadsStay == pos <= Len(source) + IF coding = "utf-16" THEN 1 ELSE 0

\* The steps that are left, at most.
Left ==
    CASE stage = "convert" -> Len(source) + 3 - pos
      [] stage = "copy"    -> 1
      [] stage = "done"    -> 0

\* Every step brings the end of the passage nearer, whatever it finds in the source.
EachStepCounts == [][0 <= Left' /\ Left' < Left]_vars

\* Passing a text is one step, however many turns the loops make, and giving it another.
Promise == INSTANCE Passages WITH
    passed <- IF stage = "convert" THEN {} ELSE {IF coding = "utf-16" THEN Sent ELSE Arrived}

IsPassed == Promise!Spec

\* Every conversion ends.
Ends == <>(stage = "done")
=============================================================================
