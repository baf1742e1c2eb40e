----------------------------- MODULE TextProofs -----------------------------
(***************************************************************************)
(* Proofs about Text, for texts of any length over any units.              *)
(***************************************************************************)
EXTENDS TextLemmas

\* What the buffer is made of.
Item == IF coding = "utf-16" THEN Byte ELSE Element

-----------------------------------------------------------------------------
(* The turns of the two loops, each in one form.                           *)

\* A turn towards Java reads n units and gives the m bytes of items.
Sends(n, m, items) ==
    /\ coding = "utf-16" /\ stage = "convert" /\ More
    /\ items \in [1 .. m -> Byte] /\ Len(items) = m /\ m <= 3 * n
    /\ \/ n = 1 /\ ~High(Ahead(0)) /\ items = Bytes(Ahead(0))
       \/ n = 2 /\ High(Ahead(0)) /\ items = FourOf(Ahead(0), Ahead(1))
    /\ Turn(n, items, Fits(m))
    /\ len' \in Nat
    /\ Fits(m) => len' = len + m

\* A turn towards the application reads n bytes and gives the m units of items.
Receives(n, m, items) ==
    /\ coding # "utf-16" /\ stage = "convert" /\ More
    /\ items \in [1 .. m -> Element] /\ Len(items) = m
    /\ \/ n = 1 /\ m = 1 /\ OneByte(Ahead(0)) /\ items = <<Ahead(0)>>
       \/ n = 2 /\ m = 1 /\ Leads2(Ahead(0)) /\ items = <<UnitOfTwo(Ahead(0), Ahead(1))>>
       \/ n = 3 /\ m = 1 /\ Leads3(Ahead(0)) /\ items = <<UnitOfThree(Ahead(0), Ahead(1), Ahead(2))>>
       \/ n = 4 /\ m = 2 /\ Leads4(Ahead(0))
             /\ items = <<HighOf(Ahead(0), Ahead(1), Ahead(2)), LowOf(Ahead(2), Ahead(3))>>
    /\ Turn(n, items, TRUE)
    /\ len' = len + m

LEMMA AheadTyped ==
    ASSUME TypeOK, NEW k \in Nat
    PROVE  Ahead(k) \in Element /\ Ahead(k) \in Nat /\ Ahead(k) <= 65535
<1>1. source \in Seq(Element) /\ pos \in Nat
  BY DEF TypeOK
<1>2. Ahead(k) \in Element
  <2>1. CASE pos + k < Len(source)
    <3>1. pos + k + 1 \in 1 .. Len(source)
      BY <1>1, <2>1
    <3> QED BY <1>1, <2>1, <3>1 DEF Ahead
  <2>2. CASE ~(pos + k < Len(source))
    <3>1. 0 \in Element
      BY NatIsElement, SMT
    <3> QED BY <2>2, <3>1 DEF Ahead
  <2> QED BY <2>1, <2>2
<1> QED BY <1>2, ElementIsNat

LEMMA SeveralSent ==
    ASSUME TypeOK, NEW n \in 1 .. 2, NEW m \in 1 .. 4, NEW items,
           items \in [1 .. m -> Byte], Len(items) = m,
           ToSeveral(n, items)
    PROVE  Turn(n, items, Fits(m)) /\ len' \in Nat /\ len' = len + m
<1>1. Turn(n, items, Fits(m)) /\ len' = len + m
  BY Zenon DEF ToSeveral
<1> QED BY <1>1 DEF TypeOK

LEMMA Sending ==
    ASSUME TypeOK, ToOne \/ ToTwo \/ ToThree \/ ToFour
    PROVE  \E n \in 1 .. 2, m \in 1 .. 4 : \E items : Sends(n, m, items)
<1> DEFINE u == Ahead(0)
           v == Ahead(1)
<1>1. u \in Nat /\ u <= 65535 /\ v \in Nat
  BY AheadTyped
<1>2. 1 \in 1 .. 2 /\ 2 \in 1 .. 2 /\ 1 \in 1 .. 4 /\ 2 \in 1 .. 4 /\ 3 \in 1 .. 4 /\ 4 \in 1 .. 4
  OBVIOUS
<1>3. 1 <= 3 * 1 /\ 2 <= 3 * 1 /\ 3 <= 3 * 1 /\ 4 <= 3 * 2
  OBVIOUS
<1>4. /\ OneByte(u) => ~High(u) /\ Bytes(u) = <<u>>
      /\ TwoByte(u) => ~High(u)
  BY <1>1 DEF OneByte, TwoByte, High, Bytes
<1> HIDE DEF u, v
<1>5. CASE ToOne
  <2>1. Converting(TRUE) /\ OneByte(u) /\ Turn(1, <<u>>, Fits(1)) /\ len' = IF Fits(1) THEN len + 1 ELSE len
    BY <1>5, Zenon DEF ToOne, u
  <2>2. <<u>> \in [1 .. 1 -> Byte] /\ Len(<<u>>) = 1
    BY <1>1, <2>1, OneByteTyped
  <2>3. len' \in Nat /\ (Fits(1) => len' = len + 1)
    BY <2>1 DEF TypeOK
  <2>4. coding = "utf-16" /\ stage = "convert" /\ More
    BY <2>1 DEF Converting
  <2>5. Sends(1, 1, <<u>>)
    BY <1>3, <1>4, <2>1, <2>2, <2>3, <2>4, Zenon DEF Sends, u
  <2> QED BY <1>2, <2>5, Zenon
<1>6. CASE ToTwo
  <2>1. Converting(TRUE) /\ TwoByte(u) /\ ToSeveral(1, TwoOf(u))
    BY <1>6, Zenon DEF ToTwo, u
  <2>2. TwoOf(u) \in [1 .. 2 -> Byte] /\ Len(TwoOf(u)) = 2 /\ Bytes(u) = TwoOf(u)
    BY <1>1, <2>1, TwoOfTyped, TwoBytes
  <2>3. Turn(1, TwoOf(u), Fits(2)) /\ len' \in Nat /\ len' = len + 2
    BY <1>2, <2>1, <2>2, SeveralSent, Zenon
  <2>4. coding = "utf-16" /\ stage = "convert" /\ More
    BY <2>1 DEF Converting
  <2>5. Sends(1, 2, TwoOf(u))
    BY <1>3, <1>4, <2>1, <2>2, <2>3, <2>4, Zenon DEF Sends, u
  <2> QED BY <1>2, <2>5, Zenon
<1>7. CASE ToThree
  <2>1. Converting(TRUE) /\ Several(u) /\ ~High(u) /\ ToSeveral(1, ThreeOf(u))
    BY <1>7, Zenon DEF ToThree, u
  <2>2. ThreeOf(u) \in [1 .. 3 -> Byte] /\ Len(ThreeOf(u)) = 3 /\ Bytes(u) = ThreeOf(u)
    BY <1>1, <2>1, ThreeOfTyped, ThreeBytes
  <2>3. Turn(1, ThreeOf(u), Fits(3)) /\ len' \in Nat /\ len' = len + 3
    BY <1>2, <2>1, <2>2, SeveralSent, Zenon
  <2>4. coding = "utf-16" /\ stage = "convert" /\ More
    BY <2>1 DEF Converting
  <2>5. Sends(1, 3, ThreeOf(u))
    BY <1>3, <1>4, <2>1, <2>2, <2>3, <2>4, Zenon DEF Sends, u
  <2> QED BY <1>2, <2>5, Zenon
<1>8. CASE ToFour
  <2>1. Converting(TRUE) /\ High(u) /\ ToSeveral(2, FourOf(u, v))
    BY <1>8, Zenon DEF ToFour, u, v
  <2>2. FourOf(u, v) \in [1 .. 4 -> Byte] /\ Len(FourOf(u, v)) = 4
    BY <1>1, FourOfTyped
  <2>3. Turn(2, FourOf(u, v), Fits(4)) /\ len' \in Nat /\ len' = len + 4
    BY <1>2, <2>1, <2>2, SeveralSent, Zenon
  <2>4. coding = "utf-16" /\ stage = "convert" /\ More
    BY <2>1 DEF Converting
  <2>5. Sends(2, 4, FourOf(u, v))
    BY <1>3, <2>1, <2>2, <2>3, <2>4, Zenon DEF Sends, u, v
  <2> QED BY <1>2, <2>5, Zenon
<1> QED BY <1>5, <1>6, <1>7, <1>8

LEMMA Receiving ==
    ASSUME TypeOK, FromOne \/ FromTwo \/ FromThree \/ FromFour
    PROVE  \E n \in 1 .. 4, m \in 1 .. 2 : \E items : Receives(n, m, items)
<1> DEFINE a == Ahead(0)
           b == Ahead(1)
           c == Ahead(2)
           d == Ahead(3)
<1>1. a \in Nat /\ b \in Nat /\ c \in Nat /\ d \in Nat
  BY AheadTyped
<1>2. 1 \in 1 .. 2 /\ 2 \in 1 .. 2 /\ 1 \in 1 .. 4 /\ 2 \in 1 .. 4 /\ 3 \in 1 .. 4 /\ 4 \in 1 .. 4
  OBVIOUS
<1>3. ASSUME NEW x \in Element
      PROVE  <<x>> \in [1 .. 1 -> Element] /\ Len(<<x>>) = 1
  OBVIOUS
<1>4. ASSUME NEW x \in Element, NEW y \in Element
      PROVE  <<x, y>> \in [1 .. 2 -> Element] /\ Len(<<x, y>>) = 2
  OBVIOUS
<1> HIDE DEF a, b, c, d
<1>5. CASE FromOne
  <2>1. Converting(FALSE) /\ OneByte(a) /\ From(1, <<a>>)
    BY <1>5, Zenon DEF FromOne, a
  <2>2. <<a>> \in [1 .. 1 -> Element] /\ Len(<<a>>) = 1
    BY <1>1, <1>3, <2>1, ReceivedTyped
  <2>3. Turn(1, <<a>>, TRUE) /\ len' = len + 1
    BY <2>1, <2>2, Zenon DEF From
  <2>4. coding # "utf-16" /\ stage = "convert" /\ More
    BY <2>1 DEF Converting
  <2>5. Receives(1, 1, <<a>>)
    BY <2>1, <2>2, <2>3, <2>4, Zenon DEF Receives, a
  <2> QED BY <1>2, <2>5, Zenon
<1>6. CASE FromTwo
  <2> DEFINE x == UnitOfTwo(a, b)
  <2>1. Converting(FALSE) /\ Leads2(a) /\ From(2, <<x>>)
    BY <1>6, Zenon DEF FromTwo, a, b
  <2>2. <<x>> \in [1 .. 1 -> Element] /\ Len(<<x>>) = 1
    BY <1>1, <1>3, ReceivedTyped
  <2>3. Turn(2, <<x>>, TRUE) /\ len' = len + 1
    BY <2>1, <2>2, Zenon DEF From
  <2>4. coding # "utf-16" /\ stage = "convert" /\ More
    BY <2>1 DEF Converting
  <2>5. Receives(2, 1, <<x>>)
    BY <2>1, <2>2, <2>3, <2>4, Zenon DEF Receives, a, b
  <2> QED BY <1>2, <2>5, Zenon
<1>7. CASE FromThree
  <2> DEFINE x == UnitOfThree(a, b, c)
  <2>1. Converting(FALSE) /\ Leads3(a) /\ From(3, <<x>>)
    BY <1>7, Zenon DEF FromThree, a, b, c
  <2>2. <<x>> \in [1 .. 1 -> Element] /\ Len(<<x>>) = 1
    BY <1>1, <1>3, ReceivedTyped
  <2>3. Turn(3, <<x>>, TRUE) /\ len' = len + 1
    BY <2>1, <2>2, Zenon DEF From
  <2>4. coding # "utf-16" /\ stage = "convert" /\ More
    BY <2>1 DEF Converting
  <2>5. Receives(3, 1, <<x>>)
    BY <2>1, <2>2, <2>3, <2>4, Zenon DEF Receives, a, b, c
  <2> QED BY <1>2, <2>5, Zenon
<1>8. CASE FromFour
  <2> DEFINE x == HighOf(a, b, c)
             y == LowOf(c, d)
  <2>1. Converting(FALSE) /\ Leads4(a) /\ From(4, <<x, y>>)
    BY <1>8, Zenon DEF FromFour, a, b, c, d
  <2>2. <<x, y>> \in [1 .. 2 -> Element] /\ Len(<<x, y>>) = 2
    BY <1>1, <1>4, ReceivedTyped
  <2>3. Turn(4, <<x, y>>, TRUE) /\ len' = len + 2
    BY <2>1, <2>2, Zenon DEF From
  <2>4. coding # "utf-16" /\ stage = "convert" /\ More
    BY <2>1 DEF Converting
  <2>5. Receives(4, 2, <<x, y>>)
    BY <2>1, <2>2, <2>3, <2>4, Zenon DEF Receives, a, b, c, d
  <2> QED BY <1>2, <2>5, Zenon
<1> QED BY <1>5, <1>6, <1>7, <1>8
-----------------------------------------------------------------------------
(* The types.                                                              *)

LEMMA TurnTyped ==
    ASSUME TypeOK, NEW n \in Nat, NEW m \in Nat, NEW items \in [1 .. m -> Item], Len(items) = m,
           NEW w, Turn(n, items, w), len' \in Nat
    PROVE  TypeOK'
<1> DEFINE B == Bufcount(coding, Len(source))
           T == {Unset} \cup Item
<1>1. target \in [0 .. B - 1 -> T]
  BY DEF TypeOK, Item
<1>2. UNCHANGED <<coding, text, source, stage>> /\ pos' = pos + n
  BY DEF Turn
<1>3. target' = [k \in 0 .. B - 1 |-> IF w /\ k - len \in 0 .. m - 1 THEN items[k - len + 1] ELSE target[k]]
  <2>1. DOMAIN target = 0 .. B - 1
    BY <1>1
  <2> QED BY <2>1 DEF Turn
<1>4. ASSUME NEW k \in 0 .. B - 1
      PROVE  target'[k] \in T
  <2>1. CASE w /\ k - len \in 0 .. m - 1
    <3>1. k - len + 1 \in 1 .. m
      BY <2>1 DEF TypeOK
    <3>2. items[k - len + 1] \in Item
      BY <3>1
    <3>3. target'[k] = items[k - len + 1]
      BY <1>3, <2>1
    <3> HIDE DEF B
    <3> QED BY <3>2, <3>3
  <2>2. CASE ~(w /\ k - len \in 0 .. m - 1)
    <3>1. target'[k] = target[k]
      BY <1>3, <2>2
    <3> HIDE DEF B
    <3> QED BY <1>1, <3>1
  <2> QED BY <2>1, <2>2
<1>5. target' \in [0 .. B - 1 -> T]
  <2> HIDE DEF B, T
  <2> QED BY <1>3, <1>4
<1>6. target' \in [0 .. B' - 1 -> {Unset} \cup IF coding' = "utf-16" THEN Byte ELSE Element]
  <2>1. B' = B
    BY <1>2
  <2> HIDE DEF B
  <2> QED BY <1>2, <1>5, <2>1 DEF Item
<1>7. pos' \in Nat
  BY <1>2 DEF TypeOK
<1> QED BY <1>2, <1>6, <1>7 DEF TypeOK

LEMMA TextsAreSequences ==
    ASSUME NEW S, NEW t \in Texts(S)
    PROVE  t \in Seq(S)
<1>1. PICK n \in 0 .. MaxLength : t \in [1 .. n -> S]
  BY DEF Texts
<1>2. n \in Nat
  BY LengthAssumption
<1> QED BY <1>1, <1>2

LEMMA TextsLarger ==
    ASSUME NEW t \in Texts(Unit)
    PROVE  t \in Texts(Unit \cup {0})
<1>1. PICK n \in 0 .. MaxLength : t \in [1 .. n -> Unit]
  BY DEF Texts
<1>2. t \in [1 .. n -> Unit \cup {0}]
  BY <1>1
<1> QED BY <1>2 DEF Texts

LEMMA UnitsAreElements ==
    /\ Unit \subseteq Element /\ Unit \cup {0} \subseteq Element
    /\ \A t \in Texts(Unit) : t \in Seq(Element) /\ (\A k \in 1 .. Len(t) : t[k] # 0)
    /\ \A t \in Texts(Unit \cup {0}) : t \in Seq(Element)
<1>1. Unit \subseteq Element /\ Unit \cup {0} \subseteq Element /\ 0 \notin Unit
  <2>1. PICK n \in Nat : n = LastUnit
    BY SMT DEF LastUnit
  <2>2. Unit \subseteq 1 .. n
    BY <2>1, UnitAssumption
  <2>3. Unit \subseteq 0 .. n /\ 0 \in 0 .. n /\ 0 \notin Unit
    BY <2>2
  <2>4. Element = 0 .. n
    BY <2>1 DEF Element
  <2> QED BY <2>3, <2>4
<1>2. ASSUME NEW t \in Texts(Unit)
      PROVE  t \in Seq(Element) /\ (\A k \in 1 .. Len(t) : t[k] # 0)
  <2>1. t \in Seq(Unit)
    BY TextsAreSequences
  <2> QED BY <1>1, <2>1
<1>3. ASSUME NEW t \in Texts(Unit \cup {0})
      PROVE  t \in Seq(Element)
  <2>1. t \in Seq(Unit \cup {0})
    BY TextsAreSequences
  <2> QED BY <1>1, <2>1
<1> QED BY <1>1, <1>2, <1>3

LEMMA TypeInit ==
    ASSUME Init
    PROVE  TypeOK
<1>1. /\ coding \in {"utf-16", "java", "plain"} /\ text \in Texts(Unit \cup {0})
      /\ source \in Seq(Element)
  <2>1. CASE coding = "utf-16" /\ text \in Texts(Unit) /\ source = text
    BY <2>1, TextsLarger, UnitsAreElements
  <2>2. CASE coding = "java" /\ text \in Texts(Unit \cup {0}) /\ source = JavaUtf8(text)
    <3>1. JavaUnits(text) \in Seq(Seq(Element))
      BY <2>2, UnitsAreElements, JavaPieces
    <3> QED BY <2>2, <3>1, JoinedTyped DEF JavaUtf8
  <2>3. CASE coding = "plain" /\ text \in {t \in Texts(Unit) : WellFormed(t)} /\ source = Utf8(text)
    <3>1. Characters(text) \in Seq(Seq(Element))
      BY <2>3, UnitsAreElements, CharacterPieces
    <3> QED BY <2>3, <3>1, TextsLarger, JoinedTyped DEF Utf8
  <2> QED BY <2>1, <2>2, <2>3 DEF Init
<1>2. target \in [0 .. Bufcount(coding, Len(source)) - 1 ->
                      {Unset} \cup IF coding = "utf-16" THEN Byte ELSE Element]
  <2>1. target = [k \in 0 .. Bufcount(coding, Len(source)) - 1 |-> Unset]
    BY DEF Init
  <2> QED BY <2>1, Zenon
<1>3. pos \in Nat /\ len \in Nat /\ stage \in {"convert", "copy", "done"}
  BY DEF Init
<1> QED BY <1>1, <1>2, <1>3 DEF TypeOK

LEMMA TypeStep ==
    ASSUME TypeOK, [Next]_vars
    PROVE  TypeOK'
<1>1. len \in Nat /\ pos \in Nat
  BY DEF TypeOK
<1>2. CASE ToOne \/ ToTwo \/ ToThree \/ ToFour
  <2>1. PICK n \in 1 .. 2, m \in 1 .. 4 : \E items : Sends(n, m, items)
    BY <1>2, Sending
  <2>2. PICK items : Sends(n, m, items)
    BY <2>1
  <2>3. /\ items \in [1 .. m -> Item] /\ Len(items) = m
        /\ Turn(n, items, Fits(m)) /\ len' \in Nat
    BY <2>2 DEF Sends, Item
  <2>4. n \in Nat /\ m \in Nat
    OBVIOUS
  <2> QED BY <2>3, <2>4, TurnTyped, Zenon
<1>3. CASE FromOne \/ FromTwo \/ FromThree \/ FromFour
  <2>1. PICK n \in 1 .. 4, m \in 1 .. 2 : \E items : Receives(n, m, items)
    BY <1>3, Receiving
  <2>2. PICK items : Receives(n, m, items)
    BY <2>1
  <2>3. /\ items \in [1 .. m -> Item] /\ Len(items) = m
        /\ Turn(n, items, TRUE) /\ len' = len + m
    BY <2>2 DEF Receives, Item
  <2>4. n \in Nat /\ m \in Nat /\ len' \in Nat
    BY <1>1, <2>3
  <2> QED BY <2>3, <2>4, TurnTyped, Zenon
<1>4. CASE Stop
  <2>1. UNCHANGED <<coding, text, source, pos>> /\ len' \in Nat /\ stage' \in {"copy", "done"}
    BY <1>1, <1>4 DEF Stop
  <2>2. PICK n : target' = [k \in DOMAIN target |-> IF k = n THEN 0 ELSE target[k]]
    BY <1>4 DEF Stop
  <2>3. PICK D, T : D = 0 .. Bufcount(coding, Len(source)) - 1 /\ T = {Unset} \cup Item
    OBVIOUS
  <2>4. 0 \in Byte /\ 0 \in Element
    BY Octets, NatIsElement, SMT
  <2>5. target \in [D -> T] /\ 0 \in T
    BY <2>3, <2>4 DEF TypeOK, Item
  <2>6. target' \in [D -> T]
    BY <2>2, <2>5
  <2> QED BY <2>1, <2>3, <2>6 DEF TypeOK, Item
<1>5. CASE Copy
  BY <1>5 DEF Copy, TypeOK
<1>6. CASE UNCHANGED vars
  BY <1>6 DEF vars, TypeOK
<1> QED BY <1>2, <1>3, <1>4, <1>5, <1>6 DEF Next

\* The variables keep their types, whatever the texts are: what is stored towards
\* Java are bytes, also for unpaired surrogates, and what is stored on the way back
\* are 16-bit units (ucs2_to_utf8 and utf8_to_ucs2_lf in unicode.cpp).
THEOREM TypeCorrect == Spec => []TypeOK
  BY TypeInit, TypeStep, PTL DEF Spec

-----------------------------------------------------------------------------
(* What is in the buffer.                                                  *)

Size == Bufcount(coding, Len(source))

\* Exactly what has been counted is stored, and in the end the terminator.
InUse == \A k \in DOMAIN target : target[k] # Unset <=> k < len \/ (k = len /\ stage # "convert")

LEMMA SizeTyped ==
    ASSUME TypeOK
    PROVE  /\ Len(source) \in Nat /\ Size \in Nat /\ DOMAIN target = 0 .. Size - 1
           /\ coding = "utf-16" => Size = 4 * Len(source) + 1 /\ Room(coding, Len(source)) = Size
           /\ coding # "utf-16" => Size > Len(source) /\ Room(coding, Len(source)) = Len(source) + 1
<1>1. source \in Seq(Element) /\ coding \in {"utf-16", "java", "plain"}
  BY DEF TypeOK
<1>2. Len(source) \in Nat
  BY <1>1
<1>3. DOMAIN target = 0 .. Size - 1
  BY DEF TypeOK, Size
<1>4. PICK n \in Nat : n = Len(source)
  BY <1>2
<1> QED BY <1>1, <1>3, <1>4 DEF Size, Bufcount, Room

\* The m elements of items have been stored, and nothing else.
Filled(m, items) ==
    /\ DOMAIN target' = DOMAIN target
    /\ \A k \in DOMAIN target : k < len => target'[k] = target[k]
    /\ \A k \in DOMAIN target : k >= len + m => target'[k] = target[k]
    /\ \A k \in DOMAIN target, i \in 1 .. m : k = len + i - 1 => target'[k] = items[i]

LEMMA Stores ==
    ASSUME TypeOK, NEW n, NEW m \in Nat, NEW items, Len(items) = m, Turn(n, items, TRUE)
    PROVE  Filled(m, items)
<1>1. target' = [k \in DOMAIN target |->
                     IF k - len \in 0 .. m - 1 THEN items[k - len + 1] ELSE target[k]]
  BY DEF Turn
<1>2. len \in Nat /\ DOMAIN target \subseteq Int
  BY SizeTyped DEF TypeOK
<1>3. ASSUME NEW k \in DOMAIN target
      PROVE  /\ k < len => target'[k] = target[k]
             /\ k >= len + m => target'[k] = target[k]
             /\ \A i \in 1 .. m : k = len + i - 1 => target'[k] = items[i]
  <2>1. target'[k] = IF k - len \in 0 .. m - 1 THEN items[k - len + 1] ELSE target[k]
    BY <1>1
  <2>2. k \in Int
    BY <1>2
  <2>3. CASE k < len \/ k >= len + m
    <3>1. ~(k - len \in 0 .. m - 1)
      BY <1>2, <2>2, <2>3
    <3>2. \A i \in 1 .. m : k # len + i - 1
      BY <1>2, <2>2, <2>3
    <3> QED BY <2>1, <3>1, <3>2
  <2>4. CASE ~(k < len) /\ ~(k >= len + m)
    <3>1. k - len \in 0 .. m - 1
      BY <1>2, <2>2, <2>4
    <3>2. target'[k] = items[k - len + 1]
      BY <2>1, <3>1
    <3>3. \A i \in 1 .. m : k = len + i - 1 => i = k - len + 1
      BY <1>2, <2>2
    <3> QED BY <2>4, <3>2, <3>3
  <2> QED BY <2>3, <2>4
<1> QED BY <1>1, <1>3 DEF Filled

LEMMA InUseKept ==
    ASSUME TypeOK, InUse, stage = "convert",
           NEW n, NEW m \in Nat, NEW items \in [1 .. m -> Item], Len(items) = m,
           Turn(n, items, TRUE), len' = len + m
    PROVE  InUse'
<1>1. stage' = "convert" /\ len \in Nat
  BY DEF Turn, TypeOK
<1>2. \A x \in Item : x # Unset
  <2>1. Unset = -1
    BY DEF Unset
  <2> QED BY <2>1, BytesAreNat, ElementIsNat DEF Item
<1>3. Filled(m, items)
  BY Stores, Zenon
<1>4. ASSUME NEW k \in DOMAIN target
      PROVE  target'[k] # Unset <=> k < len + m
  <2>1. k \in Int
    BY SizeTyped
  <2>2. CASE k < len
    BY <1>1, <1>3, <2>1, <2>2 DEF InUse, Filled
  <2>3. CASE k >= len + m
    BY <1>1, <1>3, <2>1, <2>3 DEF InUse, Filled
  <2>4. CASE ~(k < len) /\ ~(k >= len + m)
    <3>1. PICK i \in 1 .. m : k = len + i - 1
      <4>1. k - len + 1 \in 1 .. m /\ k = len + (k - len + 1) - 1
        BY <1>1, <2>1, <2>4
      <4> QED BY <4>1
    <3>2. target'[k] = items[i] /\ items[i] \in Item
      BY <1>3, <3>1 DEF Filled
    <3> QED BY <1>1, <1>2, <2>1, <2>4, <3>2
  <2> QED BY <2>2, <2>3, <2>4
<1>5. DOMAIN target' = DOMAIN target
  BY <1>3 DEF Filled
<1>6. \A k \in DOMAIN target' : target'[k] # Unset <=> k < len' \/ (k = len' /\ stage' # "convert")
  BY <1>1, <1>4, <1>5
<1> QED BY <1>6 DEF InUse

LEMMA InUseStops ==
    ASSUME TypeOK, InUse, Stop, ~Refused
    PROVE  /\ InUse' /\ len' = len /\ stage' \in {"copy", "done"}
           /\ UNCHANGED <<coding, text, source, pos, answer>>
           /\ \A k \in DOMAIN target : k < len => target'[k] = target[k]
<1>1. /\ len' = len /\ stage = "convert" /\ stage' \in {"copy", "done"}
      /\ target' = [k \in DOMAIN target |-> IF k = len THEN 0 ELSE target[k]]
      /\ UNCHANGED <<coding, text, source, pos, answer>>
  BY DEF Stop
<1>2. len \in Nat /\ DOMAIN target \subseteq Int /\ 0 # Unset
  BY SizeTyped DEF TypeOK, Unset
<1>3. \A k \in DOMAIN target : target'[k] = IF k = len THEN 0 ELSE target[k]
  BY <1>1
<1>4. \A k \in DOMAIN target : k < len => k # len /\ target'[k] = target[k]
  BY <1>2, <1>3
<1>5. \A k \in DOMAIN target : target'[k] # Unset <=> k < len \/ k = len
  BY <1>1, <1>2, <1>3 DEF InUse
<1> QED BY <1>1, <1>4, <1>5 DEF InUse

-----------------------------------------------------------------------------
(* Towards Java: nothing is dropped.                                       *)

\* A turn stores at most three bytes per unit that it reads, and one that reads
\* beyond the text (a high surrogate at its end) is the last.
Pace ==
    /\ len <= 3 * pos
    /\ len < Size
    /\ InUse

\* There is room for what a turn stores.
LEMMA RoomForTurn ==
    ASSUME TypeOK, Pace, coding = "utf-16", More, NEW m \in 1 .. 4
    PROVE  len + m < Size /\ Fits(m)
<1>1. Len(source) \in Nat /\ Size = 4 * Len(source) + 1 /\ pos < Len(source) /\ pos \in Nat /\ len \in Nat
  BY SizeTyped DEF More, TypeOK
<1>2. len + m < Size
  BY <1>1 DEF Pace
<1> QED BY <1>2 DEF Fits, Size

LEMMA PaceKept ==
    ASSUME TypeOK, Pace, NEW n \in 1 .. 2, NEW m \in 1 .. 4, NEW items, Sends(n, m, items)
    PROVE  /\ Pace' /\ Turn(n, items, TRUE) /\ len' = len + m /\ len' <= Size
<1>1. len + m < Size /\ Fits(m)
  BY RoomForTurn DEF Sends
<1>2. Fits(m) = TRUE
  BY <1>1 DEF Fits
<1>3. Turn(n, items, TRUE) /\ len' = len + m /\ stage = "convert"
  BY <1>2, Zenon DEF Sends
<1>4. items \in [1 .. m -> Item] /\ Len(items) = m /\ m <= 3 * n
  BY DEF Sends, Item
<1>5. InUse'
  <2>1. m \in Nat
    OBVIOUS
  <2> QED BY <1>3, <1>4, <2>1, InUseKept, Zenon DEF Pace
<1>6. pos' = pos + n /\ Size' = Size
  BY <1>3 DEF Turn, Size
<1>7. pos \in Nat /\ len \in Nat /\ Size \in Nat
  BY SizeTyped DEF TypeOK
<1>8. len' <= 3 * pos' /\ len' < Size' /\ len' <= Size
  <2>1. len <= 3 * pos
    BY DEF Pace
  <2> QED BY <1>1, <1>3, <1>4, <1>6, <1>7, <2>1
<1> QED BY <1>3, <1>5, <1>8 DEF Pace

\* The buffer holds q up to len; the items that q goes on with are stored.
LEMMA FilledFurther ==
    ASSUME TypeOK, NEW m \in Nat, NEW items, Filled(m, items), len + m <= Size, NEW q,
           \A i \in 1 .. len : target[i - 1] = q[i],
           \A i \in 1 .. m : q[len + i] = items[i]
    PROVE  \A i \in 1 .. len + m : target'[i - 1] = q[i]
<1>1. len \in Nat /\ Size \in Nat /\ DOMAIN target = 0 .. Size - 1
  BY SizeTyped DEF TypeOK
<1>2. SUFFICES ASSUME NEW i \in 1 .. len + m
               PROVE  target'[i - 1] = q[i]
  OBVIOUS
<1>3. PICK k \in DOMAIN target : k = i - 1 /\ k \in Nat
  <2>1. i - 1 \in 0 .. Size - 1 /\ i - 1 \in Nat
    BY <1>1
  <2> QED BY <1>1, <2>1
<1>4. CASE i <= len
  <2>1. k < len /\ i \in 1 .. len
    BY <1>1, <1>3, <1>4
  <2>2. target'[k] = target[k]
    BY <2>1 DEF Filled
  <2> QED BY <1>3, <2>1, <2>2
<1>5. CASE ~(i <= len)
  <2>1. PICK h \in 1 .. m : i = len + h
    <3>1. i - len \in 1 .. m /\ i = len + (i - len)
      BY <1>1, <1>5
    <3> QED BY <3>1
  <2>2. k = len + h - 1
    BY <1>1, <1>3, <2>1
  <2>3. target'[k] = items[h]
    BY <2>2 DEF Filled
  <2>4. q[i] = items[h]
    BY <2>1
  <2> QED BY <1>3, <2>3, <2>4
<1> QED BY <1>4, <1>5

-----------------------------------------------------------------------------
(* Towards Java: what is stored is the UTF-8 of what has been read.        *)

Spelled ==
    /\ pos <= Len(text)
    /\ pos < Len(text) => ~Low(text[pos + 1])
    /\ len = Len(Prefixes(Characters(text))[pos])
    /\ \A i \in 1 .. len : target[i - 1] = Prefixes(Characters(text))[pos][i]
    /\ stage # "convert" => pos = Len(text)

SendInv ==
    coding = "utf-16" =>
        /\ source = text /\ text \in Texts(Unit)
        /\ Pace
        /\ WellFormed(text) => Spelled

LEMMA UnitRead ==
    ASSUME TypeOK, coding = "utf-16", source = text, NEW k \in Nat, pos + k < Len(text)
    PROVE  Ahead(k) = text[pos + k + 1] /\ pos + k + 1 \in 1 .. Len(text)
<1>1. pos \in Nat /\ Len(source) \in Nat
  BY SizeTyped DEF TypeOK
<1> QED BY <1>1 DEF Ahead

\* A turn reads one character and stores its bytes.
LEMMA CharacterRead ==
    ASSUME TypeOK, coding = "utf-16", source = text, text \in Seq(Element), WellFormed(text), Spelled,
           NEW n, NEW m, NEW items, Sends(n, m, items)
    PROVE  /\ pos + n \in Nat /\ pos + n <= Len(text)
           /\ pos + n < Len(text) => ~Low(text[pos + n + 1])
           /\ Prefixes(Characters(text))[pos] \in Seq(Element) /\ items \in Seq(Element)
           /\ Prefixes(Characters(text))[pos + n] = Prefixes(Characters(text))[pos] \o items
<1> DEFINE C == Characters(text)
<1>1. /\ C \in Seq(Seq(Element)) /\ Len(C) = Len(text) /\ Len(text) \in Nat
      /\ \A k \in 1 .. Len(text) :
             C[k] = IF Low(text[k]) THEN <<>>
                    ELSE IF High(text[k]) THEN Bytes(CodePoint(text[k], text[k + 1]))
                    ELSE Bytes(text[k])
  BY CharacterPieces
<1>2. pos \in Nat /\ pos < Len(text)
  BY DEF TypeOK, Sends, More
<1>3. PICK j \in 1 .. Len(text) : j = pos + 1
  BY <1>1, <1>2
<1>4. Ahead(0) = text[j] /\ ~Low(text[j])
  <2>1. pos + 0 < Len(text) /\ pos + 0 + 1 = j
    BY <1>2, <1>3
  <2>2. Ahead(0) = text[j]
    BY <2>1, UnitRead
  <2> QED BY <1>2, <1>3, <2>2 DEF Spelled
<1>5. Follows(j, pos) /\ pos \in 0 .. Len(C)
  BY <1>1, <1>2, <1>3 DEF Follows
<1> HIDE DEF C
<1>6. /\ Prefixes(C)[pos] \in Seq(Element) /\ Prefixes(C)[j] \in Seq(Element) /\ C[j] \in Seq(Element)
      /\ Prefixes(C)[j] = Prefixes(C)[pos] \o C[j]
  BY <1>1, <1>3, <1>5, PieceAppended
<1>7. CASE n = 1 /\ ~High(Ahead(0)) /\ items = Bytes(Ahead(0))
  <2>1. C[j] = items
    BY <1>1, <1>4, <1>7
  <2>2. ASSUME j < Len(text), Low(text[j + 1])
        PROVE  FALSE
    <3>1. j + 1 \in 1 .. Len(text) /\ (j + 1) - 1 = j
      BY <1>1, <2>2
    <3>2. High(text[j])
      BY <2>2, <3>1 DEF WellFormed
    <3> QED BY <1>4, <1>7, <3>2
  <2>3. pos + n = j
    BY <1>3, <1>7
  <2>4. /\ j \in Nat /\ j <= Len(text)
        /\ j < Len(text) => ~Low(text[j + 1])
    BY <1>1, <2>2
  <2>5. /\ Prefixes(C)[pos] \in Seq(Element) /\ items \in Seq(Element)
        /\ Prefixes(C)[j] = Prefixes(C)[pos] \o items
    BY <1>6, <2>1, Zenon
  <2> QED BY <2>3, <2>4, <2>5, Zenon DEF C
<1>8. CASE n = 2 /\ High(Ahead(0)) /\ items = FourOf(Ahead(0), Ahead(1))
  <2>1. j < Len(text) /\ Low(text[j + 1])
    BY <1>4, <1>8 DEF WellFormed
  <2>2. PICK h \in 1 .. Len(text) : h = j + 1 /\ Low(text[h])
    BY <1>1, <2>1
  <2>3. Ahead(1) = text[h]
    <3>1. pos + 1 < Len(text) /\ pos + 1 + 1 = h
      BY <1>2, <1>3, <2>1, <2>2
    <3> QED BY <3>1, UnitRead
  <2>4. C[j] = items
    <3>1. PICK u, v : u = text[j] /\ v = text[h]
      OBVIOUS
    <3>2. High(u) /\ Low(v) /\ items = FourOf(u, v)
      BY <1>4, <1>8, <2>2, <2>3, <3>1
    <3>3. Bytes(CodePoint(u, v)) = items
      BY <3>2, FourBytes
    <3>4. C[j] = Bytes(CodePoint(u, v))
      BY <1>1, <1>4, <2>2, <3>1, <3>2
    <3> QED BY <3>3, <3>4
  <2>5. C[h] = <<>>
    BY <1>1, <2>2
  <2>6. Follows(h, j) /\ j \in 0 .. Len(C)
    BY <1>1, <2>2 DEF Follows
  <2>7. Prefixes(C)[h] = Prefixes(C)[j] \o C[h]
    BY <1>1, <2>6, PieceAppended
  <2>8. Prefixes(C)[h] = Prefixes(C)[j]
    <3>1. PICK p \in Seq(Element) : p = Prefixes(C)[j]
      BY <1>6
    <3>2. p \o <<>> = p
      OBVIOUS
    <3> QED BY <2>5, <2>7, <3>1, <3>2
  <2>9. ASSUME h < Len(text), Low(text[h + 1])
        PROVE  FALSE
    <3>1. h + 1 \in 1 .. Len(text) /\ (h + 1) - 1 = h
      BY <1>1, <2>9
    <3>2. High(text[h])
      BY <2>9, <3>1 DEF WellFormed
    <3>3. PICK x : x = text[h]
      OBVIOUS
    <3> QED BY <2>2, <3>2, <3>3, Surrogates
  <2>10. pos + n = h
    BY <1>2, <1>3, <1>8, <2>2
  <2>11. /\ h \in Nat /\ h <= Len(text)
         /\ h < Len(text) => ~Low(text[h + 1])
    BY <1>1, <2>9
  <2>12. /\ Prefixes(C)[pos] \in Seq(Element) /\ items \in Seq(Element)
         /\ Prefixes(C)[h] = Prefixes(C)[pos] \o items
    BY <1>6, <2>4, <2>8
  <2> QED BY <2>10, <2>11, <2>12, Zenon DEF C
<1> QED BY <1>7, <1>8 DEF Sends

LEMMA SendTurn ==
    ASSUME TypeOK, SendInv, NEW n \in 1 .. 2, NEW m \in 1 .. 4, NEW items, Sends(n, m, items)
    PROVE  SendInv'
<1>1. coding = "utf-16" /\ source = text /\ text \in Texts(Unit) /\ Pace
  BY DEF SendInv, Sends
<1>2. text \in Seq(Element)
  BY <1>1, UnitsAreElements
<1>3. Pace' /\ Turn(n, items, TRUE) /\ len' = len + m /\ len + m <= Size
  BY <1>1, PaceKept
<1>4. UNCHANGED <<coding, text, source, stage>> /\ pos' = pos + n /\ stage = "convert"
  BY <1>3 DEF Turn, Sends
<1>5. ASSUME WellFormed(text)
      PROVE  Spelled'
  <2>1. Spelled
    BY <1>1, <1>5 DEF SendInv
  <2>2. PICK p, q : p = Prefixes(Characters(text))[pos] /\ q = Prefixes(Characters(text))[pos + n]
    OBVIOUS
  <2>3. /\ pos + n <= Len(text) /\ (pos + n < Len(text) => ~Low(text[pos + n + 1]))
        /\ p \in Seq(Element) /\ items \in Seq(Element) /\ q = p \o items
    BY <1>1, <1>2, <1>5, <2>1, <2>2, CharacterRead
  <2>4. /\ Len(q) = Len(p) + Len(items)
        /\ \A i \in 1 .. Len(p) : q[i] = p[i]
        /\ \A i \in 1 .. Len(items) : q[Len(p) + i] = items[i]
    BY <2>3, Appended
  <2>5. Len(p) = len /\ Len(items) = m /\ \A i \in 1 .. len : target[i - 1] = p[i]
    BY <2>1, <2>2 DEF Spelled, Sends
  <2>6. /\ \A i \in 1 .. len : target[i - 1] = q[i]
        /\ \A i \in 1 .. m : q[len + i] = items[i]
    BY <2>4, <2>5
  <2>7. Filled(m, items) /\ m \in Nat
    <3>1. m \in Nat
      OBVIOUS
    <3> QED BY <1>3, <2>5, <3>1, Stores, Zenon
  <2>8. \A i \in 1 .. len + m : target'[i - 1] = q[i]
    BY <1>3, <2>6, <2>7, FilledFurther
  <2>9. len + m = Len(q)
    BY <2>4, <2>5
  <2> QED BY <1>3, <1>4, <2>2, <2>3, <2>8, <2>9 DEF Spelled
<1> QED BY <1>1, <1>3, <1>4, <1>5 DEF SendInv

LEMMA SendStop ==
    ASSUME TypeOK, SendInv, Stop, coding = "utf-16"
    PROVE  SendInv'
<1>1. source = text /\ text \in Texts(Unit) /\ Pace /\ InUse
  BY DEF SendInv, Pace
<1>2. ~Refused
  BY DEF Refused
<1>3. /\ InUse' /\ len' = len /\ stage' \in {"copy", "done"}
      /\ UNCHANGED <<coding, text, source, pos, answer>>
      /\ \A k \in DOMAIN target : k < len => target'[k] = target[k]
  BY <1>1, <1>2, InUseStops
<1>4. Pace'
  <2>1. Size' = Size
    BY <1>3 DEF Size
  <2> QED BY <1>1, <1>3, <2>1 DEF Pace
<1>5. ASSUME WellFormed(text)
      PROVE  Spelled'
  <2>1. Spelled
    BY <1>5 DEF SendInv
  <2>2. text \in Seq(Element) /\ \A k \in 1 .. Len(text) : text[k] # 0
    BY <1>1, UnitsAreElements
  <2>3. pos = Len(text)
    <3>1. pos \in Nat /\ Len(text) \in Nat /\ pos <= Len(text)
      BY <2>1, <2>2 DEF TypeOK, Spelled
    <3>2. ASSUME pos < Len(text)
          PROVE  FALSE
      <4>1. pos + 0 < Len(text) /\ pos + 0 + 1 = pos + 1
        BY <3>1, <3>2
      <4>2. Ahead(0) # 0
        BY <1>1, <2>2, <4>1, UnitRead
      <4> QED BY <1>1, <1>2, <3>2, <4>2 DEF Stop, More
    <3> QED BY <3>1, <3>2
  <2>4. \A i \in 1 .. len : target'[i - 1] = target[i - 1]
    <3>1. len \in Nat /\ Size \in Nat /\ DOMAIN target = 0 .. Size - 1 /\ len < Size
      BY <1>1, SizeTyped DEF TypeOK, Pace
    <3>2. \A i \in 1 .. len : i - 1 \in DOMAIN target /\ i - 1 < len
      BY <3>1
    <3> QED BY <1>3, <3>2
  <2> QED BY <1>3, <2>1, <2>3, <2>4 DEF Spelled
<1> QED BY <1>1, <1>3, <1>4, <1>5 DEF SendInv

LEMMA SendStep ==
    ASSUME TypeOK, SendInv, [Next]_vars
    PROVE  SendInv'
<1>1. CASE ToOne \/ ToTwo \/ ToThree \/ ToFour
  <2>1. PICK n \in 1 .. 2, m \in 1 .. 4 : \E items : Sends(n, m, items)
    BY <1>1, Sending
  <2> QED BY <2>1, SendTurn
<1>2. CASE FromOne \/ FromTwo \/ FromThree \/ FromFour
  <2>1. PICK n \in 1 .. 4, m \in 1 .. 2 : \E items : Receives(n, m, items)
    BY <1>2, Receiving
  <2> QED BY <2>1 DEF Receives, Turn, SendInv
<1>3. CASE Stop
  <2>1. CASE coding = "utf-16"
    BY <1>3, <2>1, SendStop
  <2>2. CASE coding # "utf-16"
    BY <1>3, <2>2 DEF Stop, SendInv
  <2> QED BY <2>1, <2>2
<1>4. CASE Copy
  <2>1. UNCHANGED <<coding, text, source, pos, target, len>> /\ stage = "copy" /\ stage' = "done"
    BY <1>4 DEF Copy
  <2>2. Pace => Pace'
    BY <2>1 DEF Pace, InUse, Size
  <2>3. Spelled => Spelled'
    BY <2>1 DEF Spelled
  <2> QED BY <2>1, <2>2, <2>3 DEF SendInv
<1>5. CASE UNCHANGED vars
  BY <1>5 DEF vars, SendInv, Pace, InUse, Size, Spelled
<1> QED BY <1>1, <1>2, <1>3, <1>4, <1>5 DEF Next

LEMMA SendInit ==
    ASSUME Init
    PROVE  SendInv
<1> SUFFICES ASSUME coding = "utf-16"
             PROVE  SendInv
  BY DEF SendInv
<1>1. source = text /\ text \in Texts(Unit) /\ pos = 0 /\ len = 0 /\ stage = "convert"
  BY DEF Init
<1>2. text \in Seq(Element)
  BY <1>1, UnitsAreElements
<1>3. Pace
  <2>1. TypeOK
    BY TypeInit
  <2>2. len <= 3 * pos /\ len < Size
    BY <1>1, <2>1, SizeTyped
  <2>3. \A k \in DOMAIN target : target[k] = Unset /\ k \in Nat
    BY <2>1, SizeTyped DEF Init
  <2>4. InUse
    BY <1>1, <2>3 DEF InUse
  <2> QED BY <2>2, <2>4 DEF Pace
<1>4. ASSUME WellFormed(text)
      PROVE  Spelled
  <2>1. Len(text) \in Nat
    BY <1>2
  <2>2. Len(Characters(text)) = Len(text)
    BY <1>2, <1>4, CharacterPieces
  <2>3. Prefixes(Characters(text))[0] = <<>>
    BY <2>1, <2>2, PrefixesRecur
  <2>4. 0 < Len(text) => ~Low(text[1])
    <3> SUFFICES ASSUME 0 < Len(text), Low(text[1])
                 PROVE  FALSE
      OBVIOUS
    <3>1. 1 \in 1 .. Len(text)
      BY <2>1
    <3> QED BY <1>4, <3>1 DEF WellFormed
  <2>5. 0 = Len(<<>>) /\ 0 + 1 = 1
    OBVIOUS
  <2> QED BY <1>1, <2>1, <2>3, <2>4, <2>5 DEF Spelled
<1> QED BY <1>1, <1>3, <1>4 DEF SendInv

\* Four bytes per unit and one for the terminator are enough for every text, with
\* paired surrogates or not: nothing of it is dropped and nothing is stored beyond
\* the buffer (ustring::utf8 in unicode.hpp, ucs2_to_utf8 in unicode.cpp).
THEOREM NothingIsDropped == Spec => []NothingDropped
<1>1. TypeOK /\ SendInv => NothingDropped
  <2> SUFFICES ASSUME TypeOK, SendInv, coding = "utf-16"
               PROVE  Stored
    BY DEF NothingDropped
  <2>1. Pace /\ Room(coding, Len(source)) = Size
    BY SizeTyped DEF SendInv
  <2> QED BY <2>1 DEF Pace, InUse, Stored
<1>2. Spec => []SendInv
  BY SendInit, SendStep, TypeCorrect, PTL DEF Spec
<1> QED BY <1>1, <1>2, TypeCorrect, PTL

\* The bytes that Java is given are the UTF-8 of every text whose surrogates are
\* paired, of any length and of any units (ucs2_to_utf8 in unicode.cpp).
THEOREM TheUtf8IsSent == Spec => []SentAsUtf8
<1>1. TypeOK /\ SendInv => SentAsUtf8
  <2> SUFFICES ASSUME TypeOK, SendInv, stage = "done", coding = "utf-16", WellFormed(text)
               PROVE  Sent = Utf8(text)
    BY DEF SentAsUtf8
  <2>1. source = text /\ text \in Texts(Unit) /\ Spelled
    BY DEF SendInv
  <2>2. text \in Seq(Element)
    BY <2>1, UnitsAreElements
  <2>3. PICK C : C = Characters(text)
    OBVIOUS
  <2>4. C \in Seq(Seq(Element)) /\ Len(C) = Len(text) /\ Len(C) \in Nat
    BY <2>2, <2>3, CharacterPieces
  <2>5. PICK p \in Seq(Element) : p = Prefixes(C)[Len(C)]
    <3>1. Len(C) \in 0 .. Len(C)
      BY <2>4
    <3> QED BY <2>4, <3>1, PrefixesTyped
  <2>6. Utf8(text) = p
    BY <2>3, <2>5 DEF Utf8, Joined
  <2>7. pos = Len(C)
    BY <2>1, <2>4 DEF Spelled
  <2>8. len = Len(p) /\ \A i \in 1 .. len : target[i - 1] = p[i]
    BY <2>1, <2>3, <2>5, <2>7 DEF Spelled
  <2>9. p = [i \in 1 .. len |-> p[i]]
    BY <2>8
  <2> QED BY <2>6, <2>8, <2>9 DEF Sent
<1>2. Spec => []SendInv
  BY SendInit, SendStep, TypeCorrect, PTL DEF Spec
<1> QED BY <1>1, <1>2, TypeCorrect, PTL

\* What Java is given is the UTF-8 of no other text whose surrogates are paired.
TellsTheText ==
    stage = "done" /\ coding = "utf-16" /\ WellFormed(text) =>
        \A t \in Seq(Element) : WellFormed(t) /\ Utf8(t) = Sent => t = text

\* The conversion to UTF-8 loses nothing: Java can tell every text of the application,
\* whose surrogates are paired, from every other (ucs2_to_utf8 in unicode.cpp).
THEOREM NothingIsLost == Spec => []TellsTheText
<1>1. TypeOK /\ SentAsUtf8 => TellsTheText
  <2> SUFFICES ASSUME TypeOK, SentAsUtf8, stage = "done", coding = "utf-16", WellFormed(text),
                      NEW t \in Seq(Element), WellFormed(t), Utf8(t) = Sent
               PROVE  t = text
    BY DEF TellsTheText
  <2>1. Utf8(t) = Utf8(text)
    BY DEF SentAsUtf8
  <2>2. text \in Seq(Element)
    BY UnitsAreElements DEF TypeOK
  <2> QED BY <2>1, <2>2, TextsApart
<1> QED BY <1>1, TypeCorrect, TheUtf8IsSent, PTL

-----------------------------------------------------------------------------
(* From Java: what is stored are the units whose bytes have been read.     *)

\* The source is these, one after the other; a unit of the text stands for each.
Pieces == IF coding = "java" THEN JavaUnits(text) ELSE Characters(text)

Origin ==
    \/ coding = "java" /\ text \in Texts(Unit \cup {0})
    \/ coding = "plain" /\ text \in Texts(Unit) /\ WellFormed(text)

\* The loop stands between two characters.
Between ==
    /\ len <= Len(text)
    /\ pos = Len(Prefixes(Pieces)[len])
    /\ len <= pos
    /\ coding = "plain" /\ len < Len(text) => ~Low(text[len + 1])

ReceiveInv ==
    coding # "utf-16" =>
        /\ Origin
        /\ source = Joined(Pieces)
        /\ Between
        /\ \A i \in 1 .. len : target[i - 1] = text[i]
        /\ stage # "convert" => len = Len(text)
        /\ InUse

LEMMA PiecesTyped ==
    ASSUME Origin
    PROVE  /\ text \in Seq(Element) /\ Len(text) \in Nat
           /\ Pieces \in Seq(Seq(Element)) /\ Len(Pieces) = Len(text)
           /\ coding = "plain" => \A k \in 1 .. Len(text) : text[k] # 0
<1>1. CASE coding = "java" /\ text \in Texts(Unit \cup {0})
  <2>1. text \in Seq(Element)
    BY <1>1, UnitsAreElements
  <2> QED BY <1>1, <2>1, JavaPieces DEF Pieces
<1>2. CASE coding = "plain" /\ text \in Texts(Unit) /\ WellFormed(text)
  <2>1. text \in Seq(Element) /\ \A k \in 1 .. Len(text) : text[k] # 0
    BY <1>2, UnitsAreElements
  <2>2. Pieces = Characters(text)
    BY <1>2 DEF Pieces
  <2> QED BY <1>2, <2>1, <2>2, CharacterPieces
<1> QED BY <1>1, <1>2 DEF Origin

\* The bytes of the next piece are ahead.
LEMMA PieceAhead ==
    ASSUME TypeOK, Origin, source = Joined(Pieces), Between,
           NEW j \in 1 .. Len(text), j = len + 1
    PROVE  /\ Pieces[j] \in Seq(Element)
           /\ pos + Len(Pieces[j]) = Len(Prefixes(Pieces)[j])
           /\ pos + Len(Pieces[j]) <= Len(source)
           /\ \A k \in Nat, i \in 1 .. Len(Pieces[j]) : i = k + 1 => Ahead(k) = Pieces[j][i]
<1>1. Pieces \in Seq(Seq(Element)) /\ Len(Pieces) = Len(text) /\ Len(text) \in Nat
  BY PiecesTyped
<1>2. len \in Nat /\ pos \in Nat /\ Len(source) \in Nat /\ pos = Len(Prefixes(Pieces)[len])
  BY SizeTyped DEF TypeOK, Between
<1>3. len \in 0 .. Len(Pieces) /\ j \in 1 .. Len(Pieces) /\ Follows(j, len)
  BY <1>1, <1>2 DEF Follows
<1>4. /\ Pieces[j] \in Seq(Element)
      /\ Len(Prefixes(Pieces)[j]) = Len(Prefixes(Pieces)[len]) + Len(Pieces[j])
  BY <1>1, <1>3, OnePieceMore
<1>5. /\ Len(Prefixes(Pieces)[j]) <= Len(Joined(Pieces))
      /\ \A i \in 1 .. Len(Pieces[j]) : Joined(Pieces)[Len(Prefixes(Pieces)[len]) + i] = Pieces[j][i]
  BY <1>1, <1>3, PieceOfJoined
<1>6. PICK m \in Nat : m = Len(Pieces[j])
  BY <1>4
<1>7. pos + m = Len(Prefixes(Pieces)[j]) /\ pos + m <= Len(source)
  BY <1>2, <1>4, <1>5, <1>6
<1>8. ASSUME NEW k \in Nat, NEW i \in 1 .. m, i = k + 1
      PROVE  Ahead(k) = Pieces[j][i]
  <2>1. pos + k < Len(source) /\ pos + k + 1 = pos + i
    <3>1. PICK z \in Nat : z = Len(source) /\ pos + m <= z
      BY <1>2, <1>7
    <3>2. PICK p \in Nat : p = pos /\ p + m <= z
      BY <1>2, <3>1
    <3>3. p + m <= z /\ i = k + 1
      BY <1>8, <3>2
    <3>4. p + k < z /\ p + k + 1 = p + i
      BY ONLY <3>3, k \in Nat, i \in 1 .. m, m \in Nat, p \in Nat, z \in Nat
    <3> QED BY <3>1, <3>2, <3>4
  <2>2. Ahead(k) = source[pos + i]
    BY <2>1 DEF Ahead
  <2> QED BY <1>2, <1>5, <1>6, <2>2
<1> QED BY <1>4, <1>6, <1>7, <1>8

\* What is ahead says which turn comes, and the turn stores the m units that follow.
Shape(n, m) ==
    \/ n = 1 /\ m = 1 /\ OneByte(Ahead(0)) /\ Ahead(0) # 0 /\ Ahead(0) = text[len + 1]
    \/ n = 2 /\ m = 1 /\ Leads2(Ahead(0)) /\ UnitOfTwo(Ahead(0), Ahead(1)) = text[len + 1]
    \/ n = 3 /\ m = 1 /\ Leads3(Ahead(0))
          /\ UnitOfThree(Ahead(0), Ahead(1), Ahead(2)) = text[len + 1]
    \/ n = 4 /\ m = 2 /\ Leads4(Ahead(0))
          /\ HighOf(Ahead(0), Ahead(1), Ahead(2)) = text[len + 1]
          /\ LowOf(Ahead(2), Ahead(3)) = text[len + 2]

\* A unit by itself, but U+0000.
LEMMA UnitAhead ==
    ASSUME NEW u \in Element, u # 0, u = text[len + 1],
           NEW piece, piece = Bytes(u),
           \A k \in Nat, i \in 1 .. Len(piece) : i = k + 1 => Ahead(k) = piece[i]
    PROVE  \E n \in 1 .. 3 : Len(piece) = n /\ Shape(n, 1)
<1>1. u \in Nat /\ u <= 65535
  BY ElementIsNat
<1>2. CASE OneByte(u)
  <2>1. piece = <<u>>
    BY <1>1, <1>2 DEF OneByte, Bytes
  <2>2. Len(piece) = 1 /\ piece[1] = u
    BY <2>1
  <2>3. Ahead(0) = u
    <3>1. 0 \in Nat /\ 1 \in 1 .. Len(piece) /\ 1 = 0 + 1
      BY <2>2
    <3> QED BY <2>2, <3>1
  <2>4. Shape(1, 1)
    BY <1>2, <2>3, Zenon DEF Shape
  <2>5. 1 \in 1 .. 3
    OBVIOUS
  <2> QED BY <2>2, <2>4, <2>5, Zenon
<1>3. CASE TwoByte(u)
  <2>1. PICK a \in Nat, b \in Nat : piece = <<a, b>> /\ Leads2(a) /\ UnitOfTwo(a, b) = u
    BY <1>1, <1>3, TwoBytes
  <2>2. Len(piece) = 2 /\ piece[1] = a /\ piece[2] = b
    BY <2>1
  <2>3. Ahead(0) = a /\ Ahead(1) = b
    <3>1. 0 \in Nat /\ 1 \in Nat /\ 1 \in 1 .. Len(piece) /\ 2 \in 1 .. Len(piece) /\ 1 = 0 + 1 /\ 2 = 1 + 1
      BY <2>2
    <3> QED BY <2>2, <3>1
  <2>4. Shape(2, 1)
    BY <2>1, <2>3, Zenon DEF Shape
  <2>5. 2 \in 1 .. 3
    OBVIOUS
  <2> QED BY <2>2, <2>4, <2>5, Zenon
<1>4. CASE Several(u)
  <2>1. PICK a \in Nat, b \in Nat, c \in Nat :
            piece = <<a, b, c>> /\ Leads3(a) /\ UnitOfThree(a, b, c) = u
    BY <1>1, <1>4, ThreeBytes
  <2>2. Len(piece) = 3 /\ piece[1] = a /\ piece[2] = b /\ piece[3] = c
    BY <2>1
  <2>3. Ahead(0) = a /\ Ahead(1) = b /\ Ahead(2) = c
    <3>1. /\ 0 \in Nat /\ 1 \in Nat /\ 2 \in Nat
          /\ 1 \in 1 .. Len(piece) /\ 2 \in 1 .. Len(piece) /\ 3 \in 1 .. Len(piece)
          /\ 1 = 0 + 1 /\ 2 = 1 + 1 /\ 3 = 2 + 1
      BY <2>2
    <3> QED BY <2>2, <3>1
  <2>4. Shape(3, 1)
    BY <2>1, <2>3, Zenon DEF Shape
  <2>5. 3 \in 1 .. 3
    OBVIOUS
  <2> QED BY <2>2, <2>4, <2>5, Zenon
<1> QED BY <1>1, <1>2, <1>3, <1>4 DEF OneByte, TwoByte, Several

\* U+0000, as Java writes it.
LEMMA ZeroAhead ==
    ASSUME text[len + 1] = 0, NEW piece, piece = <<192, 128>>,
           \A k \in Nat, i \in 1 .. Len(piece) : i = k + 1 => Ahead(k) = piece[i]
    PROVE  Len(piece) = 2 /\ Shape(2, 1)
<1>1. PICK a \in Nat, b \in Nat : a = 192 /\ b = 128
  OBVIOUS
<1>2. Len(piece) = 2 /\ piece[1] = a /\ piece[2] = b
  BY <1>1
<1>3. Ahead(0) = a /\ Ahead(1) = b
  <2>1. 0 \in Nat /\ 1 \in Nat /\ 1 \in 1 .. Len(piece) /\ 2 \in 1 .. Len(piece) /\ 1 = 0 + 1 /\ 2 = 1 + 1
    BY <1>2
  <2> QED BY <1>2, <2>1
<1>4. Leads2(a) /\ UnitOfTwo(a, b) = 0
  BY <1>1 DEF Leads2, UnitOfTwo
<1>5. Shape(2, 1)
  BY <1>3, <1>4, Zenon DEF Shape
<1> QED BY <1>2, <1>5

\* A pair of surrogates, as a character.
LEMMA PairAhead ==
    ASSUME NEW u, NEW v, High(u), Low(v), u = text[len + 1], v = text[len + 2],
           NEW piece, piece = Bytes(CodePoint(u, v)),
           \A k \in Nat, i \in 1 .. Len(piece) : i = k + 1 => Ahead(k) = piece[i]
    PROVE  Len(piece) = 4 /\ Shape(4, 2)
<1>1. PICK a \in Nat, b \in Nat, c \in Nat, d \in Nat :
          piece = <<a, b, c, d>> /\ Leads4(a) /\ HighOf(a, b, c) = u /\ LowOf(c, d) = v
  BY FourBytes
<1>2. Len(piece) = 4 /\ piece[1] = a /\ piece[2] = b /\ piece[3] = c /\ piece[4] = d
  BY <1>1
<1>3. Ahead(0) = a /\ Ahead(1) = b /\ Ahead(2) = c /\ Ahead(3) = d
  <2>1. /\ 0 \in Nat /\ 1 \in Nat /\ 2 \in Nat /\ 3 \in Nat
        /\ 1 \in 1 .. Len(piece) /\ 2 \in 1 .. Len(piece) /\ 3 \in 1 .. Len(piece) /\ 4 \in 1 .. Len(piece)
        /\ 1 = 0 + 1 /\ 2 = 1 + 1 /\ 3 = 2 + 1 /\ 4 = 3 + 1
    BY <1>2
  <2> QED BY <1>2, <2>1
<1>4. Shape(4, 2)
  BY <1>1, <1>3, Zenon DEF Shape
<1> QED BY <1>2, <1>4

\* Where a turn gets to.
Reaches(n, m) ==
    /\ len + m <= Len(text) /\ m <= n
    /\ pos + n = Len(Prefixes(Pieces)[len + m]) /\ pos + n <= Len(source)
    /\ coding = "plain" /\ len + m < Len(text) => ~Low(text[len + m + 1])

LEMMA NextCharacter ==
    ASSUME TypeOK, Origin, source = Joined(Pieces), Between, len < Len(text)
    PROVE  \E n \in 1 .. 4, m \in 1 .. 2 : Shape(n, m) /\ Reaches(n, m)
<1>1. /\ text \in Seq(Element) /\ Len(text) \in Nat
      /\ Pieces \in Seq(Seq(Element)) /\ Len(Pieces) = Len(text)
      /\ coding = "plain" => \A k \in 1 .. Len(text) : text[k] # 0
  BY PiecesTyped
<1>2. len \in Nat /\ pos \in Nat /\ Len(source) \in Nat
  BY SizeTyped DEF TypeOK
<1>3. PICK j \in 1 .. Len(text) : j = len + 1
  BY <1>1, <1>2
<1>4. PICK piece : piece = Pieces[j]
  OBVIOUS
<1>5. /\ piece \in Seq(Element)
      /\ pos + Len(piece) = Len(Prefixes(Pieces)[j]) /\ pos + Len(piece) <= Len(source)
  BY <1>3, <1>4, PieceAhead
<1>6. \A k \in Nat, i \in 1 .. Len(piece) : i = k + 1 => Ahead(k) = piece[i]
  BY <1>3, <1>4, PieceAhead
<1>7. PICK u \in Element : u = text[j]
  BY <1>1
<1>8. ASSUME NEW n \in 1 .. 3, Len(piece) = n, Shape(n, 1), coding = "plain" => ~High(u)
      PROVE  \E h \in 1 .. 4, m \in 1 .. 2 : Shape(h, m) /\ Reaches(h, m)
  <2>1. ASSUME coding = "plain", j < Len(text), Low(text[j + 1])
        PROVE  FALSE
    <3>1. j + 1 \in 1 .. Len(text) /\ (j + 1) - 1 = j
      BY <1>1, <2>1
    <3>2. WellFormed(text)
      BY <2>1 DEF Origin
    <3>3. High(text[j])
      BY <2>1, <3>1, <3>2 DEF WellFormed
    <3> QED BY <1>7, <1>8, <2>1, <3>3
  <2>2. Reaches(n, 1)
    BY <1>1, <1>3, <1>5, <1>8, <2>1 DEF Reaches
  <2>3. n \in 1 .. 4 /\ 1 \in 1 .. 2
    OBVIOUS
  <2> QED BY <1>8, <2>2, <2>3, Zenon
<1>9. ASSUME piece = Bytes(u), u # 0, coding = "plain" => ~High(u)
      PROVE  \E h \in 1 .. 4, m \in 1 .. 2 : Shape(h, m) /\ Reaches(h, m)
  <2>1. u = text[len + 1]
    BY <1>3, <1>7
  <2>2. PICK n \in 1 .. 3 : Len(piece) = n /\ Shape(n, 1)
    BY <1>6, <1>9, <2>1, UnitAhead, Zenon
  <2> QED BY <1>8, <1>9, <2>2
<1>10. CASE coding = "java"
  <2>1. piece = IF u = 0 THEN <<192, 128>> ELSE Bytes(u)
    <3>1. Pieces = JavaUnits(text)
      BY <1>10 DEF Pieces
    <3> QED BY <1>1, <1>3, <1>4, <1>7, <3>1, JavaPieces
  <2>2. CASE u = 0
    <3>1. text[len + 1] = 0 /\ piece = <<192, 128>>
      BY <1>3, <1>7, <2>1, <2>2
    <3>2. Len(piece) = 2 /\ Shape(2, 1)
      BY <1>6, <3>1, ZeroAhead
    <3>3. 2 \in 1 .. 3 /\ coding # "plain"
      BY <1>10
    <3> QED BY <1>8, <3>2, <3>3
  <2>3. CASE u # 0
    BY <1>9, <1>10, <2>1, <2>3
  <2> QED BY <2>2, <2>3
<1>11. CASE coding = "plain"
  <2>1. WellFormed(text) /\ u # 0 /\ ~Low(u)
    <3>1. ~Low(text[len + 1])
      BY <1>11 DEF Between
    <3> QED BY <1>1, <1>3, <1>7, <1>11, <3>1 DEF Origin
  <2>2. \A k \in 1 .. Len(text) :
            Pieces[k] = IF Low(text[k]) THEN <<>>
                        ELSE IF High(text[k]) THEN Bytes(CodePoint(text[k], text[k + 1]))
                        ELSE Bytes(text[k])
    <3>1. Pieces = Characters(text)
      BY <1>11 DEF Pieces
    <3> QED BY <1>1, <2>1, <3>1, CharacterPieces
  <2>3. CASE ~High(u)
    <3>1. piece = Bytes(u)
      BY <1>3, <1>4, <1>7, <2>1, <2>2, <2>3
    <3> QED BY <1>9, <2>1, <2>3, <3>1
  <2>4. CASE High(u)
    <3>1. j < Len(text) /\ Low(text[j + 1])
      BY <1>7, <2>1, <2>4 DEF WellFormed
    <3>2. PICK h \in 1 .. Len(text) : h = j + 1 /\ h = len + 2
      BY <1>1, <1>2, <1>3, <3>1
    <3>3. PICK v : v = text[h] /\ v = text[j + 1] /\ v = text[len + 2] /\ Low(v)
      BY <3>1, <3>2
    <3>4. piece = Bytes(CodePoint(u, v))
      BY <1>3, <1>4, <1>7, <2>1, <2>2, <2>4, <3>3
    <3>5. u = text[len + 1]
      BY <1>3, <1>7
    <3>6. Len(piece) = 4 /\ Shape(4, 2)
      <4>1. High(u) /\ Low(v) /\ v = text[len + 2]
        BY <2>4, <3>3
      <4> QED BY <1>6, <3>4, <3>5, <4>1, PairAhead
    <3>7. Len(Prefixes(Pieces)[h]) = Len(Prefixes(Pieces)[j])
      <4>1. Pieces[h] = <<>>
        BY <2>2, <3>3
      <4>2. j \in 0 .. Len(Pieces) /\ h \in 1 .. Len(Pieces) /\ Follows(h, j)
        BY <1>1, <3>2 DEF Follows
      <4>3. /\ Prefixes(Pieces)[j] \in Seq(Element)
            /\ Len(Prefixes(Pieces)[h]) = Len(Prefixes(Pieces)[j]) + Len(Pieces[h])
        BY <1>1, <4>2, OnePieceMore
      <4> QED BY <4>1, <4>3
    <3>8. ASSUME h < Len(text), Low(text[h + 1])
          PROVE  FALSE
      <4>1. h + 1 \in 1 .. Len(text) /\ (h + 1) - 1 = h
        BY <1>1, <3>8
      <4>2. High(text[h])
        BY <2>1, <3>8, <4>1 DEF WellFormed
      <4> QED BY <3>3, <4>2, Surrogates
    <3>9. Reaches(4, 2)
      BY <1>1, <1>3, <1>5, <3>2, <3>6, <3>7, <3>8 DEF Reaches
    <3>10. 4 \in 1 .. 4 /\ 2 \in 1 .. 2
      OBVIOUS
    <3> QED BY <3>6, <3>9, <3>10, Zenon
  <2> QED BY <2>3, <2>4
<1> QED BY <1>10, <1>11 DEF Origin

LEMMA AtTheEnd ==
    ASSUME TypeOK, Origin, source = Joined(Pieces), Between, len = Len(text)
    PROVE  pos = Len(source)
<1>1. Len(Pieces) = len
  BY PiecesTyped
<1> QED BY <1>1 DEF Joined, Between

\* Before the end there is a turn to make.
LEMMA NotAtTheEnd ==
    ASSUME TypeOK, Origin, source = Joined(Pieces), Between, len < Len(text)
    PROVE  More /\ ~Refused
<1>1. PICK n \in 1 .. 4, m \in 1 .. 2 : Shape(n, m) /\ Reaches(n, m)
  BY NextCharacter
<1>2. pos < Len(source)
  <2>1. pos \in Nat /\ Len(source) \in Nat /\ pos + n <= Len(source)
    BY <1>1, SizeTyped DEF TypeOK, Reaches
  <2> QED BY <2>1
<1>3. PICK a \in Nat : a = Ahead(0)
  BY AheadTyped
<1>4. (OneByte(a) /\ a # 0) \/ Leads2(a) \/ Leads3(a) \/ Leads4(a)
  BY <1>1, <1>3, Zenon DEF Shape
<1>5. a # 0 /\ ~(128 <= a /\ a < 192) /\ ~(248 <= a)
  BY <1>4 DEF OneByte, Leads2, Leads3, Leads4
<1> QED BY <1>2, <1>3, <1>5 DEF More, Refused

\* The turn that is made is the one for what is ahead.
LEMMA SameTurn ==
    ASSUME TypeOK, NEW n, NEW m, NEW items, Receives(n, m, items), NEW h, NEW g, Shape(h, g)
    PROVE  h = n /\ g = m /\ \A i \in 1 .. m : text[len + i] = items[i]
<1>1. PICK a \in Nat : a = Ahead(0)
  BY AheadTyped
<1>2. /\ OneByte(a) => ~Leads2(a) /\ ~Leads3(a) /\ ~Leads4(a)
      /\ Leads2(a) => ~Leads3(a) /\ ~Leads4(a)
      /\ Leads3(a) => ~Leads4(a)
  BY DEF OneByte, Leads2, Leads3, Leads4
<1>3. ASSUME NEW x, text[len + 1] = x, items = <<x>>, m = 1
      PROVE  \A i \in 1 .. m : text[len + i] = items[i]
  BY <1>3
<1>4. ASSUME NEW x, NEW y, text[len + 1] = x, text[len + 2] = y, items = <<x, y>>, m = 2
      PROVE  \A i \in 1 .. m : text[len + i] = items[i]
  <2>1. ASSUME NEW i \in 1 .. 2
        PROVE  text[len + i] = items[i]
    <3>1. i = 1 \/ i = 2
      OBVIOUS
    <3> QED BY <1>4, <3>1
  <2> QED BY <1>4, <2>1
<1>5. CASE n = 1 /\ m = 1 /\ OneByte(a) /\ items = <<a>>
  <2>1. h = 1 /\ g = 1 /\ text[len + 1] = a
    BY <1>1, <1>2, <1>5, Zenon DEF Shape
  <2> QED BY <1>3, <1>5, <2>1
<1>6. CASE n = 2 /\ m = 1 /\ Leads2(a) /\ items = <<UnitOfTwo(Ahead(0), Ahead(1))>>
  <2>1. h = 2 /\ g = 1 /\ text[len + 1] = UnitOfTwo(Ahead(0), Ahead(1))
    BY <1>1, <1>2, <1>6, Zenon DEF Shape
  <2> QED BY <1>3, <1>6, <2>1
<1>7. CASE n = 3 /\ m = 1 /\ Leads3(a) /\ items = <<UnitOfThree(Ahead(0), Ahead(1), Ahead(2))>>
  <2>1. h = 3 /\ g = 1 /\ text[len + 1] = UnitOfThree(Ahead(0), Ahead(1), Ahead(2))
    BY <1>1, <1>2, <1>7, Zenon DEF Shape
  <2> QED BY <1>3, <1>7, <2>1
<1>8. CASE /\ n = 4 /\ m = 2 /\ Leads4(a)
           /\ items = <<HighOf(Ahead(0), Ahead(1), Ahead(2)), LowOf(Ahead(2), Ahead(3))>>
  <2>1. /\ h = 4 /\ g = 2 /\ text[len + 1] = HighOf(Ahead(0), Ahead(1), Ahead(2))
        /\ text[len + 2] = LowOf(Ahead(2), Ahead(3))
    BY <1>1, <1>2, <1>8, Zenon DEF Shape
  <2> QED BY <1>4, <1>8, <2>1
<1> QED BY <1>1, <1>5, <1>6, <1>7, <1>8 DEF Receives

LEMMA ReceiveTurn ==
    ASSUME TypeOK, ReceiveInv, NEW n \in 1 .. 4, NEW m \in 1 .. 2, NEW items, Receives(n, m, items)
    PROVE  ReceiveInv'
<1>1. /\ coding # "utf-16" /\ Origin /\ source = Joined(Pieces) /\ Between
      /\ \A i \in 1 .. len : target[i - 1] = text[i]
      /\ InUse
  BY DEF ReceiveInv, Receives
<1>2. /\ UNCHANGED <<coding, text, source, stage>> /\ pos' = pos + n /\ len' = len + m
      /\ stage = "convert" /\ Turn(n, items, TRUE)
      /\ items \in [1 .. m -> Item] /\ Len(items) = m
  BY <1>1 DEF Receives, Turn, Item
<1>3. len < Len(text)
  <2>1. pos \in Nat /\ Len(source) \in Nat /\ pos < Len(source)
    BY SizeTyped DEF TypeOK, Receives, More
  <2>2. len # Len(text)
    BY <1>1, <2>1, AtTheEnd
  <2>3. len \in Nat /\ Len(text) \in Nat /\ len <= Len(text)
    BY <1>1, PiecesTyped DEF TypeOK, Between
  <2> QED BY <2>2, <2>3
<1>4. Shape(n, m) /\ Reaches(n, m) /\ \A i \in 1 .. m : text[len + i] = items[i]
  <2>1. PICK h \in 1 .. 4, g \in 1 .. 2 : Shape(h, g) /\ Reaches(h, g)
    BY <1>1, <1>3, NextCharacter
  <2>2. h = n /\ g = m /\ \A i \in 1 .. m : text[len + i] = items[i]
    BY <2>1, SameTurn
  <2> QED BY <2>1, <2>2
<1>5. Pieces' = Pieces /\ Origin'
  BY <1>1, <1>2 DEF Pieces, Origin
<1>6. len \in Nat /\ pos \in Nat /\ len <= pos
  BY <1>1 DEF TypeOK, Between
<1>7. Between'
  <2>1. len' <= pos'
    BY <1>2, <1>4, <1>6 DEF Reaches
  <2> QED BY <1>2, <1>4, <1>5, <2>1 DEF Between, Reaches
<1>8. m \in Nat
  OBVIOUS
<1>9. InUse'
  BY <1>1, <1>2, <1>8, InUseKept, Zenon
<1>10. \A i \in 1 .. len + m : target'[i - 1] = text[i]
  <2>1. Filled(m, items)
    BY <1>2, <1>8, Stores, Zenon
  <2>2. len + m <= Size
    <3>1. pos + n <= Len(source) /\ m <= n
      BY <1>4 DEF Reaches
    <3>2. Size > Len(source) /\ Len(source) \in Nat /\ Size \in Nat
      BY <1>1, SizeTyped
    <3> QED BY <1>6, <3>1, <3>2
  <2> QED BY <1>1, <1>4, <1>8, <2>1, <2>2, FilledFurther
<1> QED BY <1>1, <1>2, <1>5, <1>7, <1>9, <1>10 DEF ReceiveInv

LEMMA ReceiveStop ==
    ASSUME TypeOK, ReceiveInv, Stop, coding # "utf-16"
    PROVE  ReceiveInv'
<1>1. /\ Origin /\ source = Joined(Pieces) /\ Between
      /\ \A i \in 1 .. len : target[i - 1] = text[i]
      /\ InUse
  BY DEF ReceiveInv
<1>2. len \in Nat /\ Len(text) \in Nat /\ len <= Len(text)
  BY <1>1, PiecesTyped DEF TypeOK, Between
<1>3. len = Len(text)
  <2>1. ~(len < Len(text))
    BY <1>1, NotAtTheEnd DEF Stop
  <2> QED BY <1>2, <2>1
<1>4. ~Refused
  <2>1. pos = Len(source) /\ Len(source) \in Nat
    BY <1>1, <1>3, AtTheEnd, SizeTyped
  <2> QED BY <2>1 DEF Refused, More
<1>5. /\ InUse' /\ len' = len /\ stage' \in {"copy", "done"}
      /\ UNCHANGED <<coding, text, source, pos, answer>>
      /\ \A k \in DOMAIN target : k < len => target'[k] = target[k]
  BY <1>1, <1>4, InUseStops
<1>6. Pieces' = Pieces /\ Origin'
  BY <1>1, <1>5 DEF Pieces, Origin
<1>7. Between'
  BY <1>1, <1>5, <1>6 DEF Between
<1>8. \A i \in 1 .. len : target'[i - 1] = text[i]
  <2>1. Size \in Nat /\ DOMAIN target = 0 .. Size - 1 /\ Size > Len(source) /\ Len(source) \in Nat
    BY SizeTyped
  <2>2. len <= Len(source)
    BY <1>1, <1>3, AtTheEnd DEF Between
  <2>3. \A i \in 1 .. len : i - 1 \in DOMAIN target /\ i - 1 < len
    BY <1>2, <2>1, <2>2
  <2> QED BY <1>1, <1>5, <2>3
<1> QED BY <1>1, <1>3, <1>5, <1>6, <1>7, <1>8 DEF ReceiveInv

LEMMA ReceiveStep ==
    ASSUME TypeOK, ReceiveInv, [Next]_vars
    PROVE  ReceiveInv'
<1>1. CASE ToOne \/ ToTwo \/ ToThree \/ ToFour
  <2>1. PICK n \in 1 .. 2, m \in 1 .. 4 : \E items : Sends(n, m, items)
    BY <1>1, Sending
  <2> QED BY <2>1 DEF Sends, Turn, ReceiveInv
<1>2. CASE FromOne \/ FromTwo \/ FromThree \/ FromFour
  <2>1. PICK n \in 1 .. 4, m \in 1 .. 2 : \E items : Receives(n, m, items)
    BY <1>2, Receiving
  <2> QED BY <2>1, ReceiveTurn
<1>3. CASE Stop
  <2>1. CASE coding # "utf-16"
    BY <1>3, <2>1, ReceiveStop
  <2>2. CASE coding = "utf-16"
    BY <1>3, <2>2 DEF Stop, ReceiveInv
  <2> QED BY <2>1, <2>2
<1>4. CASE Copy
  <2>1. UNCHANGED <<coding, text, source, pos, target, len>> /\ stage = "copy" /\ stage' = "done"
    BY <1>4 DEF Copy
  <2>2. /\ Pieces' = Pieces /\ (Origin => Origin')
        /\ InUse => InUse'
    BY <2>1 DEF Pieces, Origin, InUse
  <2>3. Between => Between'
    BY <2>1, <2>2 DEF Between
  <2> QED BY <2>1, <2>2, <2>3 DEF ReceiveInv
<1>5. CASE UNCHANGED vars
  <2>1. UNCHANGED <<coding, text, source, pos, target, len, stage>>
    BY <1>5 DEF vars
  <2>2. /\ Pieces' = Pieces /\ (Origin => Origin')
        /\ InUse => InUse'
    BY <2>1 DEF Pieces, Origin, InUse
  <2>3. Between => Between'
    BY <2>1, <2>2 DEF Between
  <2> QED BY <2>1, <2>2, <2>3 DEF ReceiveInv
<1> QED BY <1>1, <1>2, <1>3, <1>4, <1>5 DEF Next

LEMMA ReceiveInit ==
    ASSUME Init
    PROVE  ReceiveInv
<1> SUFFICES ASSUME coding # "utf-16"
             PROVE  ReceiveInv
  BY DEF ReceiveInv
<1>1. pos = 0 /\ len = 0 /\ stage = "convert"
  BY DEF Init
<1>2. Origin /\ source = Joined(Pieces)
  BY DEF Init, Origin, Pieces, JavaUtf8, Utf8
<1>3. Len(text) \in Nat /\ Len(Pieces) = Len(text)
  BY <1>2, PiecesTyped
<1>4. Between
  <2>1. Prefixes(Pieces)[0] = <<>>
    BY <1>3, PrefixesRecur
  <2>2. ASSUME coding = "plain", 0 < Len(text), Low(text[1])
        PROVE  FALSE
    <3>1. WellFormed(text) /\ 1 \in 1 .. Len(text)
      BY <1>2, <1>3, <2>2 DEF Origin
    <3> QED BY <2>2, <3>1 DEF WellFormed
  <2>3. Len(<<>>) = 0 /\ 0 + 1 = 1
    OBVIOUS
  <2> QED BY <1>1, <1>3, <2>1, <2>2, <2>3 DEF Between
<1>5. InUse
  <2>1. \A k \in DOMAIN target : target[k] = Unset /\ k \in Nat
    BY TypeInit, SizeTyped DEF Init
  <2> QED BY <1>1, <2>1 DEF InUse
<1> QED BY <1>1, <1>2, <1>4, <1>5 DEF ReceiveInv

LEMMA ReadSoFar ==
    ASSUME TypeOK, ReceiveInv, coding # "utf-16"
    PROVE  pos <= Len(source)
<1>1. Origin /\ source = Joined(Pieces) /\ Between
  BY DEF ReceiveInv
<1>2. len \in Nat /\ pos \in Nat /\ Len(source) \in Nat /\ Len(text) \in Nat
  BY <1>1, SizeTyped, PiecesTyped DEF TypeOK
<1>3. CASE len < Len(text)
  <2>1. More
    BY <1>1, <1>3, NotAtTheEnd
  <2> QED BY <1>2, <2>1 DEF More
<1>4. CASE ~(len < Len(text))
  <2>1. len = Len(text)
    BY <1>1, <1>2, <1>4 DEF Between
  <2>2. pos = Len(source)
    BY <1>1, <2>1, AtTheEnd
  <2> QED BY <1>2, <2>2
<1> QED BY <1>3, <1>4

\* A unit per byte and one for the terminator are enough for what Java returns and
\* for a literal; the size in bytes that utf8_to_ucs2_s passes on as a number of
\* units does no harm (unicode.cpp).
THEOREM NothingIsOverrun == Spec => []NothingOverrun
<1>1. TypeOK /\ ReceiveInv => NothingOverrun
  <2> SUFFICES ASSUME TypeOK, ReceiveInv, coding # "utf-16"
               PROVE  Stored
    BY DEF NothingOverrun
  <2>1. Origin /\ source = Joined(Pieces) /\ Between /\ InUse
    BY DEF ReceiveInv
  <2>2. len \in Nat /\ pos \in Nat /\ Len(source) \in Nat /\ Len(text) \in Nat
    BY <2>1, SizeTyped, PiecesTyped DEF TypeOK
  <2>3. pos <= Len(source)
    BY ReadSoFar
  <2>4. len < Room(coding, Len(source))
    BY <2>1, <2>2, <2>3, SizeTyped DEF Between
  <2> QED BY <2>1, <2>4 DEF InUse, Stored
<1>2. Spec => []ReceiveInv
  BY ReceiveInit, ReceiveStep, TypeCorrect, PTL DEF Spec
<1> QED BY <1>1, <1>2, TypeCorrect, PTL

\* What Java returns and what a literal says arrive as they were sent, up to the
\* first U+0000, for every text: paired surrogates as one character or, from Java,
\* each by itself (utf8_to_ucs2_lf in unicode.cpp, from_jstring in jvm.cpp).
THEOREM TheTextArrives == Spec => []ArrivesUnchanged
<1>1. TypeOK /\ ReceiveInv => ArrivesUnchanged
  <2> SUFFICES ASSUME TypeOK, ReceiveInv, stage # "convert", coding # "utf-16"
               PROVE  Arrived = Cut(text)
    BY DEF ArrivesUnchanged
  <2>1. Origin /\ len = Len(text) /\ \A i \in 1 .. len : target[i - 1] = text[i]
    BY DEF ReceiveInv
  <2>2. text \in Seq(Element)
    BY <2>1, PiecesTyped
  <2>3. text = [k \in 1 .. len |-> text[k]]
    BY <2>1, <2>2
  <2>4. [k \in 1 .. len |-> target[k - 1]] = [k \in 1 .. len |-> text[k]]
    BY <2>1
  <2> QED BY <2>3, <2>4, Zenon DEF Arrived
<1>2. Spec => []ReceiveInv
  BY ReceiveInit, ReceiveStep, TypeCorrect, PTL DEF Spec
<1> QED BY <1>1, <1>2, TypeCorrect, PTL

-----------------------------------------------------------------------------
(* The end of a passage.                                                   *)

SendReads == coding = "utf-16" => ReadsStay

LEMMA SendReadsInit ==
    ASSUME Init
    PROVE  SendReads
<1>1. pos = 0 /\ Len(source) \in Nat
  BY TypeInit, SizeTyped DEF Init
<1> QED BY <1>1 DEF SendReads, ReadsStay

LEMMA SendReadsStep ==
    ASSUME TypeOK, SendReads, [Next]_vars
    PROVE  SendReads'
<1>1. CASE ToOne \/ ToTwo \/ ToThree \/ ToFour
  <2>1. PICK n \in 1 .. 2, m \in 1 .. 4 : \E items : Sends(n, m, items)
    BY <1>1, Sending
  <2>2. PICK items : Sends(n, m, items)
    BY <2>1
  <2>3. /\ coding' = coding /\ source' = source
        /\ pos' = pos + n /\ pos < Len(source)
    BY <2>2 DEF Sends, Turn, More
  <2>4. pos \in Nat /\ Len(source) \in Nat
    BY SizeTyped DEF TypeOK
  <2> QED BY <2>3, <2>4 DEF SendReads, ReadsStay
<1>2. CASE FromOne \/ FromTwo \/ FromThree \/ FromFour
  <2>1. PICK n \in 1 .. 4, m \in 1 .. 2 : \E items : Receives(n, m, items)
    BY <1>2, Receiving
  <2> QED BY <2>1 DEF Receives, Turn, SendReads
<1>3. CASE Stop \/ Copy \/ UNCHANGED vars
  BY <1>3 DEF Stop, Copy, vars, SendReads, ReadsStay
<1> QED BY <1>1, <1>2, <1>3 DEF Next

LEMMA ReceiveReads ==
    ASSUME TypeOK, ReceiveInv, coding # "utf-16"
    PROVE  ReadsStay
<1>1. pos \in Nat /\ Len(source) \in Nat /\ pos <= Len(source)
  BY ReadSoFar, SizeTyped DEF TypeOK
<1> QED BY <1>1 DEF ReadsStay

LEMMA Counts ==
    ASSUME TypeOK, ReadsStay, TypeOK', ReadsStay', Next
    PROVE  0 <= Left' /\ Left' < Left
<1>1. /\ pos \in Nat /\ Len(source) \in Nat /\ pos' \in Nat /\ Len(source)' \in Nat
      /\ pos <= Len(source) + 1 /\ pos' <= Len(source)' + 1
  BY SizeTyped DEF TypeOK, ReadsStay
<1>2. ASSUME NEW n \in 1 .. 4, pos' = pos + n, source' = source, stage = "convert", stage' = "convert"
      PROVE  0 <= Left' /\ Left' < Left
  BY <1>1, <1>2 DEF Left
<1>3. CASE ToOne \/ ToTwo \/ ToThree \/ ToFour
  <2>1. PICK n \in 1 .. 2, m \in 1 .. 4 : \E items : Sends(n, m, items)
    BY <1>3, Sending
  <2>2. pos' = pos + n /\ source' = source /\ stage = "convert" /\ stage' = "convert"
    BY <2>1 DEF Sends, Turn
  <2>3. n \in 1 .. 4
    OBVIOUS
  <2> QED BY <1>2, <2>2, <2>3
<1>4. CASE FromOne \/ FromTwo \/ FromThree \/ FromFour
  <2>1. PICK n \in 1 .. 4, m \in 1 .. 2 : \E items : Receives(n, m, items)
    BY <1>4, Receiving
  <2>2. pos' = pos + n /\ source' = source /\ stage = "convert" /\ stage' = "convert"
    BY <2>1 DEF Receives, Turn
  <2> QED BY <1>2, <2>2
<1>5. CASE Stop
  <2>1. stage = "convert" /\ stage' \in {"copy", "done"}
    BY <1>5 DEF Stop
  <2> QED BY <1>1, <2>1 DEF Left
<1>6. CASE Copy
  <2>1. stage = "copy" /\ stage' = "done"
    BY <1>6 DEF Copy
  <2> QED BY <2>1 DEF Left
<1> QED BY <1>3, <1>4, <1>5, <1>6 DEF Next

\* Neither loop reads beyond the terminator of its source: not for a high surrogate
\* that ends a text, which takes the terminator with it (ucs2_to_utf8), nor for any
\* text on its way back (utf8_to_ucs2_lf).
THEOREM NothingIsReadBeyond == Spec => []ReadsStay
<1>1. Spec => []ReceiveInv
  BY ReceiveInit, ReceiveStep, TypeCorrect, PTL DEF Spec
<1>2. Spec => []SendReads
  BY SendReadsInit, SendReadsStep, TypeCorrect, PTL DEF Spec
<1>3. TypeOK /\ ReceiveInv /\ SendReads => ReadsStay
  BY ReceiveReads DEF SendReads
<1> QED BY <1>1, <1>2, <1>3, TypeCorrect, PTL

\* Every turn of the loops, whatever it finds, and every step after them brings the
\* end nearer: a passage has at most Len(source) + 3 steps (unicode.cpp).
THEOREM PassagesAreShort == Spec => EachStepCounts
<1>1. TypeOK /\ ReadsStay /\ TypeOK' /\ ReadsStay' /\ [Next]_vars => [0 <= Left' /\ Left' < Left]_vars
  BY Counts
<1> QED BY <1>1, TypeCorrect, NothingIsReadBeyond, PTL DEF Spec, EachStepCounts

-----------------------------------------------------------------------------
(* The answers.                                                            *)

\* What an answer may give of the units, and where it may give none of them.
Gives(a, units, given) ==
    /\ Len(a.written) \in Nat
    /\ a.written = <<>> => \/ a.ret = "SQL_ERROR"
                           \/ a.reported = 0
                           \/ ~given
                           \/ units = <<>>
    /\ a.written # <<>> => a.written \in {units, Append(units, 0)}

LEMMA Terminated ==
    ASSUME NEW S, NEW units \in Seq(S)
    PROVE  Append(units, 0) # <<>> /\ Len(Append(units, 0)) = Len(units) + 1 /\ Len(units) \in Nat
<1>1. units \in Seq(S \cup {0}) /\ 0 \in S \cup {0}
  OBVIOUS
<1>2. Len(Append(units, 0)) = Len(units) + 1 /\ Len(units) \in Nat
  BY <1>1
<1>3. Len(<<>>) = 0
  OBVIOUS
<1> QED BY <1>2, <1>3

LEMMA StrcpyGives ==
    ASSUME NEW S, NEW units \in Seq(S), NEW max \in Nat, NEW n, NEW given
    PROVE  /\ Gives(Reports(Strcpy(units, max), n), units, given)
           /\ Len(Reports(Strcpy(units, max), n).written) <= max
<1>1. Append(units, 0) # <<>> /\ Len(Append(units, 0)) = Len(units) + 1 /\ Len(units) \in Nat
  BY Terminated
<1>2. PICK a : a = Reports(Strcpy(units, max), n)
  OBVIOUS
<1>3. CASE max < Len(units)
  <2>1. a.ret = "SQL_ERROR" /\ a.written = <<>>
    BY <1>2, <1>3 DEF Reports, Strcpy
  <2>2. Len(<<>>) = 0
    OBVIOUS
  <2> QED BY <1>2, <2>1, <2>2 DEF Gives
<1>4. CASE max > Len(units)
  <2>1. a.written = Append(units, 0)
    BY <1>1, <1>2, <1>4 DEF Reports, Strcpy
  <2> QED BY <1>1, <1>2, <1>4, <2>1 DEF Gives
<1>5. CASE max = Len(units)
  <2>1. a.written = units
    BY <1>1, <1>2, <1>5 DEF Reports, Strcpy
  <2> QED BY <1>1, <1>2, <1>5, <2>1 DEF Gives
<1> QED BY <1>1, <1>3, <1>4, <1>5

\* Where nothing is copied.
LEMMA NothingGives ==
    ASSUME NEW units, NEW given, NEW a,
           \/ a = Refusal
           \/ a = LengthOnly(0)
           \/ \E n : a = LengthOnly(n) /\ ~given
    PROVE  Gives(a, units, given) /\ Len(a.written) = 0
<1>1. a.written = <<>> /\ Len(<<>>) = 0
  BY DEF Refusal, LengthOnly
<1>2. a.ret = "SQL_ERROR" \/ a.reported = 0 \/ ~given
  BY DEF Refusal, LengthOnly
<1> QED BY <1>1, <1>2 DEF Gives

LEMMA AnswerGives ==
    ASSUME NEW S, NEW units \in Seq(S), NEW max \in Nat, NEW given \in BOOLEAN
    PROVE  /\ Gives(Field(units, max, given), units, given) /\ Len(Field(units, max, given).written) <= max
           /\ Gives(Sql(units, max, given), units, given) /\ Len(Sql(units, max, given).written) <= max
           /\ Gives(Label(units, max, given), units, given)
           /\ 2 * Len(Label(units, max, given).written) <= max
           /\ Gives(Name(units, max, given), units, given)
           /\ 2 * Len(Name(units, max, given).written) <= max
           /\ Gives(Char(units, max, given), units, given)
           /\ Len(Char(units, max, given).written) <= max + 1
<1>1. Append(units, 0) # <<>> /\ Len(Append(units, 0)) = Len(units) + 1 /\ Len(units) \in Nat
  BY Terminated
<1>2. Gives(Field(units, max, given), units, given) /\ Len(Field(units, max, given).written) <= max
  <2>1. CASE ~given \/ Len(units) > max
    <3>1. PICK a : a = Field(units, max, given)
      OBVIOUS
    <3>2. a = Refusal \/ (\E n : a = LengthOnly(n) /\ ~given)
      BY <2>1, <3>1 DEF Field
    <3>3. Gives(a, units, given) /\ Len(a.written) = 0
      BY <3>2, NothingGives
    <3> QED BY <3>1, <3>3
  <2>2. CASE given /\ ~(Len(units) > max)
    BY <2>2, StrcpyGives DEF Field
  <2> QED BY <2>1, <2>2
<1>3. Gives(Sql(units, max, given), units, given) /\ Len(Sql(units, max, given).written) <= max
  <2>1. CASE ~given
    <3>1. PICK a : a = Sql(units, max, given)
      OBVIOUS
    <3>2. \E n : a = LengthOnly(n) /\ ~given
      BY <2>1, <3>1 DEF Sql
    <3>3. Gives(a, units, given) /\ Len(a.written) = 0
      BY <3>2, NothingGives
    <3> QED BY <3>1, <3>3
  <2>2. CASE given
    BY <2>2, StrcpyGives DEF Sql
  <2> QED BY <2>1, <2>2
<1>4. /\ Gives(Label(units, max, given), units, given)
      /\ 2 * Len(Label(units, max, given).written) <= max
  <2>1. CASE ~given \/ 2 * Len(units) > max
    <3>1. PICK a : a = Label(units, max, given)
      OBVIOUS
    <3>2. a = Refusal \/ (\E n : a = LengthOnly(n) /\ ~given)
      BY <2>1, <3>1 DEF Label
    <3>3. Gives(a, units, given) /\ Len(a.written) = 0
      BY <3>2, NothingGives
    <3> QED BY <3>1, <3>3
  <2>2. CASE given /\ ~(2 * Len(units) > max)
    <3>1. PICK half \in Nat : half = max \div 2 /\ 2 * half <= max
      OBVIOUS
    <3>2. PICK a : a = Label(units, max, given)
      OBVIOUS
    <3>3. a = Reports(Strcpy(units, half), 2 * Len(units))
      BY <2>2, <3>1, <3>2 DEF Label
    <3>4. Gives(a, units, given) /\ Len(a.written) <= half
      BY <3>3, StrcpyGives
    <3>5. 2 * Len(a.written) <= max
      <4>1. Len(a.written) \in Nat
        BY <3>4 DEF Gives
      <4> QED BY <3>1, <3>4, <4>1
    <3> QED BY <3>2, <3>4, <3>5
  <2> QED BY <2>1, <2>2
<1>5. /\ Gives(Name(units, max, given), units, given)
      /\ 2 * Len(Name(units, max, given).written) <= max
  <2>1. CASE ~given \/ max < 2 * (Len(units) + 1)
    <3>1. PICK a : a = Name(units, max, given)
      OBVIOUS
    <3>2. a = LengthOnly(0)
      BY <2>1, <3>1 DEF Name
    <3>3. Gives(a, units, given) /\ Len(a.written) = 0
      BY <3>2, NothingGives
    <3> QED BY <3>1, <3>3
  <2>2. CASE given /\ ~(max < 2 * (Len(units) + 1))
    <3>1. PICK a : a = Name(units, max, given)
      OBVIOUS
    <3>2. a = Reports(Strcpy(units, max), Len(units))
      BY <2>2, <3>1 DEF Name
    <3>3. Gives(a, units, given)
      BY <3>2, StrcpyGives
    <3>4. a.written = Append(units, 0)
      <4>1. max > Len(units) /\ ~(max < Len(units))
        BY <1>1, <2>2
      <4> QED BY <3>2, <4>1 DEF Reports, Strcpy
    <3>5. 2 * Len(a.written) <= max
      BY <1>1, <2>2, <3>4
    <3> QED BY <3>1, <3>3, <3>5
  <2> QED BY <2>1, <2>2
<1>6. /\ Gives(Char(units, max, given), units, given)
      /\ Len(Char(units, max, given).written) <= max + 1
  <2>1. CASE ~given \/ Len(units) > max
    <3>1. PICK a : a = Char(units, max, given)
      OBVIOUS
    <3>2. a = LengthOnly(0) \/ (\E n : a = LengthOnly(n) /\ ~given)
      BY <2>1, <3>1 DEF Char
    <3>3. Gives(a, units, given) /\ Len(a.written) = 0
      BY <3>2, NothingGives
    <3> QED BY <3>1, <3>3
  <2>2. CASE given /\ ~(Len(units) > max)
    <3>1. PICK a : a = Char(units, max, given)
      OBVIOUS
    <3>2. a.written = Append(units, 0)
      BY <2>2, <3>1 DEF Char, Reports
    <3>3. Gives(a, units, given) /\ Len(a.written) <= max + 1
      BY <1>1, <2>2, <3>2 DEF Gives
    <3> QED BY <3>1, <3>3
  <2> QED BY <2>1, <2>2
<1> QED BY <1>2, <1>3, <1>4, <1>5, <1>6

\* What an answer tells: the length of the whole, in units or in bytes.
Tells(a, units, width) ==
    /\ a.reported \in {Nothing, 0, width * Len(units)}
    /\ a.ret = "SQL_ERROR" => a.written = <<>>

LEMMA AnswerTells ==
    ASSUME NEW S, NEW units \in Seq(S), NEW max \in Nat, NEW given \in BOOLEAN
    PROVE  /\ Tells(Field(units, max, given), units, 2)
           /\ Tells(Label(units, max, given), units, 2)
           /\ Tells(Name(units, max, given), units, 1)
           /\ Tells(Sql(units, max, given), units, 1)
           /\ Tells(Char(units, max, given), units, 1)
<1>1. PICK n \in Nat : n = Len(units) /\ 1 * n = n
  OBVIOUS
<1>2. ASSUME NEW a, a = Refusal \/ a = LengthOnly(Nothing) \/ a = LengthOnly(0) \/ a = LengthOnly(n)
      PROVE  Tells(a, units, 1)
  BY <1>1, <1>2 DEF Tells, Refusal, LengthOnly
<1>3. ASSUME NEW a, a = Refusal \/ a = LengthOnly(Nothing) \/ a = LengthOnly(2 * n)
      PROVE  Tells(a, units, 2)
  BY <1>1, <1>3 DEF Tells, Refusal, LengthOnly
<1>4. ASSUME NEW m \in Nat
      PROVE  Tells(Reports(Strcpy(units, m), 2 * n), units, 2) /\ Tells(Reports(Strcpy(units, m), n), units, 1)
  BY <1>1 DEF Tells, Reports, Strcpy
<1>5. Tells(Reports([ret |-> "SQL_SUCCESS", written |-> Append(units, 0)], n), units, 1)
  BY <1>1 DEF Tells, Reports
<1>6. max \div 2 \in Nat
  OBVIOUS
<1>7. Tells(Field(units, max, given), units, 2)
  BY <1>1, <1>3, <1>4, Zenon DEF Field
<1>8. Tells(Label(units, max, given), units, 2)
  BY <1>1, <1>3, <1>4, <1>6, Zenon DEF Label
<1>9. Tells(Name(units, max, given), units, 1)
  BY <1>1, <1>2, <1>4, Zenon DEF Name
<1>10. Tells(Sql(units, max, given), units, 1)
  BY <1>1, <1>2, <1>4, Zenon DEF Sql
<1>11. Tells(Char(units, max, given), units, 1)
  BY <1>1, <1>2, <1>5, Zenon DEF Char
<1> QED BY <1>7, <1>8, <1>9, <1>10, <1>11

\* What Copy gives is the whole, or nothing, of what its function copies.
Whole(api) == IF api = "char" THEN source ELSE Arrived

Given(a) ==
    /\ a.api \in Api /\ a.max \in Nat
    /\ Gives(a, Whole(a.api), a.given)
    /\ a.api \in {"field", "sql"} => Len(a.written) <= a.max
    /\ a.api \in {"label", "name"} => 2 * Len(a.written) <= a.max
    /\ a.api = "char" => Len(a.written) <= a.max + 1
    /\ Tells(a, Whole(a.api), IF a.api \in {"field", "label"} THEN 2 ELSE 1)

CopyInv ==
    /\ stage # "done" => answer = NoAnswer
    /\ WholeOrNothing
    /\ StaysInBuffer

LEMMA NoAnswerIsFine ==
    ASSUME answer = NoAnswer
    PROVE  WholeOrNothing /\ StaysInBuffer
<1>1. WholeOrNothing
  BY DEF WholeOrNothing
<1>2. answer.api = "none"
  BY DEF NoAnswer
<1> QED BY <1>1, <1>2 DEF StaysInBuffer

LEMMA CopyGives ==
    ASSUME TypeOK, Copy
    PROVE  Given(answer')
<1>1. PICK api \in Api, max \in 0 .. MaxSize, given \in BOOLEAN :
          answer' = [api |-> api, max |-> max, given |-> given,
                     ret |-> Answer(api, max, given).ret,
                     written |-> Answer(api, max, given).written,
                     reported |-> Answer(api, max, given).reported]
  BY Zenon DEF Copy
<1>2. max \in Nat
  BY LengthAssumption
<1>3. PICK S : Arrived \in Seq(S)
  <2> DEFINE T == {target[k - 1] : k \in 1 .. len}
             t == [k \in 1 .. len |-> target[k - 1]]
  <2>1. t \in Seq(T)
    <3>1. len \in Nat
      BY DEF TypeOK
    <3>2. \A k \in 1 .. len : target[k - 1] \in T
      OBVIOUS
    <3>3. t \in [1 .. len -> T]
      <4> HIDE DEF T
      <4> QED BY <3>2
    <3> HIDE DEF T, t
    <3> QED BY <3>1, <3>3
  <2>2. Cut(t) \in Seq(T)
    <3> HIDE DEF t, T
    <3> QED BY <2>1, CutIsPart
  <2> QED BY <2>2 DEF Arrived
<1>4. source \in Seq(Element)
  BY DEF TypeOK
<1> DEFINE a == Answer(api, max, given)
           n == Len(a.written)
<1>5. /\ Gives(a, Whole(api), given)
      /\ api \in {"field", "sql"} => n <= max
      /\ api \in {"label", "name"} => 2 * n <= max
      /\ api = "char" => n <= max + 1
      /\ Tells(a, Whole(api), IF api \in {"field", "label"} THEN 2 ELSE 1)
  <2>1. CASE api = "field"
    <3>1. a = Field(Arrived, max, given) /\ Whole(api) = Arrived
      BY <2>1 DEF Answer, Whole
    <3> HIDE DEF a
    <3> QED BY <1>2, <1>3, <2>1, <3>1, AnswerGives, AnswerTells
  <2>2. CASE api = "label"
    <3>1. a = Label(Arrived, max, given) /\ Whole(api) = Arrived
      BY <2>2 DEF Answer, Whole
    <3> HIDE DEF a
    <3> QED BY <1>2, <1>3, <2>2, <3>1, AnswerGives, AnswerTells
  <2>3. CASE api = "name"
    <3>1. a = Name(Arrived, max, given) /\ Whole(api) = Arrived
      BY <2>3 DEF Answer, Whole
    <3> HIDE DEF a
    <3> QED BY <1>2, <1>3, <2>3, <3>1, AnswerGives, AnswerTells
  <2>4. CASE api = "sql"
    <3>1. a = Sql(Arrived, max, given) /\ Whole(api) = Arrived
      BY <2>4 DEF Answer, Whole
    <3> HIDE DEF a
    <3> QED BY <1>2, <1>3, <2>4, <3>1, AnswerGives, AnswerTells
  <2>5. CASE api = "char"
    <3>1. a = Char(source, max, given) /\ Whole(api) = source
      BY <2>5 DEF Answer, Whole
    <3> HIDE DEF a
    <3> QED BY <1>2, <1>4, <2>5, <3>1, AnswerGives, AnswerTells
  <2> HIDE DEF a, n
  <2> QED BY <2>1, <2>2, <2>3, <2>4, <2>5 DEF Api
<1> HIDE DEF a
<1>6. /\ answer'.api = api /\ answer'.max = max /\ answer'.given = given
      /\ answer'.ret = a.ret /\ answer'.written = a.written /\ answer'.reported = a.reported
  BY <1>1 DEF a
<1>7. Gives(answer', Whole(api), given) /\ Tells(answer', Whole(api), IF api \in {"field", "label"} THEN 2 ELSE 1)
  BY <1>5, <1>6 DEF Gives, Tells
<1> QED BY <1>2, <1>5, <1>6, <1>7 DEF Given

LEMMA CopyStep ==
    ASSUME TypeOK, CopyInv, [Next]_vars
    PROVE  CopyInv'
<1>1. CASE Copy
  <2>1. Given(answer')
    BY <1>1, CopyGives
  <2>2. UNCHANGED <<source, target, len>> /\ stage' = "done"
    BY <1>1 DEF Copy
  <2>3. Arrived' = Arrived
    BY <2>2 DEF Arrived
  <2>4. WholeOrNothing'
    BY <2>1, <2>2, <2>3 DEF Given, Gives, Whole, WholeOrNothing
  <2>5. StaysInBuffer'
    BY <2>1 DEF Given, StaysInBuffer, Api
  <2> QED BY <2>2, <2>4, <2>5 DEF CopyInv
<1>2. ASSUME UNCHANGED answer, stage # "done"
      PROVE  CopyInv'
  <2>1. answer' = NoAnswer
    BY <1>2 DEF CopyInv, NoAnswer
  <2>2. WholeOrNothing' /\ StaysInBuffer'
    <3>1. WholeOrNothing'
      BY <2>1 DEF WholeOrNothing, NoAnswer
    <3>2. answer'.api = "none"
      BY <2>1 DEF NoAnswer
    <3> QED BY <3>1, <3>2 DEF StaysInBuffer
  <2> QED BY <2>1, <2>2 DEF CopyInv, NoAnswer
<1>3. CASE ToOne \/ ToTwo \/ ToThree \/ ToFour
  <2>1. PICK n \in 1 .. 2, m \in 1 .. 4 : \E items : Sends(n, m, items)
    BY <1>3, Sending
  <2> QED BY <1>2, <2>1 DEF Sends, Turn
<1>4. CASE FromOne \/ FromTwo \/ FromThree \/ FromFour
  <2>1. PICK n \in 1 .. 4, m \in 1 .. 2 : \E items : Receives(n, m, items)
    BY <1>4, Receiving
  <2> QED BY <1>2, <2>1 DEF Receives, Turn
<1>5. CASE Stop
  BY <1>2, <1>5 DEF Stop
<1>6. CASE UNCHANGED vars
  <2>1. UNCHANGED <<source, target, len, stage, answer>>
    BY <1>6 DEF vars
  <2>2. Arrived' = Arrived
    BY <2>1 DEF Arrived
  <2> QED BY <2>1, <2>2 DEF CopyInv, WholeOrNothing, StaysInBuffer, NoAnswer
<1> QED BY <1>1, <1>3, <1>4, <1>5, <1>6 DEF Next

LEMMA AnswersAreWhole == Spec => []CopyInv
<1>1. Init => CopyInv
  BY NoAnswerIsFine DEF Init, CopyInv
<1> QED BY <1>1, CopyStep, TypeCorrect, PTL DEF Spec

\* An application is given a text whole or not at all, and not at all only with an
\* error, with the length 0 or without a buffer, by each function that copies one
\* (jvm.cpp, jdatabase.cpp, jstatement.cpp), for buffers of any size.
THEOREM WholeTexts == Spec => []WholeOrNothing
  BY AnswersAreWhole, PTL DEF CopyInv

\* No copy goes beyond the size that the function was given, as the function counts
\* it, but for the terminator of a narrow one (the same functions).
THEOREM CopiesStay == Spec => []StaysInBuffer
  BY AnswersAreWhole, PTL DEF CopyInv

-----------------------------------------------------------------------------
(* A passage in one step.                                                  *)

There == IF stage = "convert" THEN {} ELSE {IF coding = "utf-16" THEN Sent ELSE Arrived}

JavaAnswers == stage = "copy" => coding = "java"

LEMMA JavaAnswersStep ==
    ASSUME TypeOK, JavaAnswers, [Next]_vars
    PROVE  JavaAnswers'
<1>1. CASE ToOne \/ ToTwo \/ ToThree \/ ToFour
  <2>1. PICK n \in 1 .. 2, m \in 1 .. 4 : \E items : Sends(n, m, items)
    BY <1>1, Sending
  <2> QED BY <2>1 DEF Sends, Turn, JavaAnswers
<1>2. CASE FromOne \/ FromTwo \/ FromThree \/ FromFour
  <2>1. PICK n \in 1 .. 4, m \in 1 .. 2 : \E items : Receives(n, m, items)
    BY <1>2, Receiving
  <2> QED BY <2>1 DEF Receives, Turn, JavaAnswers
<1>3. CASE Stop \/ Copy \/ UNCHANGED vars
  BY <1>3 DEF Stop, Copy, vars, JavaAnswers
<1> QED BY <1>1, <1>2, <1>3 DEF Next

\* The turns show nothing.
LEMMA TurnShows ==
    ASSUME NEW n, NEW items, NEW w, Turn(n, items, w), stage = "convert"
    PROVE  UNCHANGED <<coding, text, There, answer>>
BY DEF Turn, There

LEMMA StopPasses ==
    ASSUME TypeOK, SentAsUtf8', ArrivesUnchanged', Stop
    PROVE  Promise!Pass
<1>1. stage = "convert" /\ UNCHANGED <<coding, text, answer>>
      /\ stage' = IF coding = "java" THEN "copy" ELSE "done"
  BY DEF Stop
<1>2. PICK t : t = IF coding = "utf-16" THEN Sent' ELSE Arrived'
  OBVIOUS
<1>3. IF coding = "utf-16" THEN WellFormed(text) => t = Utf8(text) ELSE t = Cut(text)
  <2>1. CASE coding = "utf-16"
    BY <1>1, <1>2, <2>1 DEF SentAsUtf8
  <2>2. CASE coding # "utf-16"
    BY <1>1, <1>2, <2>2 DEF ArrivesUnchanged
  <2> QED BY <2>1, <2>2
<1>4. There = {} /\ There' = {t}
  BY <1>1, <1>2 DEF There
<1> QED BY <1>1, <1>3, <1>4 DEF Promise!Pass, Promise!Passes, There

LEMMA CopyIsGiven ==
    ASSUME TypeOK, ReceiveInv, CopyInv, JavaAnswers, Copy
    PROVE  Promise!Give
<1>1. /\ stage = "copy" /\ stage' = "done" /\ coding = "java" /\ answer = NoAnswer
      /\ UNCHANGED <<coding, text, source, pos, target, len>>
  BY DEF Copy, CopyInv, JavaAnswers
<1>2. Given(answer')
  BY CopyGives
<1>3. There = {Arrived} /\ There' = {Arrived}
  BY <1>1 DEF There, Arrived
<1>4. source = JavaUtf8(text)
  BY <1>1 DEF ReceiveInv, Pieces, JavaUtf8
<1>5. answer' # NoAnswer
  <2>1. answer'.api # "none" /\ NoAnswer.api = "none"
    BY <1>2 DEF Given, Api, NoAnswer
  <2> QED BY <2>1
<1>6. PICK a : a = answer'
  OBVIOUS
<1>7. PICK whole : whole = Whole(a.api)
  OBVIOUS
<1>8. whole \in IF a.api = "char" THEN {JavaUtf8(text)} ELSE There
  BY <1>3, <1>4, <1>7 DEF Whole
<1>9. a.api \in Api /\ a.max \in Nat /\ Len(a.written) \in Nat
  BY <1>2, <1>6 DEF Given, Gives
<1>10. Len(a.written) <= Promise!Room(a.api, a.max)
  <2>1. PICK n \in Nat, max \in Nat : n = Len(a.written) /\ max = a.max
    BY <1>9
  <2>2. /\ a.api \in {"field", "sql"} => n <= max
        /\ a.api \in {"label", "name"} => 2 * n <= max
        /\ a.api = "char" => n <= max + 1
    BY <1>2, <1>6, <2>1 DEF Given
  <2>3. 2 * n <= max => n <= max \div 2
    OBVIOUS
  <2> QED BY <1>9, <2>1, <2>2, <2>3 DEF Promise!Room, Api
<1>11. /\ a.written \in {<<>>, whole, Append(whole, 0)}
       /\ a.reported \in {Nothing, 0, Promise!Width(a.api) * Len(whole)}
       /\ a.written = <<>> => a.ret = "SQL_ERROR" \/ a.reported = 0 \/ ~a.given \/ whole = <<>>
       /\ a.ret = "SQL_ERROR" => a.written = <<>>
  BY <1>2, <1>6, <1>7 DEF Given, Gives, Tells, Promise!Width
<1>12. Promise!Gives(a, whole)
  BY <1>10, <1>11, Zenon DEF Promise!Gives
<1> QED BY <1>1, <1>3, <1>5, <1>6, <1>8, <1>12 DEF Promise!Give, There

LEMMA PassageStep ==
    ASSUME TypeOK, ReceiveInv, CopyInv, JavaAnswers, SentAsUtf8', ArrivesUnchanged', [Next]_vars
    PROVE  [Promise!Next]_<<coding, text, There, answer>>
<1>1. CASE ToOne \/ ToTwo \/ ToThree \/ ToFour
  <2>1. PICK n \in 1 .. 2, m \in 1 .. 4 : \E items : Sends(n, m, items)
    BY <1>1, Sending
  <2> QED BY <2>1, TurnShows DEF Sends
<1>2. CASE FromOne \/ FromTwo \/ FromThree \/ FromFour
  <2>1. PICK n \in 1 .. 4, m \in 1 .. 2 : \E items : Receives(n, m, items)
    BY <1>2, Receiving
  <2> QED BY <2>1, TurnShows DEF Receives
<1>3. CASE Stop
  BY <1>3, StopPasses DEF Promise!Next
<1>4. CASE Copy
  BY <1>4, CopyIsGiven DEF Promise!Next
<1>5. CASE UNCHANGED vars
  BY <1>5 DEF vars, There, Sent, Arrived
<1> QED BY <1>1, <1>2, <1>3, <1>4, <1>5 DEF Next

\* A text of any length passes in one step: to Java as its UTF-8, from Java as what it was up to
\* its first U+0000; and an application that asks for it gets the whole, within its buffer, and
\* the length of the whole, or is told that it does not (unicode.cpp, and the functions that copy).
THEOREM ImplementsPassages == Spec => IsPassed
<1>1. Init => Promise!Init
  BY DEF Init, Promise!Init
<1>2. Spec => []ReceiveInv
  BY ReceiveInit, ReceiveStep, TypeCorrect, PTL DEF Spec
<1>3. Spec => []JavaAnswers
  <2>1. Init => JavaAnswers
    BY DEF Init, JavaAnswers
  <2> QED BY <2>1, JavaAnswersStep, TypeCorrect, PTL DEF Spec
<1>4. TypeOK /\ ReceiveInv /\ CopyInv /\ JavaAnswers /\ SentAsUtf8' /\ ArrivesUnchanged' /\ [Next]_vars =>
          [Promise!Next]_<<coding, text,
                           IF stage = "convert" THEN {} ELSE {IF coding = "utf-16" THEN Sent ELSE Arrived},
                           answer>>
  BY PassageStep DEF There
<1> QED BY <1>1, <1>2, <1>3, <1>4, TypeCorrect, AnswersAreWhole, TheUtf8IsSent, TheTextArrives, PTL
        DEF Spec, Promise!Spec, Promise!vars, IsPassed
=============================================================================
