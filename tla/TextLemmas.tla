----------------------------- MODULE TextLemmas -----------------------------
(***************************************************************************)
(* Lemmas about the operators of Text: sequences one after the other, the  *)
(* bytes of a character and back, and what is left of a text at its first  *)
(* U+0000.                                                                 *)
(***************************************************************************)
EXTENDS Text, WellFoundedInduction, TLAPS

\* The least number principle, for sets.
LEMMA Least ==
    ASSUME NEW T \in SUBSET Nat, T # {}
    PROVE  \E m \in T : \A k \in Nat : k < m => k \notin T
<1>1. PICK m \in T : \A k \in T : <<k, m>> \notin OpToRel(<, Nat)
  BY WFMin, NatLessThanWellFounded, Zenon
<1>2. ASSUME NEW k \in Nat, k < m, k \in T
      PROVE  FALSE
  BY <1>1, <1>2, Zenon DEF OpToRel
<1> QED BY <1>2

\* Induction up to n: T is the set of the numbers for which the claim holds.
LEMMA UpTo ==
    ASSUME NEW n \in Nat, NEW T, 0 \in T,
           \A k \in 0 .. n - 1 : k \in T => k + 1 \in T
    PROVE  \A k \in 0 .. n : k \in T
<1> DEFINE F == {k \in 0 .. n : k \notin T}
<1> SUFFICES ASSUME F # {}
             PROVE  FALSE
  OBVIOUS
<1>1. F \in SUBSET Nat
  OBVIOUS
<1>2. PICK m \in F : \A k \in Nat : k < m => k \notin F
  <2> HIDE DEF F
  <2> QED BY <1>1, Least
<1>3. m \in 1 .. n
  BY <1>2
<1>4. m - 1 \in 0 .. n - 1 /\ m - 1 \notin F
  BY <1>2, <1>3
<1>5. m - 1 \in T
  BY <1>4
<1>6. (m - 1) + 1 \in T
  BY <1>4, <1>5
<1> QED BY <1>2, <1>3, <1>6

-----------------------------------------------------------------------------
\* The function that Prefixes chooses, up to m.
Prefixing(f, s, m) == f = [k \in 0 .. m |-> IF k = 0 THEN <<>> ELSE f[k - 1] \o s[k]]

LEMMA PrefixingExists ==
    ASSUME NEW s, NEW n \in Nat
    PROVE  \E f : Prefixing(f, s, n)
<1> DEFINE T == {m \in 0 .. n : \E f : Prefixing(f, s, m)}
<1>1. 0 \in T
  <2>1. Prefixing([k \in 0 .. 0 |-> <<>>], s, 0)
    <3>1. 0 .. 0 = {0}
      OBVIOUS
    <3> QED BY <3>1, Zenon DEF Prefixing
  <2> QED BY <2>1
<1>2. ASSUME NEW m \in 0 .. n - 1, m \in T
      PROVE  m + 1 \in T
  <2>1. PICK f : Prefixing(f, s, m)
    BY <1>2
  <2> DEFINE g == [k \in 0 .. m + 1 |-> IF k = m + 1 THEN f[m] \o s[m + 1] ELSE f[k]]
  <2>2. ASSUME NEW k \in 0 .. m + 1
        PROVE  g[k] = IF k = 0 THEN <<>> ELSE g[k - 1] \o s[k]
    <3>1. CASE k = m + 1
      <4>1. k # 0 /\ k - 1 = m /\ m \in 0 .. m + 1 /\ m # m + 1
        BY <3>1
      <4>2. g[k] = f[m] \o s[m + 1] /\ g[m] = f[m]
        BY <3>1, <4>1
      <4> QED BY <3>1, <4>1, <4>2
    <3>2. CASE k # m + 1
      <4>1. k \in 0 .. m /\ g[k] = f[k]
        BY <3>2
      <4>2. f[k] = IF k = 0 THEN <<>> ELSE f[k - 1] \o s[k]
        BY <2>1, <4>1 DEF Prefixing
      <4>3. k # 0 => g[k - 1] = f[k - 1]
        BY <4>1
      <4> QED BY <4>1, <4>2, <4>3
    <3> QED BY <3>1, <3>2
  <2>3. g = [k \in 0 .. m + 1 |-> g[k]]
    OBVIOUS
  <2>4. Prefixing(g, s, m + 1)
    <3> HIDE DEF g
    <3>1. [k \in 0 .. m + 1 |-> g[k]]
            = [k \in 0 .. m + 1 |-> IF k = 0 THEN <<>> ELSE g[k - 1] \o s[k]]
      BY <2>2, Zenon
    <3> QED BY <2>3, <3>1, Zenon DEF Prefixing
  <2> QED BY <2>4
<1>3. n \in T
  <2> HIDE DEF T
  <2> QED BY <1>1, <1>2, UpTo
<1> QED BY <1>3

\* What the recursion says.
LEMMA PrefixesRecur ==
    ASSUME NEW s, Len(s) \in Nat
    PROVE  /\ Prefixes(s)[0] = <<>>
           /\ \A k \in 1 .. Len(s) : Prefixes(s)[k] = Prefixes(s)[k - 1] \o s[k]
<1>1. Prefixing(Prefixes(s), s, Len(s))
  <2>1. Prefixes(s) = CHOOSE f : Prefixing(f, s, Len(s))
    BY Zenon DEF Prefixes, Prefixing
  <2> QED BY <2>1, PrefixingExists, Zenon
<1>2. \A k \in 0 .. Len(s) : Prefixes(s)[k] = IF k = 0 THEN <<>> ELSE Prefixes(s)[k - 1] \o s[k]
  BY <1>1, Zenon DEF Prefixing
<1>3. 0 \in 0 .. Len(s) /\ \A k \in 1 .. Len(s) : k \in 0 .. Len(s) /\ k # 0
  OBVIOUS
<1> QED BY <1>2, <1>3, Zenon

LEMMA Appended ==
    ASSUME NEW S, NEW a \in Seq(S), NEW b \in Seq(S), NEW c, c = a \o b
    PROVE  /\ Len(a) \in Nat /\ Len(b) \in Nat
           /\ Len(c) = Len(a) + Len(b)
           /\ \A i \in 1 .. Len(a) : c[i] = a[i]
           /\ \A i \in 1 .. Len(b) : c[Len(a) + i] = b[i]
  OBVIOUS

LEMMA PrefixesTyped ==
    ASSUME NEW S, NEW s \in Seq(Seq(S))
    PROVE  \A k \in 0 .. Len(s) : Prefixes(s)[k] \in Seq(S)
<1> DEFINE T == {k \in 0 .. Len(s) : Prefixes(s)[k] \in Seq(S)}
<1>0. Len(s) \in Nat /\ \A k \in 1 .. Len(s) : s[k] \in Seq(S)
  OBVIOUS
<1>1. 0 \in T
  <2>1. 0 \in 0 .. Len(s) /\ <<>> \in Seq(S)
    BY <1>0
  <2> QED BY <1>0, <2>1, PrefixesRecur, Zenon
<1>2. ASSUME NEW k \in 0 .. Len(s) - 1, k \in T
      PROVE  k + 1 \in T
  <2>1. k + 1 \in 1 .. Len(s) /\ (k + 1) - 1 = k
    BY <1>0
  <2>2. Prefixes(s)[k + 1] = Prefixes(s)[k] \o s[k + 1]
    BY <1>0, <2>1, PrefixesRecur
  <2>3. Prefixes(s)[k] \in Seq(S) /\ s[k + 1] \in Seq(S)
    BY <1>0, <1>2, <2>1
  <2>4. Prefixes(s)[k + 1] \in Seq(S)
    BY <2>2, <2>3
  <2> QED BY <2>1, <2>4
<1>3. \A k \in 0 .. Len(s) : k \in T
  <2> HIDE DEF T
  <2> QED BY <1>0, <1>1, <1>2, UpTo
<1> QED BY <1>3

\* m, and the number after it: a name, since Zenon does no arithmetic.
Follows(j, m) == j = m + 1

\* One step more.
LEMMA PieceAppended ==
    ASSUME NEW S, NEW s \in Seq(Seq(S)),
           NEW m \in 0 .. Len(s), NEW j \in 1 .. Len(s), Follows(j, m)
    PROVE  /\ Prefixes(s)[m] \in Seq(S) /\ Prefixes(s)[j] \in Seq(S) /\ s[j] \in Seq(S)
           /\ Prefixes(s)[j] = Prefixes(s)[m] \o s[j]
<1>1. Len(s) \in Nat
  OBVIOUS
<1>2. j \in 0 .. Len(s) /\ m = j - 1
  BY <1>1 DEF Follows
<1>3. Prefixes(s)[j] = Prefixes(s)[m] \o s[j]
  BY <1>1, <1>2, PrefixesRecur
<1> QED BY <1>2, <1>3, PrefixesTyped

\* What one piece more adds to a prefix.
Longer(S, s, p, m, j) ==
    /\ p[m] \in Seq(S) /\ p[j] \in Seq(S) /\ s[j] \in Seq(S)
    /\ Len(p[j]) = Len(p[m]) + Len(s[j])
    /\ \A i \in 1 .. Len(p[m]) : p[j][i] = p[m][i]

\* So one more of a passage's pieces lengthens the prefix and changes none of it.
LEMMA PrefixesLonger ==
    ASSUME NEW S, NEW s \in Seq(Seq(S)),
           NEW m \in 0 .. Len(s), NEW j \in 1 .. Len(s), Follows(j, m)
    PROVE  Longer(S, s, Prefixes(s), m, j)
<1>1. PICK a, b, c : a = Prefixes(s)[m] /\ b = s[j] /\ c = Prefixes(s)[j]
  OBVIOUS
<1>2. a \in Seq(S) /\ b \in Seq(S) /\ c \in Seq(S) /\ c = a \o b
  BY <1>1, PieceAppended
<1>3. /\ Len(c) = Len(a) + Len(b)
      /\ \A i \in 1 .. Len(a) : c[i] = a[i]
  BY <1>2, Appended
<1> QED BY <1>1, <1>2, <1>3, Zenon DEF Longer

\* The same with the definition of Longer written out.
LEMMA OnePieceMore ==
    ASSUME NEW S, NEW s \in Seq(Seq(S)),
           NEW m \in 0 .. Len(s), NEW j \in 1 .. Len(s), Follows(j, m)
    PROVE  /\ Prefixes(s)[m] \in Seq(S) /\ Prefixes(s)[j] \in Seq(S) /\ s[j] \in Seq(S)
           /\ Len(Prefixes(s)[j]) = Len(Prefixes(s)[m]) + Len(s[j])
           /\ \A i \in 1 .. Len(Prefixes(s)[m]) : Prefixes(s)[j][i] = Prefixes(s)[m][i]
<1>1. Longer(S, s, Prefixes(s), m, j)
  BY PrefixesLonger, Zenon
<1> QED BY <1>1, Zenon DEF Longer

\* A prefix begins every longer one.
LEMMA PrefixesGrow ==
    ASSUME NEW S, NEW s \in Seq(Seq(S)),
           NEW k \in 0 .. Len(s), NEW j \in k .. Len(s)
    PROVE  /\ Len(Prefixes(s)[k]) <= Len(Prefixes(s)[j])
           /\ \A i \in 1 .. Len(Prefixes(s)[k]) : Prefixes(s)[j][i] = Prefixes(s)[k][i]
<1> DEFINE p == Prefixes(s)
           Begins(m) == /\ Len(p[k]) <= Len(p[m])
                        /\ \A i \in 1 .. Len(p[k]) : p[m][i] = p[k][i]
           T == {m \in 0 .. Len(s) : m >= k => Begins(m)}
<1>1. \A m \in 0 .. Len(s) : p[m] \in Seq(S) /\ Len(p[m]) \in Nat
  BY PrefixesTyped
<1>2. ASSUME NEW m \in 0 .. Len(s), NEW q \in 1 .. Len(s), Follows(q, m)
      PROVE  /\ s[q] \in Seq(S)
             /\ Len(p[q]) = Len(p[m]) + Len(s[q])
             /\ \A i \in 1 .. Len(p[m]) : p[q][i] = p[m][i]
  <2>1. Longer(S, s, p, m, q)
    BY <1>2, PrefixesLonger, Zenon
  <2> QED BY <2>1, Zenon DEF Longer
<1> HIDE DEF p
<1>3. Begins(k)
  BY <1>1
<1>4. 0 \in T
  BY <1>3
<1>5. ASSUME NEW m \in 0 .. Len(s) - 1, m \in T
      PROVE  m + 1 \in T
  <2>1. PICK q \in 1 .. Len(s) : q = m + 1 /\ Follows(q, m)
    BY DEF Follows
  <2>2. m \in 0 .. Len(s) /\ q \in 0 .. Len(s) /\ k \in Nat
    BY <2>1
  <2>3. CASE q = k
    BY <1>3, <2>1, <2>2, <2>3
  <2>4. CASE q < k
    BY <2>1, <2>2, <2>4
  <2>5. CASE m >= k
    <3>1. Begins(m)
      BY <1>5, <2>5
    <3>2. /\ s[q] \in Seq(S)
          /\ Len(p[q]) = Len(p[m]) + Len(s[q])
          /\ \A i \in 1 .. Len(p[m]) : p[q][i] = p[m][i]
      BY <1>2, <2>1, <2>2, Zenon
    <3>3. Len(p[m]) \in Nat /\ Len(p[q]) \in Nat /\ Len(p[k]) \in Nat /\ Len(s[q]) \in Nat
      <4>1. p[m] \in Seq(S) /\ p[q] \in Seq(S) /\ p[k] \in Seq(S) /\ s[q] \in Seq(S)
        BY <1>1, <2>2, <3>2
      <4>2. \A x \in Seq(S) : Len(x) \in Nat
        OBVIOUS
      <4> QED BY <4>1, <4>2, Zenon
    <3>4. Len(p[k]) <= Len(p[m])
      BY <3>1
    <3>5. Len(p[k]) <= Len(p[q]) /\ \A i \in 1 .. Len(p[k]) : i \in 1 .. Len(p[m])
      <4>1. PICK a, b, c, d : a = Len(p[k]) /\ b = Len(p[m]) /\ c = Len(p[q]) /\ d = Len(s[q])
        OBVIOUS
      <4>2. a \in Nat /\ b \in Nat /\ d \in Nat /\ c = b + d /\ a <= b
        BY <3>2, <3>3, <3>4, <4>1
      <4>3. a <= c /\ \A i \in 1 .. a : i \in 1 .. b
        BY <4>2
      <4> QED BY <4>1, <4>3
    <3>6. \A i \in 1 .. Len(p[k]) : p[q][i] = p[k][i]
      BY <3>1, <3>2, <3>5, Zenon
    <3>7. Begins(q)
      BY <3>5, <3>6
    <3> HIDE DEF Begins
    <3> QED BY <2>1, <2>2, <3>7
  <2> QED BY <2>1, <2>2, <2>3, <2>4, <2>5
<1>6. \A m \in 0 .. Len(s) : m \in T
  <2> HIDE DEF T
  <2>1. Len(s) \in Nat
    OBVIOUS
  <2> QED BY <1>4, <1>5, <2>1, UpTo
<1>7. j \in 0 .. Len(s) /\ j >= k
  OBVIOUS
<1>8. Begins(j)
  BY <1>6, <1>7
<1> QED BY <1>8 DEF p

\* Where a piece is found in the whole.
LEMMA PieceOfJoined ==
    ASSUME NEW S, NEW s \in Seq(Seq(S)),
           NEW m \in 0 .. Len(s), NEW j \in 1 .. Len(s), Follows(j, m)
    PROVE  /\ Len(Prefixes(s)[j]) <= Len(Joined(s))
           /\ \A i \in 1 .. Len(s[j]) : Joined(s)[Len(Prefixes(s)[m]) + i] = s[j][i]
<1>1. PICK n \in Nat : n = Len(s)
  OBVIOUS
<1>2. PICK a, b, c, w :
          /\ a = Prefixes(s)[m] /\ b = s[j] /\ c = Prefixes(s)[j] /\ w = Prefixes(s)[n]
  OBVIOUS
<1>3. /\ a \in Seq(S) /\ b \in Seq(S) /\ c \in Seq(S)
      /\ Len(c) = Len(a) + Len(b)
      /\ \A i \in 1 .. Len(b) : c[Len(a) + i] = b[i]
  <2>1. a \in Seq(S) /\ b \in Seq(S) /\ c \in Seq(S) /\ c = a \o b
    BY <1>2, PieceAppended
  <2> QED BY <2>1, Appended
<1>4. Len(c) <= Len(w) /\ \A i \in 1 .. Len(c) : w[i] = c[i]
  <2>1. j \in 0 .. Len(s) /\ n \in j .. Len(s)
    BY <1>1
  <2> QED BY <1>2, <2>1, PrefixesGrow, Zenon
<1>5. Len(a) \in Nat /\ Len(b) \in Nat
  BY <1>3
<1>6. \A i \in 1 .. Len(b) : Len(a) + i \in 1 .. Len(c)
  BY <1>3, <1>5
<1>7. \A i \in 1 .. Len(b) : w[Len(a) + i] = b[i]
  BY <1>3, <1>4, <1>6, Zenon
<1>8. Joined(s) = w
  BY <1>1, <1>2 DEF Joined
<1> QED BY <1>2, <1>4, <1>7, <1>8, Zenon

LEMMA JoinedTyped ==
    ASSUME NEW S, NEW s \in Seq(Seq(S))
    PROVE  Joined(s) \in Seq(S)
<1>1. Len(s) \in 0 .. Len(s)
  OBVIOUS
<1> QED BY <1>1, PrefixesTyped DEF Joined

-----------------------------------------------------------------------------
(* The bytes of a character, and back.                                     *)

LEMMA TwoBytes ==
    ASSUME NEW u \in Nat, TwoByte(u)
    PROVE  /\ Bytes(u) = TwoOf(u)
           /\ \E a, b \in Nat : TwoOf(u) = <<a, b>> /\ Leads2(a) /\ UnitOfTwo(a, b) = u
<1>1. PICK a \in Nat, b \in Nat : b < 64 /\ u = 64 * a + b
  <2>1. u \div 64 \in Nat /\ u % 64 \in Nat /\ u % 64 < 64 /\ u = 64 * (u \div 64) + (u % 64)
    OBVIOUS
  <2> QED BY <2>1
<1>2. u \div 64 = a /\ u % 64 = b /\ a < 32
  BY <1>1 DEF TwoByte
<1>3. (192 + a) % 32 = a /\ (128 + b) % 64 = b
  BY <1>1, <1>2
<1>4. Bytes(u) = <<192 + a, 128 + b>> /\ TwoOf(u) = <<192 + a, 128 + b>>
  BY <1>2 DEF Bytes, TwoOf, TwoByte
<1>5. Leads2(192 + a) /\ UnitOfTwo(192 + a, 128 + b) = u
  BY <1>1, <1>2, <1>3 DEF Leads2, UnitOfTwo
<1> QED BY <1>4, <1>5

LEMMA ThreeBytes ==
    ASSUME NEW u \in Nat, Several(u), u <= 65535
    PROVE  /\ Bytes(u) = ThreeOf(u)
           /\ \E a, b, c \in Nat : ThreeOf(u) = <<a, b, c>> /\ Leads3(a) /\ UnitOfThree(a, b, c) = u
<1>1. PICK v \in Nat, c \in Nat : c < 64 /\ u = 64 * v + c
  <2>1. u \div 64 \in Nat /\ u % 64 \in Nat /\ u % 64 < 64 /\ u = 64 * (u \div 64) + (u % 64)
    OBVIOUS
  <2> QED BY <2>1
<1>2. PICK a \in Nat, b \in Nat : b < 64 /\ v = 64 * a + b
  <2>1. v \div 64 \in Nat /\ v % 64 \in Nat /\ v % 64 < 64 /\ v = 64 * (v \div 64) + (v % 64)
    OBVIOUS
  <2> QED BY <2>1
<1>3. u = 4096 * a + 64 * b + c /\ a < 16
  BY <1>1, <1>2
<1>4. u \div 64 = v /\ u % 64 = c /\ u \div 4096 = a /\ v % 64 = b
  BY <1>1, <1>2, <1>3
<1>5. (224 + a) % 16 = a /\ (128 + b) % 64 = b /\ (128 + c) % 64 = c
  BY <1>1, <1>2, <1>3
<1>6. Bytes(u) = <<224 + a, 128 + b, 128 + c>> /\ ThreeOf(u) = <<224 + a, 128 + b, 128 + c>>
  BY <1>4 DEF Bytes, ThreeOf, Several
<1>7. Leads3(224 + a) /\ UnitOfThree(224 + a, 128 + b, 128 + c) = u
  BY <1>1, <1>2, <1>3, <1>5 DEF Leads3, UnitOfThree
<1> QED BY <1>6, <1>7

LEMMA FourBytes ==
    ASSUME NEW u, NEW v, High(u), Low(v)
    PROVE  /\ Bytes(CodePoint(u, v)) = FourOf(u, v)
           /\ \E a, b, c, d \in Nat :
                  /\ FourOf(u, v) = <<a, b, c, d>>
                  /\ Leads4(a) /\ HighOf(a, b, c) = u /\ LowOf(c, d) = v
<1>1. PICK h \in Nat : h = (u % 1024) + 64 /\ u = 55296 + h - 64 /\ 64 <= h /\ h < 1088
  BY DEF High
<1>2. PICK l \in Nat : l = v % 1024 /\ v = 56320 + l /\ l < 1024
  BY DEF Low
<1>3. PICK k \in Nat, d \in Nat : d < 4 /\ h = 4 * k + d
  <2>1. h \div 4 \in Nat /\ h % 4 \in Nat /\ h % 4 < 4 /\ h = 4 * (h \div 4) + (h % 4)
    OBVIOUS
  <2> QED BY <2>1
<1>4. PICK a \in Nat, b \in Nat : b < 64 /\ k = 64 * a + b
  <2>1. k \div 64 \in Nat /\ k % 64 \in Nat /\ k % 64 < 64 /\ k = 64 * (k \div 64) + (k % 64)
    OBVIOUS
  <2> QED BY <2>1
<1>5. PICK e \in Nat, f \in Nat : f < 64 /\ l = 64 * e + f
  <2>1. l \div 64 \in Nat /\ l % 64 \in Nat /\ l % 64 < 64 /\ l = 64 * (l \div 64) + (l % 64)
    OBVIOUS
  <2> QED BY <2>1
<1>6. e < 16 /\ a < 5
  BY <1>1, <1>2, <1>3, <1>4, <1>5
<1>7. h \div 4 = k /\ h % 4 = d /\ h \div 256 = a /\ k % 64 = b /\ l \div 64 = e /\ l % 64 = f
  BY <1>3, <1>4, <1>5
<1>8. PICK m \in Nat : m = 16 * d + e /\ m < 64
  BY <1>3, <1>6
<1>9. PICK c \in Nat : c = CodePoint(u, v) /\ c >= 65536 /\ c = 4096 * k + 64 * m + f
  BY <1>1, <1>2, <1>3, <1>5, <1>8 DEF CodePoint
<1>10. c \div 4096 = k /\ c \div 64 = 64 * k + m /\ c % 64 = f
  BY <1>5, <1>8, <1>9
<1>11. c \div 262144 = a
  BY <1>4, <1>5, <1>8, <1>9
<1>12. (64 * k + m) % 64 = m
  BY <1>8
<1>13. Bytes(c) = <<240 + a, 128 + b, 128 + m, 128 + f>>
  BY <1>7, <1>9, <1>10, <1>11, <1>12 DEF Bytes
<1>14. /\ (240 + a) % 8 = a /\ (128 + b) % 64 = b /\ (128 + f) % 64 = f /\ (128 + m) % 64 = m
       /\ m \div 16 = d /\ (128 + m) % 16 = e
  BY <1>3, <1>4, <1>5, <1>6, <1>8
<1>15. 128 + d * 16 + e = 128 + m
  BY <1>8
<1>16. 55296 + a * 256 + b * 4 + d - 64 = u /\ 56320 + e * 64 + f = v
  BY <1>1, <1>2, <1>3, <1>4, <1>5
<1>17. FourOf(u, v) = <<240 + a, 128 + b, 128 + m, 128 + f>>
  BY <1>1, <1>2, <1>7, <1>15 DEF FourOf
<1>18. Leads4(240 + a) /\ HighOf(240 + a, 128 + b, 128 + m) = u /\ LowOf(128 + m, 128 + f) = v
  BY <1>6, <1>14, <1>16 DEF Leads4, HighOf, LowOf
<1> QED BY <1>5, <1>8, <1>9, <1>13, <1>17, <1>18

-----------------------------------------------------------------------------
(* The pieces of a text.                                                   *)

LEMMA LastUnitIs == LastUnit = 65535
  BY SMT DEF LastUnit

LEMMA ElementIsNat ==
    ASSUME NEW x \in Element
    PROVE  x \in Nat /\ x <= 65535 /\ x < 1114112
<1>1. PICK n \in Nat : n = LastUnit
  BY SMT DEF LastUnit
<1>2. n = 65535
  BY <1>1, LastUnitIs, SMT
<1>3. x \in 0 .. n
  BY <1>1 DEF Element
<1>4. x \in Nat /\ x <= n
  BY <1>3
<1> QED BY <1>2, <1>4, SMT

LEMMA UpToLastUnit ==
    ASSUME NEW n \in Nat, NEW x \in Nat, x <= n, n = LastUnit
    PROVE  x \in Element
<1>1. x \in 0 .. n
  OBVIOUS
<1> QED BY <1>1 DEF Element

LEMMA NatIsElement ==
    ASSUME NEW x \in Nat, x <= 65535
    PROVE  x \in Element
<1>1. PICK n \in Nat : n = LastUnit
  BY SMT DEF LastUnit
<1>2. n = 65535
  BY <1>1, LastUnitIs, SMT
<1>3. x <= n
  BY <1>2, SMT
<1> QED BY <1>1, <1>3, UpToLastUnit

LEMMA Surrogates ==
    ASSUME NEW u
    PROVE  /\ High(u) => u \in Nat /\ 55296 <= u /\ u <= 56319
           /\ Low(u)  => u \in Nat /\ 56320 <= u /\ u <= 57343
<1>1. ASSUME High(u)
      PROVE  u \in Nat /\ 55296 <= u /\ u <= 56319
  BY <1>1, SMT DEF High
<1>2. ASSUME Low(u)
      PROVE  u \in Nat /\ 56320 <= u /\ u <= 57343
  BY <1>2, SMT DEF Low
<1> QED BY <1>1, <1>2

\* No character has more than four bytes.
LEMMA BytesTyped ==
    ASSUME NEW c \in Nat, c < 1114112
    PROVE  Bytes(c) \in Seq(Element) /\ Len(Bytes(c)) \in Nat /\ Len(Bytes(c)) > 0
<1>1. /\ c % 64 \in Element /\ 128 + (c % 64) \in Element
      /\ (c \div 64) % 64 \in Element /\ 128 + ((c \div 64) % 64) \in Element
      /\ 128 + ((c \div 4096) % 64) \in Element
      /\ 240 + c \div 262144 \in Element
  <2>1. /\ c % 64 \in Nat /\ c % 64 < 64
        /\ c \div 64 \in Nat /\ c \div 4096 \in Nat
    OBVIOUS
  <2>2. /\ (c \div 64) % 64 \in Nat /\ (c \div 64) % 64 < 64
        /\ (c \div 4096) % 64 \in Nat /\ (c \div 4096) % 64 < 64
    BY <2>1
  <2>3. c \div 262144 \in Nat /\ c \div 262144 < 5
    OBVIOUS
  <2> QED BY <2>1, <2>2, <2>3, NatIsElement, SMT
<1>2. CASE c < 128
  <2>1. c \in Element
    BY <1>2, NatIsElement, SMT
  <2> QED BY <1>2, <2>1 DEF Bytes
<1>3. CASE 128 <= c /\ c < 2048
  <2>1. 192 + c \div 64 \in Element
    BY <1>3, NatIsElement, SMT
  <2> QED BY <1>1, <1>3, <2>1 DEF Bytes
<1>4. CASE 2048 <= c /\ c < 65536
  <2>1. 224 + c \div 4096 \in Element
    BY <1>4, NatIsElement, SMT
  <2> QED BY <1>1, <1>4, <2>1 DEF Bytes
<1>5. CASE 65536 <= c
  BY <1>1, <1>5 DEF Bytes
<1> QED BY <1>2, <1>3, <1>4, <1>5

LEMMA JavaPieces ==
    ASSUME NEW t \in Seq(Element)
    PROVE  /\ JavaUnits(t) \in Seq(Seq(Element)) /\ Len(JavaUnits(t)) = Len(t)
           /\ \A k \in 1 .. Len(t) :
                  /\ JavaUnits(t)[k] = IF t[k] = 0 THEN <<192, 128>> ELSE Bytes(t[k])
                  /\ Len(JavaUnits(t)[k]) \in Nat /\ Len(JavaUnits(t)[k]) > 0
<1>1. ASSUME NEW k \in 1 .. Len(t)
      PROVE  /\ JavaUnits(t)[k] = IF t[k] = 0 THEN <<192, 128>> ELSE Bytes(t[k])
             /\ JavaUnits(t)[k] \in Seq(Element)
             /\ Len(JavaUnits(t)[k]) \in Nat /\ Len(JavaUnits(t)[k]) > 0
  <2>1. JavaUnits(t)[k] = IF t[k] = 0 THEN <<192, 128>> ELSE Bytes(t[k])
    BY DEF JavaUnits
  <2>2. t[k] \in Element
    OBVIOUS
  <2>3. t[k] \in Nat /\ t[k] < 1114112 /\ 192 \in Element /\ 128 \in Element
    BY <2>2, ElementIsNat, NatIsElement, SMT
  <2>4. Bytes(t[k]) \in Seq(Element) /\ Len(Bytes(t[k])) \in Nat /\ Len(Bytes(t[k])) > 0
    BY <2>3, BytesTyped
  <2>5. <<192, 128>> \in Seq(Element) /\ Len(<<192, 128>>) = 2
    BY <2>3
  <2> QED BY <2>1, <2>4, <2>5
<1>2. Len(t) \in Nat /\ DOMAIN JavaUnits(t) = 1 .. Len(t) /\ JavaUnits(t) = [k \in 1 .. Len(t) |-> JavaUnits(t)[k]]
  BY DEF JavaUnits
<1>3. JavaUnits(t) \in [1 .. Len(t) -> Seq(Element)]
  BY <1>1, <1>2
<1> QED BY <1>1, <1>2, <1>3

LEMMA CharacterPieces ==
    ASSUME NEW t \in Seq(Element), WellFormed(t)
    PROVE  /\ Characters(t) \in Seq(Seq(Element)) /\ Len(Characters(t)) = Len(t)
           /\ \A k \in 1 .. Len(t) :
                  /\ Characters(t)[k] = IF Low(t[k]) THEN <<>>
                                        ELSE IF High(t[k]) THEN Bytes(CodePoint(t[k], t[k + 1]))
                                        ELSE Bytes(t[k])
                  /\ ~Low(t[k]) => Len(Characters(t)[k]) \in Nat /\ Len(Characters(t)[k]) > 0
<1>1. ASSUME NEW k \in 1 .. Len(t)
      PROVE  /\ Characters(t)[k] = IF Low(t[k]) THEN <<>>
                                        ELSE IF High(t[k]) THEN Bytes(CodePoint(t[k], t[k + 1]))
                                        ELSE Bytes(t[k])
             /\ Characters(t)[k] \in Seq(Element)
             /\ ~Low(t[k]) => Len(Characters(t)[k]) \in Nat /\ Len(Characters(t)[k]) > 0
  <2>1. Characters(t)[k] = IF Low(t[k]) THEN <<>>
                           ELSE IF High(t[k]) THEN Bytes(CodePoint(t[k], t[k + 1]))
                           ELSE Bytes(t[k])
    BY DEF Characters
  <2>2. t[k] \in Element
    OBVIOUS
  <2>3. t[k] \in Nat /\ t[k] < 1114112
    BY <2>2, ElementIsNat, SMT
  <2>4. CASE Low(t[k])
    BY <2>1, <2>4
  <2>5. CASE ~Low(t[k]) /\ High(t[k])
    <3>1. Low(t[k + 1])
      BY <2>5 DEF WellFormed
    <3>2. PICK u, v : u = t[k] /\ v = t[k + 1]
      OBVIOUS
    <3>3. High(u) /\ Low(v)
      BY <2>5, <3>1, <3>2
    <3>4. PICK c \in Nat : c = CodePoint(u, v) /\ c < 1114112
      <4>1. u \in Nat /\ 55296 <= u /\ u <= 56319
        BY <3>3, Surrogates
      <4>2. v \in Nat /\ 56320 <= v /\ v <= 57343
        BY <3>3, Surrogates
      <4>3. CodePoint(u, v) = 65536 + (u - 55296) * 1024 + (v - 56320)
        BY DEF CodePoint
      <4> QED BY <4>1, <4>2, <4>3, SMT
    <3>5. Characters(t)[k] = Bytes(c)
      BY <2>1, <2>5, <3>2, <3>4
    <3>6. Bytes(c) \in Seq(Element) /\ Len(Bytes(c)) \in Nat /\ Len(Bytes(c)) > 0
      BY <3>4, BytesTyped
    <3> QED BY <2>1, <3>5, <3>6
  <2>6. CASE ~Low(t[k]) /\ ~High(t[k])
    BY <2>1, <2>3, <2>6, BytesTyped
  <2> QED BY <2>1, <2>4, <2>5, <2>6
<1>2. Len(t) \in Nat /\ DOMAIN Characters(t) = 1 .. Len(t) /\ Characters(t) = [k \in 1 .. Len(t) |-> Characters(t)[k]]
  BY DEF Characters
<1>3. Characters(t) \in [1 .. Len(t) -> Seq(Element)]
  BY <1>1, <1>2
<1> QED BY <1>1, <1>2, <1>3

-----------------------------------------------------------------------------
\* What is left of a text at its first 0 is a part of it.
LEMMA CutIsPart ==
    ASSUME NEW S, NEW t \in Seq(S)
    PROVE  Cut(t) \in Seq(S)
<1> DEFINE P(n) == (\A k \in 1 .. n : t[k] # 0) /\ (n < Len(t) => t[n + 1] = 0)
           T == {n \in Nat : n < Len(t) => t[n + 1] = 0}
<1>1. Len(t) \in Nat
  OBVIOUS
<1>2. T \in SUBSET Nat /\ Len(t) \in T
  BY <1>1
<1>3. PICK m \in T : \A k \in Nat : k < m => k \notin T
  <2> HIDE DEF T
  <2> QED BY <1>2, Least
<1>4. m \in 0 .. Len(t)
  <2>1. ~(Len(t) < m)
    BY <1>1, <1>2, <1>3
  <2> QED BY <1>1, <1>3, <2>1
<1>5. ASSUME NEW k \in 1 .. m
      PROVE  t[k] # 0
  <2>1. k - 1 \in Nat /\ k - 1 < m /\ (k - 1) + 1 = k
    BY <1>4
  <2>2. k - 1 \notin T
    BY <1>3, <2>1
  <2> QED BY <2>1, <2>2
<1>6. P(m)
  BY <1>3, <1>5
<1>7. PICK n \in 0 .. Len(t) : n = CHOOSE i \in 0 .. Len(t) : P(i)
  <2> HIDE DEF P
  <2> QED BY <1>4, <1>6, Zenon
<1>8. Cut(t) = SubSeq(t, 1, n)
  BY <1>7, Zenon DEF Cut
<1> QED BY <1>8
-----------------------------------------------------------------------------
(* What a turn puts into the buffer.                                       *)

LEMMA Octets ==
    ASSUME NEW x \in Nat, x <= 255
    PROVE  x \in Byte
  BY DEF Byte

LEMMA BytesAreNat ==
    ASSUME NEW x \in Byte
    PROVE  x \in Nat
  BY DEF Byte

LEMMA OneByteTyped ==
    ASSUME NEW u \in Nat, OneByte(u)
    PROVE  <<u>> \in [1 .. 1 -> Byte] /\ Len(<<u>>) = 1
<1>1. u \in Byte
  BY Octets DEF OneByte
<1> QED BY <1>1

LEMMA TwoOfTyped ==
    ASSUME NEW u \in Nat, TwoByte(u)
    PROVE  TwoOf(u) \in [1 .. 2 -> Byte] /\ Len(TwoOf(u)) = 2
<1>1. PICK a, b : a = 192 + u \div 64 /\ b = 128 + (u % 64)
  OBVIOUS
<1>2. a \in Nat /\ a <= 255 /\ b \in Nat /\ b <= 255
  BY <1>1 DEF TwoByte
<1>3. a \in Byte /\ b \in Byte
  BY <1>2, Octets
<1>4. TwoOf(u) = <<a, b>>
  BY <1>1 DEF TwoOf
<1> QED BY <1>3, <1>4

LEMMA ThreeOfTyped ==
    ASSUME NEW u \in Nat, u <= 65535
    PROVE  ThreeOf(u) \in [1 .. 3 -> Byte] /\ Len(ThreeOf(u)) = 3
<1>1. PICK a, b, c : a = 224 + u \div 4096 /\ b = 128 + ((u \div 64) % 64) /\ c = 128 + (u % 64)
  OBVIOUS
<1>2. PICK v \in Nat : v = u \div 64
  OBVIOUS
<1>3. a \in Nat /\ a <= 255 /\ b \in Nat /\ b <= 255 /\ c \in Nat /\ c <= 255
  BY <1>1, <1>2
<1>4. a \in Byte /\ b \in Byte /\ c \in Byte
  BY <1>3, Octets
<1>5. ThreeOf(u) = <<a, b, c>>
  BY <1>1 DEF ThreeOf
<1> QED BY <1>4, <1>5

LEMMA FourOfTyped ==
    ASSUME NEW u \in Nat, NEW v \in Nat
    PROVE  FourOf(u, v) \in [1 .. 4 -> Byte] /\ Len(FourOf(u, v)) = 4
<1>1. PICK h \in Nat, l \in Nat : h = (u % 1024) + 64 /\ l = v % 1024 /\ h < 1088 /\ l < 1024
  OBVIOUS
<1>2. PICK h4 \in Nat, m4 \in Nat, l64 \in Nat :
          h4 = h \div 4 /\ m4 = h % 4 /\ l64 = l \div 64 /\ m4 < 4 /\ l64 < 16
  BY <1>1
<1>3. PICK a, b, c, d :
          /\ a = 240 + h \div 256 /\ b = 128 + (h4 % 64)
          /\ c = 128 + m4 * 16 + l64 /\ d = 128 + (l % 64)
  OBVIOUS
<1>4. a \in Nat /\ a <= 255
  BY <1>1, <1>3
<1>5. b \in Nat /\ b <= 255 /\ c \in Nat /\ c <= 255 /\ d \in Nat /\ d <= 255
  BY <1>2, <1>3
<1>6. a \in Byte /\ b \in Byte /\ c \in Byte /\ d \in Byte
  BY <1>4, <1>5, Octets
<1>7. FourOf(u, v) = <<a, b, c, d>>
  BY <1>1, <1>2, <1>3 DEF FourOf
<1> QED BY <1>6, <1>7

\* The units of a turn towards the application are units, whatever the bytes.
LEMMA ReceivedTyped ==
    ASSUME NEW a \in Nat, NEW b \in Nat, NEW c \in Nat, NEW d \in Nat
    PROVE  /\ OneByte(a) => a \in Element
           /\ UnitOfTwo(a, b) \in Element
           /\ UnitOfThree(a, b, c) \in Element
           /\ HighOf(a, b, c) \in Element
           /\ LowOf(c, d) \in Element
<1>1. PICK a8 \in Nat, a16 \in Nat, a32 \in Nat :
          a8 = a % 8 /\ a16 = a % 16 /\ a32 = a % 32 /\ a8 < 8 /\ a16 < 16 /\ a32 < 32
  OBVIOUS
<1>2. PICK b64 \in Nat, c64 \in Nat, d64 \in Nat :
          b64 = b % 64 /\ c64 = c % 64 /\ d64 = d % 64 /\ b64 < 64 /\ c64 < 64 /\ d64 < 64
  OBVIOUS
<1>3. PICK c16 \in Nat, e \in Nat : c16 = c % 16 /\ c16 < 16 /\ e = c64 \div 16 /\ e < 4
  BY <1>2
<1>4. OneByte(a) => a \in Element
  BY NatIsElement DEF OneByte
<1>5. UnitOfTwo(a, b) \in Element
  <2>1. PICK x \in Nat : x = a32 * 64 + b64 /\ x <= 65535
    BY <1>1, <1>2, SMT
  <2>2. UnitOfTwo(a, b) = x
    BY <1>1, <1>2, <2>1 DEF UnitOfTwo
  <2> QED BY <2>1, <2>2, NatIsElement, SMT
<1>6. UnitOfThree(a, b, c) \in Element
  <2>1. PICK x \in Nat : x = a16 * 4096 + b64 * 64 + c64 /\ x <= 65535
    BY <1>1, <1>2, SMT
  <2>2. UnitOfThree(a, b, c) = x
    BY <1>1, <1>2, <2>1 DEF UnitOfThree
  <2> QED BY <2>1, <2>2, NatIsElement, SMT
<1>7. HighOf(a, b, c) \in Element
  <2>1. PICK x \in Nat : x = 55296 + a8 * 256 + b64 * 4 + e - 64 /\ x <= 65535
    BY <1>1, <1>2, <1>3, SMT
  <2>2. HighOf(a, b, c) = x
    BY <1>1, <1>2, <1>3, <2>1, SMT DEF HighOf
  <2> QED BY <2>1, <2>2, NatIsElement, SMT
<1>8. LowOf(c, d) \in Element
  <2>1. PICK x \in Nat : x = 56320 + c16 * 64 + d64 /\ x <= 65535
    BY <1>2, <1>3, SMT
  <2>2. LowOf(c, d) = x
    BY <1>2, <1>3, <2>1, SMT DEF LowOf
  <2> QED BY <2>1, <2>2, NatIsElement, SMT
<1> QED BY <1>4, <1>5, <1>6, <1>7, <1>8

-----------------------------------------------------------------------------
(* UTF-8 tells texts apart.                                                *)

\* A name, since Zenon does not take large numbers.
IsCodePoint(c) == c < 1114112

\* The digits of a character, and its bytes in terms of these.
Digits(c, a, b, e, f) ==
    /\ a < 5 /\ b < 64 /\ e < 64 /\ f < 64
    /\ c = 262144 * a + 4096 * b + 64 * e + f

Spells1(p, c)          == c < 128 => p = <<c>>
Spells2(p, c, e, f)    == 128 <= c /\ c < 2048 => p = <<192 + e, 128 + f>>
Spells3(p, c, b, e, f) == 2048 <= c /\ c < 65536 => p = <<224 + b, 128 + e, 128 + f>>
Spells4(p, c, a, b, e, f) == 65536 <= c => p = <<240 + a, 128 + b, 128 + e, 128 + f>>

Spells(p, c, a, b, e, f) ==
    Spells1(p, c) /\ Spells2(p, c, e, f) /\ Spells3(p, c, b, e, f) /\ Spells4(p, c, a, b, e, f)

LEMMA CharacterSpelled ==
    ASSUME NEW c \in Nat, IsCodePoint(c)
    PROVE  \E a, b, e, f \in Nat : Digits(c, a, b, e, f) /\ Spells(Bytes(c), c, a, b, e, f)
<1>1. PICK v \in Nat, f \in Nat : f < 64 /\ c = 64 * v + f /\ c \div 64 = v /\ c % 64 = f
  <2>1. c \div 64 \in Nat /\ c % 64 \in Nat /\ c % 64 < 64 /\ c = 64 * (c \div 64) + (c % 64)
    BY SMT
  <2> QED BY <2>1, SMT
<1>2. PICK w \in Nat, e \in Nat : e < 64 /\ v = 64 * w + e /\ v % 64 = e
  <2>1. v \div 64 \in Nat /\ v % 64 \in Nat /\ v % 64 < 64 /\ v = 64 * (v \div 64) + (v % 64)
    BY SMT
  <2> QED BY <2>1, SMT
<1>3. PICK a \in Nat, b \in Nat : b < 64 /\ w = 64 * a + b /\ w % 64 = b
  <2>1. w \div 64 \in Nat /\ w % 64 \in Nat /\ w % 64 < 64 /\ w = 64 * (w \div 64) + (w % 64)
    BY SMT
  <2> QED BY <2>1, SMT
<1>4. c = 4096 * w + 64 * e + f /\ c = 262144 * a + 4096 * b + 64 * e + f
  BY <1>1, <1>2, <1>3, SMT
<1>5. c \div 4096 = w /\ c \div 262144 = a /\ a < 5
  BY <1>1, <1>2, <1>3, <1>4, SMT DEF IsCodePoint
<1>6. Digits(c, a, b, e, f)
  BY <1>1, <1>2, <1>3, <1>4, <1>5, SMT DEF Digits
<1>7. Spells1(Bytes(c), c)
  BY SMT DEF Bytes, Spells1
<1>8. Spells2(Bytes(c), c, e, f)
  <2>1. ASSUME 128 <= c, c < 2048
        PROVE  v = e
    BY <1>1, <1>2, <2>1, SMT
  <2>2. ASSUME 128 <= c, c < 2048
        PROVE  Bytes(c) = <<192 + c \div 64, 128 + (c % 64)>>
    BY <2>2, SMT DEF Bytes
  <2> QED BY <1>1, <2>1, <2>2, SMT DEF Spells2
<1>9. Spells3(Bytes(c), c, b, e, f)
  <2>1. ASSUME 2048 <= c, c < 65536
        PROVE  w = b
    BY <1>2, <1>3, <1>4, <2>1, SMT
  <2>2. ASSUME 2048 <= c, c < 65536
        PROVE  Bytes(c) = <<224 + c \div 4096, 128 + ((c \div 64) % 64), 128 + (c % 64)>>
    BY <2>2, SMT DEF Bytes
  <2> QED BY <1>1, <1>2, <1>5, <2>1, <2>2, SMT DEF Spells3
<1>10. Spells4(Bytes(c), c, a, b, e, f)
  <2>1. ASSUME 65536 <= c
        PROVE  Bytes(c) = <<240 + c \div 262144, 128 + ((c \div 4096) % 64),
                            128 + ((c \div 64) % 64), 128 + (c % 64)>>
    BY <2>1, SMT DEF Bytes
  <2> QED BY <1>1, <1>2, <1>3, <1>5, <2>1, SMT DEF Spells4
<1> QED BY <1>6, <1>7, <1>8, <1>9, <1>10, Zenon DEF Spells

\* What begins with a sequence.
Begins(w, p) == \A i \in 1 .. Len(p) : w[i] = p[i]

\* The first four elements of what begins with a character.
Found(w1, w2, w3, w4, c, a, b, e, f) ==
    /\ c < 128 => w1 = c
    /\ 128 <= c /\ c < 2048 => w1 = 192 + e /\ w2 = 128 + f
    /\ 2048 <= c /\ c < 65536 => w1 = 224 + b /\ w2 = 128 + e /\ w3 = 128 + f
    /\ 65536 <= c => w1 = 240 + a /\ w2 = 128 + b /\ w3 = 128 + e /\ w4 = 128 + f

LEMMA CharacterFound ==
    ASSUME NEW c \in Nat, IsCodePoint(c), NEW w, Begins(w, Bytes(c))
    PROVE  \E a, b, e, f \in Nat : Digits(c, a, b, e, f) /\ Found(w[1], w[2], w[3], w[4], c, a, b, e, f)
<1>1. PICK a, b, e, f \in Nat : Digits(c, a, b, e, f) /\ Spells(Bytes(c), c, a, b, e, f)
  BY CharacterSpelled, Zenon
<1>2. PICK p : p = Bytes(c)
  BY Zenon
<1>3. Spells1(p, c) /\ Spells2(p, c, e, f) /\ Spells3(p, c, b, e, f) /\ Spells4(p, c, a, b, e, f)
  BY <1>1, <1>2, Zenon DEF Spells
<1>4. Begins(w, p)
  BY <1>2, Zenon
<1>5. c < 128 => w[1] = c
  BY <1>3, <1>4, SMT DEF Spells1, Begins
<1>6. ASSUME 128 <= c, c < 2048
      PROVE  w[1] = 192 + e /\ w[2] = 128 + f
  <2>1. p = <<192 + e, 128 + f>>
    BY <1>3, <1>6, SMT DEF Spells2
  <2> QED BY <1>4, <2>1, SMT DEF Begins
<1>7. ASSUME 2048 <= c, c < 65536
      PROVE  w[1] = 224 + b /\ w[2] = 128 + e /\ w[3] = 128 + f
  <2>1. p = <<224 + b, 128 + e, 128 + f>>
    BY <1>3, <1>7, SMT DEF Spells3
  <2> QED BY <1>4, <2>1, SMT DEF Begins
<1>8. ASSUME 65536 <= c
      PROVE  w[1] = 240 + a /\ w[2] = 128 + b /\ w[3] = 128 + e /\ w[4] = 128 + f
  <2>1. p = <<240 + a, 128 + b, 128 + e, 128 + f>>
    BY <1>3, <1>8, SMT DEF Spells4
  <2> QED BY <1>4, <2>1, SMT DEF Begins
<1>9. Found(w[1], w[2], w[3], w[4], c, a, b, e, f)
  BY <1>5, <1>6, <1>7, <1>8, SMT DEF Found
<1> QED BY <1>1, <1>9, Zenon

\* The bytes of one character do not begin with those of another: what is read at
\* one place is one character.
LEMMA OneCharacter ==
    ASSUME NEW c \in Nat, IsCodePoint(c), NEW d \in Nat, IsCodePoint(d), NEW w,
           Begins(w, Bytes(c)), Begins(w, Bytes(d))
    PROVE  c = d
<1>1. PICK a1, b1, e1, f1 \in Nat :
          Digits(c, a1, b1, e1, f1) /\ Found(w[1], w[2], w[3], w[4], c, a1, b1, e1, f1)
  BY CharacterFound, Zenon
<1>2. PICK a2, b2, e2, f2 \in Nat :
          Digits(d, a2, b2, e2, f2) /\ Found(w[1], w[2], w[3], w[4], d, a2, b2, e2, f2)
  BY CharacterFound, Zenon
<1>3. PICK w1, w2, w3, w4 : w1 = w[1] /\ w2 = w[2] /\ w3 = w[3] /\ w4 = w[4]
  BY Zenon
<1>4. Found(w1, w2, w3, w4, c, a1, b1, e1, f1) /\ Found(w1, w2, w3, w4, d, a2, b2, e2, f2)
  BY <1>1, <1>2, <1>3, Zenon
<1>5. /\ a1 < 5 /\ b1 < 64 /\ e1 < 64 /\ f1 < 64 /\ c = 262144 * a1 + 4096 * b1 + 64 * e1 + f1
      /\ a2 < 5 /\ b2 < 64 /\ e2 < 64 /\ f2 < 64 /\ d = 262144 * a2 + 4096 * b2 + 64 * e2 + f2
  BY <1>1, <1>2, SMT DEF Digits
<1>6. /\ 128 <= c /\ c < 2048 => a1 = 0 /\ b1 = 0 /\ e1 < 32
      /\ 2048 <= c /\ c < 65536 => a1 = 0 /\ b1 < 16
      /\ 128 <= d /\ d < 2048 => a2 = 0 /\ b2 = 0 /\ e2 < 32
      /\ 2048 <= d /\ d < 65536 => a2 = 0 /\ b2 < 16
  BY <1>5, SMT
<1> QED BY <1>4, <1>5, <1>6, SMT DEF Found

\* The sequences up to the m-th are all that a prefix depends on.
LEMMA PrefixesAgree ==
    ASSUME NEW S, NEW s \in Seq(Seq(S)), NEW t \in Seq(Seq(S)),
           NEW m \in Nat, m <= Len(s), m <= Len(t),
           \A i \in 1 .. m : s[i] = t[i]
    PROVE  Prefixes(s)[m] = Prefixes(t)[m]
<1> DEFINE T == {k \in 0 .. m : Prefixes(s)[k] = Prefixes(t)[k]}
<1>1. Len(s) \in Nat /\ Len(t) \in Nat
  OBVIOUS
<1>2. 0 \in T
  <2>1. 0 \in 0 .. m
    OBVIOUS
  <2>2. Prefixes(s)[0] = <<>> /\ Prefixes(t)[0] = <<>>
    BY <1>1, PrefixesRecur, Zenon
  <2> QED BY <2>1, <2>2, Zenon
<1>3. ASSUME NEW k \in 0 .. m - 1, k \in T
      PROVE  k + 1 \in T
  <2>1. k + 1 \in 1 .. m /\ k + 1 \in 0 .. m /\ k + 1 \in 1 .. Len(s) /\ k + 1 \in 1 .. Len(t)
    BY <1>1
  <2>2. (k + 1) - 1 = k
    OBVIOUS
  <2>3. Prefixes(s)[k + 1] = Prefixes(s)[k] \o s[k + 1] /\ Prefixes(t)[k + 1] = Prefixes(t)[k] \o t[k + 1]
    BY <1>1, <2>1, <2>2, PrefixesRecur
  <2>4. s[k + 1] = t[k + 1] /\ Prefixes(s)[k] = Prefixes(t)[k]
    BY <1>3, <2>1
  <2> QED BY <2>1, <2>3, <2>4
<1>4. \A k \in 0 .. m : k \in T
  <2> HIDE DEF T
  <2> QED BY <1>2, <1>3, UpTo
<1> QED BY <1>4

\* The character that begins at n.
LEMMA CharacterAt ==
    ASSUME NEW t \in Seq(Element), WellFormed(t), NEW n \in 1 .. Len(t), ~Low(t[n])
    PROVE  \E c \in Nat :
               /\ IsCodePoint(c) /\ Characters(t)[n] = Bytes(c)
               /\ \/ High(t[n]) /\ Low(t[n + 1]) /\ c = CodePoint(t[n], t[n + 1])
                  \/ ~High(t[n]) /\ c = t[n] /\ t[n] \in Element
<1>1. t[n] \in Element /\ (High(t[n]) => Low(t[n + 1]))
  BY DEF WellFormed
<1>2. Characters(t)[n] = IF High(t[n]) THEN Bytes(CodePoint(t[n], t[n + 1])) ELSE Bytes(t[n])
  BY CharacterPieces
<1>3. CASE High(t[n])
  <2>1. PICK u, v : u = t[n] /\ v = t[n + 1]
    OBVIOUS
  <2>2. u \in Nat /\ 55296 <= u /\ u <= 56319 /\ v \in Nat /\ 56320 <= v /\ v <= 57343
    BY <1>1, <1>3, <2>1, Surrogates
  <2>3. CodePoint(u, v) \in Nat /\ IsCodePoint(CodePoint(u, v))
    BY <2>2, SMT DEF CodePoint, IsCodePoint
  <2> QED BY <1>1, <1>2, <1>3, <2>1, <2>3, Zenon
<1>4. CASE ~High(t[n])
  <2>1. t[n] \in Nat /\ IsCodePoint(t[n])
    BY <1>1, ElementIsNat, SMT DEF IsCodePoint
  <2> QED BY <1>1, <1>2, <1>4, <2>1, Zenon
<1> QED BY <1>3, <1>4

LEMMA SameCodePoint ==
    ASSUME NEW u, NEW v, NEW x, NEW y, High(u), Low(v), High(x), Low(y),
           CodePoint(u, v) = CodePoint(x, y)
    PROVE  u = x /\ v = y
<1>1. /\ u \in Nat /\ 55296 <= u /\ u <= 56319 /\ v \in Nat /\ 56320 <= v /\ v <= 57343
      /\ x \in Nat /\ 55296 <= x /\ x <= 56319 /\ y \in Nat /\ 56320 <= y /\ y <= 57343
  BY Surrogates
<1> QED BY <1>1, SMT DEF CodePoint

LEMMA PairIsNoUnit ==
    ASSUME NEW u, NEW v, High(u), Low(v), NEW x \in Element
    PROVE  CodePoint(u, v) # x
<1>1. u \in Nat /\ 55296 <= u /\ v \in Nat /\ 56320 <= v /\ x \in Nat /\ x <= 65535
  BY Surrogates, ElementIsNat
<1> QED BY <1>1, SMT DEF CodePoint

\* Two texts are the same up to k, and up to the end of the character there.
SameUpTo(s, t, k) ==
    /\ k <= Len(t)
    /\ \A i \in 1 .. k : s[i] = t[i]
    /\ k > 0 /\ High(s[k]) => s[k + 1] = t[k + 1]

LEMMA SameCharacters ==
    ASSUME NEW s \in Seq(Element), NEW t \in Seq(Element), WellFormed(s), WellFormed(t),
           NEW k \in 0 .. Len(s), SameUpTo(s, t, k)
    PROVE  Prefixes(Characters(s))[k] = Prefixes(Characters(t))[k]
<1>1. PICK C, D : C = Characters(s) /\ D = Characters(t)
  OBVIOUS
<1>2. /\ C \in Seq(Seq(Element)) /\ D \in Seq(Seq(Element))
      /\ Len(C) = Len(s) /\ Len(D) = Len(t) /\ Len(s) \in Nat /\ Len(t) \in Nat
  BY <1>1, CharacterPieces
<1>3. ASSUME NEW i \in 1 .. k
      PROVE  C[i] = D[i]
  <2>1. i \in 1 .. Len(s) /\ i \in 1 .. Len(t) /\ s[i] = t[i]
    BY <1>2 DEF SameUpTo
  <2>2. High(s[i]) => s[i + 1] = t[i + 1]
    <3>1. CASE i = k
      BY <3>1 DEF SameUpTo
    <3>2. CASE i < k
      <4>1. i + 1 \in 1 .. k
        BY <3>2
      <4> QED BY <4>1 DEF SameUpTo
    <3> QED BY <3>1, <3>2
  <2>3. /\ C[i] = IF Low(s[i]) THEN <<>>
                  ELSE IF High(s[i]) THEN Bytes(CodePoint(s[i], s[i + 1])) ELSE Bytes(s[i])
        /\ D[i] = IF Low(t[i]) THEN <<>>
                  ELSE IF High(t[i]) THEN Bytes(CodePoint(t[i], t[i + 1])) ELSE Bytes(t[i])
    BY <1>1, <2>1, CharacterPieces
  <2>4. CASE Low(s[i])
    BY <2>1, <2>3, <2>4
  <2>5. CASE ~Low(s[i]) /\ High(s[i])
    BY <2>1, <2>2, <2>3, <2>5
  <2>6. CASE ~Low(s[i]) /\ ~High(s[i])
    BY <2>1, <2>3, <2>6
  <2> QED BY <2>4, <2>5, <2>6
<1>4. k \in Nat /\ k <= Len(C) /\ k <= Len(D)
  BY <1>2 DEF SameUpTo
<1>5. Prefixes(C)[k] = Prefixes(D)[k]
  BY <1>2, <1>3, <1>4, PrefixesAgree
<1> QED BY <1>1, <1>5

\* A piece, read from where it begins in the whole.
LEMMA PieceBegins ==
    ASSUME NEW S, NEW s \in Seq(Seq(S)), NEW m \in 0 .. Len(s), NEW j \in 1 .. Len(s), Follows(j, m),
           NEW o \in Nat, o = Len(Prefixes(s)[m])
    PROVE  /\ Begins([i \in Nat |-> Joined(s)[o + i]], s[j])
           /\ o + Len(s[j]) <= Len(Joined(s))
<1>1. \A i \in 1 .. Len(s[j]) : Joined(s)[o + i] = s[j][i]
  BY PieceOfJoined
<1>2. Len(Prefixes(s)[j]) <= Len(Joined(s)) /\ Len(Prefixes(s)[j]) = o + Len(s[j]) /\ s[j] \in Seq(S)
  BY PieceOfJoined, OnePieceMore
<1>3. Begins([i \in Nat |-> Joined(s)[o + i]], s[j])
  <2>1. \A i \in 1 .. Len(s[j]) : i \in Nat
    OBVIOUS
  <2> QED BY <1>1, <2>1, Zenon DEF Begins
<1> QED BY <1>2, <1>3

LEMMA SameFurther ==
    ASSUME NEW s \in Seq(Element), NEW t \in Seq(Element), WellFormed(s), WellFormed(t),
           Utf8(s) = Utf8(t),
           NEW k \in 0 .. Len(s) - 1, SameUpTo(s, t, k)
    PROVE  SameUpTo(s, t, k + 1)
<1>1. PICK n \in 1 .. Len(s) : n = k + 1 /\ Follows(n, k) /\ n - 1 = k /\ k \in 0 .. Len(s)
  BY DEF Follows
<1>2. SUFFICES /\ n <= Len(t) /\ s[n] = t[n]
               /\ High(s[n]) => s[n + 1] = t[n + 1]
  <2>1. \A i \in 1 .. n : i = n \/ i \in 1 .. k
    BY <1>1
  <2>2. \A i \in 1 .. k : s[i] = t[i]
    BY DEF SameUpTo
  <2>3. ASSUME n <= Len(t), s[n] = t[n], High(s[n]) => s[n + 1] = t[n + 1]
        PROVE  SameUpTo(s, t, n)
    <3>1. \A i \in 1 .. n : s[i] = t[i]
      BY <2>1, <2>2, <2>3
    <3> QED BY <2>3, <3>1 DEF SameUpTo
  <2> QED BY <1>1, <2>3
<1>3. Len(s) \in Nat /\ Len(t) \in Nat /\ k \in 0 .. Len(t)
  BY DEF SameUpTo
<1>4. CASE Low(s[n])
  <2>1. n > 1 /\ High(s[k])
    BY <1>1, <1>4 DEF WellFormed
  <2>2. s[k] = t[k] /\ s[n] = t[n] /\ k \in 1 .. Len(t)
    BY <1>1, <1>3, <2>1 DEF SameUpTo
  <2>3. n <= Len(t)
    BY <1>1, <1>3, <2>1, <2>2 DEF WellFormed
  <2>4. ~High(s[n])
    BY <1>4, Surrogates, SMT
  <2> QED BY <2>2, <2>3, <2>4
<1>5. CASE ~Low(s[n])
  <2>1. PICK C, D, W : C = Characters(s) /\ D = Characters(t) /\ W = Joined(C) /\ W = Joined(D)
    BY DEF Utf8
  <2>2. C \in Seq(Seq(Element)) /\ D \in Seq(Seq(Element)) /\ Len(C) = Len(s) /\ Len(D) = Len(t)
    BY <2>1, CharacterPieces
  <2>3. PICK o \in Nat : o = Len(Prefixes(C)[k]) /\ o = Len(Prefixes(D)[k])
    <3>1. Prefixes(C)[k] = Prefixes(D)[k]
      BY <1>1, <2>1, SameCharacters
    <3>2. Prefixes(C)[k] \in Seq(Element)
      BY <1>1, <2>2, PrefixesTyped
    <3> QED BY <3>1, <3>2
  <2>4. PICK r : r = [i \in Nat |-> W[o + i]]
    OBVIOUS
  <2>5. Begins(r, C[n]) /\ o + Len(C[n]) <= Len(W) /\ Len(C[n]) \in Nat /\ Len(C[n]) > 0
    <3>1. Len(C[n]) \in Nat /\ Len(C[n]) > 0
      BY <1>5, <2>1, CharacterPieces
    <3>2. Begins(r, C[n]) /\ o + Len(C[n]) <= Len(W)
      BY <1>1, <2>1, <2>2, <2>3, <2>4, PieceBegins
    <3> QED BY <3>1, <3>2
  <2>6. n \in 1 .. Len(t)
    <3>1. ASSUME k = Len(t)
          PROVE  FALSE
      <4>1. Len(W) = o
        BY <2>1, <2>2, <2>3, <3>1 DEF Joined
      <4> QED BY <2>5, <4>1
    <3> QED BY <1>1, <1>3, <3>1
  <2>7. ~Low(t[n])
    <3>1. ASSUME Low(t[n])
          PROVE  FALSE
      <4>1. n > 1 /\ High(t[k])
        BY <1>1, <2>6, <3>1 DEF WellFormed
      <4>2. s[k] = t[k] /\ s[n] = t[n]
        BY <1>1, <4>1 DEF SameUpTo
      <4> QED BY <1>5, <3>1, <4>2
    <3> QED BY <3>1
  <2>8. Begins(r, D[n])
    BY <1>1, <1>3, <2>1, <2>2, <2>3, <2>4, <2>6, PieceBegins
  <2>9. PICK c \in Nat :
            /\ IsCodePoint(c) /\ C[n] = Bytes(c)
            /\ \/ High(s[n]) /\ Low(s[n + 1]) /\ c = CodePoint(s[n], s[n + 1])
               \/ ~High(s[n]) /\ c = s[n] /\ s[n] \in Element
    BY <1>5, <2>1, CharacterAt
  <2>10. PICK d \in Nat :
            /\ IsCodePoint(d) /\ D[n] = Bytes(d)
            /\ \/ High(t[n]) /\ Low(t[n + 1]) /\ d = CodePoint(t[n], t[n + 1])
               \/ ~High(t[n]) /\ d = t[n] /\ t[n] \in Element
    BY <2>1, <2>6, <2>7, CharacterAt
  <2>11. c = d
    BY <2>5, <2>8, <2>9, <2>10, OneCharacter, Zenon
  <2>12. s[n] = t[n] /\ (High(s[n]) => s[n + 1] = t[n + 1])
    <3>1. CASE High(s[n]) /\ High(t[n])
      BY <2>9, <2>10, <2>11, <3>1, SameCodePoint, Zenon
    <3>2. CASE High(s[n]) /\ ~High(t[n])
      BY <2>9, <2>10, <2>11, <3>2, PairIsNoUnit, Zenon
    <3>3. CASE ~High(s[n]) /\ High(t[n])
      BY <2>9, <2>10, <2>11, <3>3, PairIsNoUnit, Zenon
    <3>4. CASE ~High(s[n]) /\ ~High(t[n])
      BY <2>9, <2>10, <2>11, <3>4, Zenon
    <3> QED BY <3>1, <3>2, <3>3, <3>4
  <2> QED BY <2>6, <2>12
<1> QED BY <1>4, <1>5

LEMMA BeginsAlike ==
    ASSUME NEW s \in Seq(Element), NEW t \in Seq(Element), WellFormed(s), WellFormed(t),
           Utf8(s) = Utf8(t)
    PROVE  Len(s) <= Len(t) /\ \A i \in 1 .. Len(s) : s[i] = t[i]
<1> DEFINE T == {k \in 0 .. Len(s) : SameUpTo(s, t, k)}
<1>1. PICK n \in Nat : n = Len(s)
  OBVIOUS
<1>2. 0 \in T
  BY <1>1 DEF SameUpTo
<1>3. ASSUME NEW k \in 0 .. n - 1, k \in T
      PROVE  k + 1 \in T
  <2>1. k + 1 \in 0 .. Len(s) /\ k \in 0 .. Len(s) - 1
    BY <1>1
  <2> QED BY <1>3, <2>1, SameFurther
<1>4. \A k \in 0 .. n : k \in T
  <2> HIDE DEF T
  <2> QED BY <1>1, <1>2, <1>3, UpTo
<1>5. SameUpTo(s, t, n)
  BY <1>4
<1> QED BY <1>1, <1>5 DEF SameUpTo

\* No two texts whose surrogates are paired have the same UTF-8.
LEMMA TextsApart ==
    ASSUME NEW s \in Seq(Element), NEW t \in Seq(Element), WellFormed(s), WellFormed(t),
           Utf8(s) = Utf8(t)
    PROVE  s = t
<1>1. /\ Len(s) <= Len(t) /\ \A i \in 1 .. Len(s) : s[i] = t[i]
      /\ Len(t) <= Len(s)
  BY BeginsAlike
<1> QED BY <1>1
=============================================================================
