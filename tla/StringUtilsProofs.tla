--------------------------- MODULE StringUtilsProofs ---------------------------
(***************************************************************************)
(* Theorems about split, for every string, delimiter and size of memory,   *)
(* and about trim and isNumber, for every string.                          *)
(*                                                                         *)
(* split cuts at the leftmost delimiter each time, loses nothing, and      *)
(* needs no more parts than the string has characters and one, which is    *)
(* why it returns.  trim and isNumber have no loop of their own: what they *)
(* promise follows from where the blanks are, and from how far operator>>  *)
(* takes the text.                                                         *)
(***************************************************************************)
EXTENDS StringUtils, NaturalFacts, SequenceTheorems, TLAPS

--------------------------------------------------------------------------------
\* Occurrences.

\* sub stands at position k of s when the characters agree one by one.
LEMMA OccursByChar ==
  ASSUME NEW s \in Seq(Chars), NEW sub \in Seq(Chars), NEW k \in Nat
  PROVE  Occurs(s, sub, k) <=>
           k + Len(sub) <= Len(s) /\ \A i \in 1..Len(sub) : s[k + i] = sub[i]
<1>1. ASSUME k + Len(sub) <= Len(s)
      PROVE  (SubSeq(s, k + 1, k + Len(sub)) = sub)
               <=> \A i \in 1..Len(sub) : s[k + i] = sub[i]
  <2> DEFINE w == SubSeq(s, k + 1, k + Len(sub))
  <2>1. w \in Seq(Chars) /\ Len(w) = Len(sub)
        BY <1>1
  <2>2. \A i \in 1..Len(sub) : w[i] = s[k + i]
        BY <1>1
  <2>3. (w = sub) <=> \A i \in 1..Len(sub) : w[i] = sub[i]
        BY <2>1, SeqEqual
  <2>4. QED BY <2>2, <2>3
<1>2. QED BY <1>1 DEF Occurs

\* The part that is cut off at the leftmost delimiter, with that delimiter behind it,
\* has no earlier one.
LEMMA LeftmostCut ==
  ASSUME NEW s \in Seq(Chars), NEW sub \in Seq(Chars), NEW k \in 0..Len(s),
         Found(s, sub, k)
  PROVE  LET part == SubSeq(s, 1, k) IN NoneBefore(part \o sub, sub, Len(part))
<1> DEFINE part == SubSeq(s, 1, k)
           p == part \o sub
<1>1. /\ part \in Seq(Chars) /\ Len(part) = k /\ k \in Nat
      /\ \A i \in 1..k : part[i] = s[i]
      OBVIOUS
<1>2. p \in Seq(Chars) /\ Len(p) = k + Len(sub)
      BY <1>1
<1>3. /\ k + Len(sub) <= Len(s)
      /\ \A i \in 1..Len(sub) : s[k + i] = sub[i]
      BY <1>1, OccursByChar DEF Found
<1>4. \A i \in 1..Len(sub) : p[k + i] = sub[i]
      BY <1>1
<1>5. ASSUME NEW i \in 1..(k + Len(sub)) PROVE p[i] = s[i]
  <2>1. CASE i <= k
        BY <2>1, <1>1
  <2>2. CASE i > k
    <3>1. i - k \in 1..Len(sub) /\ k + (i - k) = i
          BY <2>2, <1>1
    <3>2. p[k + (i - k)] = s[k + (i - k)]
          BY <3>1, <1>3, <1>4
    <3>3. QED BY <3>1, <3>2
  <2>3. QED BY <2>1, <2>2, <1>1
<1> HIDE DEF part, p
<1>6. ASSUME NEW j \in 0..(k - 1), Occurs(p, sub, j) PROVE FALSE
  <2>1. /\ j \in Nat /\ j + Len(sub) <= k + Len(sub)
        /\ \A i \in 1..Len(sub) : p[j + i] = sub[i]
        BY <1>1, <1>2, <1>6, OccursByChar
  <2>2. \A i \in 1..Len(sub) : s[j + i] = sub[i]
        BY <2>1, <1>1, <1>5
  <2>3. Occurs(s, sub, j)
        BY <2>1, <2>2, <1>3, OccursByChar
  <2>4. QED BY <2>3 DEF Found, NoneBefore
<1>7. NoneBefore(p, sub, Len(part))
      BY <1>1, <1>6 DEF NoneBefore
<1>8. QED BY <1>7 DEF part, p

--------------------------------------------------------------------------------
\* Parts glued together again.

LEMMA ThreeGlued ==
  ASSUME NEW a \in Seq(Chars), NEW b \in Seq(Chars), NEW c \in Seq(Chars)
  PROVE  a \o b \o c \in Seq(Chars)
OBVIOUS

LEMMA FourGlued ==
  ASSUME NEW a \in Seq(Chars), NEW b \in Seq(Chars), NEW c \in Seq(Chars),
         NEW d \in Seq(Chars)
  PROVE  a \o (b \o c \o d) = (a \o b \o c) \o d
<1> DEFINE bcd == b \o c \o d
<1> DEFINE abc == a \o b \o c
<1>1. a \o bcd \in Seq(Chars) /\ abc \o d \in Seq(Chars) /\ Len(a \o bcd) = Len(abc \o d)
  OBVIOUS
<1>2. \A i \in 1..Len(a \o bcd) : (a \o bcd)[i] = (abc \o d)[i]
  OBVIOUS
<1> QED
  BY <1>1, <1>2, SeqEqual

\* What the recursive definition in Glued says of a function.
Glues(f, parts, sep, n) ==
  /\ f \in [0..n -> Seq(Chars)] /\ f[0] = <<>>
  /\ \A k \in Nat : k < n => f[k + 1] = f[k] \o parts[k + 1] \o sep

\* There is such a function, and Glued takes its value.
LEMMA GluedIsDefined ==
  ASSUME NEW parts \in Seq(Seq(Chars)), NEW sep \in Seq(Chars),
         NEW n \in Nat, n <= Len(parts)
  PROVE  \E f : Glues(f, parts, sep, n) /\ Glued(parts, sep, n) = f[n]
<1> DEFINE step == [k \in 1..n |-> [x \in Seq(Chars) |-> x \o parts[k] \o sep]]
           Is(f) == f = [k \in 0..n |-> IF k = 0 THEN <<>> ELSE f[k - 1] \o parts[k] \o sep]
           glued == CHOOSE f : Is(f)
<1>1. \A k \in 1..n : parts[k] \in Seq(Chars)
  OBVIOUS
<1>2. step \in [1..n -> [Seq(Chars) -> Seq(Chars)]]
  BY <1>1, ThreeGlued
<1>3. PICK f \in [0..n -> Seq(Chars)] : DefinedBy(f, <<>>, step, n)
  <2>1. <<>> \in Seq(Chars)
    OBVIOUS
  <2> HIDE DEF step
  <2> QED
    BY <1>2, <2>1, BoundedRecursion, Zenon
<1>4. Is(f)
  <2>1. f = [k \in 0..n |-> IF k = 0 THEN <<>> ELSE step[k][f[k - 1]]]
    BY <1>3 DEF DefinedBy
  <2>2. ASSUME NEW k \in 0..n, k # 0
        PROVE  step[k][f[k - 1]] = f[k - 1] \o parts[k] \o sep
    <3>1. k \in 1..n /\ k - 1 \in 0..n
      BY <2>2
    <3>2. f[k - 1] \in Seq(Chars)
      BY <3>1
    <3>3. step[k] = [x \in Seq(Chars) |-> x \o parts[k] \o sep]
      BY <3>1
    <3> QED
      BY <3>2, <3>3, Zenon
  <2> HIDE DEF step
  <2> QED
    BY <2>1, <2>2, Zenon
<1>5. Is(glued)
  <2> HIDE DEF Is
  <2> QED
    BY <1>4
<1>6. Glued(parts, sep, n) = glued[n]
  BY DEF Glued
<1> HIDE DEF glued
<1>7. /\ \A k \in 0..n : glued[k] = IF k = 0 THEN <<>> ELSE glued[k - 1] \o parts[k] \o sep
      /\ glued = [k \in 0..n |-> glued[k]]
  BY <1>5
<1>8. glued[0] = <<>>
  <2>1. 0 \in 0..n
    OBVIOUS
  <2> QED
    BY <1>7, <2>1, Zenon
<1>9. ASSUME NEW k \in Nat, k < n
      PROVE  glued[k + 1] = glued[k] \o parts[k + 1] \o sep
  <2>1. k + 1 \in 0..n /\ k + 1 # 0 /\ (k + 1) - 1 = k
    BY <1>9
  <2>2. glued[k + 1] = glued[(k + 1) - 1] \o parts[k + 1] \o sep
    BY <1>7, <2>1, Zenon
  <2> QED
    BY <2>1, <2>2
<1> HIDE DEF Is
<1> DEFINE T == {k \in Nat : k <= n => glued[k] \in Seq(Chars)}
<1>10. 0 \in T
  <2>1. <<>> \in Seq(Chars)
    OBVIOUS
  <2> QED
    BY <1>8, <2>1
<1>11. ASSUME NEW k \in Nat, k \in T PROVE k + 1 \in T
  <2>1. CASE k + 1 <= n
    <3>1. k < n /\ k <= n /\ k + 1 \in 1..n
      BY <2>1
    <3>2. glued[k] \in Seq(Chars) /\ parts[k + 1] \in Seq(Chars)
      BY <1>1, <1>11, <3>1
    <3>3. glued[k + 1] = glued[k] \o parts[k + 1] \o sep
      BY <1>9, <3>1
    <3>4. glued[k] \o parts[k + 1] \o sep \in Seq(Chars)
      BY <3>2, ThreeGlued
    <3>5. glued[k + 1] \in Seq(Chars)
      BY <3>3, <3>4, Zenon
    <3> QED
      BY <3>5
  <2> QED
    BY <2>1
<1>12. Nat \subseteq T
  <2> HIDE DEF T
  <2> QED
    BY <1>10, <1>11, Induct
<1>13. glued \in [0..n -> Seq(Chars)]
  <2>1. \A k \in 0..n : glued[k] \in Seq(Chars)
    BY <1>12
  <2> QED
    BY <2>1, <1>7, Zenon
<1> QED
  BY <1>6, <1>8, <1>9, <1>13 DEF Glues

SamePrefix(p, q, n) == \A k \in 1..n : p[k] = q[k]

\* Two such functions agree as far as their parts do.
LEMMA GluesAgree ==
  ASSUME NEW p, NEW q, NEW sep, NEW n \in Nat, NEW m \in Nat, n <= m,
         NEW f, Glues(f, p, sep, n), NEW g, Glues(g, q, sep, m), SamePrefix(p, q, n)
  PROVE  f[n] = g[n]
<1> DEFINE T == {k \in Nat : k <= n => f[k] = g[k]}
<1>1. 0 \in T
  BY Zenon DEF Glues
<1>2. ASSUME NEW k \in Nat, k \in T PROVE k + 1 \in T
  <2>1. CASE k + 1 <= n
    <3>1. k < n /\ k < m /\ k + 1 \in 1..n
      BY <2>1
    <3>2. f[k + 1] = f[k] \o p[k + 1] \o sep
      BY <3>1, Zenon DEF Glues
    <3>3. g[k + 1] = g[k] \o q[k + 1] \o sep
      BY <3>1, Zenon DEF Glues
    <3>4. f[k] = g[k] /\ p[k + 1] = q[k + 1]
      BY <1>2, <2>1, <3>1 DEF SamePrefix
    <3>5. f[k + 1] = g[k + 1]
      BY <3>2, <3>3, <3>4, Zenon
    <3> QED
      BY <3>5
  <2> QED
    BY <2>1
<1> HIDE DEF T
<1>3. Nat \subseteq T
  BY <1>1, <1>2, Induct
<1> QED
  BY <1>3 DEF T

\* So a further part leaves what is glued of those before it, and goes to its end.
LEMMA GluedParts ==
  ASSUME NEW p \in Seq(Seq(Chars)), NEW sep \in Seq(Chars), NEW part \in Seq(Chars)
  PROVE  /\ Glued(p, sep, Len(p)) \in Seq(Chars)
         /\ p = <<>> => Glued(p, sep, Len(p)) = <<>>
         /\ Glued(Append(p, part), sep, Len(p)) = Glued(p, sep, Len(p))
         /\ Glued(Append(p, part), sep, Len(p) + 1) = Glued(p, sep, Len(p)) \o part \o sep
<1> DEFINE q == Append(p, part)
           n == Len(p)
<1>1. /\ q \in Seq(Seq(Chars)) /\ Len(q) = n + 1 /\ q[n + 1] = part
      /\ \A k \in 1..n : p[k] = q[k]
      /\ n \in Nat /\ n + 1 \in Nat /\ n <= Len(p) /\ n <= Len(q) /\ n + 1 <= Len(q)
      /\ n < n + 1 /\ n <= n + 1 /\ n <= n /\ n \in 0..n /\ (p = <<>> => n = 0)
  OBVIOUS
<1> HIDE DEF q, n
<1>2. PICK f : Glues(f, p, sep, n) /\ Glued(p, sep, n) = f[n]
  BY <1>1, GluedIsDefined, Zenon
<1>3. PICK g : Glues(g, q, sep, n) /\ Glued(q, sep, n) = g[n]
  BY <1>1, GluedIsDefined, Zenon
<1>4. PICK h : Glues(h, q, sep, n + 1) /\ Glued(q, sep, n + 1) = h[n + 1]
  BY <1>1, GluedIsDefined, Zenon
<1>5. f[n] = g[n] /\ f[n] = h[n]
  <2>1. ASSUME NEW m \in Nat, NEW e, Glues(e, q, sep, m), n <= m PROVE f[n] = e[n]
    <3>1. Glues(f, p, sep, n) /\ n \in Nat /\ SamePrefix(p, q, n)
      BY <1>1, <1>2 DEF SamePrefix
    <3> QED
      BY <2>1, <3>1, GluesAgree, SMT
  <2> QED
    BY <1>1, <1>3, <1>4, <2>1, Zenon
<1>6. f[n] \in Seq(Chars) /\ (p = <<>> => f[n] = <<>>)
  BY <1>1, <1>2, Zenon DEF Glues
<1>7. h[n + 1] = h[n] \o part \o sep
  BY <1>1, <1>4, Zenon DEF Glues
<1> QED
  BY <1>2, <1>3, <1>4, <1>5, <1>6, <1>7, Zenon DEF q, n

\* The string is the part, the delimiter and the rest.
LEMMA CutInThree ==
  ASSUME NEW s \in Seq(Chars), NEW sub \in Seq(Chars), NEW k \in 0..Len(s),
         Occurs(s, sub, k)
  PROVE  s = SubSeq(s, 1, k) \o sub \o SubSeq(s, k + Len(sub) + 1, Len(s))
<1> DEFINE part == SubSeq(s, 1, k)
           rest == SubSeq(s, k + Len(sub) + 1, Len(s))
           glued == part \o sub \o rest
<1>1. k \in Nat /\ k + Len(sub) <= Len(s) /\ \A i \in 1..Len(sub) : s[k + i] = sub[i]
  BY OccursByChar DEF Occurs
<1>2. /\ part \in Seq(Chars) /\ Len(part) = k
      /\ rest \in Seq(Chars) /\ Len(rest) = Len(s) - k - Len(sub)
  BY <1>1
<1>3. \A i \in 1..k : part[i] = s[i]
  BY <1>1
<1>4. \A i \in 1..(Len(s) - k - Len(sub)) : rest[i] = s[k + Len(sub) + i]
  BY <1>1
<1> HIDE DEF part, rest
<1>5. glued \in Seq(Chars) /\ Len(glued) = Len(s)
  BY <1>1, <1>2
<1>6. ASSUME NEW i \in 1..Len(s) PROVE glued[i] = s[i]
  <2>1. CASE i <= k
    BY <1>2, <1>3, <2>1
  <2>2. CASE i > k /\ i <= k + Len(sub)
    <3>1. i - k \in 1..Len(sub) /\ k + (i - k) = i
      BY <1>1, <2>2
    <3>2. glued[i] = sub[i - k]
      BY <1>1, <1>2, <2>2
    <3> QED
      BY <1>1, <3>1, <3>2
  <2>3. CASE i > k + Len(sub)
    <3> DEFINE j == i - k - Len(sub)
    <3>1. j \in 1..(Len(s) - k - Len(sub)) /\ k + Len(sub) + j = i
      BY <1>1, <2>3
    <3>2. glued[i] = rest[j]
      BY <1>1, <1>2, <2>3
    <3>3. rest[j] = s[k + Len(sub) + j]
      BY <1>4, <3>1
    <3> QED
      BY <3>1, <3>2, <3>3
  <2>4. i <= k \/ (i > k /\ i <= k + Len(sub)) \/ i > k + Len(sub)
    BY <1>1
  <2> QED
    BY <2>1, <2>2, <2>3, <2>4, Zenon
<1>7. glued = s
  <2> HIDE DEF glued
  <2> QED
    BY <1>5, <1>6, SeqEqual
<1> QED
  BY <1>7 DEF part, rest

--------------------------------------------------------------------------------
\* The loop.

\* What is left is an end of the string, behind a delimiter once there are parts, and
\* the first part ends at the first delimiter of the string.
RestOfString ==
  \E off \in 0..Len(str) :
    /\ tmp_str = SubSeq(str, off + 1, Len(str))
    /\ Cuts = 0 => off = 0
    /\ Cuts > 0 => /\ Len(delimiter) <= off /\ Occurs(str, delimiter, off - Len(delimiter))
                   /\ Found(str, delimiter, Len(result[1]))

\* Each part has used up at least one character of the string.
EachPartTakesOne ==
  pc = "loop" /\ delimiter # <<>> => Len(result) + Len(tmp_str) <= Len(str)

\* What holds of the loop of split: LeftmostCuts needs the types, RoomSuffices the
\* count of the parts, AgreesWithQueries what the rest is.
IInv ==
  /\ TypeOK
  /\ pc = "returned" => result # <<>>
  /\ LeftmostCuts
  /\ EachPartTakesOne
  /\ RoomSuffices
  /\ NothingLost
  /\ RestOfString

\* Before the first part.
LEMMA InitIInv == Init => IInv
<1> SUFFICES ASSUME Init PROVE IInv
    OBVIOUS
<1>1. /\ TypeOK /\ result = <<>> /\ Len(result) = 0 /\ Cuts = 0 /\ pc = "loop"
      /\ tmp_str = str
      BY StringUtilsAssumption DEF Init, TypeOK, Cuts
<1>2. NothingLost
  <2>1. <<>> \in Seq(Seq(Chars)) /\ delimiter \in Seq(Chars) /\ str \in Seq(Chars)
        BY <1>1 DEF TypeOK
  <2>2. Glued(<<>>, delimiter, Len(<<>>)) = <<>>
        BY <2>1, GluedParts, Zenon
  <2>3. Glued(result, delimiter, Cuts) = <<>>
        BY <2>2, <1>1, Zenon
  <2>4. <<>> \o str = str
        BY <2>1
  <2>5. QED BY <1>1, <2>3, <2>4 DEF NothingLost
<1>3. RestOfString
  <2>1. str = SubSeq(str, 0 + 1, Len(str)) /\ 0 \in 0..Len(str)
        BY <1>1 DEF TypeOK
  <2>2. QED BY <1>1, <2>1 DEF RestOfString
<1>4. QED
      BY <1>1, <1>2, <1>3, StringUtilsAssumption
      DEF Init, IInv, LeftmostCuts, EachPartTakesOne, RoomSuffices, TypeOK

\* A further part.
LEMMA CutPartStep == ASSUME IInv, CutPart PROVE IInv'
<1>1. PICK k \in 0..Len(tmp_str) :
        /\ Found(tmp_str, delimiter, k)
        /\ result' = Append(result, SubSeq(tmp_str, 1, k))
        /\ tmp_str' = SubSeq(tmp_str, k + Len(delimiter) + 1, Len(tmp_str))
      BY DEF CutPart, Rest
<1>2. pc = "loop" /\ pc' = "loop" /\ str' = str /\ delimiter' = delimiter
      BY DEF CutPart
<1> DEFINE part == SubSeq(tmp_str, 1, k)
<1>3. TypeOK /\ part \in Seq(Chars)
      BY <1>1 DEF IInv, TypeOK
<1>4. k + Len(delimiter) <= Len(tmp_str)
      BY <1>1 DEF Found, Occurs
<1>5. TypeOK'
  <2>1. tmp_str' \in Seq(Chars)
        BY <1>1, <1>3, <1>4 DEF TypeOK
  <2>2. result' \in Seq(Seq(Chars))
        BY <1>1, <1>3 DEF TypeOK
  <2>3. QED BY <2>1, <2>2, <1>2, <1>3 DEF TypeOK
<1>6. LeftmostCuts'
  <2> SUFFICES ASSUME NEW i \in 1..Len(result')
               PROVE  NoneBefore(result'[i] \o delimiter, delimiter, Len(result'[i]))
      BY <1>2 DEF LeftmostCuts
  <2>1. Len(result') = Len(result) + 1
        BY <1>1, <1>3 DEF TypeOK
  <2>2. CASE i <= Len(result)
    <3>1. result'[i] = result[i] /\ i \in 1..Len(result)
          BY <2>2, <1>1, <1>3 DEF TypeOK
    <3>2. QED BY <3>1, <1>2 DEF IInv, LeftmostCuts
  <2>3. CASE i = Len(result) + 1
    <3>1. result'[i] = part
          BY <2>3, <1>1, <1>3 DEF TypeOK
    <3>2. NoneBefore(part \o delimiter, delimiter, Len(part))
          BY <1>1, <1>3, LeftmostCut DEF TypeOK
    <3>3. QED BY <3>1, <3>2
  <2>4. QED BY <2>1, <2>2, <2>3, <1>3 DEF TypeOK
<1>7. EachPartTakesOne'
  <2> SUFFICES ASSUME delimiter # <<>>
               PROVE  Len(result') + Len(tmp_str') <= Len(str)
      BY <1>2 DEF EachPartTakesOne
  <2>1. Len(delimiter) >= 1
        BY <1>3 DEF TypeOK
  <2>2. Len(tmp_str') <= Len(tmp_str) - 1
        BY <2>1, <1>1, <1>3, <1>4 DEF TypeOK
  <2>3. Len(result') = Len(result) + 1
        BY <1>1, <1>3 DEF TypeOK
  <2>4. Len(result) + Len(tmp_str) <= Len(str)
        BY <1>2 DEF IInv, EachPartTakesOne
  <2>5. QED BY <2>2, <2>3, <2>4, <1>3, <1>5 DEF TypeOK
<1>8. RoomSuffices' /\ (pc = "returned" => result # <<>>)'
      BY <1>2 DEF RoomSuffices
<1>9. /\ Cuts = Len(result) /\ Cuts' = Len(result) + 1 /\ tmp_str \in Seq(Chars)
      /\ Len(tmp_str) \in Nat /\ Len(result) \in Nat /\ Len(delimiter) \in Nat
      BY <1>1, <1>2, <1>3 DEF Cuts, TypeOK
<1>10. NothingLost'
  <2> DEFINE g == Glued(result, delimiter, Len(result))
  <2>1. result \in Seq(Seq(Chars)) /\ delimiter \in Seq(Chars)
        BY <1>3 DEF TypeOK
  <2>2. /\ g \in Seq(Chars)
        /\ Glued(Append(result, part), delimiter, Len(result) + 1) = g \o part \o delimiter
        BY <2>1, <1>3, GluedParts, Zenon
  <2>3. Glued(result', delimiter', Cuts') = g \o part \o delimiter
        BY <2>2, <1>1, <1>2, <1>9, Zenon
  <2>4. str = g \o tmp_str
        BY <1>9 DEF IInv, NothingLost
  <2>5. tmp_str = part \o delimiter \o tmp_str'
        BY <1>1, <1>9, <2>1, CutInThree DEF Found
  <2>6. str = (g \o part \o delimiter) \o tmp_str'
    <3> HIDE DEF g, part
    <3>1. tmp_str' \in Seq(Chars)
          BY <1>5 DEF TypeOK
    <3>2. g \o (part \o delimiter \o tmp_str') = (g \o part \o delimiter) \o tmp_str'
      <4>1. /\ g \in Seq(Chars) /\ part \in Seq(Chars)
            /\ delimiter \in Seq(Chars) /\ tmp_str' \in Seq(Chars)
            BY <1>3, <2>1, <2>2, <3>1
      <4>2. QED BY <4>1, FourGlued, SMTT(60)
    <3>3. QED BY <2>4, <2>5, <3>2
  <2>7. QED BY <1>2, <2>3, <2>6, Zenon DEF NothingLost
<1>11. RestOfString'
  <2>1. PICK off \in 0..Len(str) :
          /\ tmp_str = SubSeq(str, off + 1, Len(str))
          /\ Cuts = 0 => off = 0
          /\ Cuts > 0 => /\ Len(delimiter) <= off
                         /\ Occurs(str, delimiter, off - Len(delimiter))
                         /\ Found(str, delimiter, Len(result[1]))
        BY DEF IInv, RestOfString
  <2>2. str \in Seq(Chars) /\ delimiter \in Seq(Chars) /\ Len(str) \in Nat
        BY <1>3 DEF TypeOK
  <2>3. Len(tmp_str) = Len(str) - off /\ \A i \in 1..Len(tmp_str) : tmp_str[i] = str[off + i]
        BY <2>1, <2>2
  <2> DEFINE new == off + k + Len(delimiter)
  <2>4. new \in 0..Len(str)
        BY <1>4, <1>9, <2>2, <2>3
  <2>5. tmp_str' = SubSeq(str, new + 1, Len(str))
    <3> DEFINE w == SubSeq(str, new + 1, Len(str))
               r == SubSeq(tmp_str, k + Len(delimiter) + 1, Len(tmp_str))
    <3>1. w \in Seq(Chars) /\ Len(w) = Len(str) - new /\ \A i \in 1..Len(w) : w[i] = str[new + i]
          BY <2>2, <2>4
    <3>2. /\ r \in Seq(Chars) /\ Len(r) = Len(tmp_str) - k - Len(delimiter)
          /\ \A i \in 1..Len(r) : r[i] = tmp_str[k + Len(delimiter) + i]
          BY <1>4, <1>9
    <3> HIDE DEF w, r
    <3>3. ASSUME NEW i \in 1..Len(r) PROVE r[i] = w[i] /\ i \in 1..Len(w)
      <4>1. /\ k + Len(delimiter) + i \in 1..Len(tmp_str) /\ i \in 1..Len(w)
            /\ off + (k + Len(delimiter) + i) = new + i
            BY <1>4, <1>9, <2>3, <2>4, <3>1, <3>2
      <4>2. r[i] = str[off + (k + Len(delimiter) + i)]
            BY <2>3, <3>2, <4>1
      <4>3. QED BY <3>1, <4>1, <4>2
    <3>4. Len(r) = Len(w)
          BY <1>4, <1>9, <2>3, <2>4, <3>1, <3>2
    <3>5. r = w
          BY <3>1, <3>2, <3>3, <3>4, SeqEqual
    <3>6. QED BY <1>1, <3>5 DEF r, w
  <2>6. Occurs(str, delimiter, off + k) /\ new - Len(delimiter) = off + k
    <3>1. \A i \in 1..Len(delimiter) : tmp_str[k + i] = delimiter[i]
          BY <1>1, <1>9, <2>2, OccursByChar DEF Found
    <3>2. ASSUME NEW i \in 1..Len(delimiter) PROVE str[off + k + i] = delimiter[i]
      <4>1. k + i \in 1..Len(tmp_str) /\ off + (k + i) = off + k + i
            BY <1>4, <1>9, <2>2
      <4>2. QED BY <2>3, <3>1, <4>1
    <3>3. QED BY <2>2, <2>4, <3>2, <1>9, OccursByChar
  <2>7. Found(str, delimiter, Len(result'[1]))
    <3>1. CASE Len(result) = 0
      <4>1. off = 0 /\ tmp_str = str
        <5>1. off = 0
              BY <1>9, <2>1, <3>1
        <5>2. QED BY <2>1, <2>2, <5>1
      <4>2. result'[1] = part /\ Len(part) = k
            BY <1>1, <1>3, <1>9, <3>1 DEF TypeOK
      <4>3. QED BY <1>1, <4>1, <4>2
    <3>2. CASE Len(result) > 0
      <4>1. result'[1] = result[1]
            BY <1>1, <1>3, <3>2 DEF TypeOK
      <4>2. QED BY <1>9, <2>1, <3>2, <4>1
    <3>3. QED BY <3>1, <3>2, <1>9
  <2>8. Len(delimiter) <= new
        BY <1>9, <2>4
  <2>9. QED
    <3> HIDE DEF new
    <3>1. \E o \in 0..Len(str) :
            /\ tmp_str' = SubSeq(str, o + 1, Len(str))
            /\ Len(delimiter) <= o /\ Occurs(str, delimiter, o - Len(delimiter))
            /\ Found(str, delimiter, Len(result'[1]))
          BY <2>4, <2>5, <2>6, <2>7, <2>8
    <3>2. Cuts' # 0 /\ Cuts' > 0
          BY <1>9
    <3>3. QED BY <3>1, <3>2, <1>2, Zenon DEF RestOfString
<1>12. QED BY <1>5, <1>6, <1>7, <1>8, <1>10, <1>11 DEF IInv

\* The last part: nothing is left to find.
LEMMA LastPartStep == ASSUME IInv, LastPart PROVE IInv'
<1>1. /\ pc = "loop" /\ pc' = "returned" /\ result' = Append(result, tmp_str)
      /\ ~contain(tmp_str, delimiter)
      /\ str' = str /\ delimiter' = delimiter /\ tmp_str' = tmp_str
      BY DEF LastPart
<1>2. TypeOK
      BY DEF IInv
<1>3. TypeOK' /\ Len(result') = Len(result) + 1 /\ result'[Len(result')] = tmp_str
      BY <1>1, <1>2 DEF TypeOK
<1>4. LeftmostCuts'
  <2>1. ASSUME NEW i \in 1..Len(result'), i < Len(result')
        PROVE  NoneBefore(result'[i] \o delimiter, delimiter, Len(result'[i]))
    <3>1. result'[i] = result[i] /\ i \in 1..Len(result)
          BY <2>1, <1>1, <1>2, <1>3 DEF TypeOK
    <3>2. QED BY <3>1, <1>1 DEF IInv, LeftmostCuts
  <2>2. QED BY <2>1, <1>1, <1>3 DEF LeftmostCuts
<1>5. result' # <<>>
      BY <1>1, <1>2 DEF TypeOK
<1>6. /\ Cuts = Len(result) /\ Cuts' = Len(result)
      /\ result \in Seq(Seq(Chars)) /\ delimiter \in Seq(Chars) /\ tmp_str \in Seq(Chars)
      BY <1>1, <1>2, <1>3 DEF Cuts, TypeOK
<1>7. NothingLost'
  <2>1. Glued(Append(result, tmp_str), delimiter, Len(result))
          = Glued(result, delimiter, Len(result))
        BY <1>6, GluedParts, Zenon
  <2>2. str = Glued(result, delimiter, Len(result)) \o tmp_str
        BY <1>6 DEF IInv, NothingLost
  <2>3. QED BY <1>1, <1>3, <1>6, <2>1, <2>2 DEF NothingLost
<1>8. RestOfString'
  <2>1. Cuts > 0 => result'[1] = result[1]
        BY <1>1, <1>6
  <2>2. RestOfString
        BY DEF IInv
  <2>3. QED BY <1>1, <1>6, <2>1, <2>2 DEF RestOfString
<1>9. QED
      BY <1>1, <1>3, <1>4, <1>5, <1>7, <1>8 DEF IInv, EachPartTakesOne, RoomSuffices

\* Memory runs out only under an empty delimiter or a string too long for it.
LEMMA PushThrowsStep == ASSUME IInv, PushThrows PROVE IInv'
<1>1. /\ pc = "loop" /\ pc' = "threw" /\ Len(result) = MaxParts
      /\ str' = str /\ delimiter' = delimiter /\ tmp_str' = tmp_str /\ result' = result
      BY DEF PushThrows
<1>2. TypeOK /\ TypeOK'
      BY <1>1 DEF IInv, TypeOK
<1>3. LeftmostCuts'
      BY <1>1 DEF IInv, LeftmostCuts
<1>4. RoomSuffices'
  <2> SUFFICES ASSUME delimiter # <<>>, Len(str) < MaxParts PROVE FALSE
      BY <1>1 DEF RoomSuffices
  <2>1. Len(result) + Len(tmp_str) <= Len(str)
        BY <1>1 DEF IInv, EachPartTakesOne
  <2>2. QED BY <2>1, <1>1, <1>2, StringUtilsAssumption DEF TypeOK
<1>5. Cuts' = Cuts
      BY <1>1 DEF Cuts
<1>6. NothingLost' /\ RestOfString'
  <2>1. NothingLost /\ RestOfString
        BY DEF IInv
  <2>2. NothingLost'
        BY <1>1, <1>5, <2>1 DEF NothingLost
  <2>3. RestOfString'
        BY <1>1, <1>5, <2>1 DEF RestOfString
  <2>4. QED BY <2>2, <2>3
<1>7. QED BY <1>1, <1>2, <1>3, <1>4, <1>6 DEF IInv, EachPartTakesOne

\* IInv is an invariant.
LEMMA Inductive == Spec => []IInv
<1>1. Init => IInv
      BY InitIInv
<1>2. IInv /\ [Next]_vars => IInv'
  <2> SUFFICES ASSUME IInv, [Next]_vars PROVE IInv'
      OBVIOUS
  <2>1. CASE Next
        BY <2>1, CutPartStep, LastPartStep, PushThrowsStep DEF Next
  <2>2. CASE UNCHANGED vars
        BY <2>2
        DEF vars, IInv, TypeOK, LeftmostCuts, EachPartTakesOne, RoomSuffices, NothingLost,
            RestOfString, Cuts
  <2>3. QED BY <2>1, <2>2
<1>3. QED BY <1>1, <1>2, PTL DEF Spec

\* split cuts at the leftmost delimiter each time, also where two of them overlap.
THEOREM CutsLeftmost == Spec => []LeftmostCuts
<1>1. IInv => LeftmostCuts
      BY DEF IInv
<1>2. QED BY <1>1, Inductive, PTL

\* With a delimiter that is not empty and memory for as many parts as the string has
\* characters and one, split does not throw: with what SplitReturns adds, it returns.
THEOREM RoomIsEnough == Spec => []RoomSuffices
<1>1. IInv => RoomSuffices
      BY DEF IInv
<1>2. QED BY <1>1, Inductive, PTL

\* What split cuts the string into is the string: its parts with a delimiter behind each
\* and, until it returns, what is still to be cut.
THEOREM PartsMakeTheString == Spec => []NothingLost
<1>1. IInv => NothingLost
      BY DEF IInv
<1>2. QED BY <1>1, Inductive, PTL

\* split, contain, startsWith and endsWith tell the same of a string and a delimiter.
LEMMA RestAgrees == IInv => AgreesWithQueries
<1> SUFFICES ASSUME IInv, pc = "returned"
             PROVE  /\ contain(str, delimiter) <=> Len(result) > 1
                    /\ startsWith(str, delimiter) <=> Len(result) > 1 /\ result[1] = <<>>
                    /\ Len(result) > 1 /\ result[Len(result)] = <<>> => endsWith(str, delimiter)
                    /\ endsWith(str, delimiter) => Len(result) > 1
    BY DEF AgreesWithQueries
<1>1. /\ str \in Seq(Chars) /\ delimiter \in Seq(Chars) /\ result \in Seq(Seq(Chars))
      /\ result # <<>> /\ Cuts = Len(result) - 1 /\ tmp_str = result[Len(result)]
      /\ ~contain(tmp_str, delimiter)
      BY DEF IInv, TypeOK, Cuts, NothingLost, LeftmostCuts
<1>2. PICK off \in 0..Len(str) :
        /\ tmp_str = SubSeq(str, off + 1, Len(str))
        /\ Cuts = 0 => off = 0
        /\ Cuts > 0 => /\ Len(delimiter) <= off
                       /\ Occurs(str, delimiter, off - Len(delimiter))
                       /\ Found(str, delimiter, Len(result[1]))
      BY DEF IInv, RestOfString
<1>3. /\ Len(result) \in Nat /\ Len(result) >= 1 /\ result[1] \in Seq(Chars)
      /\ Len(result[1]) \in Nat /\ Len(str) \in Nat /\ Len(delimiter) \in Nat
      BY <1>1
<1>4. contain(str, delimiter) <=> Len(result) > 1
  <2>1. CASE Len(result) = 1
    <3>1. Cuts = 0 /\ off = 0
          BY <1>1, <1>2, <2>1
    <3>2. tmp_str = str
          BY <1>1, <1>2, <3>1
    <3>3. QED BY <1>1, <2>1, <3>2
  <2>2. CASE Len(result) > 1
    <3>1. Found(str, delimiter, Len(result[1]))
          BY <1>1, <1>2, <1>3, <2>2
    <3>2. Len(result[1]) \in 0..Len(str)
          BY <1>3, <3>1 DEF Found, Occurs
    <3>3. QED BY <2>2, <3>1, <3>2 DEF contain, Found
  <2>3. Len(result) = 1 \/ Len(result) > 1
        BY <1>3
  <2>4. QED BY <2>1, <2>2, <2>3, Zenon
<1>5. ASSUME NEW k \in 0..Len(str), Occurs(str, delimiter, k) PROVE Len(result) > 1
      BY <1>4, <1>5 DEF contain
<1>6. startsWith(str, delimiter) <=> Len(result) > 1 /\ result[1] = <<>>
  <2>1. ASSUME Len(result) > 1 PROVE Found(str, delimiter, Len(result[1]))
        BY <1>1, <1>2, <1>3, <2>1
  <2>2. ASSUME Occurs(str, delimiter, 0) PROVE Len(result) > 1 /\ result[1] = <<>>
    <3>1. Len(result) > 1
          BY <1>3, <1>5, <2>2
    <3>2. \A j \in 0..(Len(result[1]) - 1) : ~Occurs(str, delimiter, j)
          BY <2>1, <3>1 DEF Found, NoneBefore
    <3>3. Len(result[1]) = 0
          BY <1>3, <2>2, <3>2
    <3>4. QED BY <1>3, <3>1, <3>3
  <2>3. ASSUME Len(result) > 1, result[1] = <<>> PROVE Occurs(str, delimiter, 0)
    <3>1. Len(result[1]) = 0
          BY <2>3
    <3>2. QED BY <2>1, <2>3, <3>1 DEF Found
  <2>4. QED BY <2>2, <2>3 DEF startsWith
<1>7. ASSUME Len(result) > 1, result[Len(result)] = <<>> PROVE endsWith(str, delimiter)
  <2>1. off = Len(str)
    <3>1. Len(SubSeq(str, off + 1, Len(str))) = Len(str) - off
          BY <1>1
    <3>2. SubSeq(str, off + 1, Len(str)) = <<>>
          BY <1>1, <1>2, <1>7
    <3>3. Len(<<>>) = Len(str) - off
          BY <3>1, <3>2, Zenon
    <3>4. QED BY <1>2, <1>3, <3>3
  <2>2. Len(delimiter) <= off /\ Occurs(str, delimiter, off - Len(delimiter))
        BY <1>1, <1>2, <1>3, <1>7
  <2>3. QED BY <2>1, <2>2 DEF endsWith
<1>8. ASSUME endsWith(str, delimiter) PROVE Len(result) > 1
  <2>1. /\ Len(str) - Len(delimiter) \in 0..Len(str)
        /\ Occurs(str, delimiter, Len(str) - Len(delimiter))
        BY <1>3, <1>8 DEF endsWith
  <2>2. QED BY <2>1, <1>5
<1>9. QED BY <1>4, <1>6, <1>7, <1>8

\* split returns more than one part just if contain finds the delimiter, an empty first
\* one just if startsWith does; where the last is empty, endsWith finds it.
THEOREM SplitAgrees == Spec => []AgreesWithQueries
<1>1. QED BY RestAgrees, Inductive, PTL

--------------------------------------------------------------------------------
\* trim.

\* erase(0, find_first_not_of(...)) leaves the string from its first character that is
\* no blank.
LEMMA BlanksSkipped ==
  ASSUME NEW s \in Seq(Chars), Len(s) < npos
  PROVE  \/ NotBlank(s) = {} /\ SkipBlanks(s) = <<>>
         \/ \E f \in 0..(Len(s) - 1) : /\ SkipBlanks(s) = SubSeq(s, f + 1, Len(s))
                                       /\ s[f + 1] \notin Blanks
                                       /\ \A i \in 1..f : s[i] \in Blanks
<1>1. npos \in Nat /\ Len(s) \in Nat /\ NotBlank(s) \subseteq Nat
  BY StringUtilsAssumption DEF NotBlank
<1>2. CASE NotBlank(s) = {}
  <2>1. SkipBlanks(s) = SubSeq(s, npos + 1, Len(s))
    BY <1>2 DEF SkipBlanks, EraseFirst, find_first_not_of
  <2>2. SubSeq(s, npos + 1, Len(s)) = <<>>
    BY <1>1
  <2> QED
    BY <1>2, <2>1, <2>2
<1>3. CASE NotBlank(s) # {}
  <2> DEFINE f == Min(NotBlank(s))
  <2>1. f \in NotBlank(s) /\ \A k \in NotBlank(s) : f <= k
    BY <1>1, <1>3, MinIsLeast, Zenon
  <2>2. SkipBlanks(s) = SubSeq(s, f + 1, Len(s))
    BY <1>3 DEF SkipBlanks, EraseFirst, find_first_not_of
  <2> HIDE DEF f
  <2>3. f \in 0..(Len(s) - 1) /\ s[f + 1] \notin Blanks
    BY <2>1 DEF NotBlank
  <2>4. ASSUME NEW i \in 1..f, s[i] \notin Blanks PROVE FALSE
    <3>1. i - 1 \in 0..(Len(s) - 1) /\ (i - 1) + 1 = i /\ ~(f <= i - 1)
      BY <1>1, <2>3
    <3>2. i - 1 \in NotBlank(s)
      BY <2>4, <3>1 DEF NotBlank
    <3> QED
      BY <2>1, <3>1, <3>2
  <2> QED
    BY <2>2, <2>3, <2>4
<1> QED
  BY <1>2, <1>3

\* erase(find_last_not_of(...) + 1) leaves it to its last character that is no blank:
\* npos + 1 is 0.
LEMMA BlanksCutOff ==
  ASSUME NEW s \in Seq(Chars), Len(s) < npos
  PROVE  \E m \in 0..Len(s) :
           /\ KeepFirst(s, Plus1(find_last_not_of(s))) = SubSeq(s, 1, m)
           /\ m > 0 => s[m] \notin Blanks
           /\ \A i \in (m + 1)..Len(s) : s[i] \in Blanks
<1>1. npos \in Nat /\ Len(s) \in Nat /\ NotBlank(s) \subseteq Nat
  BY StringUtilsAssumption DEF NotBlank
<1>2. ASSUME NEW n \in 0..Len(s) PROVE KeepFirst(s, n) = SubSeq(s, 1, n)
  <2>1. Min({n, Len(s)}) = n
    <3>1. {n, Len(s)} \subseteq Nat /\ {n, Len(s)} # {}
      BY <1>1
    <3>2. Min({n, Len(s)}) \in {n, Len(s)} /\ \A y \in {n, Len(s)} : Min({n, Len(s)}) <= y
      BY <3>1, MinIsLeast, Zenon
    <3> QED
      BY <1>1, <3>2
  <2> QED
    BY <2>1 DEF KeepFirst
<1>3. CASE NotBlank(s) = {}
  <2>1. Plus1(find_last_not_of(s)) = 0
    BY <1>1, <1>3 DEF Plus1, find_last_not_of
  <2>2. KeepFirst(s, Plus1(find_last_not_of(s))) = SubSeq(s, 1, 0)
    BY <1>1, <1>2, <2>1
  <2>3. ASSUME NEW i \in 1..Len(s) PROVE s[i] \in Blanks
    <3>1. i - 1 \in 0..(Len(s) - 1) /\ (i - 1) + 1 = i
      BY <1>1
    <3> QED
      BY <1>3, <3>1 DEF NotBlank
  <2>4. 0 \in 0..Len(s) /\ 0 + 1 = 1 /\ ~(0 > 0)
    BY <1>1
  <2> QED
    BY <2>2, <2>3, <2>4
<1>4. CASE NotBlank(s) # {}
  <2> DEFINE l == Max(NotBlank(s))
  <2>1. \A k \in NotBlank(s) : k <= Len(s)
    BY <1>1 DEF NotBlank
  <2>2. l \in NotBlank(s) /\ \A k \in NotBlank(s) : k <= l
    BY <1>1, <1>4, <2>1, MaxIsGreatest, Zenon
  <2>3. find_last_not_of(s) = l
    BY <1>4 DEF find_last_not_of
  <2> HIDE DEF l
  <2>4. l \in 0..(Len(s) - 1) /\ s[l + 1] \notin Blanks
    BY <2>2 DEF NotBlank
  <2>5. Plus1(l) = l + 1
    BY <1>1, <2>4 DEF Plus1
  <2>6. KeepFirst(s, Plus1(find_last_not_of(s))) = SubSeq(s, 1, l + 1)
    BY <1>1, <1>2, <2>3, <2>4, <2>5
  <2>7. ASSUME NEW i \in (l + 2)..Len(s), s[i] \notin Blanks PROVE FALSE
    <3>1. i - 1 \in 0..(Len(s) - 1) /\ (i - 1) + 1 = i /\ ~(i - 1 <= l)
      BY <1>1, <2>4
    <3>2. i - 1 \in NotBlank(s)
      BY <2>7, <3>1 DEF NotBlank
    <3> QED
      BY <2>2, <3>1, <3>2
  <2>8. l + 1 \in 0..Len(s) /\ (l + 1) + 1 = l + 2
    BY <1>1, <2>4
  <2> QED
    BY <2>4, <2>6, <2>7, <2>8
<1> QED
  BY <1>3, <1>4

\* So of an input that starts with no blank, trim leaves the first m characters.
LEMMA TrimIs ==
  ASSUME NEW s \in Seq(Chars), Len(s) < npos
  PROVE  /\ SkipBlanks(s) \in Seq(Chars) /\ Len(SkipBlanks(s)) < npos
         /\ \E m \in 0..Len(SkipBlanks(s)) :
              /\ trim(s) = SubSeq(SkipBlanks(s), 1, m)
              /\ m > 0 => SkipBlanks(s)[m] \notin Blanks
              /\ \A i \in (m + 1)..Len(SkipBlanks(s)) : SkipBlanks(s)[i] \in Blanks
<1> DEFINE input == SkipBlanks(s)
<1>1. input \in Seq(Chars) /\ Len(input) <= Len(s)
  <2>1. CASE input = <<>>
    BY <2>1
  <2>2. CASE \E f \in 0..(Len(s) - 1) : input = SubSeq(s, f + 1, Len(s))
    BY <2>2
  <2> QED
    BY <2>1, <2>2, BlanksSkipped
<1>2. Len(input) < npos
  BY <1>1, StringUtilsAssumption
<1>3. trim(s) = KeepFirst(input, Plus1(find_last_not_of(input)))
  BY DEF trim, SkipBlanks
<1> HIDE DEF input
<1>4. \E m \in 0..Len(input) :
        /\ trim(s) = SubSeq(input, 1, m)
        /\ m > 0 => input[m] \notin Blanks
        /\ \A i \in (m + 1)..Len(input) : input[i] \in Blanks
  BY <1>1, <1>2, <1>3, BlanksCutOff
<1> QED
  BY <1>1, <1>2, <1>4 DEF input

LEMMA TrimOfAny ==
  ASSUME NEW s \in Seq(Chars), Len(s) < npos
  PROVE  LET t == trim(s)
         IN  /\ \E i \in 0..Len(s) :
                  /\ Occurs(s, t, i)
                  /\ NotBlank(SubSeq(s, 1, i)) = {}
                  /\ NotBlank(SubSeq(s, i + Len(t) + 1, Len(s))) = {}
             /\ t # <<>> => {t[1], t[Len(t)]} \cap Blanks = {}
<1> DEFINE t == trim(s)
           input == SkipBlanks(s)
<1>1. PICK m \in 0..Len(input) :
        /\ t = SubSeq(input, 1, m)
        /\ m > 0 => input[m] \notin Blanks
        /\ \A i \in (m + 1)..Len(input) : input[i] \in Blanks
  BY TrimIs
<1>2. input \in Seq(Chars) /\ Len(s) \in Nat
  BY TrimIs
<1>3. ASSUME NEW a \in Nat, NEW b \in Nat, a <= Len(s), b <= Len(s),
             \A i \in (a + 1)..b : s[i] \in Blanks
      PROVE  NotBlank(SubSeq(s, a + 1, b)) = {}
  <2> DEFINE w == SubSeq(s, a + 1, b)
  <2>1. w \in Seq(Chars) /\ \A i \in 1..Len(w) : a + i \in (a + 1)..b /\ w[i] = s[a + i]
    BY <1>2, <1>3
  <2>2. \A k \in 0..(Len(w) - 1) : k + 1 \in 1..Len(w)
    BY <2>1
  <2> HIDE DEF w
  <2>3. NotBlank(w) = {}
    BY <1>3, <2>1, <2>2 DEF NotBlank
  <2> QED
    BY <2>3 DEF w
<1>4. CASE NotBlank(s) = {} /\ input = <<>>
  <2>1. t = <<>> /\ Len(t) = 0
    BY <1>1, <1>4
  <2>2. \A i \in 1..Len(s) : s[i] \in Blanks
    <3>1. ASSUME NEW i \in 1..Len(s) PROVE i - 1 \in 0..(Len(s) - 1) /\ (i - 1) + 1 = i
      BY <1>2
    <3> QED
      BY <1>4, <3>1 DEF NotBlank
  <2>3. NotBlank(SubSeq(s, 0 + 1, 0)) = {} /\ NotBlank(SubSeq(s, 0 + 1, Len(s))) = {}
    <3>1. \A i \in (0 + 1)..0 : s[i] \in Blanks
      OBVIOUS
    <3>2. \A i \in (0 + 1)..Len(s) : s[i] \in Blanks
      BY <2>2
    <3>3. NotBlank(SubSeq(s, 0 + 1, 0)) = {}
      BY <1>2, <1>3, <3>1
    <3>4. NotBlank(SubSeq(s, 0 + 1, Len(s))) = {}
      BY <1>2, <1>3, <3>2
    <3> QED
      BY <3>3, <3>4
  <2>4. Occurs(s, t, 0)
    BY <1>2, <2>1 DEF Occurs
  <2> HIDE DEF t
  <2>5. 0 \in 0..Len(s) /\ 0 + Len(t) + 1 = 0 + 1 /\ 0 + 1 = 1
    BY <1>2, <2>1
  <2>6. NotBlank(SubSeq(s, 1, 0)) = {} /\ NotBlank(SubSeq(s, 0 + Len(t) + 1, Len(s))) = {}
    BY <2>3, <2>5
  <2>7. \E i \in 0..Len(s) : /\ Occurs(s, t, i)
                             /\ NotBlank(SubSeq(s, 1, i)) = {}
                             /\ NotBlank(SubSeq(s, i + Len(t) + 1, Len(s))) = {}
    BY <2>4, <2>5, <2>6
  <2> QED
    BY <2>1, <2>7 DEF t
<1>5. ASSUME NEW f \in 0..(Len(s) - 1), input = SubSeq(s, f + 1, Len(s)),
             s[f + 1] \notin Blanks, \A i \in 1..f : s[i] \in Blanks
      PROVE  /\ \E i \in 0..Len(s) :
                  /\ Occurs(s, t, i)
                  /\ NotBlank(SubSeq(s, 1, i)) = {}
                  /\ NotBlank(SubSeq(s, i + Len(t) + 1, Len(s))) = {}
             /\ t # <<>> => {t[1], t[Len(t)]} \cap Blanks = {}
  <2>1. f \in Nat /\ f + 1 \in 1..Len(s) /\ f + 1 <= Len(s)
    BY <1>2
  <2>2. Len(input) = Len(s) - f /\ \A i \in 1..(Len(s) - f) : input[i] = s[f + i]
    BY <1>2, <1>5, <2>1
  <2> HIDE DEF input
  <2>3. m \in Nat /\ f + m <= Len(s) /\ m >= 1
    <3>1. m \in Nat /\ f + m <= Len(s)
      BY <1>1, <1>2, <2>1, <2>2
    <3>2. ASSUME m = 0 PROVE FALSE
      <4>1. 1 \in (m + 1)..Len(input) /\ 1 \in 1..(Len(s) - f)
        BY <1>2, <2>1, <2>2, <3>2
      <4>2. input[1] \in Blanks /\ input[1] = s[f + 1]
        BY <1>1, <2>2, <4>1
      <4> QED
        BY <1>5, <4>2
    <3> QED
      BY <3>1, <3>2
  <2>4. /\ t \in Seq(Chars) /\ Len(t) = m
        /\ \A i \in 1..m : t[i] = s[f + i]
    <3>1. t \in Seq(Chars) /\ Len(t) = m /\ \A i \in 1..m : t[i] = input[i]
      BY <1>1, <1>2, <2>3
    <3>2. \A i \in 1..m : i \in 1..(Len(s) - f)
      BY <1>2, <2>1, <2>3
    <3> QED
      BY <2>2, <3>1, <3>2
  <2> HIDE DEF t
  <2>5. Occurs(s, t, f)
    BY <2>1, <2>3, <2>4, OccursByChar
  <2>6. NotBlank(SubSeq(s, 1, f)) = {}
    <3>1. 0 \in Nat /\ 0 <= Len(s) /\ f <= Len(s) /\ 0 + 1 = 1
      BY <1>2, <2>1
    <3> QED
      BY <1>3, <1>5, <2>1, <3>1
  <2>7. NotBlank(SubSeq(s, f + Len(t) + 1, Len(s))) = {}
    <3>1. f + m \in Nat /\ f + m <= Len(s) /\ Len(s) <= Len(s)
      BY <1>2, <2>1, <2>3
    <3>2. ASSUME NEW i \in (f + m + 1)..Len(s) PROVE s[i] \in Blanks
      <4>1. i - f \in (m + 1)..Len(input) /\ i - f \in 1..(Len(s) - f) /\ f + (i - f) = i
        BY <1>2, <2>1, <2>2, <2>3
      <4>2. input[i - f] = s[f + (i - f)]
        BY <2>2, <4>1
      <4> QED
        BY <1>1, <4>1, <4>2
    <3>3. NotBlank(SubSeq(s, f + m + 1, Len(s))) = {}
      BY <1>2, <1>3, <3>1, <3>2
    <3> QED
      BY <2>4, <3>3
  <2>8. t[1] \notin Blanks /\ t[Len(t)] \notin Blanks
    <3>1. 1 \in 1..m /\ m \in 1..m /\ m \in 1..(Len(s) - f) /\ m > 0
      BY <1>2, <2>1, <2>3
    <3> QED
      BY <1>1, <1>5, <2>2, <2>4, <3>1
  <2>9. f \in 0..Len(s)
    BY <1>2, <2>1
  <2> QED
    BY <2>5, <2>6, <2>7, <2>8, <2>9
<1> QED
  BY <1>4, <1>5, BlanksSkipped

\* The string of a call is short enough for its positions to be told from npos.
LEMMA StringStays == Spec => [](str \in Seq(Chars) /\ Len(str) < npos)
<1> DEFINE Short == str \in Seq(Chars) /\ Len(str) < npos
<1>1. Init => Short
  BY StringUtilsAssumption DEF Init
<1>2. Short /\ [Next]_vars => Short'
  BY DEF Next, vars, CutPart, LastPart, PushThrows
<1> QED
  BY <1>1, <1>2, PTL DEF Spec

\* trim takes the blanks from both ends, all of them, and nothing else, whatever the
\* string.
THEOREM TrimIsRight == Spec => []TrimTakesBlanks
<1>1. str \in Seq(Chars) /\ Len(str) < npos => TrimTakesBlanks
  BY TrimOfAny DEF TrimTakesBlanks
<1> QED
  BY <1>1, StringStays, PTL

--------------------------------------------------------------------------------
\* isNumber.

\* Every character of t is taken into the number, and what was taken is one.
AllTaken(t) == (\A i \in 1..Len(t) : Takes(t, i)) /\ Converts(t)

\* No blank is taken, so that the number must be all that trim leaves.
LEMMA IsNumberOfTrim ==
  ASSUME NEW s \in Seq(Chars), Len(s) < npos
  PROVE  isNumber(s) <=> AllTaken(trim(s))
<1> DEFINE input == SkipBlanks(s)
           t == trim(s)
           Prefixes == {n \in 0..Len(input) : \A i \in 1..n : Takes(input, i)}
           n == Taken(input)
<1>1. input \in Seq(Chars) /\ Len(input) \in Nat /\ Len(input) < npos /\ npos \in Nat
  BY TrimIs, StringUtilsAssumption
<1>2. PICK m \in 0..Len(input) :
        /\ t = SubSeq(input, 1, m)
        /\ m > 0 => input[m] \notin Blanks
        /\ \A i \in (m + 1)..Len(input) : input[i] \in Blanks
  BY TrimIs
<1>3. t \in Seq(Chars) /\ Len(t) = m /\ \A i \in 1..m : t[i] = input[i]
  BY <1>1, <1>2
<1>4. isNumber(s) <=> /\ Converts(KeepFirst(input, n))
                      /\ NotBlank(EraseFirst(input, n)) = {}
  BY DEF isNumber
<1>5. n \in Prefixes /\ \A l \in Prefixes : l <= n
  <2>1. Prefixes \subseteq Nat /\ \A l \in Prefixes : l <= Len(input)
    BY <1>1
  <2>2. 0 \in Prefixes
    BY <1>1
  <2>3. n = Max(Prefixes)
    BY DEF Taken
  <2> HIDE DEF Prefixes, n
  <2> QED
    BY <1>1, <2>1, <2>2, <2>3, MaxIsGreatest
<1> HIDE DEF input, t, n
<1>6. n \in 0..Len(input) /\ \A i \in 1..n : Takes(input, i)
  BY <1>5
<1>7. ASSUME NEW i \in 1..Len(input), Takes(input, i) PROVE input[i] \notin Blanks
  BY <1>7 DEF Takes, Digits, Signs, Blanks, Es
<1>8. n <= m
  <2> SUFFICES ASSUME n > m PROVE FALSE
    BY <1>1, <1>6
  <2>1. m + 1 \in 1..n /\ m + 1 \in 1..Len(input) /\ m + 1 \in (m + 1)..Len(input)
    BY <1>1, <1>6
  <2> QED
    BY <1>2, <1>6, <1>7, <2>1
<1>9. Len(input) \in Nat /\ n \in Nat /\ m \in Nat
  BY <1>1, <1>6
<1>10. ASSUME NEW i \in 1..m PROVE Takes(input, i) <=> Takes(t, i)
  <2>1. i \in 1..m /\ i - 1 < m /\ (i = 1 \/ i - 1 \in 1..m)
    BY <1>9
  <2>2. Before(input, i) = Before(t, i)
    <3>1. \A j \in 1..(i - 1) : t[j] = input[j]
      BY <1>3, <1>9
    <3> QED
      BY <3>1 DEF Before
  <2>3. t[i] = input[i] /\ (i = 1 \/ t[i - 1] = input[i - 1])
    BY <1>3, <2>1
  <2> QED
    BY <2>2, <2>3 DEF Takes
<1>11. KeepFirst(input, n) = SubSeq(input, 1, n)
  <2>1. {n, Len(input)} \subseteq Nat /\ {n, Len(input)} # {}
    BY <1>9
  <2>2. Min({n, Len(input)}) \in {n, Len(input)} /\ \A y \in {n, Len(input)} : Min({n, Len(input)}) <= y
    BY <2>1, MinIsLeast, Zenon
  <2>3. Min({n, Len(input)}) = n
    BY <1>6, <1>9, <2>2
  <2> QED
    BY <2>3 DEF KeepFirst
<1> DEFINE w == SubSeq(input, n + 1, Len(input))
<1>12. /\ w \in Seq(Chars) /\ Len(w) = Len(input) - n
       /\ \A i \in 1..(Len(input) - n) : w[i] = input[n + i]
  BY <1>1, <1>6
<1>13. EraseFirst(input, n) = w
  BY DEF EraseFirst
<1> HIDE DEF w
<1>14. NotBlank(w) = {} <=> n = m
  <2>1. ASSUME n = m PROVE NotBlank(w) = {}
    <3>1. ASSUME NEW k \in 0..(Len(w) - 1) PROVE w[k + 1] \in Blanks
      <4>1. k + 1 \in 1..(Len(input) - n) /\ n + (k + 1) \in (m + 1)..Len(input)
        BY <1>9, <1>12, <2>1
      <4> QED
        BY <1>2, <1>12, <4>1
    <3> QED
      BY <3>1 DEF NotBlank
  <2>2. ASSUME n < m PROVE NotBlank(w) # {}
    <3>1. /\ m - n - 1 \in 0..(Len(w) - 1) /\ (m - n - 1) + 1 = m - n
          /\ m - n \in 1..(Len(input) - n) /\ n + (m - n) = m /\ m > 0
      BY <1>2, <1>9, <1>12, <2>2
    <3>2. w[(m - n - 1) + 1] \notin Blanks
      BY <1>2, <1>12, <3>1
    <3> QED
      BY <3>1, <3>2 DEF NotBlank
  <2> QED
    BY <1>8, <1>9, <2>1, <2>2
<1>15. n = m <=> \A i \in 1..Len(t) : Takes(t, i)
  <2>1. ASSUME n = m PROVE \A i \in 1..Len(t) : Takes(t, i)
    BY <1>3, <1>6, <1>10, <2>1
  <2>2. ASSUME \A i \in 1..Len(t) : Takes(t, i) PROVE n = m
    <3>1. \A i \in 1..m : Takes(input, i)
      BY <1>3, <1>10, <2>2
    <3>2. m \in Prefixes
      BY <1>2, <3>1
    <3>3. m <= n
      BY <1>5, <3>2
    <3> QED
      BY <1>8, <1>9, <3>3
  <2> QED
    BY <2>1, <2>2
<1>16. n = m => KeepFirst(input, n) = t
  BY <1>2, <1>11
<1>17. isNumber(s) <=> n = m /\ Converts(t)
  BY <1>4, <1>13, <1>14, <1>16
<1>18. isNumber(s) <=> AllTaken(t)
  BY <1>15, <1>17 DEF AllTaken
<1> QED
  BY <1>18 DEF t

\* Unsigned leaves out the first o characters: a sign, or none.
HasSign(s, o) ==
  /\ o <= Len(s)
  /\ Unsigned(s) \in Seq(Chars) /\ Len(Unsigned(s)) = Len(s) - o
  /\ \A j \in 1..(Len(s) - o) : Unsigned(s)[j] = s[o + j]
  /\ o = 1 => s[1] \in Signs
  /\ o = 0 /\ Len(s) >= 1 => s[1] \notin Signs

LEMMA UnsignedIs ==
  ASSUME NEW s \in Seq(Chars)
  PROVE  \E o \in {0, 1} : HasSign(s, o)
<1>1. CASE s # <<>> /\ s[1] \in Signs
  <2>1. Unsigned(s) = Tail(s)
    BY <1>1 DEF Unsigned
  <2>2. /\ 1 <= Len(s) /\ Tail(s) \in Seq(Chars) /\ Len(Tail(s)) = Len(s) - 1
        /\ \A j \in 1..(Len(s) - 1) : Tail(s)[j] = s[1 + j]
    BY <1>1
  <2>3. HasSign(s, 1)
    BY <1>1, <2>1, <2>2 DEF HasSign
  <2> QED
    BY <2>3
<1>2. CASE ~(s # <<>> /\ s[1] \in Signs)
  <2>1. Unsigned(s) = s
    BY <1>2, Zenon DEF Unsigned
  <2>2. Len(s) \in Nat /\ 0 <= Len(s) /\ Len(s) = Len(s) - 0
        /\ \A j \in 1..(Len(s) - 0) : s[j] = s[0 + j]
    OBVIOUS
  <2>3. Len(s) >= 1 => s[1] \notin Signs
    BY <1>2
  <2>4. HasSign(s, 0)
    BY <2>1, <2>2, <2>3 DEF HasSign
  <2> QED
    BY <2>4
<1> QED
  BY <1>1, <1>2

\* A literal, character by character: a mantissa up to position i, and behind it
\* nothing, or an e or E, a sign or none, and digits.
IsMantissa(s, a, i) ==
  /\ \A j \in (a + 1)..i : s[j] \in Digits \cup {"."}
  /\ \E j \in (a + 1)..i : s[j] \in Digits
  /\ \A j, k \in (a + 1)..i : s[j] = "." /\ s[k] = "." => j = k

IsExponent(s, i) ==
  i < Len(s) =>
    /\ s[i + 1] \in Es
    /\ \E p \in {0, 1} : /\ i + 1 + p < Len(s)
                         /\ p = 1 => s[i + 2] \in Signs
                         /\ \A j \in (i + 2 + p)..Len(s) : s[j] \in Digits

\* The set of points has at most one element just if no two positions have one.
LEMMA AtMostOne ==
  ASSUME NEW n \in Nat, NEW P, P \subseteq 1..n
  PROVE  Cardinality(P) <= 1 <=> \A j, k \in P : j = k
<1>1. IsFiniteSet(P)
  BY FS_Interval, FS_Subset, 1 \in Int, n \in Int
<1>2. ASSUME \A j, k \in P : j = k PROVE Cardinality(P) <= 1
  <2>1. CASE P = {}
    BY <2>1, FS_EmptySet
  <2>2. CASE P # {}
    <3>1. PICK x \in P : TRUE
      BY <2>2
    <3>2. P = {x}
      BY <1>2, <3>1
    <3> QED
      BY <3>2, FS_Singleton
  <2> QED
    BY <2>1, <2>2
<1>3. ASSUME Cardinality(P) <= 1, NEW j \in P, NEW k \in P, j # k PROVE FALSE
  <2>1. {j, k} \subseteq P /\ IsFiniteSet({j, k})
    BY <1>1, FS_Subset
  <2>2. Cardinality({j, k}) = 2
    <3>1. IsFiniteSet({j}) /\ Cardinality({j}) = 1 /\ k \notin {j}
      BY <1>3, FS_Singleton
    <3>2. Cardinality({j} \cup {k}) = Cardinality({j}) + 1
      BY <3>1, FS_AddElement
    <3>3. {j} \cup {k} = {j, k}
      OBVIOUS
    <3> QED
      BY <3>1, <3>2, <3>3
  <2>3. Cardinality({j, k}) <= Cardinality(P)
    BY <1>1, <2>1, FS_Subset
  <2>4. Cardinality(P) \in Nat
    BY <1>1, FS_CardinalityType
  <2> QED
    BY <1>3, <2>2, <2>3, <2>4
<1> QED
  BY <1>2, <1>3

LEMMA MantissaByChar ==
  ASSUME NEW s \in Seq(Chars), NEW a \in Nat, NEW i \in Nat, a + i <= Len(s),
         NEW w \in Seq(Chars), Len(w) = i, \A j \in 1..i : w[j] = s[a + j]
  PROVE  Mantissa(w) <=> IsMantissa(s, a, a + i)
<1>1. ASSUME NEW j \in (a + 1)..(a + i)
      PROVE  j - a \in 1..i /\ s[j] = w[j - a]
  <2>1. j - a \in 1..i /\ a + (j - a) = j
    OBVIOUS
  <2>2. w[j - a] = s[a + (j - a)]
    BY <2>1
  <2> QED
    BY <2>1, <2>2
<1>2. ASSUME NEW j \in 1..i PROVE a + j \in (a + 1)..(a + i)
  OBVIOUS
<1>3. (\A j \in 1..Len(w) : w[j] \in Digits \cup {"."})
         <=> \A j \in (a + 1)..(a + i) : s[j] \in Digits \cup {"."}
  BY <1>1, <1>2
<1>4. (\E j \in 1..Len(w) : w[j] \in Digits) <=> \E j \in (a + 1)..(a + i) : s[j] \in Digits
  <2>1. ASSUME NEW j \in 1..Len(w), w[j] \in Digits
        PROVE  \E k \in (a + 1)..(a + i) : s[k] \in Digits
    BY <1>2, <2>1
  <2>2. ASSUME NEW j \in (a + 1)..(a + i), s[j] \in Digits
        PROVE  \E k \in 1..Len(w) : w[k] \in Digits
    BY <1>1, <2>2
  <2> QED
    BY <2>1, <2>2
<1> DEFINE P == {j \in 1..Len(w) : w[j] = "."}
<1>5. Cardinality(P) <= 1 <=> \A j, k \in P : j = k
  <2>1. P \subseteq 1..Len(w) /\ Len(w) \in Nat
    OBVIOUS
  <2> HIDE DEF P
  <2> QED
    BY <2>1, AtMostOne
<1>6. (\A j, k \in P : j = k)
         <=> \A j, k \in (a + 1)..(a + i) : s[j] = "." /\ s[k] = "." => j = k
  <2>1. ASSUME \A j, k \in P : j = k,
               NEW j \in (a + 1)..(a + i), NEW k \in (a + 1)..(a + i), s[j] = ".", s[k] = "."
        PROVE  j = k
    <3>1. j - a \in P /\ k - a \in P
      BY <1>1, <2>1
    <3>2. j - a = k - a
      BY <2>1, <3>1
    <3> QED
      BY <3>2
  <2>2. ASSUME \A j, k \in (a + 1)..(a + i) : s[j] = "." /\ s[k] = "." => j = k,
               NEW j \in P, NEW k \in P
        PROVE  j = k
    <3>1. /\ a + j \in (a + 1)..(a + i) /\ s[a + j] = "."
          /\ a + k \in (a + 1)..(a + i) /\ s[a + k] = "."
      OBVIOUS
    <3>2. a + j = a + k
      BY <2>2, <3>1
    <3> QED
      BY <3>2
  <2> HIDE DEF P
  <2> QED
    BY <2>1, <2>2
<1>7. Mantissa(w) <=> /\ \A j \in 1..Len(w) : w[j] \in Digits \cup {"."}
                      /\ \E j \in 1..Len(w) : w[j] \in Digits
                      /\ Cardinality(P) <= 1
  BY Zenon DEF Mantissa
<1> QED
  BY <1>3, <1>4, <1>5, <1>6, <1>7, Zenon DEF IsMantissa

LEMMA ExponentByChar ==
  ASSUME NEW s \in Seq(Chars), NEW i \in Nat, i <= Len(s),
         NEW w \in Seq(Chars), Len(w) = Len(s) - i, \A j \in 1..(Len(s) - i) : w[j] = s[i + j]
  PROVE  Exponent(w) <=> IsExponent(s, i)
<1>1. CASE i = Len(s)
  <2>1. w = <<>>
    BY <1>1
  <2> QED
    BY <1>1, <2>1 DEF Exponent, IsExponent
<1>2. CASE i < Len(s)
  <2> DEFINE tail == Tail(w)
             n == Unsigned(tail)
  <2>1. w # <<>> /\ Len(s) \in Nat /\ w[1] = s[i + 1]
    BY <1>2
  <2>2. /\ tail \in Seq(Chars) /\ Len(tail) = Len(s) - i - 1
        /\ \A j \in 1..(Len(s) - i - 1) : tail[j] = s[i + 1 + j]
    <3>1. tail \in Seq(Chars) /\ Len(tail) = Len(s) - i - 1
      BY <2>1
    <3>2. ASSUME NEW j \in 1..(Len(s) - i - 1) PROVE tail[j] = s[i + 1 + j]
      <4>1. j + 1 \in 1..(Len(s) - i) /\ i + (j + 1) = i + 1 + j
        BY <2>1
      <4>2. tail[j] = w[j + 1]
        BY <2>1, <3>1
      <4>3. w[j + 1] = s[i + (j + 1)]
        BY <4>1
      <4> QED
        BY <4>1, <4>2, <4>3
    <3> QED
      BY <3>1, <3>2
  <2> HIDE DEF tail
  <2>3. PICK o \in {0, 1} : HasSign(tail, o)
    BY <2>2, UnsignedIs
  <2>4. /\ o <= Len(s) - i - 1 /\ n \in Seq(Chars) /\ Len(n) = Len(s) - i - 1 - o
        /\ \A j \in 1..(Len(s) - i - 1 - o) : n[j] = tail[o + j]
        /\ o = 1 => tail[1] \in Signs
        /\ o = 0 /\ Len(s) - i - 1 >= 1 => tail[1] \notin Signs
    BY <2>2, <2>3 DEF HasSign
  <2> HIDE DEF n
  <2>5. Exponent(w) <=> s[i + 1] \in Es /\ n # <<>> /\ \A j \in 1..Len(n) : n[j] \in Digits
    <3>1. Exponent(w) <=> w[1] \in Es /\ n # <<>> /\ \A j \in 1..Len(n) : n[j] \in Digits
      BY <2>1 DEF Exponent, n, tail
    <3> QED
      BY <2>1, <3>1
  <2>6. ASSUME NEW j \in 1..(Len(s) - i - 1 - o) PROVE n[j] = s[i + 1 + o + j]
    <3>1. o + j \in 1..(Len(s) - i - 1) /\ i + 1 + (o + j) = i + 1 + o + j
      BY <2>1
    <3> QED
      BY <2>2, <2>4, <3>1
  <2> DEFINE Ends(p) == /\ i + 1 + p < Len(s)
                        /\ p = 1 => s[i + 2] \in Signs
                        /\ \A j \in (i + 2 + p)..Len(s) : s[j] \in Digits
  <2>7. i + 1 < Len(s) => tail[1] = s[i + 2]
    <3>1. ASSUME i + 1 < Len(s) PROVE 1 \in 1..(Len(s) - i - 1) /\ i + 1 + 1 = i + 2
      BY <2>1, <3>1
    <3> QED
      BY <2>2, <3>1
  <2>8. n # <<>> /\ (\A j \in 1..Len(n) : n[j] \in Digits) <=> Ends(o)
    <3>1. n # <<>> <=> i + 1 + o < Len(s)
      BY <2>1, <2>4
    <3>2. ASSUME i + 1 + o < Len(s), o = 1 PROVE s[i + 2] \in Signs
      <4>1. i + 1 < Len(s)
        BY <2>1, <3>2
      <4> QED
        BY <2>4, <2>7, <3>2, <4>1
    <3>3. ASSUME \A j \in 1..Len(n) : n[j] \in Digits, NEW j \in (i + 2 + o)..Len(s)
          PROVE  s[j] \in Digits
      <4> DEFINE l == j - i - 1 - o
      <4>1. l \in 1..(Len(s) - i - 1 - o) /\ i + 1 + o + l = j
        BY <2>1
      <4>2. n[l] = s[i + 1 + o + l] /\ n[l] \in Digits
        BY <2>4, <2>6, <3>3, <4>1
      <4> QED
        BY <4>1, <4>2
    <3>4. ASSUME \A j \in (i + 2 + o)..Len(s) : s[j] \in Digits, NEW j \in 1..Len(n)
          PROVE  n[j] \in Digits
      <4>1. j \in 1..(Len(s) - i - 1 - o) /\ i + 1 + o + j \in (i + 2 + o)..Len(s)
        BY <2>1, <2>4
      <4> QED
        BY <2>6, <3>4, <4>1
    <3> QED
      BY <3>1, <3>2, <3>3, <3>4
  <2>9. ASSUME NEW p \in {0, 1}, Ends(p) PROVE p = o
    <3>1. i + 1 < Len(s)
      BY <2>1, <2>9
    <3>2. CASE p = 1
      <4>1. tail[1] \in Signs
        BY <2>7, <2>9, <3>1, <3>2
      <4>2. Len(s) - i - 1 >= 1
        BY <2>1, <3>1
      <4> QED
        BY <2>3, <2>4, <3>2, <4>1, <4>2
    <3>3. CASE p = 0
      <4>1. i + 2 \in (i + 2 + p)..Len(s)
        BY <2>1, <3>1, <3>3
      <4>2. s[i + 2] \in Digits
        BY <2>9, <4>1
      <4>3. tail[1] \notin Signs
        BY <2>7, <3>1, <4>2 DEF Digits, Signs
      <4> QED
        BY <2>3, <2>4, <3>3, <4>3
    <3> QED
      BY <3>2, <3>3
  <2>10. Ends(o) <=> \E p \in {0, 1} : Ends(p)
    <3> HIDE DEF Ends
    <3> QED
      BY <2>9
  <2>11. IsExponent(s, i) <=> s[i + 1] \in Es /\ \E p \in {0, 1} : Ends(p)
    <3>1. IsExponent(s, i) <=> (i < Len(s) => s[i + 1] \in Es /\ \E p \in {0, 1} : Ends(p))
      BY Zenon DEF IsExponent
    <3> QED
      BY <1>2, <3>1, Zenon
  <2> HIDE DEF Ends
  <2> QED
    BY <2>5, <2>8, <2>10, <2>11
<1> QED
  BY <1>1, <1>2

LEMMA LiteralByChar ==
  ASSUME NEW s \in Seq(Chars), NEW o \in {0, 1}, HasSign(s, o)
  PROVE  Literal(Unsigned(s)) <=>
           \E i \in o..Len(s) : IsMantissa(s, o, i) /\ IsExponent(s, i)
<1> DEFINE u == Unsigned(s)
<1>1. /\ o <= Len(s) /\ u \in Seq(Chars) /\ Len(u) = Len(s) - o
      /\ \A j \in 1..(Len(s) - o) : u[j] = s[o + j]
  BY DEF HasSign
<1>2. Len(s) \in Nat /\ o \in Nat
  OBVIOUS
<1> HIDE DEF u
<1>3. ASSUME NEW i \in 0..Len(u)
      PROVE  /\ Mantissa(SubSeq(u, 1, i)) <=> IsMantissa(s, o, o + i)
             /\ Exponent(SubSeq(u, i + 1, Len(u))) <=> IsExponent(s, o + i)
  <2> DEFINE m == SubSeq(u, 1, i)
             e == SubSeq(u, i + 1, Len(u))
  <2>1. m \in Seq(Chars) /\ Len(m) = i /\ \A j \in 1..i : m[j] = u[j]
    BY <1>1
  <2>2. /\ e \in Seq(Chars) /\ Len(e) = Len(u) - i
        /\ \A j \in 1..(Len(u) - i) : e[j] = u[i + j]
    BY <1>1
  <2> HIDE DEF m, e
  <2>3. i \in Nat /\ o + i \in Nat /\ o + i <= Len(s) /\ Len(u) - i = Len(s) - (o + i)
    BY <1>1, <1>2
  <2>4. \A j \in 1..i : m[j] = s[o + j]
    <3>1. \A j \in 1..i : j \in 1..(Len(s) - o)
      BY <1>1, <1>2
    <3> QED
      BY <1>1, <2>1, <3>1
  <2>5. \A j \in 1..(Len(s) - (o + i)) : e[j] = s[(o + i) + j]
    <3>1. ASSUME NEW j \in 1..(Len(s) - (o + i))
          PROVE  /\ j \in 1..(Len(u) - i) /\ i + j \in 1..(Len(s) - o)
                 /\ o + (i + j) = (o + i) + j
      BY <1>1, <1>2
    <3> QED
      BY <1>1, <2>2, <3>1
  <2>6. Mantissa(m) <=> IsMantissa(s, o, o + i)
    BY <1>2, <2>1, <2>3, <2>4, MantissaByChar
  <2>7. Exponent(e) <=> IsExponent(s, o + i)
    BY <1>2, <2>2, <2>3, <2>5, ExponentByChar
  <2> QED
    BY <2>6, <2>7 DEF m, e
<1>4. Literal(u) <=> \E i \in 0..Len(u) : IsMantissa(s, o, o + i) /\ IsExponent(s, o + i)
  BY <1>3 DEF Literal
<1>5. ASSUME NEW i \in 0..Len(u) PROVE o + i \in o..Len(s)
  BY <1>1, <1>2
<1>6. ASSUME NEW i \in o..Len(s) PROVE i - o \in 0..Len(u) /\ o + (i - o) = i
  BY <1>1, <1>2
<1>7. ASSUME NEW i \in o..Len(s), IsMantissa(s, o, i) /\ IsExponent(s, i)
      PROVE  \E l \in 0..Len(u) : IsMantissa(s, o, o + l) /\ IsExponent(s, o + l)
  <2>1. i - o \in 0..Len(u) /\ o + (i - o) = i
    BY <1>6
  <2> QED
    BY <1>7, <2>1
<1> QED
  BY <1>4, <1>5, <1>7 DEF u

\* A literal is taken whole, and what is taken whole is one.
LEMMA LiteralIsTaken ==
  ASSUME NEW t \in Seq(Chars), NEW o \in {0, 1}, HasSign(t, o),
         NEW i \in o..Len(t), IsMantissa(t, o, i), IsExponent(t, i)
  PROVE  AllTaken(t)
<1>1. /\ Len(t) \in Nat /\ o \in Nat /\ i \in Nat /\ o <= i /\ i <= Len(t) /\ o <= Len(t)
      /\ o = 1 => t[1] \in Signs
  BY DEF HasSign
<1>2. /\ \A j \in (o + 1)..i : t[j] \in Digits \cup {"."}
      /\ \A j, k \in (o + 1)..i : t[j] = "." /\ t[k] = "." => j = k
  BY DEF IsMantissa
<1>3. PICK d \in (o + 1)..i : t[d] \in Digits
  BY DEF IsMantissa
<1>4. \A j \in 1..i : t[j] \in Signs \cup Digits \cup {"."}
  <2> SUFFICES ASSUME NEW j \in 1..i PROVE t[j] \in Signs \cup Digits \cup {"."}
    OBVIOUS
  <2>1. j \in (o + 1)..i \/ (j = 1 /\ o = 1)
    BY <1>1
  <2> QED
    BY <1>1, <1>2, <2>1
<1>5. \A j \in 1..i : t[j] \notin Es
  BY <1>4 DEF Signs, Digits, Es
<1>6. ASSUME NEW j \in 1..i PROVE Takes(t, j)
  <2>1. CASE j \in (o + 1)..i /\ t[j] \in Digits
    BY <2>1 DEF Takes
  <2>2. CASE j \in (o + 1)..i /\ t[j] = "."
    <3>1. ASSUME NEW k \in 1..(j - 1) PROVE t[k] \notin Es \cup {"."}
      <4>1. k \in 1..i /\ k # j
        BY <1>1
      <4>2. CASE k \in (o + 1)..i
        BY <1>2, <1>5, <2>2, <4>1, <4>2
      <4>3. CASE k = 1 /\ o = 1
        BY <1>1, <4>3 DEF Signs, Es
      <4>4. k \in (o + 1)..i \/ (k = 1 /\ o = 1)
        BY <1>1, <4>1
      <4> QED
        BY <4>2, <4>3, <4>4
    <3> QED
      BY <2>2, <3>1 DEF Takes, Before
  <2>3. CASE j = 1 /\ o = 1
    BY <1>1, <2>3 DEF Takes
  <2>4. j \in (o + 1)..i \/ (j = 1 /\ o = 1)
    BY <1>1
  <2> QED
    BY <1>2, <2>1, <2>2, <2>3, <2>4
<1>7. CASE i = Len(t)
  <2>1. \A j \in 1..Len(t) : Takes(t, j)
    BY <1>6, <1>7
  <2>2. d \in 1..Len(t) /\ Len(t) \in (o + 1)..i
    BY <1>1, <1>7
  <2>3. t[Len(t)] \notin Signs \cup Es
    BY <1>2, <2>2 DEF Signs, Digits, Es
  <2> QED
    BY <1>3, <2>1, <2>2, <2>3 DEF AllTaken, Converts
<1>8. CASE i < Len(t)
  <2>1. t[i + 1] \in Es
    BY <1>8 DEF IsExponent
  <2>2. PICK p \in {0, 1} : /\ i + 1 + p < Len(t)
                            /\ p = 1 => t[i + 2] \in Signs
                            /\ \A j \in (i + 2 + p)..Len(t) : t[j] \in Digits
    BY <1>8 DEF IsExponent
  <2>3. Takes(t, i + 1)
    <3>1. d \in 1..((i + 1) - 1) /\ t[d] \in Before(t, i + 1)
      BY <1>1, <1>3 DEF Before
    <3>2. Before(t, i + 1) \cap Es = {}
      <4>1. \A j \in 1..((i + 1) - 1) : j \in 1..i
        BY <1>1
      <4> QED
        BY <1>5, <4>1 DEF Before
    <3> QED
      BY <1>3, <2>1, <3>1, <3>2 DEF Takes
  <2>4. p = 1 => Takes(t, i + 2)
    <3>1. (i + 2) - 1 = i + 1
      BY <1>1
    <3> QED
      BY <2>1, <2>2, <3>1 DEF Takes
  <2>5. ASSUME NEW j \in 1..Len(t) PROVE Takes(t, j)
    <3>1. j \in 1..i \/ j = i + 1 \/ (j = i + 2 /\ p = 1) \/ j \in (i + 2 + p)..Len(t)
      BY <1>1, <2>2
    <3>2. CASE j \in (i + 2 + p)..Len(t)
      BY <2>2, <3>2 DEF Takes
    <3> QED
      BY <1>6, <2>3, <2>4, <3>1, <3>2
  <2>6. d \in 1..Len(t) /\ Len(t) \in (i + 2 + p)..Len(t)
    BY <1>1, <2>2
  <2>7. t[Len(t)] \notin Signs \cup Es
    BY <2>2, <2>6 DEF Signs, Digits, Es
  <2> QED
    BY <1>3, <2>5, <2>6, <2>7 DEF AllTaken, Converts
<1> QED
  BY <1>1, <1>7, <1>8

LEMMA TakenIsLiteral ==
  ASSUME NEW t \in Seq(Chars), NEW o \in {0, 1}, HasSign(t, o), AllTaken(t)
  PROVE  \E i \in o..Len(t) : IsMantissa(t, o, i) /\ IsExponent(t, i)
<1>1. /\ Len(t) \in Nat /\ o \in Nat /\ o <= Len(t)
      /\ o = 1 => t[1] \in Signs
      /\ o = 0 /\ Len(t) >= 1 => t[1] \notin Signs
  BY DEF HasSign
<1>2. \A j \in 1..Len(t) : Takes(t, j)
  BY DEF AllTaken
<1>3. PICK d \in 1..Len(t) : t[d] \in Digits
  BY DEF AllTaken, Converts
<1>4. t[Len(t)] \notin Signs \cup Es
  BY DEF AllTaken, Converts
\* An e comes but once, behind a digit, and no point comes behind it.
<1>5. ASSUME NEW j \in 1..Len(t), NEW k \in 1..Len(t), j < k,
             t[j] \in Es \cup {"."}, t[k] = "."
      PROVE  FALSE
  <2>1. t[j] \in Before(t, k)
    BY <1>1, <1>5 DEF Before
  <2> QED
    BY <1>2, <1>5, <2>1 DEF Takes, Digits, Signs, Es
<1>6. ASSUME NEW j \in 1..Len(t), NEW k \in 1..Len(t), j < k, t[j] \in Es, t[k] \in Es
      PROVE  FALSE
  <2>1. t[j] \in Before(t, k)
    BY <1>1, <1>6 DEF Before
  <2> QED
    BY <1>2, <1>6, <2>1 DEF Takes, Digits, Signs, Es
<1>7. ASSUME NEW k \in 1..Len(t), t[k] \in Es PROVE \E j \in 1..(k - 1) : t[j] \in Digits
  <2>1. Before(t, k) \cap Digits # {}
    BY <1>2, <1>7 DEF Takes, Digits, Signs, Es
  <2> QED
    BY <2>1 DEF Before
<1>8. ASSUME NEW j \in 1..Len(t), t[j] \in Signs PROVE j = 1 \/ t[j - 1] \in Es
  BY <1>2, <1>8 DEF Takes, Digits, Signs, Es
<1>9. ASSUME NEW j \in 1..Len(t), t[j] \notin Signs, t[j] \notin Es
      PROVE  t[j] \in Digits \cup {"."}
  BY <1>2, <1>9 DEF Takes
\* Up to a position before which there is no e stands a mantissa, if a digit is there.
<1>10. ASSUME NEW i \in o..Len(t), \A j \in 1..i : t[j] \notin Es,
              \E j \in 1..i : t[j] \in Digits
       PROVE  IsMantissa(t, o, i)
  <2>1. ASSUME NEW j \in (o + 1)..i PROVE t[j] \in Digits \cup {"."}
    <3>1. j \in 1..Len(t) /\ j \in 1..i /\ (j = 1 => o = 0 /\ Len(t) >= 1) /\ (j # 1 => j - 1 \in 1..i)
      BY <1>1
    <3>2. t[j] \notin Signs
      BY <1>1, <1>8, <1>10, <3>1
    <3> QED
      BY <1>9, <1>10, <3>1, <3>2
  <2>2. \E j \in (o + 1)..i : t[j] \in Digits
    <3>1. PICK j \in 1..i : t[j] \in Digits
      BY <1>10
    <3>2. j = 1 => o = 0
      BY <1>1, <3>1 DEF Digits, Signs
    <3>3. j \in (o + 1)..i
      BY <1>1, <3>2
    <3> QED
      BY <3>1, <3>3
  <2>3. ASSUME NEW j \in (o + 1)..i, NEW k \in (o + 1)..i, t[j] = ".", t[k] = "."
        PROVE  j = k
    <3>1. j \in 1..Len(t) /\ k \in 1..Len(t)
      BY <1>1
    <3>2. ~(j < k) /\ ~(k < j)
      BY <1>5, <2>3, <3>1
    <3> QED
      BY <3>1, <3>2
  <2> QED
    BY <2>1, <2>2, <2>3 DEF IsMantissa
<1>11. CASE \A j \in 1..Len(t) : t[j] \notin Es
  <2>1. Len(t) \in o..Len(t)
    BY <1>1
  <2>2. IsMantissa(t, o, Len(t))
    BY <1>3, <1>10, <1>11, <2>1
  <2>3. IsExponent(t, Len(t))
    BY <1>1 DEF IsExponent
  <2> QED
    BY <2>1, <2>2, <2>3
<1>12. CASE \E j \in 1..Len(t) : t[j] \in Es
  <2>1. PICK e \in 1..Len(t) : t[e] \in Es
    BY <1>12
  <2>2. PICK c \in 1..(e - 1) : t[c] \in Digits
    BY <1>7, <2>1
  <2> DEFINE i == e - 1
  <2>3. i \in o..Len(t) /\ i + 1 = e /\ i + 2 = e + 1 /\ i < Len(t)
    BY <1>1, <2>2
  <2>4. IsMantissa(t, o, i)
    <3>1. ASSUME NEW j \in 1..i PROVE t[j] \notin Es
      <4>1. j \in 1..Len(t) /\ j < e
        BY <1>1
      <4> QED
        BY <1>6, <2>1, <4>1
    <3> QED
      BY <1>10, <2>2, <2>3, <3>1
  <2>5. ASSUME NEW j \in (e + 1)..Len(t), j # e + 1 \/ t[j] \notin Signs PROVE t[j] \in Digits
    <3>1. j \in 1..Len(t) /\ e < j /\ j # 1 /\ j - 1 \in 1..Len(t) /\ (j # e + 1 => e < j - 1)
      BY <1>1
    <3>2. t[j] \notin Es /\ t[j] # "."
      BY <1>5, <1>6, <2>1, <3>1
    <3>3. j # e + 1 => t[j] \notin Signs
      BY <1>6, <1>8, <2>1, <3>1
    <3> QED
      BY <1>9, <2>5, <3>1, <3>2, <3>3
  <2>6. e < Len(t)
    <3>1. e # Len(t)
      BY <1>4, <2>1
    <3> QED
      BY <1>1, <3>1
  <2>7. IsExponent(t, i)
    <3> DEFINE Ends(p) == /\ i + 1 + p < Len(t)
                          /\ p = 1 => t[i + 2] \in Signs
                          /\ \A j \in (i + 2 + p)..Len(t) : t[j] \in Digits
    <3>1. CASE t[e + 1] \in Signs
      <4>1. e + 1 # Len(t)
        BY <1>4, <3>1
      <4>2. i + 1 + 1 < Len(t) /\ i + 2 + 1 = e + 2
        BY <1>1, <2>3, <2>6, <4>1
      <4>3. \A j \in (e + 2)..Len(t) : t[j] \in Digits
        <5>1. \A j \in (e + 2)..Len(t) : j \in (e + 1)..Len(t) /\ j # e + 1
          OBVIOUS
        <5> QED
          BY <2>5, <5>1
      <4>4. Ends(1)
        BY <2>3, <3>1, <4>2, <4>3
      <4> QED
        BY <2>1, <2>3, <4>4 DEF IsExponent
    <3>2. CASE t[e + 1] \notin Signs
      <4>1. i + 1 + 0 < Len(t) /\ i + 2 + 0 = e + 1
        BY <1>1, <2>3, <2>6
      <4>2. \A j \in (e + 1)..Len(t) : t[j] \in Digits
        BY <2>5, <3>2
      <4>3. Ends(0)
        BY <4>1, <4>2
      <4> QED
        BY <2>1, <2>3, <4>3 DEF IsExponent
    <3> QED
      BY <3>1, <3>2
  <2> HIDE DEF i
  <2> QED
    BY <2>3, <2>4, <2>7
<1> QED
  BY <1>11, <1>12

\* isNumber tells the strings that are one number and nothing else but blanks at both
\* ends, whatever the string.
THEOREM NumbersAreTold == Spec => []NumbersAreWhole
<1>1. ASSUME NEW s \in Seq(Chars), Len(s) < npos
      PROVE  isNumber(s) <=> Literal(Unsigned(trim(s)))
  <2> DEFINE t == trim(s)
  <2>1. t \in Seq(Chars)
    <3>1. \E m \in 0..Len(SkipBlanks(s)) : t = SubSeq(SkipBlanks(s), 1, m)
      BY <1>1, TrimIs
    <3>2. SkipBlanks(s) \in Seq(Chars)
      BY <1>1, TrimIs
    <3> QED
      BY <3>1, <3>2
  <2>2. isNumber(s) <=> AllTaken(t)
    BY <1>1, IsNumberOfTrim
  <2> HIDE DEF t
  <2>3. PICK o \in {0, 1} : HasSign(t, o)
    BY <2>1, UnsignedIs
  <2>4. Literal(Unsigned(t)) <=> \E i \in o..Len(t) : IsMantissa(t, o, i) /\ IsExponent(t, i)
    BY <2>1, <2>3, LiteralByChar
  <2>5. ASSUME NEW i \in o..Len(t), IsMantissa(t, o, i) /\ IsExponent(t, i) PROVE AllTaken(t)
    BY <2>1, <2>3, <2>5, LiteralIsTaken
  <2>6. ASSUME AllTaken(t) PROVE \E i \in o..Len(t) : IsMantissa(t, o, i) /\ IsExponent(t, i)
    BY <2>1, <2>3, <2>6, TakenIsLiteral
  <2>7. isNumber(s) <=> Literal(Unsigned(t))
    BY <2>2, <2>4, <2>5, <2>6
  <2> QED
    BY <2>7 DEF t
<1>2. str \in Seq(Chars) /\ Len(str) < npos => NumbersAreWhole
  BY <1>1 DEF NumbersAreWhole
<1> QED
  BY <1>2, StringStays, PTL
================================================================================
