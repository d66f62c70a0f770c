---------------------------- MODULE MathUtilsProofs ----------------------------
(***************************************************************************)
(* Theorems about reduceMaxValues and strechlim, for every precision of    *)
(* the floats, every array, percentile and pair of tolerances, and every   *)
(* number of bins that floats of this precision can count.  They rest on   *)
(* what rounding to the nearest float does: it keeps order and leaves      *)
(* floats as they are, so that a float that bounds an exact result bounds  *)
(* the rounded one; and its error is a fraction of the result.             *)
(***************************************************************************)
EXTENDS MathUtils, NaturalFacts, TLAPS

--------------------------------------------------------------------------------
\* Powers of 2.

\* The recursive definition of Pow2 has a solution.
LEMMA Pow2Defined ==
  Pow2[0] = 1 /\ \A n \in Nat : Pow2[n + 1] = 2 * Pow2[n]
<1> DEFINE double == [n \in Nat |-> [x \in Nat |-> 2 * x]]
           Is(f) == f = [n \in Nat |-> IF n = 0 THEN 1 ELSE 2 * f[n - 1]]
           pow == CHOOSE f : Is(f)
<1>1. PICK f \in [Nat -> Nat] : FollowsSteps(f, 1, double)
  <2>1. double \in [Nat -> [Nat -> Nat]] /\ 1 \in Nat
    OBVIOUS
  <2> HIDE DEF double
  <2> QED
    BY <2>1, Recursion, Zenon
<1>2. Is(f)
  <2>1. ASSUME NEW n \in Nat PROVE f[n] = IF n = 0 THEN 1 ELSE 2 * f[n - 1]
    <3>1. CASE n = 0
      BY <1>1, <3>1 DEF FollowsSteps
    <3>2. CASE n # 0
      <4>1. n - 1 \in Nat /\ (n - 1) + 1 = n
        BY <3>2
      <4>2. f[(n - 1) + 1] = double[n - 1][f[n - 1]]
        BY <1>1, <4>1 DEF FollowsSteps
      <4>3. double[n - 1][f[n - 1]] = 2 * f[n - 1]
        BY <1>1, <4>1
      <4> QED
        BY <3>2, <4>1, <4>2, <4>3
    <3> QED
      BY <3>1, <3>2
  <2> QED
    BY <1>1, <2>1
<1>3. Is(pow)
  <2> HIDE DEF Is
  <2> QED
    BY <1>2
<1>4. Pow2 = pow
  BY DEF Pow2
<1> HIDE DEF pow
<1>5. \A n \in Nat : Pow2[n] = IF n = 0 THEN 1 ELSE 2 * Pow2[n - 1]
  BY <1>3, <1>4
<1>6. ASSUME NEW n \in Nat PROVE Pow2[n + 1] = 2 * Pow2[n]
  <2>1. n + 1 \in Nat /\ n + 1 # 0 /\ (n + 1) - 1 = n
    OBVIOUS
  <2>2. Pow2[n + 1] = 2 * Pow2[(n + 1) - 1]
    BY <1>5, <2>1, Zenon
  <2> QED
    BY <2>1, <2>2
<1> QED
  BY <1>5, <1>6

LEMMA Pow2Above ==
  ASSUME NEW n \in Nat
  PROVE  Pow2[n] \in Nat /\ Pow2[n] > n
<1> DEFINE T == {k \in Nat : Pow2[k] \in Nat /\ Pow2[k] > k}
<1>1. 0 \in T
  BY Pow2Defined
<1>2. ASSUME NEW k \in Nat, k \in T PROVE k + 1 \in T
  <2>1. Pow2[k + 1] = 2 * Pow2[k]
    BY Pow2Defined
  <2> QED
    BY <1>2, <2>1
<1>3. Nat \subseteq T
  <2> HIDE DEF T
  <2> QED
    BY <1>1, <1>2, Induct
<1> QED
  BY <1>3

LEMMA Pow2Sum ==
  ASSUME NEW m \in Nat, NEW n \in Nat
  PROVE  Pow2[m + n] = Pow2[m] * Pow2[n]
<1> DEFINE T == {k \in Nat : Pow2[m + k] = Pow2[m] * Pow2[k]}
<1>1. 0 \in T
  <2>1. m + 0 = m /\ Pow2[0] = 1 /\ Pow2[m] \in Nat
    BY Pow2Defined, Pow2Above
  <2> QED
    BY <2>1
<1>2. ASSUME NEW k \in Nat, k \in T PROVE k + 1 \in T
  <2>1. m + (k + 1) = (m + k) + 1 /\ m + k \in Nat
    OBVIOUS
  <2>2. Pow2[m + (k + 1)] = 2 * Pow2[m + k] /\ Pow2[k + 1] = 2 * Pow2[k]
    BY <2>1, Pow2Defined
  <2>3. Pow2[m + k] = Pow2[m] * Pow2[k] /\ Pow2[m] \in Nat /\ Pow2[k] \in Nat
    BY <1>2, Pow2Above
  <2>4. 2 * (Pow2[m] * Pow2[k]) = Pow2[m] * (2 * Pow2[k])
    BY <2>3
  <2> QED
    BY <2>2, <2>3, <2>4
<1>3. Nat \subseteq T
  <2> HIDE DEF T
  <2> QED
    BY <1>1, <1>2, Induct
<1> QED
  BY <1>3

LEMMA Pow2Monotone ==
  ASSUME NEW m \in Nat, NEW n \in Nat, m <= n
  PROVE  Pow2[m] <= Pow2[n] /\ (m < n => 2 * Pow2[m] <= Pow2[n])
<1>1. PICK d \in Nat : n = m + d
  <2>1. n - m \in Nat /\ n = m + (n - m)
    OBVIOUS
  <2> QED
    BY <2>1
<1>2. Pow2[n] = Pow2[m] * Pow2[d] /\ Pow2[m] \in Nat /\ Pow2[d] \in Nat /\ Pow2[d] >= d + 1
  <2>1. Pow2[m + d] = Pow2[m] * Pow2[d]
    BY Pow2Sum
  <2>2. Pow2[m] \in Nat /\ Pow2[d] \in Nat /\ Pow2[d] > d
    BY Pow2Above
  <2> QED
    BY <1>1, <2>1, <2>2
<1>3. Pow2[m] <= Pow2[n]
  <2>1. 1 <= Pow2[d] /\ 1 \in Nat
    BY <1>2
  <2>2. 1 * Pow2[m] <= Pow2[d] * Pow2[m]
    BY <1>2, <2>1, ProductMonotone
  <2>3. 1 * Pow2[m] = Pow2[m] /\ Pow2[d] * Pow2[m] = Pow2[m] * Pow2[d]
    BY <1>2
  <2> QED
    BY <1>2, <2>2, <2>3
<1>4. CASE m < n
  <2>1. Pow2[d] >= 2
    BY <1>1, <1>2, <1>4
  <2>2. 2 * Pow2[m] <= Pow2[d] * Pow2[m]
    BY <1>2, <2>1, ProductMonotone
  <2> QED
    BY <1>2, <1>3, <2>2
<1> QED
  BY <1>2, <1>3, <1>4

--------------------------------------------------------------------------------
\* Bits.

\* n has b bits.
HasBits(n, b) == n < Pow2[b] /\ (b > 0 => n >= Pow2[b - 1])

\* There is one such number, and halving n takes one bit from it.
LEMMA BitsOfOne ==
  ASSUME NEW n \in Nat
  PROVE  /\ \E b \in Nat : HasBits(n, b)
         /\ \A b, c \in Nat : HasBits(n, b) /\ HasBits(n, c) => b = c
         /\ \A b \in Nat : n # 0 /\ HasBits(n \div 2, b) => HasBits(n, 1 + b)
<1>1. \E b \in Nat : HasBits(n, b)
  <2> DEFINE S == {b \in Nat : n < Pow2[b]}
  <2>1. n \in S /\ S \subseteq Nat
    BY Pow2Above
  <2>2. PICK b \in S : \A c \in S : b <= c
    <3> HIDE DEF S
    <3> QED
      BY <2>1, Least
  <2>3. b > 0 => n >= Pow2[b - 1]
    <3> SUFFICES ASSUME b > 0, ~(n >= Pow2[b - 1]) PROVE FALSE
      OBVIOUS
    <3>1. b - 1 \in Nat /\ Pow2[b - 1] \in Nat
      BY Pow2Above
    <3>2. b - 1 \in S
      BY <3>1
    <3> QED
      BY <2>2, <3>2
  <2> QED
    BY <2>3 DEF HasBits
<1>2. ASSUME NEW b \in Nat, NEW c \in Nat, HasBits(n, b), HasBits(n, c), b < c
      PROVE  FALSE
  <2>1. c - 1 \in Nat /\ b <= c - 1 /\ c > 0
    BY <1>2
  <2>2. Pow2[b] <= Pow2[c - 1] /\ Pow2[b] \in Nat /\ Pow2[c - 1] \in Nat
    BY <2>1, Pow2Monotone, Pow2Above
  <2> QED
    BY <1>2, <2>1, <2>2 DEF HasBits
<1>3. ASSUME NEW b \in Nat, NEW c \in Nat, HasBits(n, b), HasBits(n, c)
      PROVE  b = c
  <2>1. ~(b < c) /\ ~(c < b)
    BY <1>2, <1>3
  <2> QED
    BY <2>1
<1>4. ASSUME NEW b \in Nat, n # 0, HasBits(n \div 2, b) PROVE HasBits(n, 1 + b)
  <2>1. PICK h \in Nat : h = n \div 2 /\ (n = 2 * h \/ n = 2 * h + 1)
    OBVIOUS
  <2>2. Pow2[b] \in Nat /\ Pow2[b + 1] = 2 * Pow2[b] /\ h < Pow2[b]
    BY <1>4, <2>1, Pow2Above, Pow2Defined DEF HasBits
  <2>3. n < Pow2[1 + b]
    BY <2>1, <2>2
  <2>4. n >= Pow2[b]
    <3>1. CASE b = 0
      BY <1>4, <3>1, Pow2Defined
    <3>2. CASE b > 0
      <4>1. b - 1 \in Nat /\ (b - 1) + 1 = b
        BY <3>2
      <4>2. Pow2[b] = 2 * Pow2[b - 1] /\ Pow2[b - 1] \in Nat
        BY <4>1, Pow2Defined, Pow2Above
      <4>3. h >= Pow2[b - 1]
        BY <1>4, <2>1, <3>2 DEF HasBits
      <4> QED
        BY <2>1, <4>2, <4>3
    <3> QED
      BY <3>1, <3>2
  <2>5. (1 + b) - 1 = b
    OBVIOUS
  <2> QED
    BY <2>3, <2>4, <2>5 DEF HasBits
<1> QED
  BY <1>1, <1>3, <1>4

LEMMA BitsIs ==
  ASSUME NEW n \in Nat
  PROVE  Bits[n] \in Nat /\ HasBits(n, Bits[n])
<1> DEFINE f == [k \in Nat |-> CHOOSE b \in Nat : HasBits(k, b)]
           Is(g) == g = [k \in Nat |-> IF k = 0 THEN 0 ELSE 1 + g[k \div 2]]
           bits == CHOOSE g : Is(g)
<1>1. \A k \in Nat : f[k] \in Nat /\ HasBits(k, f[k])
  BY BitsOfOne
<1>2. HasBits(0, 0)
  BY Pow2Defined DEF HasBits
<1>3. Is(f)
  <2>1. ASSUME NEW k \in Nat PROVE f[k] = IF k = 0 THEN 0 ELSE 1 + f[k \div 2]
    <3>1. k \div 2 \in Nat
      OBVIOUS
    <3>2. f[k \div 2] \in Nat /\ HasBits(k \div 2, f[k \div 2]) /\ f[k] \in Nat /\ HasBits(k, f[k])
      BY <1>1, <3>1
    <3> HIDE DEF f
    <3>3. CASE k = 0
      BY <1>2, <3>2, <3>3, BitsOfOne
    <3>4. CASE k # 0
      <4>1. HasBits(k, 1 + f[k \div 2]) /\ 1 + f[k \div 2] \in Nat
        BY <3>2, <3>4, BitsOfOne
      <4>2. f[k] = 1 + f[k \div 2]
        BY <3>2, <4>1, BitsOfOne
      <4> QED
        BY <3>4, <4>2
    <3> QED
      BY <3>3, <3>4
  <2>2. f = [k \in Nat |-> f[k]]
    OBVIOUS
  <2> HIDE DEF f
  <2> QED
    BY <2>1, <2>2, Zenon
<1>4. Is(bits)
  <2> HIDE DEF Is
  <2> QED
    BY <1>3
<1>5. Bits = bits
  BY DEF Bits
<1> HIDE DEF bits, f
<1>6. \A k \in Nat : Bits[k] = IF k = 0 THEN 0 ELSE 1 + Bits[k \div 2]
  BY <1>4, <1>5
<1> DEFINE T == {k \in Nat : \A l \in 0..k : Bits[l] \in Nat /\ HasBits(l, Bits[l])}
<1>7. 0 \in T
  BY <1>2, <1>6
<1>8. ASSUME NEW k \in Nat, k \in T PROVE k + 1 \in T
  <2>1. (k + 1) \div 2 \in 0..k /\ k + 1 \in Nat /\ k + 1 # 0
    OBVIOUS
  <2>2. Bits[(k + 1) \div 2] \in Nat /\ HasBits((k + 1) \div 2, Bits[(k + 1) \div 2])
    BY <1>8, <2>1
  <2>3. Bits[k + 1] = 1 + Bits[(k + 1) \div 2]
    BY <1>6, <2>1
  <2>4. HasBits(k + 1, 1 + Bits[(k + 1) \div 2])
    BY <2>1, <2>2, BitsOfOne
  <2>5. \A l \in 0..(k + 1) : l \in 0..k \/ l = k + 1
    OBVIOUS
  <2> QED
    BY <1>8, <2>2, <2>3, <2>4, <2>5
<1>9. Nat \subseteq T
  <2> HIDE DEF T
  <2> QED
    BY <1>7, <1>8, Induct
<1>10. n \in T /\ n \in 0..n
  BY <1>9
<1> QED
  BY <1>10

--------------------------------------------------------------------------------
\* Nearest.

LEMMA DivMod ==
  ASSUME NEW n \in Nat, NEW d \in Nat \ {0}
  PROVE  /\ n \div d \in Nat /\ n % d \in Nat /\ n % d < d
         /\ n = d * (n \div d) + (n % d)
OBVIOUS

\* A quotient and a remainder as small as these are those of the division.
LEMMA QuotientIs ==
  ASSUME NEW n \in Nat, NEW d \in Nat \ {0}, NEW q \in Nat
  PROVE  /\ d * q <= n => q <= n \div d
         /\ n < d * (q + 1) => n \div d <= q
<1>1. PICK k \in Nat, r \in Nat : n \div d = k /\ r < d /\ n = d * k + r
  BY DivMod
<1>2. ASSUME d * q <= n, ~(q <= k) PROVE FALSE
  <2>1. PICK c \in Nat : q = k + 1 + c
    <3>1. q - k - 1 \in Nat /\ q = k + 1 + (q - k - 1)
      BY <1>2
    <3> QED
      BY <3>1
  <2>2. d * q = d * k + d + d * c /\ d * c \in Nat
    BY <2>1
  <2> QED
    BY <1>1, <1>2, <2>2
<1>3. ASSUME n < d * (q + 1), ~(k <= q) PROVE FALSE
  <2>1. PICK c \in Nat : k = q + 1 + c
    <3>1. k - q - 1 \in Nat /\ k = q + 1 + (k - q - 1)
      BY <1>3
    <3> QED
      BY <3>1
  <2>2. d * k = d * (q + 1) + d * c /\ d * c \in Nat
    BY <2>1
  <2> QED
    BY <1>1, <1>3, <2>2
<1> QED
  BY <1>1, <1>2, <1>3

\* It is at most half a unit away, and even at just half a unit.
LEMMA NearestIs ==
  ASSUME NEW n \in Nat, NEW d \in Nat \ {0}
  PROVE  LET near == Nearest(n, d)
         IN  /\ near \in Nat
             /\ 2 * (d * near) <= 2 * n + d
             /\ 2 * n <= 2 * (d * near) + d
             /\ 2 * (d * near) = 2 * n + d => near % 2 = 0
             /\ 2 * n = 2 * (d * near) + d => near % 2 = 0
<1> DEFINE q == n \div d
           r == n % d
           near == Nearest(n, d)
<1>1. q \in Nat /\ r \in Nat /\ r < d /\ n = d * q + r
  BY DivMod
<1>2. near = IF 2 * r > d \/ (2 * r = d /\ q % 2 = 1) THEN q + 1 ELSE q
  BY DEF Nearest
<1>3. d * (q + 1) = d * q + d /\ d * q \in Nat
  BY <1>1
<1> HIDE DEF q, r, near
<1>4. CASE 2 * r > d \/ (2 * r = d /\ q % 2 = 1)
  <2>1. near = q + 1 /\ d * near = d * q + d
    BY <1>2, <1>3, <1>4
  <2>2. 2 * (d * near) = 2 * n + d => q % 2 = 1
    BY <1>1, <1>3, <1>4, <2>1
  <2>3. q % 2 = 1 => (q + 1) % 2 = 0
    BY <1>1
  <2> QED
    BY <1>1, <1>3, <1>4, <2>1, <2>2, <2>3 DEF near
<1>5. CASE ~(2 * r > d \/ (2 * r = d /\ q % 2 = 1))
  <2>1. near = q
    BY <1>2, <1>5
  <2>2. 2 * n = 2 * (d * near) + d => q % 2 # 1
    BY <1>1, <1>3, <1>5, <2>1
  <2>3. q % 2 # 1 => q % 2 = 0
    BY <1>1
  <2> QED
    BY <1>1, <1>3, <1>5, <2>1, <2>2, <2>3 DEF near
<1> QED
  BY <1>4, <1>5

\* It keeps order.
LEMMA NearestMonotone ==
  ASSUME NEW n \in Nat, NEW d \in Nat \ {0}, NEW m \in Nat, NEW c \in Nat \ {0},
         n * c <= m * d
  PROVE  Nearest(n, d) <= Nearest(m, c)
<1> DEFINE a == Nearest(n, d)
           b == Nearest(m, c)
<1>1. /\ a \in Nat /\ b \in Nat
      /\ 2 * (d * a) <= 2 * n + d /\ (2 * (d * a) = 2 * n + d => a % 2 = 0)
      /\ 2 * m <= 2 * (c * b) + c /\ (2 * m = 2 * (c * b) + c => b % 2 = 0)
  BY NearestIs
<1> HIDE DEF a, b
<1>2. SUFFICES ASSUME a > b PROVE FALSE
  BY <1>1 DEF a, b
<1>3. PICK k \in Nat : a = b + 1 + k
  <2>1. a - b - 1 \in Nat /\ a = b + 1 + (a - b - 1)
    BY <1>1, <1>2
  <2> QED
    BY <2>1
\* What is less than half a unit on each side adds up to less than one.
<1> DEFINE u == 2 * n + d - 2 * (d * a)
           v == 2 * (c * b) + c - 2 * m
<1>4. u \in Nat /\ v \in Nat
  BY <1>1
<1>5. u * c + v * d + 2 * (m * d - n * c) + 2 * ((d * c) * k) = 0
  BY <1>1, <1>3
<1>6. u * c \in Nat /\ v * d \in Nat /\ (d * c) * k \in Nat /\ m * d - n * c \in Nat /\ d * c > 0
  <2>1. u * c \in Nat /\ v * d \in Nat /\ (d * c) * k \in Nat
    <3> HIDE DEF u, v
    <3> QED
      BY <1>4
  <2>2. d * c > 0
    BY SMT
  <2> QED
    BY <2>1, <2>2
<1>7. u * c = 0 /\ v * d = 0 /\ (d * c) * k = 0
  <2> HIDE DEF u, v
  <2> QED
    BY <1>5, <1>6
<1>8. u = 0 /\ v = 0 /\ k = 0
  <2> HIDE DEF u, v
  <2> QED
    BY <1>4, <1>6, <1>7
<1>9. a % 2 = 0 /\ b % 2 = 0 /\ a = b + 1
  BY <1>1, <1>3, <1>8
<1> QED
  BY <1>1, <1>9

LEMMA NearestOfMultiple ==
  ASSUME NEW q \in Nat, NEW d \in Nat \ {0}
  PROVE  Nearest(d * q, d) = q
<1> DEFINE near == Nearest(d * q, d)
<1>1. d * q \in Nat
  OBVIOUS
<1>2. near \in Nat /\ 2 * (d * near) <= 2 * (d * q) + d /\ 2 * (d * q) <= 2 * (d * near) + d
  BY <1>1, NearestIs
<1> HIDE DEF near
<1>3. ASSUME near > q PROVE FALSE
  <2>1. q + 1 <= near
    BY <1>2, <1>3
  <2>2. (q + 1) * d <= near * d
    BY <1>2, <2>1, ProductMonotone
  <2>3. (q + 1) * d = d * q + d /\ near * d = d * near
    BY <1>2
  <2> QED
    BY <1>1, <1>2, <2>2, <2>3
<1>4. ASSUME near < q PROVE FALSE
  <2>1. near + 1 <= q
    BY <1>2, <1>4
  <2>2. (near + 1) * d <= q * d
    BY <1>2, <2>1, ProductMonotone
  <2>3. (near + 1) * d = d * near + d /\ q * d = d * q
    BY <1>2
  <2> QED
    BY <1>1, <1>2, <2>2, <2>3
<1>5. near = q
  BY <1>2, <1>3, <1>4
<1> QED
  BY <1>5 DEF near

--------------------------------------------------------------------------------
\* Rounded.

\* Its last bit is worth 2^e.
LastBit(n, d, e) ==
  /\ Rounded(n, d) = Pow2[e] * Nearest(n, d * Pow2[e])
  /\ n < d * Pow2[Precision + e]
  /\ e > 0 => n >= d * Pow2[Precision + e - 1]

LEMMA RoundedIs ==
  ASSUME NEW n \in Nat, NEW d \in Nat \ {0}
  PROVE  \E e \in Nat : LastBit(n, d, e)
<1> DEFINE q == n \div d
           b == Bits[q]
           e == IF b > Precision THEN b - Precision ELSE 0
<1>1. PICK r \in Nat : q \in Nat /\ r < d /\ n = d * q + r
  BY DivMod
<1>2. Rounded(n, d) = Pow2[e] * Nearest(n, d * Pow2[e])
  BY DEF Rounded
<1> HIDE DEF q
<1>3. b \in Nat /\ HasBits(q, b)
  BY <1>1, BitsIs
<1> HIDE DEF b
<1>4. Precision \in Nat /\ e \in Nat
  BY <1>3, SmallFloatAssumption
<1>5. n < d * Pow2[b]
  <2>1. Pow2[b] \in Nat /\ q + 1 <= Pow2[b]
    BY <1>1, <1>3, Pow2Above DEF HasBits
  <2>2. (q + 1) * d <= Pow2[b] * d
    BY <1>1, <2>1, ProductMonotone
  <2>3. (q + 1) * d = d * q + d /\ Pow2[b] * d = d * Pow2[b]
    BY <1>1, <2>1
  <2>4. d * q \in Nat /\ d * Pow2[b] \in Nat
    BY <1>1, <2>1
  <2> QED
    BY <1>1, <2>2, <2>3, <2>4
<1>6. CASE b > Precision
  <2>1. e = b - Precision /\ Precision + e = b /\ Precision + e - 1 = b - 1 /\ b - 1 \in Nat
    BY <1>3, <1>4, <1>6
  <2>2. Pow2[b - 1] \in Nat /\ q >= Pow2[b - 1]
    BY <1>3, <1>4, <1>6, <2>1, Pow2Above DEF HasBits
  <2>3. Pow2[b - 1] * d <= q * d
    BY <1>1, <2>2, ProductMonotone
  <2>4. Pow2[b - 1] * d = d * Pow2[b - 1] /\ q * d = d * q /\ d * q \in Nat /\ d * Pow2[b - 1] \in Nat
    BY <1>1, <2>2
  <2>5. n >= d * Pow2[b - 1]
    BY <1>1, <2>3, <2>4
  <2> HIDE DEF e
  <2> QED
    BY <1>2, <1>4, <1>5, <2>1, <2>5 DEF LastBit
<1>7. CASE ~(b > Precision)
  <2>1. e = 0 /\ Precision + e = Precision /\ b <= Precision
    BY <1>3, <1>4, <1>7
  <2>2. Pow2[b] <= Pow2[Precision] /\ Pow2[b] \in Nat /\ Pow2[Precision] \in Nat
    BY <1>3, <1>4, <2>1, Pow2Monotone, Pow2Above
  <2>3. Pow2[b] * d <= Pow2[Precision] * d
    BY <2>2, ProductMonotone
  <2>4. /\ Pow2[b] * d = d * Pow2[b] /\ Pow2[Precision] * d = d * Pow2[Precision]
        /\ d * Pow2[b] \in Nat /\ d * Pow2[Precision] \in Nat
    BY <2>2
  <2>5. n < d * Pow2[Precision]
    BY <1>5, <2>3, <2>4
  <2> HIDE DEF e
  <2>6. ~(e > 0)
    BY <2>1
  <2> QED
    BY <1>2, <1>4, <2>1, <2>5, <2>6 DEF LastBit
<1> QED
  BY <1>6, <1>7

IsFloat(x) == \E k, m \in Nat : x = Pow2[k] * m /\ m <= Pow2[Precision]

\* The largest mantissa may as well be left out.
LEMMA FloatIs ==
  ASSUME NEW x, IsFloat(x)
  PROVE  /\ x \in Nat
         /\ \E k, m \in Nat : x = Pow2[k] * m /\ m < Pow2[Precision]
<1>1. PICK k \in Nat, m \in Nat : x = Pow2[k] * m /\ m <= Pow2[Precision]
  BY DEF IsFloat
<1>2. Pow2[k] \in Nat /\ Precision \in Nat /\ Precision - 1 \in Nat /\ (Precision - 1) + 1 = Precision
  BY Pow2Above, SmallFloatAssumption
<1>3. Pow2[Precision] = 2 * Pow2[Precision - 1] /\ Pow2[Precision - 1] \in Nat /\ Pow2[Precision - 1] > 0
  <2>1. Pow2[(Precision - 1) + 1] = 2 * Pow2[Precision - 1]
    BY <1>2, Pow2Defined
  <2>2. Pow2[Precision - 1] \in Nat /\ Pow2[Precision - 1] > Precision - 1
    BY <1>2, Pow2Above
  <2> QED
    BY <1>2, <2>1, <2>2
<1>4. CASE m < Pow2[Precision]
  BY <1>1, <1>2, <1>4
<1>5. CASE m = Pow2[Precision]
  <2> DEFINE h == Pow2[Precision - 1]
  <2>1. Pow2[k + 1] = 2 * Pow2[k]
    BY Pow2Defined
  <2>2. x = Pow2[k] * (2 * h)
    BY <1>1, <1>3, <1>5
  <2>3. Pow2[k] * (2 * h) = (2 * Pow2[k]) * h
    BY <1>2, <1>3
  <2>4. x = Pow2[k + 1] * h /\ h < Pow2[Precision] /\ h \in Nat /\ k + 1 \in Nat
    BY <1>3, <2>1, <2>2, <2>3
  <2>5. x \in Nat
    BY <1>2, <1>3, <2>2
  <2> HIDE DEF h
  <2> QED
    BY <2>4, <2>5
<1>6. m < Pow2[Precision] \/ m = Pow2[Precision]
  BY <1>1, <1>3
<1> QED
  BY <1>4, <1>5, <1>6

\* It leaves floats as they are.
LEMMA RoundedOfFloat ==
  ASSUME NEW x, IsFloat(x), NEW d \in Nat \ {0}
  PROVE  Rounded(x * d, d) = x
<1>1. PICK k \in Nat, m \in Nat : x = Pow2[k] * m /\ m < Pow2[Precision]
  BY FloatIs
<1>2. x \in Nat /\ x * d \in Nat /\ Precision \in Nat
  BY FloatIs, SmallFloatAssumption
<1>3. PICK e \in Nat : LastBit(x * d, d, e)
  BY <1>2, RoundedIs
<1>4. e <= k
  <2> SUFFICES ASSUME k < e PROVE FALSE
    OBVIOUS
  <2>1. Precision + e - 1 \in Nat /\ k + Precision \in Nat /\ k + Precision <= Precision + e - 1 /\ e > 0
    BY <1>2
  <2>2. /\ Pow2[k + Precision] <= Pow2[Precision + e - 1]
        /\ Pow2[k + Precision] \in Nat /\ Pow2[Precision + e - 1] \in Nat
    BY <2>1, Pow2Monotone, Pow2Above
  <2>3. x * d >= d * Pow2[Precision + e - 1]
    BY <1>3, <2>1 DEF LastBit
  <2>4. x < Pow2[k + Precision]
    <3>1. Pow2[k + Precision] = Pow2[k] * Pow2[Precision] /\ Pow2[k] \in Nat /\ Pow2[Precision] \in Nat
      BY <1>2, Pow2Sum, Pow2Above
    <3>2. (m + 1) * Pow2[k] <= Pow2[Precision] * Pow2[k] /\ Pow2[k] > 0
      BY <1>1, <3>1, ProductMonotone, Pow2Above
    <3>3. (m + 1) * Pow2[k] = Pow2[k] * m + Pow2[k] /\ Pow2[Precision] * Pow2[k] = Pow2[k] * Pow2[Precision]
      BY <3>1
    <3> QED
      BY <1>1, <1>2, <3>1, <3>2, <3>3
  <2>5. x + 1 <= Pow2[Precision + e - 1]
    BY <1>2, <2>2, <2>4
  <2>6. (x + 1) * d <= Pow2[Precision + e - 1] * d
    BY <1>2, <2>2, <2>5, ProductMonotone
  <2>7. (x + 1) * d = x * d + d /\ Pow2[Precision + e - 1] * d = d * Pow2[Precision + e - 1]
    BY <1>2, <2>2
  <2>8. d * Pow2[Precision + e - 1] \in Nat
    BY <2>2
  <2> QED
    BY <1>2, <2>3, <2>6, <2>7, <2>8
<1>5. k - e \in Nat /\ e + (k - e) = k
  BY <1>4
<1>6. Pow2[k] = Pow2[e] * Pow2[k - e] /\ Pow2[e] \in Nat \ {0} /\ Pow2[k - e] \in Nat
  <2>1. Pow2[e + (k - e)] = Pow2[e] * Pow2[k - e]
    BY <1>5, Pow2Sum
  <2>2. Pow2[e] \in Nat /\ Pow2[e] > e /\ Pow2[k - e] \in Nat
    BY <1>5, Pow2Above
  <2> QED
    BY <1>5, <2>1, <2>2
<1> DEFINE E == Pow2[e]
           q == Pow2[k - e] * m
<1>7. x = E * q /\ q \in Nat /\ d * E \in Nat \ {0} /\ x * d = (d * E) * q
  BY <1>1, <1>2, <1>6
<1> HIDE DEF q
<1>8. Nearest(x * d, d * E) = q
  BY <1>7, NearestOfMultiple
<1> QED
  BY <1>3, <1>7, <1>8 DEF LastBit

LEMMA NearestAtMost ==
  ASSUME NEW n \in Nat, NEW d \in Nat \ {0}, NEW q \in Nat
  PROVE  /\ n <= d * q => Nearest(n, d) <= q
         /\ n >= d * q => Nearest(n, d) >= q
<1>1. d * q \in Nat /\ n * d \in Nat /\ (d * q) * d \in Nat /\ Nearest(d * q, d) = q
  BY NearestOfMultiple
<1>2. n <= d * q => n * d <= (d * q) * d
  BY <1>1, ProductMonotone
<1>3. d * q <= n => (d * q) * d <= n * d
  BY <1>1, ProductMonotone
<1>4. n * d <= (d * q) * d => Nearest(n, d) <= Nearest(d * q, d)
  BY <1>1, NearestMonotone
<1>5. (d * q) * d <= n * d => Nearest(d * q, d) <= Nearest(n, d)
  BY <1>1, NearestMonotone
<1> QED
  BY <1>1, <1>2, <1>3, <1>4, <1>5, NearestIs

\* What it leaves is a float.
LEMMA MantissaFits ==
  ASSUME NEW n \in Nat, NEW d \in Nat \ {0}, NEW e \in Nat, LastBit(n, d, e)
  PROVE  /\ Pow2[e] \in Nat \ {0} /\ d * Pow2[e] \in Nat \ {0}
         /\ Nearest(n, d * Pow2[e]) \in Nat
         /\ Nearest(n, d * Pow2[e]) <= Pow2[Precision]
<1>1. Precision \in Nat /\ Pow2[e] \in Nat \ {0} /\ Pow2[Precision] \in Nat
  BY SmallFloatAssumption, Pow2Above
<1>2. Pow2[Precision + e] = Pow2[Precision] * Pow2[e]
  BY <1>1, Pow2Sum
<1>3. d * Pow2[e] \in Nat \ {0} /\ d * Pow2[Precision + e] = (d * Pow2[e]) * Pow2[Precision]
  BY <1>1, <1>2
<1>4. n < (d * Pow2[e]) * Pow2[Precision] /\ (d * Pow2[e]) * Pow2[Precision] \in Nat
  BY <1>1, <1>3 DEF LastBit
<1>5. n <= (d * Pow2[e]) * Pow2[Precision]
  BY <1>4
<1> QED
  BY <1>1, <1>3, <1>5, NearestAtMost, NearestIs

LEMMA RoundedIsFloat ==
  ASSUME NEW n \in Nat, NEW d \in Nat \ {0}
  PROVE  IsFloat(Rounded(n, d)) /\ Rounded(n, d) \in Nat
<1>1. PICK e \in Nat : LastBit(n, d, e)
  BY RoundedIs
<1>2. IsFloat(Rounded(n, d))
  BY <1>1, MantissaFits DEF IsFloat, LastBit
<1> QED
  BY <1>2, FloatIs

\* It keeps order.
LEMMA RoundedMonotone ==
  ASSUME NEW n \in Nat, NEW d \in Nat \ {0}, NEW m \in Nat, NEW c \in Nat \ {0},
         n * c <= m * d
  PROVE  Rounded(n, d) <= Rounded(m, c)
<1>1. PICK e \in Nat : LastBit(n, d, e)
  BY RoundedIs
<1>2. PICK g \in Nat : LastBit(m, c, g)
  BY RoundedIs
<1>3. Precision \in Nat \ {0, 1}
  BY SmallFloatAssumption
<1> DEFINE E == Pow2[e]
           G == Pow2[g]
           a == Nearest(n, d * E)
           b == Nearest(m, c * G)
<1>4. /\ E \in Nat \ {0} /\ d * E \in Nat \ {0} /\ a \in Nat /\ a <= Pow2[Precision]
      /\ G \in Nat \ {0} /\ c * G \in Nat \ {0} /\ b \in Nat
      /\ Rounded(n, d) = E * a /\ Rounded(m, c) = G * b
      /\ Pow2[Precision] \in Nat
  BY <1>1, <1>2, <1>3, MantissaFits, Pow2Above DEF LastBit
<1>5. ASSUME g < e PROVE FALSE
  <2> DEFINE h == Pow2[Precision + e - 1]
  <2>1. Precision + e - 1 \in Nat /\ Precision + g \in Nat /\ Precision + g <= Precision + e - 1 /\ e > 0
    BY <1>3, <1>5
  <2>2. h \in Nat /\ Pow2[Precision + g] \in Nat /\ Pow2[Precision + g] <= h
    BY <2>1, Pow2Monotone, Pow2Above
  <2>3. n >= d * h /\ m < c * Pow2[Precision + g]
    BY <1>1, <1>2, <2>1 DEF LastBit
  <2> HIDE DEF h
  <2>4. c * Pow2[Precision + g] <= c * h
    <3>1. Pow2[Precision + g] * c <= h * c
      BY <2>2, ProductMonotone
    <3> QED
      BY <2>2, <3>1
  <2>5. m + 1 <= c * h /\ c * h \in Nat /\ d * h \in Nat
    <3>1. c * h \in Nat /\ d * h \in Nat /\ c * Pow2[Precision + g] \in Nat
      BY <2>2
    <3> QED
      BY <2>3, <2>4, <3>1
  <2>6. (m + 1) * d <= (c * h) * d /\ (d * h) * c <= n * c
    BY <2>3, <2>5, ProductMonotone
  <2>7. (m + 1) * d = m * d + d /\ (c * h) * d = (d * h) * c
    BY <2>2
  <2>8. m * d \in Nat /\ n * c \in Nat /\ (d * h) * c \in Nat
    BY <2>5
  <2> QED
    BY <2>6, <2>7, <2>8
<1>6. CASE e = g
  <2> HIDE DEF E, G
  <2>1. E = G
    BY <1>6 DEF E, G
  <2>2. n * (c * E) <= m * (d * E)
    <3>1. n * c \in Nat /\ m * d \in Nat
      OBVIOUS
    <3>2. (n * c) * E <= (m * d) * E
      BY <1>4, <3>1, ProductMonotone
    <3>3. n * (c * E) = (n * c) * E /\ m * (d * E) = (m * d) * E
      BY <1>4
    <3> QED
      BY <3>2, <3>3
  <2>3. a <= b
    BY <1>4, <2>1, <2>2, NearestMonotone
  <2> HIDE DEF a, b
  <2>4. a * E <= b * E
    BY <1>4, <2>3, ProductMonotone
  <2>5. a * E = E * a /\ b * E = G * b
    BY <1>4, <2>1
  <2> QED
    BY <1>4, <2>4, <2>5
<1>7. CASE e < g
  <2> DEFINE h == Pow2[Precision - 1]
  <2>1. Precision - 1 \in Nat /\ g + (Precision - 1) \in Nat /\ e + Precision \in Nat
        /\ Precision + g - 1 = g + (Precision - 1) /\ e + Precision <= g + (Precision - 1) /\ g > 0
    BY <1>3, <1>7
  <2>2. h \in Nat /\ Pow2[g + (Precision - 1)] = G * h /\ Pow2[e + Precision] = E * Pow2[Precision]
    BY <1>3, <2>1, Pow2Sum, Pow2Above
  <2>3. Pow2[e + Precision] <= Pow2[g + (Precision - 1)]
    BY <2>1, Pow2Monotone
  <2>4. m >= c * (G * h)
    BY <1>2, <2>1, <2>2 DEF LastBit
  <2> HIDE DEF E, G, h
  <2>5. c * (G * h) = (c * G) * h
    BY <1>4, <2>2
  <2>6. b >= h
    BY <1>4, <2>2, <2>4, <2>5, NearestAtMost
  <2> HIDE DEF a, b
  <2>7. h * G <= b * G /\ a * E <= Pow2[Precision] * E
    BY <1>4, <2>2, <2>6, ProductMonotone
  <2>8. /\ h * G = G * h /\ b * G = G * b /\ a * E = E * a
        /\ Pow2[Precision] * E = E * Pow2[Precision]
    BY <1>4, <2>2
  <2>9. G * h \in Nat /\ G * b \in Nat /\ E * a \in Nat /\ E * Pow2[Precision] \in Nat
    BY <1>4, <2>2
  <2> QED
    BY <1>4, <2>2, <2>3, <2>7, <2>8, <2>9
<1> QED
  BY <1>5, <1>6, <1>7

\* So a float that bounds the exact result bounds the rounded one.
LEMMA BoundedByFloat ==
  ASSUME NEW n \in Nat, NEW d \in Nat \ {0}, NEW x, IsFloat(x)
  PROVE  /\ n <= x * d => Rounded(n, d) <= x
         /\ x * d <= n => x <= Rounded(n, d)
<1>1. x \in Nat /\ x * d \in Nat /\ Rounded(x * d, d) = x
  BY FloatIs, RoundedOfFloat
<1>2. n <= x * d => n * d <= (x * d) * d
  BY <1>1, ProductMonotone
<1>3. x * d <= n => (x * d) * d <= n * d
  BY <1>1, ProductMonotone
<1>4. n * d <= (x * d) * d => Rounded(n, d) <= Rounded(x * d, d)
  BY <1>1, RoundedMonotone
<1>5. (x * d) * d <= n * d => Rounded(x * d, d) <= Rounded(n, d)
  BY <1>1, RoundedMonotone
<1> QED
  BY <1>1, <1>2, <1>3, <1>4, <1>5

--------------------------------------------------------------------------------
\* The numbers of the two functions.

LEMMA Units ==
  /\ Precision \in Nat \ {0, 1} /\ Point \in Nat /\ Precision <= Point
  /\ One \in Nat \ {0} /\ One = 2 * Pow2[Point - 1] /\ Pow2[Point - 1] \in Nat \ {0}
  /\ Pow2[Precision] \in Nat /\ Pow2[Precision] >= 4
<1>1. Precision \in Nat \ {0, 1} /\ Point \in Nat /\ Precision <= Point
  BY SmallFloatAssumption, MathUtilsAssumption
<1>2. Point - 1 \in Nat /\ (Point - 1) + 1 = Point
  BY <1>1
<1>3. Pow2[Point - 1] \in Nat /\ Pow2[Point - 1] > Point - 1 /\ Pow2[(Point - 1) + 1] = 2 * Pow2[Point - 1]
  BY <1>2, Pow2Above, Pow2Defined
<1>4. One = 2 * Pow2[Point - 1]
  BY <1>2, <1>3 DEF One
<1>5. Pow2[Precision] \in Nat /\ Pow2[Precision] >= 4
  <2>1. Pow2[Precision] \in Nat /\ Pow2[2] <= Pow2[Precision]
    BY <1>1, Pow2Monotone, Pow2Above
  <2>2. Pow2[0 + 1] = 2 * Pow2[0] /\ Pow2[1 + 1] = 2 * Pow2[1] /\ Pow2[0] = 1
    BY Pow2Defined
  <2>3. 0 + 1 = 1 /\ 1 + 1 = 2
    OBVIOUS
  <2> QED
    BY <2>1, <2>2, <2>3
<1> QED
  BY <1>1, <1>2, <1>3, <1>4, <1>5

\* Counts up to the precision are floats.
LEMMA CountIsFloat ==
  ASSUME NEW n \in Nat, n <= Pow2[Precision]
  PROVE  IsFloat(n * One) /\ FromInt(n) = n * One
<1>1. n * One = Pow2[Point] * n /\ Point \in Nat /\ n * One \in Nat
  BY Units DEF One
<1>2. IsFloat(n * One)
  BY <1>1 DEF IsFloat
<1>3. Rounded((n * One) * 1, 1) = n * One
  BY <1>2, RoundedOfFloat
<1>4. (n * One) * 1 = n * One
  BY <1>1
<1> QED
  BY <1>2, <1>3, <1>4 DEF FromInt

\* Small numbers of units are floats.
LEMMA UnitsAreFloat ==
  ASSUME NEW n \in Nat, n <= Pow2[Precision]
  PROVE  IsFloat(n)
<1>1. n = Pow2[0] * n
  BY Pow2Defined
<1> QED
  BY <1>1 DEF IsFloat

LEMMA FloorIs ==
  ASSUME NEW x \in Nat, NEW n \in Nat
  PROVE  /\ Floor(x) \in Nat
         /\ n * One <= x => n <= Floor(x)
         /\ x < (n + 1) * One => Floor(x) <= n
<1>1. One \in Nat \ {0}
  BY Units
<1>2. n * One = One * n /\ (n + 1) * One = One * (n + 1)
  BY <1>1
<1>3. /\ x \div One \in Nat
      /\ One * n <= x => n <= x \div One
      /\ x < One * (n + 1) => x \div One <= n
  BY <1>1, QuotientIs, DivMod
<1> QED
  BY <1>2, <1>3 DEF Floor

LEMMA Bounded ==
  ASSUME NEW n \in Nat, NEW b \in [1..n -> Nat]
  PROVE  \E bound \in Nat : \A j \in 1..n : b[j] <= bound
<1> DEFINE T == {k \in Nat : k <= n => \E bound \in Nat : \A j \in 1..k : b[j] <= bound}
<1>1. 0 \in T
  OBVIOUS
<1>2. ASSUME NEW k \in Nat, k \in T PROVE k + 1 \in T
  <2>1. CASE k + 1 <= n
    <3>1. PICK bound \in Nat : \A j \in 1..k : b[j] <= bound
      BY <1>2, <2>1
    <3>2. b[k + 1] \in Nat /\ \A j \in 1..(k + 1) : b[j] \in Nat /\ (j \in 1..k \/ j = k + 1)
      BY <2>1
    <3>3. bound + b[k + 1] \in Nat /\ \A j \in 1..(k + 1) : b[j] <= bound + b[k + 1]
      BY <3>1, <3>2
    <3> QED
      BY <3>3
  <2> QED
    BY <2>1
<1>3. n \in T
  <2> HIDE DEF T
  <2> QED
    BY <1>1, <1>2, Induct
<1> QED
  BY <1>3

\* Sorting brings to position k a value that at most k are less than, and more than k
\* not greater than.
LEMMA SortedIs ==
  ASSUME NEW n \in Nat, NEW b \in [1..n -> Nat], NEW k \in Nat, k < n
  PROVE  LET v == Sorted(b, k)
         IN  /\ v \in Nat /\ v \in {b[j] : j \in 1..n}
             /\ Cardinality({j \in 1..n : b[j] < v}) <= k
             /\ Cardinality({j \in 1..n : b[j] <= v}) > k
<1> DEFINE Values == {b[j] : j \in 1..n}
           Less(v) == {j \in 1..n : b[j] < v}
           UpTo(v) == {j \in 1..n : b[j] <= v}
           High == {v \in Values : Cardinality(UpTo(v)) > k}
<1>1. Values \subseteq Nat /\ High \subseteq Values
  OBVIOUS
<1>2. High # {}
  <2>1. PICK bound \in Nat : \A j \in 1..n : b[j] <= bound
    BY Bounded
  <2>2. Values # {} /\ \A y \in Values : y <= bound
    <3>1. 1 \in 1..n
      OBVIOUS
    <3> QED
      BY <2>1, <3>1
  <2>3. Max(Values) \in Values /\ \A y \in Values : y <= Max(Values)
    <3> HIDE DEF Values
    <3> QED
      BY <1>1, <2>2, MaxIsGreatest
  <2>4. UpTo(Max(Values)) = 1..n
    BY <2>3
  <2>5. Cardinality(1..n) = n
    BY FS_Interval
  <2> QED
    BY <2>3, <2>4, <2>5
<1>3. PICK v \in High : \A y \in High : v <= y
  <2>1. High \subseteq Nat
    BY <1>1
  <2> HIDE DEF High
  <2> QED
    BY <1>2, <2>1, Least
<1>4. Cardinality(Less(v)) <= k
  <2> DEFINE Lower == {y \in Values : y < v}
  <2>1. CASE Lower = {}
    <3>1. Less(v) = {}
      BY <2>1
    <3> QED
      BY <3>1, FS_EmptySet
  <2>2. CASE Lower # {}
    <3> DEFINE w == Max(Lower)
    <3>1. v \in Nat /\ Lower \subseteq Nat /\ \A y \in Lower : y <= v
      BY <1>1
    <3>2. w \in Lower /\ \A y \in Lower : y <= w
      <4> HIDE DEF Lower
      <4> QED
        BY <2>2, <3>1, MaxIsGreatest
    <3> HIDE DEF w
    <3>3. Less(v) = UpTo(w)
      <4>1. ASSUME NEW j \in 1..n PROVE b[j] < v <=> b[j] <= w
        <5>1. b[j] \in Values /\ b[j] \in Nat /\ w \in Nat /\ w < v
          BY <1>1, <3>1, <3>2
        <5>2. b[j] < v => b[j] <= w
          BY <3>2, <5>1
        <5> QED
          BY <3>1, <5>1, <5>2
      <4> QED
        BY <4>1
    <3>4. w \notin High
      <4>1. w \in Nat /\ v \in Nat /\ w < v
        BY <3>1, <3>2
      <4>2. ~(v <= w)
        BY <4>1
      <4> HIDE DEF High
      <4> QED
        BY <1>3, <4>2, Zenon
    <3>5. Cardinality(UpTo(w)) \in Nat
      <4>1. UpTo(w) \subseteq 1..n
        OBVIOUS
      <4>2. IsFiniteSet(1..n)
        BY FS_Interval
      <4>3. IsFiniteSet(UpTo(w))
        <5> HIDE DEF UpTo
        <5> QED
          BY <4>1, <4>2, FS_Subset, Zenon
      <4> HIDE DEF UpTo
      <4> QED
        BY <4>3, FS_CardinalityType, Zenon
    <3>6. ~(Cardinality(UpTo(w)) > k)
      BY <3>2, <3>4
    <3>7. Cardinality(UpTo(w)) <= k
      <4> DEFINE c == Cardinality(UpTo(w))
      <4>1. c \in Nat /\ ~(c > k)
        BY <3>5, <3>6, Zenon
      <4> HIDE DEF c
      <4>2. c <= k
        BY <4>1
      <4> QED
        BY <4>2, Zenon DEF c
    <3> HIDE DEF Less, UpTo
    <3> QED
      BY <3>3, <3>7, Zenon
  <2> QED
    BY <2>1, <2>2
<1>5. DOMAIN b = 1..n
  OBVIOUS
<1> DEFINE IsIt(y) == Cardinality(Less(y)) <= k /\ Cardinality(UpTo(y)) > k
<1>6. v \in Values /\ IsIt(v)
  BY <1>4
<1>7. Sorted(b, k) = CHOOSE y \in Values : IsIt(y)
  BY <1>5 DEF Sorted
<1> HIDE DEF IsIt
<1>8. Sorted(b, k) \in Values /\ IsIt(Sorted(b, k))
  <2> HIDE DEF Values
  <2> QED
    BY <1>6, <1>7
<1> QED
  BY <1>1, <1>8 DEF IsIt

--------------------------------------------------------------------------------
\* The inductive invariant.

TypeOK ==
  /\ original \in Seq(Nat) /\ data \in [1..length -> Nat] /\ i \in 0..length
  /\ highPercentile \in Nat /\ tol_low \in Nat /\ tol_high \in Nat /\ cap \in Nat

\* The first i values have been compared with cap.
ClippedSoFar ==
  /\ \A j \in 1..length :
       data[j] = IF j <= i /\ original[j] > cap THEN cap ELSE original[j]
  /\ pc = "reduced" => i = length
  /\ pc = "reduceMaxValues" => i = 0

CapIsPercentile ==
  pc \in {"clip", "reduced"} =>
    ~InvalidPercentile /\ (idx(highPercentile) < length => cap = Sorted(buf, idx(highPercentile)))

LimitsAre ==
  LET cdf == Cumulated(hist, length)
  IN  result = <<Limit(LowerBound(cdf, tol_low)), Limit(LowerBound(cdf, tol_high))>>

StretchedFloats ==
  /\ pc \in {"strechlim", "undefined", "stretched"} => original \in StrechData
  /\ pc \in {"undefined", "stretched"} => ~InvalidTolerance
  /\ pc = "undefined" => Width = 0
  /\ pc = "stretched" => Width # 0 /\ LimitsAre

IInv == TypeOK /\ ClippedSoFar /\ CapIsPercentile /\ StretchedFloats

--------------------------------------------------------------------------------
\* It is one.

\* What the definitions say of the array is of the array alone.
LEMMA Frame ==
  ASSUME original' = original
  PROVE  /\ length' = length /\ Elements' = Elements /\ buf' = buf
         /\ dataMin' = dataMin /\ dataMax' = dataMax /\ Width' = Width
         /\ hist' = hist
         /\ \A p : idx(p)' = idx(p)
         /\ \A b : Limit(b)' = Limit(b)
<1>1. length' = length
  BY DEF length
<1>2. Elements' = Elements /\ buf' = buf
  BY <1>1 DEF Elements, buf
<1>3. dataMin' = dataMin
  BY <1>2 DEF dataMin
<1>4. dataMax' = dataMax
  BY <1>2, <1>3 DEF dataMax
<1>5. Width' = Width
  BY <1>3, <1>4 DEF Width
<1>6. ASSUME NEW j PROVE Bin(original[j])' = Bin(original[j])
  BY <1>3, <1>5 DEF Bin
<1>7. hist' = hist
  BY <1>1, <1>6 DEF hist
<1>8. \A p : idx(p)' = idx(p)
  BY <1>1 DEF idx
<1>9. \A b : Limit(b)' = Limit(b)
  BY <1>3, <1>5 DEF Limit
<1> QED
  BY <1>1, <1>2, <1>3, <1>4, <1>5, <1>7, <1>8, <1>9

LEMMA OriginalIs ==
  ASSUME original \in Seq(Nat)
  PROVE  /\ length \in Nat /\ original \in [1..length -> Nat]
         /\ \A j \in 1..length : original[j] \in Nat
         /\ Elements \subseteq Nat /\ buf \in [1..length -> Nat]
         /\ DOMAIN buf = 1..length
<1>1. length \in Nat /\ original \in [1..length -> Nat]
  BY DEF length
<1>2. \A j \in 1..length : original[j] \in Nat
  BY <1>1
<1>3. \A j \in 1..length : Rounded(original[j], 1) \in Nat
  BY <1>2, RoundedIsFloat
<1> QED
  BY <1>1, <1>2, <1>3 DEF Elements, buf

LEMMA Arithmetic ==
  ASSUME NEW x \in Nat, NEW y \in Nat
  PROVE  /\ FromInt(x) \in Nat /\ Plus(x, y) \in Nat /\ Times(x, y) \in Nat
         /\ y <= x => Minus(x, y) \in Nat
         /\ y # 0 => Over(x, y) \in Nat
<1>1. One \in Nat \ {0} /\ x * One \in Nat /\ x + y \in Nat /\ x * y \in Nat
  BY Units
<1>2. y <= x => x - y \in Nat
  OBVIOUS
<1> QED
  BY <1>1, <1>2, RoundedIsFloat DEF FromInt, Plus, Minus, Times, Over

LEMMA IndexIs ==
  ASSUME length \in Nat \ {0}, NEW p \in Nat
  PROVE  idx(p) \in Nat
<1>1. length - 1 \in Nat
  OBVIOUS
<1>2. Times(FromInt(length - 1), p) \in Nat
  BY <1>1, Arithmetic
<1> QED
  BY <1>2, FloorIs DEF idx

LEMMA InvInit == Init => IInv
<1> SUFFICES ASSUME Init PROVE IInv
  OBVIOUS
<1>1. original \in Seq(Nat) /\ highPercentile \in Nat /\ tol_low \in Nat /\ tol_high \in Nat
  <2>1. /\ ReduceData \subseteq Seq(Nat) /\ Percentiles \subseteq Nat
        /\ StrechData \subseteq Seq(Nat) /\ Tolerances \subseteq Nat
    BY MathUtilsAssumption, Zenon
  <2>2. CASE CallReduce
    BY <2>1, <2>2 DEF CallReduce
  <2>3. CASE CallStrechlim
    BY <2>1, <2>3 DEF CallStrechlim
  <2> QED
    BY <2>2, <2>3 DEF Init
<1>2. length \in Nat /\ original \in [1..length -> Nat] /\ \A j \in 1..length : original[j] \in Nat
  BY <1>1, OriginalIs
<1>3. TypeOK
  BY <1>1, <1>2 DEF Init, TypeOK
<1>4. ClippedSoFar
  BY <1>2 DEF Init, CallReduce, CallStrechlim, ClippedSoFar
<1> QED
  BY <1>3, <1>4 DEF IInv, Init, CallReduce, CallStrechlim, CapIsPercentile, StretchedFloats

LEMMA InvNext == IInv /\ [Next]_vars => IInv'
<1> SUFFICES ASSUME IInv, [Next]_vars PROVE IInv'
  OBVIOUS
<1>1. original' = original
  BY DEF Next, vars, RejectPercentile, Cap, Clip, EndOfClip, RejectTolerance, DivideByZero, FindLimits
<1>2. /\ length' = length /\ buf' = buf /\ Width' = Width /\ hist' = hist
      /\ \A p : idx(p)' = idx(p)
      /\ \A b : Limit(b)' = Limit(b)
  BY <1>1, Frame
<1>3. /\ length \in Nat /\ original \in [1..length -> Nat] /\ \A j \in 1..length : original[j] \in Nat
      /\ buf \in [1..length -> Nat] /\ Elements \subseteq Nat
  BY OriginalIs DEF IInv, TypeOK
<1>4. CASE RejectPercentile
  BY <1>1, <1>2, <1>4 DEF RejectPercentile, IInv, TypeOK, ClippedSoFar, CapIsPercentile, StretchedFloats
<1>5. CASE Cap
  <2> DEFINE n == idx(highPercentile)
  <2>1. cap' \in Nat /\ (n < length => cap' = Sorted(buf, n))
    <3>1. CASE n < length
      <4>1. n \in Nat
        <5>1. length \in Nat \ {0} /\ highPercentile \in Nat
          BY <1>3, <1>5 DEF Cap, InvalidPercentile, IInv, TypeOK
        <5> QED
          BY <5>1, IndexIs
      <4>2. Sorted(buf, n) \in Nat
        BY <1>3, <3>1, <4>1, SortedIs
      <4> QED
        BY <1>5, <3>1, <4>2 DEF Cap
    <3>2. CASE ~(n < length)
      BY <1>3, <1>5, <3>2 DEF Cap
    <3> QED
      BY <3>1, <3>2
  <2>2. TypeOK'
    BY <1>1, <1>2, <1>5, <2>1 DEF Cap, IInv, TypeOK
  <2>3. ClippedSoFar'
    BY <1>1, <1>2, <1>5 DEF Cap, IInv, ClippedSoFar
  <2>4. CapIsPercentile'
    <3>1. highPercentile' = highPercentile /\ ~InvalidPercentile
      BY <1>5 DEF Cap
    <3>2. Sorted(buf, n)' = Sorted(buf, n)
      BY <1>2, <3>1 DEF Sorted
    <3> QED
      BY <1>2, <2>1, <3>1, <3>2 DEF CapIsPercentile, InvalidPercentile
  <2>5. StretchedFloats'
    BY <1>5 DEF Cap, StretchedFloats
  <2> QED
    BY <2>2, <2>3, <2>4, <2>5 DEF IInv
<1>6. CASE Clip
  <2>1. i \in 0..length /\ i < length /\ i + 1 \in 1..length /\ i' = i + 1 /\ data \in [1..length -> Nat] /\ cap \in Nat
    BY <1>3, <1>6 DEF Clip, IInv, TypeOK
  <2>2. TypeOK'
    BY <1>1, <1>2, <1>6, <2>1 DEF Clip, IInv, TypeOK
  <2>3. ASSUME NEW j \in 1..length
        PROVE  data'[j] = IF j <= i' /\ original[j] > cap THEN cap ELSE original[j]
    <3>1. data[j] = IF j <= i /\ original[j] > cap THEN cap ELSE original[j]
      BY DEF IInv, ClippedSoFar
    <3>2. data' = [data EXCEPT ![i + 1] = IF @ > cap THEN cap ELSE @]
      BY <1>6 DEF Clip
    <3>3. CASE j = i + 1
      BY <2>1, <3>1, <3>2, <3>3
    <3>4. CASE j # i + 1
      <4>1. data'[j] = data[j] /\ (j <= i + 1 <=> j <= i)
        BY <2>1, <3>2, <3>4
      <4> QED
        BY <2>1, <3>1, <4>1
    <3> QED
      BY <3>3, <3>4
  <2>4. ClippedSoFar'
    BY <1>1, <1>2, <1>6, <2>3 DEF Clip, ClippedSoFar
  <2>5. CapIsPercentile'
    BY <1>1, <1>2, <1>6 DEF Clip, IInv, CapIsPercentile, InvalidPercentile
  <2>6. StretchedFloats'
    BY <1>6 DEF Clip, StretchedFloats
  <2> QED
    BY <2>2, <2>4, <2>5, <2>6 DEF IInv
<1>7. CASE EndOfClip
  <2>1. TypeOK'
    BY <1>1, <1>2, <1>7 DEF EndOfClip, IInv, TypeOK
  <2>2. ClippedSoFar'
    BY <1>1, <1>2, <1>7 DEF EndOfClip, IInv, ClippedSoFar
  <2>3. CapIsPercentile'
    BY <1>1, <1>2, <1>7 DEF EndOfClip, IInv, CapIsPercentile, InvalidPercentile
  <2>4. StretchedFloats'
    BY <1>7 DEF EndOfClip, StretchedFloats
  <2> QED
    BY <2>1, <2>2, <2>3, <2>4 DEF IInv
<1>8. CASE RejectTolerance
  BY <1>1, <1>2, <1>8 DEF RejectTolerance, IInv, TypeOK, ClippedSoFar, CapIsPercentile, StretchedFloats
<1>9. CASE DivideByZero
  <2>1. TypeOK' /\ ClippedSoFar' /\ CapIsPercentile'
    BY <1>1, <1>2, <1>9 DEF DivideByZero, IInv, TypeOK, ClippedSoFar, CapIsPercentile
  <2>2. StretchedFloats'
    BY <1>1, <1>2, <1>9 DEF DivideByZero, IInv, StretchedFloats, InvalidTolerance
  <2> QED
    BY <2>1, <2>2 DEF IInv
<1>10. CASE FindLimits
  <2>1. TypeOK' /\ ClippedSoFar' /\ CapIsPercentile'
    BY <1>1, <1>2, <1>10 DEF FindLimits, IInv, TypeOK, ClippedSoFar, CapIsPercentile
  <2>2. LimitsAre'
    <3>1. tol_low' = tol_low /\ tol_high' = tol_high
      BY <1>10 DEF FindLimits
    <3>2. Cumulated(hist, length)' = Cumulated(hist, length)
      BY <1>2 DEF Cumulated
    <3>3. result' = <<Limit(LowerBound(Cumulated(hist, length), tol_low)), Limit(LowerBound(Cumulated(hist, length), tol_high))>>
      BY <1>10 DEF FindLimits
    <3> QED
      BY <1>2, <3>1, <3>2, <3>3 DEF LimitsAre, LowerBound
  <2>3. StretchedFloats'
    BY <1>1, <1>2, <1>10, <2>2 DEF FindLimits, IInv, StretchedFloats, InvalidTolerance
  <2> QED
    BY <2>1, <2>3 DEF IInv
<1>11. CASE UNCHANGED vars
  <2>1. TypeOK' /\ ClippedSoFar'
    BY <1>1, <1>2, <1>11 DEF vars, IInv, TypeOK, ClippedSoFar
  <2>2. CapIsPercentile'
    BY <1>1, <1>2, <1>11 DEF vars, IInv, CapIsPercentile, InvalidPercentile
  <2>3. StretchedFloats'
    <3>1. LimitsAre => LimitsAre'
      BY <1>1, <1>2, <1>11 DEF vars, LimitsAre, LowerBound, Cumulated
    <3> QED
      BY <1>1, <1>2, <1>11, <3>1 DEF vars, IInv, StretchedFloats, InvalidTolerance
  <2> QED
    BY <2>1, <2>2, <2>3 DEF IInv
<1> QED
  BY <1>4, <1>5, <1>6, <1>7, <1>8, <1>9, <1>10, <1>11 DEF Next

LEMMA Invariant == Spec => []IInv
<1>1. Init => IInv
  BY InvInit
<1>2. IInv /\ [Next]_vars => IInv'
  BY InvNext
<1> QED
  BY <1>1, <1>2, PTL DEF Spec

--------------------------------------------------------------------------------
\* reduceMaxValues.

\* The product of the last index and the percentile is next to the exact one.
LEMMA IndexBetween ==
  ASSUME NEW n \in Nat, n = length - 1, FromInt(n) = n * One,
         NEW p \in Nat, p <= One, NEW k \in Nat, k <= Pow2[Precision]
  PROVE  /\ idx(p) \in Nat /\ idx(p) <= n
         /\ k * One <= p * n => k <= idx(p)
         /\ p * n <= k * One => idx(p) <= k
<1> DEFINE F == n * One
           T == Times(F, p)
<1>1. One \in Nat \ {0} /\ F \in Nat /\ IsFloat(F) /\ F * p \in Nat
  <2>1. One \in Nat \ {0} /\ F \in Nat
    BY Units
  <2>2. IsFloat(FromInt(n))
    BY <2>1, RoundedIsFloat DEF FromInt
  <2>3. F * p \in Nat
    BY <2>1
  <2> QED
    BY <2>1, <2>2, <2>3
<1>2. T = Rounded(F * p, One) /\ T \in Nat /\ idx(p) = Floor(T)
  BY <1>1, RoundedIsFloat DEF Times, idx
<1> HIDE DEF T
<1>3. T <= F
  <2>1. p * F <= One * F /\ p * F = F * p /\ One * F = F * One
    BY <1>1, ProductMonotone
  <2> HIDE DEF F
  <2> QED
    BY <1>1, <1>2, <2>1, BoundedByFloat
<1>4. idx(p) \in Nat /\ idx(p) <= n
  <2>1. T < (n + 1) * One
    BY <1>1, <1>2, <1>3
  <2> QED
    BY <1>2, <2>1, FloorIs
<1>5. IsFloat(k * One) /\ k * One \in Nat /\ (k * One) * One \in Nat /\ p * n \in Nat /\ F * p = (p * n) * One
  BY <1>1, CountIsFloat
<1>6. ASSUME k * One <= p * n PROVE k <= idx(p)
  <2>1. (k * One) * One <= (p * n) * One
    BY <1>1, <1>5, <1>6, ProductMonotone
  <2>2. (k * One) * One <= F * p
    BY <1>5, <2>1
  <2> HIDE DEF F
  <2>3. k * One <= T
    BY <1>1, <1>2, <1>5, <2>2, BoundedByFloat
  <2> QED
    BY <1>2, <2>3, FloorIs
<1>7. ASSUME p * n <= k * One PROVE idx(p) <= k
  <2>1. (p * n) * One <= (k * One) * One
    BY <1>1, <1>5, <1>7, ProductMonotone
  <2>2. F * p <= (k * One) * One
    BY <1>5, <2>1
  <2> HIDE DEF F
  <2>3. T <= k * One
    BY <1>1, <1>2, <1>5, <2>2, BoundedByFloat
  <2>4. T < (k + 1) * One
    BY <1>1, <1>2, <2>3
  <2> QED
    BY <1>2, <2>4, FloorIs
<1> QED
  BY <1>4, <1>6, <1>7

\* The index is at most the last one: rounding the product does not lead beyond it.
LEMMA IndexInRangeHolds == IInv => IndexInRange
<1> SUFFICES ASSUME IInv, pc = "clip", ExactLength PROVE idx(highPercentile) < length
  BY DEF IndexInRange
<1>1. length \in Nat /\ highPercentile \in Nat
  BY OriginalIs DEF IInv, TypeOK
<1>2. length # 0 /\ highPercentile <= One
  BY <1>1, Units DEF IInv, CapIsPercentile, InvalidPercentile
<1> DEFINE n == length - 1
<1>3. n \in Nat /\ FromInt(n) = n * One
  BY <1>1, <1>2 DEF ExactLength
<1>4. 0 \in Nat /\ 0 <= Pow2[Precision]
  BY Units
<1>5. idx(highPercentile) \in Nat /\ idx(highPercentile) <= n
  BY <1>1, <1>2, <1>3, <1>4, IndexBetween
<1> QED
  BY <1>1, <1>5

\* reduceMaxValues reads no value behind the end of its copy, as long as the last index
\* of the array is a float.
THEOREM NothingBehindTheEnd == Spec => []IndexInRange
BY Invariant, IndexInRangeHolds, PTL

LEMMA Others ==
  ASSUME NEW n \in Nat, NEW S, S \subseteq 1..n
  PROVE  /\ Cardinality(S) \in Nat /\ Cardinality(S) <= n
         /\ Cardinality((1..n) \ S) = n - Cardinality(S)
<1>1. IsFiniteSet(1..n) /\ Cardinality(1..n) = n
  BY FS_Interval
<1>2. IsFiniteSet(S) /\ Cardinality(S) <= n
  BY <1>1, FS_Subset
<1>3. (1..n) \cap S = S
  OBVIOUS
<1>4. Cardinality((1..n) \ S) = Cardinality(1..n) - Cardinality((1..n) \cap S)
  BY <1>1, FS_Difference
<1> QED
  BY <1>1, <1>2, <1>3, <1>4, FS_CardinalityType

\* The float at the index is the cap, so the floats above it are behind it.
LEMMA ClippedAtPercentileHolds == IInv => ClippedAtPercentile
<1> SUFFICES ASSUME IInv, pc = "reduced", ExactIndices PROVE FewClipped /\ TopClipped
  BY DEF ClippedAtPercentile
<1>1. /\ length \in Nat \ {0} /\ original \in [1..length -> Nat] /\ highPercentile \in Nat
      /\ highPercentile <= One /\ cap \in Nat /\ One \in Nat \ {0}
  <2>1. length \in Nat /\ original \in [1..length -> Nat] /\ highPercentile \in Nat /\ cap \in Nat
    BY OriginalIs DEF IInv, TypeOK
  <2> QED
    BY <2>1, Units DEF IInv, CapIsPercentile, InvalidPercentile
<1> DEFINE n == length - 1
           p == highPercentile
           k == idx(p)
           Less == {j \in 1..length : buf[j] < cap}
           UpTo == {j \in 1..length : buf[j] <= cap}
<1>2. n \in Nat /\ FromInt(n) = n * One /\ n + 1 <= Pow2[Precision] /\ Pow2[Precision] \in Nat
  <2>1. n \in Nat /\ n + 1 <= Pow2[Precision] /\ n <= Pow2[Precision] /\ Pow2[Precision] \in Nat
    BY <1>1, Units DEF ExactIndices
  <2> QED
    BY <2>1, CountIsFloat
<1>3. k \in Nat /\ k <= n
  BY <1>1, <1>2, IndexBetween
<1>4. /\ k < length /\ buf \in [1..length -> Nat]
      /\ \A j \in 1..length : buf[j] = Rounded(original[j], 1)
  <2>1. buf \in [1..length -> Nat]
    BY OriginalIs DEF IInv, TypeOK
  <2> QED
    BY <1>1, <1>3, <2>1 DEF buf
<1>5. /\ cap \in {buf[j] : j \in 1..length}
      /\ Cardinality(Less) <= k /\ Cardinality(UpTo) > k
  <2>1. cap = Sorted(buf, k)
    BY <1>4 DEF IInv, CapIsPercentile
  <2> HIDE DEF k
  <2>2. length \in Nat
    BY <1>1
  <2>3. /\ Sorted(buf, k) \in {buf[j] : j \in 1..length}
        /\ Cardinality({j \in 1..length : buf[j] < Sorted(buf, k)}) <= k
        /\ Cardinality({j \in 1..length : buf[j] <= Sorted(buf, k)}) > k
    BY <1>3, <1>4, <2>2, SortedIs
  <2> QED
    BY <2>1, <2>3
<1>6. \A j \in 1..length : data[j] = IF original[j] > cap THEN cap ELSE original[j]
  BY <1>1 DEF IInv, ClippedSoFar
<1>7. Rounded(cap, 1) = cap
  <2>1. PICK h \in 1..length : cap = Rounded(original[h], 1)
    BY <1>4, <1>5
  <2>2. IsFloat(cap) /\ cap * 1 = cap
    BY <1>1, <2>1, RoundedIsFloat
  <2>3. Rounded(cap * 1, 1) = cap
    BY <2>2, RoundedOfFloat
  <2> QED
    BY <2>2, <2>3
\* As cap is a float, a value is above it if the float next to it is, or else becomes that.
<1>8. \A j \in 1..length : /\ original[j] <= cap => buf[j] <= cap
                           /\ original[j] >= cap => buf[j] >= cap
  <2>1. ASSUME NEW j \in 1..length
        PROVE  /\ original[j] <= cap => Rounded(original[j], 1) <= Rounded(cap, 1)
               /\ original[j] >= cap => Rounded(original[j], 1) >= Rounded(cap, 1)
    <3>1. original[j] \in Nat /\ original[j] * 1 = original[j] /\ cap * 1 = cap
      BY <1>1
    <3> QED
      BY <1>1, <3>1, RoundedMonotone
  <2> QED
    BY <1>4, <1>7, <2>1
<1>9. p * n \in Nat /\ k * One \in Nat /\ p * n < k * One + One /\ k * One <= p * n + One
  <2> HIDE DEF n, k
  <2>1. p * n \in Nat /\ k * One \in Nat
    BY <1>1, <1>2, <1>3
  <2>2. p * n < k * One + One
    <3>1. k + 1 \in Nat /\ k + 1 <= Pow2[Precision]
      BY <1>2, <1>3
    <3>2. (k + 1) * One <= p * n => k + 1 <= k
      BY <1>1, <1>2, <3>1, IndexBetween DEF n, k
    <3>3. (k + 1) * One = k * One + One
      BY <1>1, <1>3
    <3> QED
      BY <1>1, <1>3, <2>1, <3>2, <3>3
  <2>3. k * One <= p * n + One
    <3>1. CASE k = 0
      BY <1>1, <2>1, <3>1
    <3>2. CASE k # 0
      <4>1. k - 1 \in Nat /\ k - 1 <= Pow2[Precision]
        BY <1>2, <1>3, <3>2
      <4>2. p * n <= (k - 1) * One => k <= k - 1
        BY <1>1, <1>2, <4>1, IndexBetween DEF n, k
      <4>3. (k - 1) * One = k * One - One
        BY <1>1, <1>3
      <4> QED
        BY <1>1, <1>3, <2>1, <4>2, <4>3
    <3> QED
      BY <3>1, <3>2
  <2> QED
    BY <2>1, <2>2, <2>3
<1>10. (One - p) * n = One * n - p * n /\ One * n \in Nat
  BY <1>1, <1>2
<1>11. FewClipped
  <2> DEFINE changed == {j \in 1..length : data[j] \notin {original[j], Rounded(original[j], 1)}}
             c == Cardinality(changed)
  <2>1. changed \subseteq (1..length) \ UpTo
    <3> SUFFICES ASSUME NEW j \in changed, buf[j] <= cap PROVE FALSE
      OBVIOUS
    <3>1. original[j] > cap /\ data[j] = cap
      BY <1>1, <1>6
    <3>2. buf[j] >= cap /\ buf[j] = Rounded(original[j], 1) /\ buf[j] \in Nat
      BY <1>1, <1>4, <1>8, <3>1
    <3> QED
      BY <1>1, <3>1, <3>2
  <2>2. /\ c \in Nat /\ c <= length - Cardinality(UpTo)
        /\ Cardinality(UpTo) \in Nat /\ Cardinality(UpTo) <= length
    <3>1. UpTo \subseteq 1..length /\ changed \subseteq 1..length
      OBVIOUS
    <3> HIDE DEF UpTo, changed
    <3>2. IsFiniteSet((1..length) \ UpTo)
      <4>1. 1 \in Int /\ length \in Int
        BY <1>1
      <4>2. IsFiniteSet(1..length)
        BY <4>1, FS_Interval
      <4> QED
        BY <4>2, FS_Difference
    <3>3. c <= Cardinality((1..length) \ UpTo)
      BY <2>1, <3>2, FS_Subset
    <3> QED
      BY <1>1, <3>1, <3>3, Others
  <2> HIDE DEF UpTo, c, k
  <2>3. c \in Nat /\ c + k <= n
    BY <1>1, <1>3, <1>5, <2>2
  <2>4. (c + k) * One <= n * One
    BY <1>1, <1>2, <1>3, <2>3, ProductMonotone
  <2>5. (c + k) * One = c * One + k * One /\ n * One = One * n /\ c * One \in Nat
    BY <1>1, <1>2, <1>3, <2>3
  <2>6. c * One < (One - p) * n + One
    BY <1>1, <1>9, <1>10, <2>4, <2>5
  <2> QED
    BY <2>6 DEF FewClipped, c
<1>12. TopClipped
  <2> DEFINE atTop == {j \in 1..length : Rounded(data[j], 1) = cap}
             c == Cardinality(atTop)
  <2>1. (1..length) \ Less \subseteq atTop
    <3> SUFFICES ASSUME NEW j \in 1..length, ~(buf[j] < cap) PROVE Rounded(data[j], 1) = cap
      OBVIOUS
    <3>1. CASE original[j] > cap
      BY <1>6, <1>7, <3>1
    <3>2. CASE ~(original[j] > cap)
      <4>1. buf[j] <= cap /\ buf[j] \in Nat /\ data[j] = original[j]
        BY <1>1, <1>4, <1>6, <1>8, <3>2
      <4> QED
        BY <1>1, <1>4, <4>1
    <3> QED
      BY <3>1, <3>2
  <2>2. /\ c \in Nat /\ c >= length - Cardinality(Less)
        /\ Cardinality(Less) \in Nat /\ Cardinality(Less) <= length
    <3>1. Less \subseteq 1..length /\ atTop \subseteq 1..length
      OBVIOUS
    <3> HIDE DEF Less, atTop
    <3>2. IsFiniteSet(atTop) /\ c \in Nat
      <4>1. 1 \in Int /\ length \in Int
        BY <1>1
      <4>2. IsFiniteSet(1..length)
        BY <4>1, FS_Interval
      <4> QED
        BY <3>1, <4>2, FS_Subset, FS_CardinalityType DEF c
    <3>3. Cardinality((1..length) \ Less) <= c
      BY <2>1, <3>2, FS_Subset
    <3> QED
      BY <1>1, <3>1, <3>2, <3>3, Others
  <2> HIDE DEF Less, c, k
  <2>3. c \in Nat /\ n + 1 <= c + k
    BY <1>1, <1>3, <1>5, <2>2
  <2>4. (n + 1) * One <= (c + k) * One
    BY <1>1, <1>2, <1>3, <2>3, ProductMonotone
  <2>5. (c + k) * One = c * One + k * One /\ (n + 1) * One = One * n + One /\ c * One \in Nat
    BY <1>1, <1>2, <1>3, <2>3
  <2>6. c * One >= (One - p) * n
    BY <1>1, <1>9, <1>10, <2>4, <2>5
  <2>7. cap \in {Rounded(x, 1) : x \in Elements}
    BY <1>4, <1>5 DEF Elements
  <2> QED
    BY <1>6, <2>6, <2>7 DEF TopClipped, c
<1> QED
  BY <1>11, <1>12

\* reduceMaxValues cuts off neither more values than the share 1 - highPercentile nor
\* fewer, whatever is rounded of the data, as long as all indices are floats.
THEOREM PercentileIsCut == Spec => []ClippedAtPercentile
BY Invariant, ClippedAtPercentileHolds, PTL

--------------------------------------------------------------------------------
\* strechlim.

\* The least and the greatest value are floats.
LEMMA LimitsOfData ==
  ASSUME original \in Seq(Nat), original \in StrechData, length # 0
  PROVE  /\ dataMin \in Nat /\ IsFloat(dataMin) /\ dataMin \in Elements
         /\ dataMax \in Nat /\ IsFloat(dataMax) /\ dataMin <= dataMax
         /\ Max(Elements) \in Elements /\ Max(Elements) <= dataMax
         /\ \A x \in Elements : x \in Nat /\ dataMin <= x /\ x <= Max(Elements)
         /\ Width = Rounded(dataMax - dataMin, 1) /\ Width \in Nat /\ IsFloat(Width)
<1>1. /\ length \in Nat /\ original \in [1..length -> Nat] /\ Elements \subseteq Nat
      /\ \A j \in 1..length : original[j] \in Nat
  BY OriginalIs
<1>2. \A x \in Elements : IsFloat(x)
  <2>1. \A array \in StrechData : \A j \in 1..Len(array) : Rounded(array[j], 1) = array[j]
    BY MathUtilsAssumption, Zenon
  <2>2. ASSUME NEW j \in 1..length PROVE IsFloat(original[j])
    <3>1. Rounded(original[j], 1) = original[j]
      BY <2>1 DEF length
    <3>2. IsFloat(Rounded(original[j], 1))
      BY <1>1, RoundedIsFloat
    <3> QED
      BY <3>1, <3>2
  <2> QED
    BY <2>2 DEF Elements
<1>3. Elements # {}
  <2>1. 1 \in 1..length
    BY <1>1
  <2> QED
    BY <2>1 DEF Elements
<1>4. dataMin \in Elements /\ \A x \in Elements : dataMin <= x
  BY <1>1, <1>3, MinIsLeast DEF dataMin
<1>5. Max(Elements) \in Elements /\ \A x \in Elements : x <= Max(Elements)
  <2>1. PICK bound \in Nat : \A j \in 1..length : original[j] <= bound
    BY <1>1, Bounded
  <2>2. \A x \in Elements : x <= bound
    BY <2>1 DEF Elements
  <2> QED
    BY <1>1, <1>3, <2>2, MaxIsGreatest
<1>6. dataMin \in Nat /\ IsFloat(dataMin) /\ Tiny \in Nat /\ dataMin + Tiny \in Nat
  <2>1. Tiny \in Nat
    BY MathUtilsAssumption, Zenon
  <2> QED
    BY <1>1, <1>2, <1>4, <2>1
<1>7. dataMax \in Nat /\ IsFloat(dataMax) /\ dataMin <= dataMax /\ Max(Elements) <= dataMax
  <2>1. CASE Max(Elements) <= dataMin
    <3>1. dataMax = Rounded(dataMin + Tiny, 1)
      BY <2>1 DEF dataMax, Plus
    <3>2. dataMin * 1 <= dataMin + Tiny
      BY <1>6
    <3>3. dataMax \in Nat /\ IsFloat(dataMax) /\ dataMin <= dataMax
      BY <1>6, <3>1, <3>2, RoundedIsFloat, BoundedByFloat
    <3>4. Max(Elements) \in Nat
      BY <1>1, <1>5
    <3> QED
      BY <1>6, <2>1, <3>3, <3>4
  <2>2. CASE ~(Max(Elements) <= dataMin)
    <3>1. dataMax = Max(Elements)
      BY <2>2 DEF dataMax
    <3> QED
      BY <1>1, <1>2, <1>4, <1>5, <3>1
  <2> QED
    BY <2>1, <2>2
<1>8. dataMax - dataMin \in Nat /\ Width = Rounded(dataMax - dataMin, 1)
  BY <1>6, <1>7 DEF Width, Minus
<1>9. Width \in Nat /\ IsFloat(Width)
  BY <1>8, RoundedIsFloat
<1> QED
  BY <1>1, <1>4, <1>5, <1>6, <1>7, <1>8, <1>9

\* A number that is lost when it is added is at most half of the last bit.
LEMMA LostInSum ==
  ASSUME NEW m \in Nat, NEW t \in Nat \ {0}, Rounded(m + t, 1) = m
  PROVE  t * Pow2[Precision] <= m
<1> DEFINE s == m + t
<1>1. PICK e \in Nat : LastBit(s, 1, e)
  BY RoundedIs
<1> DEFINE E == Pow2[e]
           q == Nearest(s, 1 * E)
<1>2. E \in Nat \ {0} /\ 1 * E = E /\ q \in Nat /\ m = E * q /\ s \in Nat
  BY <1>1, MantissaFits DEF LastBit
<1>3. 2 * s <= 2 * m + E
  <2> HIDE DEF E, s
  <2>1. 2 * s <= 2 * (E * q) + E
    BY <1>2, NearestIs
  <2> QED
    BY <1>2, <2>1
<1>4. 2 * t <= E
  BY <1>2, <1>3
<1>5. e # 0
  <2> SUFFICES ASSUME e = 0 PROVE FALSE
    OBVIOUS
  <2>1. E = 1
    BY Pow2Defined
  <2> QED
    BY <1>2, <1>4, <2>1
<1> DEFINE h == Pow2[Precision - 1]
           g == Pow2[e - 1]
<1>6. /\ Precision - 1 \in Nat /\ e - 1 \in Nat /\ Precision + e - 1 = e + (Precision - 1)
      /\ (e - 1) + 1 = e /\ (Precision - 1) + 1 = Precision /\ Precision \in Nat
  BY <1>5, Units
<1>7. h \in Nat /\ g \in Nat /\ E = 2 * g /\ Pow2[Precision] = 2 * h /\ Pow2[Precision + e - 1] = E * h
  <2>1. E = 2 * g /\ Pow2[Precision] = 2 * h
    BY <1>6, Pow2Defined
  <2>2. Pow2[e + (Precision - 1)] = E * h
    BY <1>6, Pow2Sum
  <2> QED
    BY <1>6, <2>1, <2>2, Pow2Above
<1>8. s >= E * h
  <2>1. s >= 1 * Pow2[Precision + e - 1]
    BY <1>1, <1>5 DEF LastBit
  <2> HIDE DEF E, h, s
  <2>2. E * h \in Nat
    BY <1>2, <1>7
  <2> QED
    BY <1>7, <2>1, <2>2
<1> HIDE DEF E, h, g, q
<1>9. h <= q
  <2> SUFFICES ASSUME q + 1 <= h PROVE FALSE
    BY <1>2, <1>7
  <2>1. (q + 1) * E <= h * E
    BY <1>2, <1>7, ProductMonotone
  <2>2. (q + 1) * E = E * q + E /\ h * E = E * h /\ E * q \in Nat /\ E * h \in Nat
    BY <1>2, <1>7
  <2> QED
    BY <1>2, <1>4, <1>8, <2>1, <2>2
<1>10. h * E <= q * E /\ t * h <= g * h
  BY <1>2, <1>4, <1>7, <1>9, ProductMonotone
<1>11. h * E = 2 * (g * h) /\ q * E = m /\ t * Pow2[Precision] = 2 * (t * h) /\ t * h \in Nat /\ g * h \in Nat
  BY <1>2, <1>7
<1> QED
  BY <1>10, <1>11

LEMMA NoDivisionByZeroHolds == IInv => NoDivisionByZero
<1> SUFFICES ASSUME IInv, pc = "undefined", NEW x \in Elements PROVE x >= Tiny * Pow2[Precision]
  BY DEF NoDivisionByZero
<1>1. original \in Seq(Nat) /\ original \in StrechData /\ length # 0 /\ Width = 0
  BY DEF IInv, TypeOK, StretchedFloats, InvalidTolerance
<1>2. /\ dataMin \in Nat /\ IsFloat(dataMin) /\ dataMax \in Nat /\ dataMin <= dataMax
      /\ x \in Nat /\ dataMin <= x /\ x <= Max(Elements) /\ Max(Elements) \in Nat
      /\ Width = Rounded(dataMax - dataMin, 1)
  BY <1>1, LimitsOfData
<1>3. dataMax = dataMin
  <2> SUFFICES ASSUME 1 <= dataMax - dataMin PROVE FALSE
    BY <1>2
  <2>1. IsFloat(1)
    BY Units, UnitsAreFloat
  <2>2. dataMax - dataMin \in Nat /\ 1 * 1 <= dataMax - dataMin
    BY <1>2
  <2>3. 1 <= Rounded(dataMax - dataMin, 1)
    BY <2>1, <2>2, BoundedByFloat
  <2> QED
    BY <1>1, <1>2, <2>3
<1>4. Rounded(dataMin + Tiny, 1) = dataMin
  BY <1>2, <1>3 DEF dataMax, Plus
<1>5. Tiny \in Nat \ {0}
  BY MathUtilsAssumption, Zenon
<1>6. Tiny * Pow2[Precision] <= dataMin
  BY <1>2, <1>4, <1>5, LostInSum
<1>7. Tiny * Pow2[Precision] \in Nat
  BY <1>5, Units
<1> QED
  BY <1>2, <1>6, <1>7

\* Only data 2^Precision times as large as the constant that is added make strechlim
\* divide by zero.
THEOREM ZeroWidthIsLarge == Spec => []NoDivisionByZero
BY Invariant, NoDivisionByZeroHolds, PTL

\* nbins - 1 and half a bin more are floats.
LEMMA BinsAreFloats ==
  /\ nbins - 1 \in Nat \ {0} /\ nbins \in Nat
  /\ FromInt(nbins - 1) = (nbins - 1) * One /\ IsFloat((nbins - 1) * One)
  /\ (nbins - 1) * One \in Nat \ {0}
  /\ One \div 2 \in Nat /\ 2 * (One \div 2) = One /\ IsFloat((nbins - 1) * One + One \div 2)
<1> DEFINE n == nbins - 1
           half == Pow2[Point - 1]
<1>1. nbins \in Nat \ {0, 1} /\ 2 * nbins <= Pow2[Precision] /\ Pow2[Precision] \in Nat
  BY MathUtilsAssumption, Units, Zenon
<1>2. n \in Nat \ {0} /\ n <= Pow2[Precision]
  BY <1>1
<1>3. FromInt(n) = n * One /\ IsFloat(n * One)
  BY <1>2, CountIsFloat
<1>4. half \in Nat \ {0} /\ One = 2 * half /\ Point - 1 \in Nat
  BY Units
<1>5. One \div 2 = half
  <2> HIDE DEF half
  <2> QED
    BY <1>4
<1>6. n * One + half = half * (2 * n + 1) /\ 2 * n + 1 \in Nat /\ 2 * n + 1 <= Pow2[Precision]
  <2> HIDE DEF half
  <2> QED
    BY <1>1, <1>4
<1>7. IsFloat(n * One + half)
  BY <1>4, <1>6 DEF IsFloat
<1>8. n * One \in Nat \ {0}
  <2>1. One \in Nat \ {0}
    BY Units
  <2>2. 1 * One <= n * One
    <3> HIDE DEF n
    <3>1. 1 \in Nat /\ 1 <= n /\ One \in Nat /\ n \in Nat
      BY <1>2, <2>1
    <3> QED
      BY <3>1, ProductMonotone
  <2> HIDE DEF n
  <2> QED
    BY <1>2, <2>1, <2>2
<1> HIDE DEF half
<1> QED
  BY <1>1, <1>2, <1>3, <1>4, <1>5, <1>7, <1>8

LEMMA BelowOneIs == BelowOne \in Nat /\ BelowOne <= One
<1> DEFINE d == Pow2[Precision]
           q == One \div d
<1>1. One \in Nat /\ d \in Nat /\ d >= 4
  BY Units
<1>2. q \in Nat /\ d * q <= One
  <2> HIDE DEF d
  <2>1. d \in Nat \ {0}
    BY <1>1
  <2>2. q \in Nat /\ One % d \in Nat /\ One = d * q + (One % d)
    BY <1>1, <2>1, DivMod
  <2>3. d * q \in Nat
    BY <1>1, <2>2
  <2> HIDE DEF q
  <2> QED
    BY <1>1, <2>2, <2>3
<1> HIDE DEF d, q
<1>3. 4 * q <= d * q /\ d * q \in Nat
  BY <1>1, <1>2, ProductMonotone
<1>4. BelowOne = One - 2 * q
  BY DEF BelowOne, d, q
<1> QED
  BY <1>1, <1>2, <1>3, <1>4

\* No bin is beyond the last, however the quotient, product and sum are rounded.
LEMMA BinIs ==
  ASSUME original \in Seq(Nat), original \in StrechData, length # 0, Width # 0,
         NEW x \in Elements
  PROVE  Bin(x) \in 0..(nbins - 1)
<1>1. x \in Nat /\ dataMin \in Nat /\ dataMin <= x /\ Width \in Nat \ {0}
  BY LimitsOfData
<1> DEFINE o == Over(Minus(x, dataMin), Width)
           v == Min({o, BelowOne})
           n == nbins - 1
           F == n * One
           half == One \div 2
           t == Times(v, F)
<1>2. o \in Nat
  BY <1>1, Arithmetic
<1>3. v \in Nat /\ v <= One
  <2> DEFINE T == {o, BelowOne}
  <2>1. T \subseteq Nat /\ T # {} /\ BelowOne \in T
    BY <1>2, BelowOneIs
  <2> HIDE DEF T
  <2>2. Min(T) \in T /\ Min(T) <= BelowOne
    BY <2>1, MinIsLeast
  <2>3. Min(T) \in Nat
    BY <2>1, <2>2
  <2> QED
    BY <2>2, <2>3, BelowOneIs, Units DEF T
<1>4. /\ n \in Nat \ {0} /\ FromInt(n) = F /\ F \in Nat /\ IsFloat(F) /\ half \in Nat
      /\ 2 * half = One /\ IsFloat(F + half) /\ One \in Nat \ {0}
  BY BinsAreFloats, Units
<1>5. Bin(x) = Floor(Plus(t, half))
  BY <1>4 DEF Bin
<1> HIDE DEF v, F, half
<1>6. t \in Nat /\ t <= F
  <2>1. v * F <= One * F /\ v * F \in Nat /\ One * F = F * One
    BY <1>3, <1>4, ProductMonotone
  <2>2. Rounded(v * F, One) <= F
    BY <1>4, <2>1, BoundedByFloat
  <2>3. Rounded(v * F, One) \in Nat
    BY <1>4, <2>1, RoundedIsFloat
  <2> QED
    BY <2>2, <2>3 DEF Times
<1> HIDE DEF t
<1>7. Plus(t, half) \in Nat /\ Plus(t, half) <= F + half
  <2>1. t + half \in Nat /\ t + half <= (F + half) * 1
    BY <1>4, <1>6
  <2>2. Rounded(t + half, 1) <= F + half /\ Rounded(t + half, 1) \in Nat
    <3> DEFINE s == t + half
               f == F + half
    <3>1. s \in Nat /\ s <= f * 1 /\ IsFloat(f) /\ 1 \in Nat \ {0}
      BY <1>4, <2>1
    <3> HIDE DEF s, f
    <3>2. Rounded(s, 1) <= f /\ Rounded(s, 1) \in Nat
      BY <3>1, BoundedByFloat, RoundedIsFloat
    <3> QED
      BY <3>2 DEF s, f
  <2> QED
    BY <2>2 DEF Plus
<1>8. Plus(t, half) < (n + 1) * One
  <2>1. (n + 1) * One = F + One
    BY <1>4 DEF F
  <2> QED
    BY <1>4, <1>7, <2>1
<1>9. Floor(Plus(t, half)) \in Nat /\ Floor(Plus(t, half)) <= n
  BY <1>4, <1>7, <1>8, FloorIs
<1> HIDE DEF n
<1>10. Floor(Plus(t, half)) \in 0..n
  BY <1>4, <1>9
<1> QED
  BY <1>5, <1>10 DEF n

LEMMA BinsInRangeHolds == IInv => BinsInRange
<1> SUFFICES ASSUME IInv, pc = "stretched", NEW x \in Elements PROVE Bin(x) \in 0..(nbins - 1)
  BY DEF BinsInRange
<1>1. original \in Seq(Nat) /\ original \in StrechData /\ length # 0 /\ Width # 0
  BY DEF IInv, TypeOK, StretchedFloats, InvalidTolerance
<1> QED
  BY <1>1, BinIs

\* Every value is counted in a bin of the histogram, also the largest.
THEOREM EveryValueIsCounted == Spec => []BinsInRange
BY Invariant, BinsInRangeHolds, PTL

--------------------------------------------------------------------------------
\* The limits.

\* The share that k values have among n.
ShareOf(k, n) == Over(FromInt(k), FromInt(n))

LEMMA ShareIs ==
  ASSUME NEW n \in Nat \ {0}, NEW k \in Nat
  PROVE  /\ FromInt(n) \in Nat \ {0} /\ FromInt(k) \in Nat
         /\ ShareOf(k, n) \in Nat /\ IsFloat(ShareOf(k, n))
         /\ ShareOf(0, n) = 0
<1>1. One \in Nat \ {0} /\ n * One \in Nat /\ Pow2[Precision] >= 4 /\ Pow2[Precision] \in Nat
  BY Units
<1>2. FromInt(n) \in Nat \ {0}
  <2>1. IsFloat(1 * One) /\ 1 * One = One
    BY <1>1, CountIsFloat
  <2>2. One * 1 <= n * One
    <3>1. 1 * One <= n * One
      BY <1>1, ProductMonotone
    <3> QED
      BY <1>1, <3>1
  <2>3. One <= Rounded(n * One, 1) /\ Rounded(n * One, 1) \in Nat
    <3> DEFINE x == n * One
    <3>1. x \in Nat /\ One * 1 <= x /\ IsFloat(One) /\ 1 \in Nat \ {0}
      BY <1>1, <2>1, <2>2
    <3> HIDE DEF x
    <3>2. One <= Rounded(x, 1) /\ Rounded(x, 1) \in Nat
      BY <3>1, BoundedByFloat, RoundedIsFloat
    <3> QED
      BY <3>2 DEF x
  <2> QED
    BY <1>1, <2>3 DEF FromInt
<1>3. FromInt(k) \in Nat /\ FromInt(k) * One \in Nat
  <2>1. FromInt(k) \in Nat
    BY Arithmetic
  <2> QED
    BY <1>1, <2>1
<1>4. ShareOf(k, n) \in Nat /\ IsFloat(ShareOf(k, n))
  BY <1>2, <1>3, RoundedIsFloat DEF ShareOf, Over
<1>5. ShareOf(0, n) = 0
  <2>1. IsFloat(0) /\ FromInt(0) = 0
    <3>1. FromInt(0) = 0 * One /\ 0 * One = 0
      BY <1>1, CountIsFloat
    <3> QED
      BY <1>1, <3>1, UnitsAreFloat
  <2>2. Rounded(0 * FromInt(n), FromInt(n)) = 0
    BY <1>2, <2>1, RoundedOfFloat
  <2>3. 0 * FromInt(n) = 0 /\ 0 * One = 0
    BY <1>1, <1>2
  <2> QED
    BY <2>1, <2>2, <2>3 DEF ShareOf, Over
<1> QED
  BY <1>2, <1>3, <1>4, <1>5

\* The recursive definition of cdf has a solution.
LEMMA CumulatedIs ==
  ASSUME NEW h \in [0..(nbins - 1) -> Nat], NEW n \in Nat \ {0}
  PROVE  LET cdf == Cumulated(h, n)
         IN  /\ cdf \in [0..(nbins - 1) -> Nat]
             /\ cdf[0] = ShareOf(h[0], n)
             /\ \A b \in 1..(nbins - 1) : cdf[b] = Plus(cdf[b - 1], ShareOf(h[b], n))
<1> DEFINE last == nbins - 1
           Share(b) == Over(FromInt(h[b]), FromInt(n))
           step == [b \in 1..last |-> [x \in Nat |-> Plus(x, Share(b))]]
           Is(f) == f = [b \in 0..last |-> IF b = 0 THEN Share(0) ELSE Plus(f[b - 1], Share(b))]
           cdf == CHOOSE f : Is(f)
<1>1. last \in Nat \ {0} /\ 0 \in 0..last /\ \A b \in 1..last : b \in 0..last /\ b - 1 \in 0..last
  BY BinsAreFloats
<1> HIDE DEF last
<1>2. \A b \in 0..last : h[b] \in Nat
  BY DEF last
<1>3. \A b \in 0..last : Share(b) \in Nat
  BY <1>2, ShareIs DEF ShareOf
<1> HIDE DEF Share
<1>4. step \in [1..last -> [Nat -> Nat]]
  <2>1. ASSUME NEW b \in 1..last, NEW x \in Nat PROVE Plus(x, Share(b)) \in Nat
    BY <1>1, <1>3, Arithmetic
  <2> QED
    BY <2>1
<1>5. PICK f \in [0..last -> Nat] : DefinedBy(f, Share(0), step, last)
  <2>1. Share(0) \in Nat /\ last \in Nat
    BY <1>1, <1>3
  <2> HIDE DEF step
  <2> QED
    BY <1>4, <2>1, BoundedRecursion, Zenon
<1>6. \A b \in 0..last : f[b] = IF b = 0 THEN Share(0) ELSE Plus(f[b - 1], Share(b))
  <2>1. f = [b \in 0..last |-> IF b = 0 THEN Share(0) ELSE step[b][f[b - 1]]]
    BY <1>5 DEF DefinedBy
  <2>2. ASSUME NEW b \in 0..last, b # 0 PROVE step[b][f[b - 1]] = Plus(f[b - 1], Share(b))
    <3>1. b \in 1..last /\ b - 1 \in 0..last
      BY <1>1, <2>2
    <3>2. f[b - 1] \in Nat
      BY <1>5, <3>1
    <3> QED
      BY <3>1, <3>2
  <2> HIDE DEF step
  <2> QED
    BY <2>1, <2>2
<1>7. Is(f)
  BY <1>5, <1>6
<1>8. Is(cdf)
  <2> HIDE DEF Is
  <2> QED
    BY <1>7
<1>9. Cumulated(h, n) = cdf
  BY DEF Cumulated, Share, last
<1> HIDE DEF cdf
<1>10. /\ DOMAIN cdf = 0..last
       /\ \A b \in 0..last : cdf[b] = IF b = 0 THEN Share(0) ELSE Plus(cdf[b - 1], Share(b))
  BY <1>8
<1>11. \A b \in 0..last : cdf[b] \in Nat
  <2> DEFINE T == {b \in Nat : b \in 0..last => cdf[b] \in Nat}
  <2>1. 0 \in T
    BY <1>1, <1>3, <1>10
  <2>2. ASSUME NEW b \in Nat, b \in T PROVE b + 1 \in T
    <3>1. CASE b + 1 \in 0..last
      <4>1. b \in 0..last /\ b + 1 # 0 /\ (b + 1) - 1 = b
        BY <1>1, <3>1
      <4>2. cdf[b + 1] = Plus(cdf[b], Share(b + 1)) /\ cdf[b] \in Nat
        BY <1>10, <2>2, <3>1, <4>1
      <4>3. Share(b + 1) \in Nat
        BY <1>3, <3>1
      <4>4. Plus(cdf[b], Share(b + 1)) \in Nat
        BY <4>2, <4>3, Arithmetic
      <4> QED
        BY <4>2, <4>4
    <3> QED
      BY <3>1
  <2>3. Nat \subseteq T
    <3> HIDE DEF T
    <3> QED
      BY <2>1, <2>2, Induct
  <2> QED
    BY <1>1, <2>3
<1>12. cdf \in [0..last -> Nat]
  <2>1. cdf = [b \in 0..last |-> cdf[b]]
    BY <1>8
  <2> QED
    BY <1>11, <2>1
<1>13. cdf[0] = Share(0) /\ \A b \in 1..last : cdf[b] = Plus(cdf[b - 1], Share(b))
  BY <1>1, <1>10
<1> QED
  BY <1>9, <1>12, <1>13 DEF Share, ShareOf, last

LEMMA HistogramIs ==
  ASSUME original \in Seq(Nat), original \in StrechData, length # 0, Width # 0
  PROVE  /\ hist \in [0..(nbins - 1) -> Nat]
         /\ \A b \in 0..(nbins - 1) :
              hist[b] = Cardinality({j \in 1..length : Bin(original[j]) = b}) /\ hist[b] <= length
<1>1. length \in Nat
  BY OriginalIs
<1>2. ASSUME NEW b \in 0..(nbins - 1)
      PROVE  LET c == Cardinality({j \in 1..length : Bin(original[j]) = b})
             IN  c \in Nat /\ c <= length
  <2> DEFINE S == {j \in 1..length : Bin(original[j]) = b}
  <2>1. S \subseteq 1..length
    OBVIOUS
  <2> HIDE DEF S
  <2>2. Cardinality(S) \in Nat /\ Cardinality(S) <= length
    BY <1>1, <2>1, Others
  <2> QED
    BY <2>2 DEF S
<1> QED
  BY <1>2 DEF hist

\* A higher tolerance leads to a higher bin.
LEMMA LowerBoundIs ==
  ASSUME NEW cdf \in [0..(nbins - 1) -> Nat], NEW low \in Nat, NEW high \in Nat, low <= high
  PROVE  /\ LowerBound(cdf, low) \in 0..nbins /\ LowerBound(cdf, high) \in 0..nbins
         /\ LowerBound(cdf, low) <= LowerBound(cdf, high)
         /\ cdf[nbins - 1] >= high => LowerBound(cdf, high) <= nbins - 1
<1> DEFINE From(tol) == {b \in 0..(nbins - 1) : cdf[b] >= tol} \cup {nbins}
<1>1. nbins \in Nat /\ nbins - 1 \in Nat
  BY BinsAreFloats
<1>2. From(low) \subseteq 0..nbins /\ From(high) \subseteq 0..nbins /\ nbins \in From(low) /\ nbins \in From(high)
  BY <1>1
<1>3. From(high) \subseteq From(low)
  BY <1>1
<1>4. cdf[nbins - 1] >= high => nbins - 1 \in From(high)
  BY <1>1
<1>5. LowerBound(cdf, low) = Min(From(low)) /\ LowerBound(cdf, high) = Min(From(high))
  BY DEF LowerBound
<1> HIDE DEF From
<1>6. From(low) \subseteq Nat /\ From(high) \subseteq Nat
  BY <1>1, <1>2
<1>7. Min(From(low)) \in From(low) /\ \A b \in From(low) : Min(From(low)) <= b
  BY <1>2, <1>6, MinIsLeast
<1>8. Min(From(high)) \in From(high) /\ \A b \in From(high) : Min(From(high)) <= b
  BY <1>2, <1>6, MinIsLeast
<1> QED
  BY <1>2, <1>3, <1>4, <1>5, <1>7, <1>8

LEMMA LimitIs ==
  ASSUME original \in Seq(Nat), original \in StrechData, length # 0,
         NEW b \in Nat, NEW c \in Nat, b <= c
  PROVE  Limit(b) \in Nat /\ dataMin <= Limit(b) /\ Limit(b) <= Limit(c)
<1> DEFINE F == FromInt(nbins - 1)
           B == FromInt(b)
           C == FromInt(c)
<1>1. One \in Nat \ {0} /\ F \in Nat \ {0} /\ dataMin \in Nat /\ IsFloat(dataMin) /\ Width \in Nat
  BY Units, BinsAreFloats, LimitsOfData
<1>2. B \in Nat /\ C \in Nat /\ B <= C
  <2>1. B \in Nat /\ C \in Nat
    BY Arithmetic
  <2>2. b * One <= c * One /\ b * One \in Nat /\ c * One \in Nat
    BY <1>1, ProductMonotone
  <2>3. (b * One) * 1 <= (c * One) * 1
    BY <2>2
  <2> QED
    BY <2>1, <2>2, <2>3, RoundedMonotone DEF FromInt
<1> HIDE DEF F, B, C
<1>3. Over(B, F) \in Nat /\ Over(C, F) \in Nat /\ Over(B, F) <= Over(C, F)
  <2>1. B * One <= C * One /\ B * One \in Nat /\ C * One \in Nat
    BY <1>1, <1>2, ProductMonotone
  <2>2. (B * One) * F <= (C * One) * F
    BY <1>1, <2>1, ProductMonotone
  <2> QED
    BY <1>1, <2>1, <2>2, RoundedMonotone, RoundedIsFloat DEF Over
<1> DEFINE OB == Over(B, F)
           OC == Over(C, F)
<1>4. OB \in Nat /\ OC \in Nat /\ OB <= OC
  BY <1>3
<1> HIDE DEF OB, OC
<1>5. Times(OB, Width) \in Nat /\ Times(OC, Width) \in Nat /\ Times(OB, Width) <= Times(OC, Width)
  <2>1. OB * Width <= OC * Width /\ OB * Width \in Nat /\ OC * Width \in Nat
    BY <1>1, <1>4, ProductMonotone
  <2>2. (OB * Width) * One <= (OC * Width) * One
    BY <1>1, <2>1, ProductMonotone
  <2> QED
    BY <1>1, <2>1, <2>2, RoundedMonotone, RoundedIsFloat DEF Times
<1> DEFINE TB == Times(OB, Width)
           TC == Times(OC, Width)
<1>6. TB \in Nat /\ TC \in Nat /\ TB <= TC
  BY <1>5
<1> HIDE DEF TB, TC
<1>7. /\ Rounded(dataMin + TB, 1) \in Nat /\ dataMin <= Rounded(dataMin + TB, 1)
      /\ Rounded(dataMin + TB, 1) <= Rounded(dataMin + TC, 1)
  <2> DEFINE x == dataMin + TB
             y == dataMin + TC
  <2>1. x \in Nat /\ y \in Nat /\ x * 1 <= y * 1 /\ dataMin * 1 <= x
    BY <1>1, <1>6
  <2> HIDE DEF x, y
  <2>2. Rounded(x, 1) \in Nat /\ dataMin <= Rounded(x, 1) /\ Rounded(x, 1) <= Rounded(y, 1)
    BY <1>1, <2>1, BoundedByFloat, RoundedMonotone, RoundedIsFloat
  <2> QED
    BY <2>2 DEF x, y
<1>8. Limit(b) = Rounded(dataMin + TB, 1) /\ Limit(c) = Rounded(dataMin + TC, 1)
  BY DEF Limit, Plus, TB, TC, OB, OC, F, B, C
<1> QED
  BY <1>7, <1>8

\* The last bin stands for the greatest value, unless the width is rounded up.
LEMMA LastLimit ==
  ASSUME original \in Seq(Nat), original \in StrechData, length # 0,
         Width <= dataMax - dataMin
  PROVE  Limit(nbins - 1) <= dataMax
<1> DEFINE F == FromInt(nbins - 1)
<1>1. /\ One \in Nat \ {0} /\ IsFloat(One) /\ F \in Nat \ {0}
      /\ dataMin \in Nat /\ Width \in Nat /\ IsFloat(Width)
      /\ dataMax \in Nat /\ IsFloat(dataMax)
  <2>1. One \in Nat \ {0} /\ 1 <= Pow2[Precision] /\ 1 * One = One
    BY Units
  <2>2. IsFloat(1 * One)
    BY <2>1, CountIsFloat
  <2> QED
    BY <2>1, <2>2, BinsAreFloats, LimitsOfData
<1> HIDE DEF F
<1>2. Over(F, F) = One
  <2>1. Rounded(One * F, F) = One
    BY <1>1, RoundedOfFloat
  <2>2. F * One = One * F
    BY <1>1
  <2> QED
    BY <2>1, <2>2 DEF Over
<1>3. Times(One, Width) = Width
  <2>1. Rounded(Width * One, One) = Width
    BY <1>1, RoundedOfFloat
  <2>2. One * Width = Width * One
    BY <1>1
  <2> QED
    BY <2>1, <2>2 DEF Times
<1>4. Rounded(dataMin + Width, 1) <= dataMax
  <2> DEFINE x == dataMin + Width
  <2>1. x \in Nat /\ x <= dataMax * 1
    BY <1>1
  <2> HIDE DEF x
  <2>2. Rounded(x, 1) <= dataMax
    BY <1>1, <2>1, BoundedByFloat
  <2> QED
    BY <2>2 DEF x
<1>5. Limit(nbins - 1) = Rounded(dataMin + Width, 1)
  BY <1>2, <1>3 DEF Limit, Plus, F
<1> QED
  BY <1>4, <1>5

LEMMA Cancel ==
  ASSUME NEW d \in Nat \ {0}, NEW x \in Nat, NEW y \in Nat, d * x = d * y
  PROVE  x = y
<1>1. x + 1 <= y => (x + 1) * d <= y * d
  BY ProductMonotone
<1>2. y + 1 <= x => (y + 1) * d <= x * d
  BY ProductMonotone
<1>3. /\ (x + 1) * d = d * x + d /\ (y + 1) * d = d * y + d
      /\ y * d = d * y /\ x * d = d * x /\ d * x \in Nat /\ d * y \in Nat
  OBVIOUS
<1> QED
  BY <1>1, <1>2, <1>3

\* Shares that need no rounding add up to the share of all values up to a bin, in the
\* end to 1.
LEMMA SharesAddUp ==
  ASSUME original \in Seq(Nat), original \in StrechData, length # 0, Width # 0, ExactShares
  PROVE  LET cdf == Cumulated(hist, length)
             C(b) == Cardinality({j \in 1..length : Bin(original[j]) <= b})
         IN  /\ cdf[nbins - 1] = One
             /\ \A b \in 0..(nbins - 1) : C(b) \in Nat /\ length * cdf[b] = C(b) * One
<1> DEFINE last == nbins - 1
           S(n) == ShareOf(n, length)
           In(b) == {j \in 1..length : Bin(original[j]) = b}
           UpTo(b) == {j \in 1..length : Bin(original[j]) <= b}
           C(b) == Cardinality(UpTo(b))
           cdf == Cumulated(hist, length)
<1>1. length \in Nat \ {0} /\ last \in Nat \ {0} /\ One \in Nat \ {0}
  BY OriginalIs, BinsAreFloats, Units
<1>2. \A j \in 1..length : Bin(original[j]) \in 0..last
  BY BinIs DEF Elements
<1>3. /\ hist \in [0..last -> Nat]
      /\ \A b \in 0..last : hist[b] = Cardinality(In(b)) /\ hist[b] <= length
  BY HistogramIs
<1>4. /\ cdf[0] = S(hist[0])
      /\ \A b \in 1..last : cdf[b] = Plus(cdf[b - 1], S(hist[b]))
  BY <1>1, <1>3, CumulatedIs
<1> HIDE DEF last, cdf, In, S
<1>5. ASSUME NEW n \in 0..length PROVE S(n) \in Nat /\ IsFloat(S(n)) /\ length * S(n) = n * One
  <2> n \in Nat
    BY <1>1
  <2>1. S(n) \in Nat /\ IsFloat(S(n)) /\ S(0) = 0
    BY <1>1, ShareIs DEF S
  <2>2. CASE n = 0
    BY <1>1, <2>1, <2>2
  <2>3. CASE n # 0
    <3>1. n \in 1..length
      BY <1>1, <2>3
    <3>2. length * S(n) = n * One
      BY <3>1 DEF ExactShares, S, ShareOf
    <3> QED
      BY <2>1, <3>2
  <2> QED
    BY <2>2, <2>3
<1>6. ASSUME NEW b PROVE C(b) \in 0..length
  <2>1. UpTo(b) \subseteq 1..length
    OBVIOUS
  <2> HIDE DEF UpTo
  <2>2. C(b) \in Nat /\ C(b) <= length
    BY <1>1, <2>1, Others
  <2> QED
    BY <1>1, <2>2
<1>7. C(0) = hist[0]
  <2>1. UpTo(0) = In(0)
    BY <1>1, <1>2 DEF In
  <2> QED
    BY <1>1, <1>3, <2>1
<1>8. ASSUME NEW b \in 1..last PROVE C(b) = C(b - 1) + hist[b]
  <2>1. UpTo(b) = UpTo(b - 1) \cup In(b) /\ UpTo(b - 1) \cap In(b) = {}
    BY <1>1, <1>2 DEF In
  <2>2. IsFiniteSet(UpTo(b - 1)) /\ IsFiniteSet(In(b))
    <3>1. IsFiniteSet(1..length)
      BY <1>1, FS_Interval
    <3>2. UpTo(b - 1) \subseteq 1..length /\ In(b) \subseteq 1..length
      BY DEF In
    <3> HIDE DEF UpTo
    <3> QED
      BY <3>1, <3>2, FS_Subset
  <2>3. Cardinality({}) = 0
    BY FS_EmptySet
  <2>4. C(b - 1) \in Nat /\ hist[b] \in Nat /\ hist[b] = Cardinality(In(b))
    <3> HIDE DEF C
    <3>1. C(b - 1) \in 0..length
      BY <1>6
    <3>2. b \in 0..last
      BY <1>1
    <3> QED
      BY <1>1, <1>3, <3>1, <3>2
  <2> HIDE DEF UpTo
  <2>5. C(b) = C(b - 1) + Cardinality(In(b)) - Cardinality({})
    BY <2>1, <2>2, FS_Union
  <2> QED
    BY <2>3, <2>4, <2>5
<1> HIDE DEF C
<1>9. ASSUME NEW b \in 1..last, cdf[b - 1] = S(C(b - 1)) PROVE cdf[b] = S(C(b))
  <2> DEFINE x == C(b - 1)
             y == hist[b]
             z == C(b)
  <2>1. x \in 0..length /\ y \in 0..length /\ z \in 0..length /\ z = x + y
    <3>1. y \in Nat /\ y <= length
      BY <1>3
    <3> QED
      BY <1>1, <1>6, <1>8, <3>1
  <2>2. cdf[b] = Plus(S(x), S(y))
    BY <1>4, <1>9
  <2> HIDE DEF x, y, z
  <2>3. /\ S(x) \in Nat /\ S(y) \in Nat /\ S(z) \in Nat /\ IsFloat(S(z))
        /\ length * S(x) = x * One /\ length * S(y) = y * One /\ length * S(z) = z * One
    BY <1>5, <2>1
  <2>4. z * One = x * One + y * One
    BY <1>1, <2>1
  <2>5. length * (S(x) + S(y)) = length * S(z)
    BY <1>1, <2>3, <2>4
  <2>6. S(x) + S(y) = S(z)
    <3> DEFINE s == S(x) + S(y)
               t == S(z)
    <3>1. s \in Nat /\ t \in Nat /\ length * s = length * t
      BY <2>3, <2>5
    <3> HIDE DEF s, t
    <3>2. s = t
      BY <1>1, <3>1, Cancel
    <3> QED
      BY <3>2 DEF s, t
  <2>7. Rounded(S(z) * 1, 1) = S(z)
    BY <2>3, RoundedOfFloat
  <2>8. Plus(S(x), S(y)) = S(z)
    BY <2>3, <2>6, <2>7 DEF Plus
  <2> QED
    BY <2>2, <2>8 DEF z
<1>10. \A b \in 0..last : cdf[b] = S(C(b))
  <2> DEFINE T == {b \in Nat : b \in 0..last => cdf[b] = S(C(b))}
  <2>1. 0 \in T
    BY <1>4, <1>7
  <2>2. ASSUME NEW b \in Nat, b \in T PROVE b + 1 \in T
    <3>1. CASE b + 1 \in 0..last
      <4>1. b \in 0..last /\ b + 1 \in 1..last /\ (b + 1) - 1 = b
        BY <1>1, <3>1
      <4>2. cdf[(b + 1) - 1] = S(C((b + 1) - 1))
        BY <2>2, <4>1
      <4>3. cdf[b + 1] = S(C(b + 1))
        BY <1>9, <4>1, <4>2
      <4> QED
        BY <4>3
    <3> QED
      BY <3>1
  <2>3. Nat \subseteq T
    <3> HIDE DEF T
    <3> QED
      BY <2>1, <2>2, Induct
  <2> QED
    BY <1>1, <2>3
<1>11. C(last) = length
  <2>1. UpTo(last) = 1..length
    BY <1>1, <1>2
  <2>2. Cardinality(1..length) = length
    BY <1>1, FS_Interval
  <2> HIDE DEF UpTo
  <2> QED
    BY <2>1, <2>2 DEF C
<1>12. S(length) = One
  <2>1. S(length) \in Nat /\ length * S(length) = length * One
    BY <1>1, <1>5
  <2> QED
    BY <1>1, <2>1, Cancel
<1>13. ASSUME NEW b \in 0..last PROVE C(b) \in Nat /\ length * cdf[b] = C(b) * One
  <2>1. C(b) \in 0..length /\ cdf[b] = S(C(b))
    BY <1>6, <1>10
  <2> QED
    BY <1>1, <1>5, <2>1
<1>14. cdf[last] = One
  <2>1. last \in 0..last
    BY <1>1
  <2> QED
    BY <1>10, <1>11, <1>12, <2>1
<1> QED
  BY <1>13, <1>14 DEF last, cdf, C

LEMMA LimitsInRangeHolds == IInv => LimitsInRange
<1> SUFFICES ASSUME IInv, pc = "stretched"
             PROVE  /\ dataMin <= result[1] /\ result[1] <= result[2]
                    /\ ExactShares /\ Width <= dataMax - dataMin => result[2] <= dataMax
  BY DEF LimitsInRange
<1> DEFINE cdf == Cumulated(hist, length)
           low == LowerBound(cdf, tol_low)
           high == LowerBound(cdf, tol_high)
<1>1. /\ original \in Seq(Nat) /\ original \in StrechData /\ length \in Nat \ {0} /\ Width # 0
      /\ tol_low \in Nat /\ tol_high \in Nat /\ tol_low <= tol_high /\ tol_high <= One
      /\ result = <<Limit(low), Limit(high)>>
  <2>1. original \in Seq(Nat) /\ tol_low \in Nat /\ tol_high \in Nat
    BY DEF IInv, TypeOK
  <2>2. original \in StrechData /\ Width # 0 /\ LimitsAre /\ ~InvalidTolerance
    BY DEF IInv, StretchedFloats
  <2>3. length \in Nat /\ One \in Nat
    BY <2>1, OriginalIs, Units
  <2> QED
    BY <2>1, <2>2, <2>3 DEF LimitsAre, InvalidTolerance
<1>2. cdf \in [0..(nbins - 1) -> Nat]
  BY <1>1, HistogramIs, CumulatedIs
<1>3. nbins - 1 \in Nat /\ One \in Nat
  BY BinsAreFloats, Units
<1> HIDE DEF cdf
<1>4. low \in Nat /\ high \in Nat /\ low <= high
  <2>1. low \in 0..nbins /\ high \in 0..nbins /\ low <= high
    BY <1>1, <1>2, LowerBoundIs
  <2> HIDE DEF low, high
  <2> QED
    BY <2>1
<1>5. cdf[nbins - 1] >= tol_high => high <= nbins - 1
  BY <1>1, <1>2, LowerBoundIs
<1> HIDE DEF low, high
<1>6. dataMin <= Limit(low) /\ Limit(low) <= Limit(high)
  BY <1>1, <1>4, LimitIs
<1>7. ASSUME ExactShares, Width <= dataMax - dataMin PROVE Limit(high) <= dataMax
  <2>1. cdf[nbins - 1] = One
    BY <1>1, <1>7, SharesAddUp DEF cdf
  <2>2. high <= nbins - 1
    BY <1>1, <1>5, <2>1
  <2>3. Limit(high) \in Nat /\ Limit(high) <= Limit(nbins - 1) /\ Limit(nbins - 1) \in Nat
    BY <1>1, <1>3, <1>4, <2>2, LimitIs
  <2>4. Limit(nbins - 1) <= dataMax /\ dataMax \in Nat
    BY <1>1, <1>7, LastLimit, LimitsOfData
  <2> QED
    BY <2>3, <2>4
<1> QED
  BY <1>1, <1>6, <1>7

\* The limits of a stretch are in order and not below the data, nor above them as long as
\* no share of the histogram is rounded and the width is not rounded up.
THEOREM LimitsInOrder == Spec => []LimitsInRange
BY Invariant, LimitsInRangeHolds, PTL

--------------------------------------------------------------------------------
\* How far rounding leads.

LEMMA CancelAtMost ==
  ASSUME NEW d \in Nat \ {0}, NEW x \in Nat, NEW y \in Nat, x * d <= y * d
  PROVE  x <= y
<1>1. y + 1 <= x => (y + 1) * d <= x * d
  BY ProductMonotone
<1>2. (y + 1) * d = y * d + d /\ x * d \in Nat /\ y * d \in Nat
  OBVIOUS
<1> QED
  BY <1>1, <1>2

LEMMA Scaled ==
  ASSUME NEW D \in Nat, NEW x \in Nat, NEW n \in Nat, NEW c \in Nat,
         2 * x <= 2 * n + c, 2 * n <= 2 * x + c
  PROVE  /\ 2 * (D * x) <= 2 * (D * n) + D * c /\ 2 * (D * n) <= 2 * (D * x) + D * c
         /\ D * x \in Nat /\ D * n \in Nat /\ D * c \in Nat
<1>1. (2 * x) * D <= (2 * n + c) * D /\ (2 * n) * D <= (2 * x + c) * D
  BY ProductMonotone
<1>2. /\ (2 * x) * D = 2 * (D * x) /\ (2 * n + c) * D = 2 * (D * n) + D * c
      /\ (2 * n) * D = 2 * (D * n) /\ (2 * x + c) * D = 2 * (D * x) + D * c
      /\ D * x \in Nat /\ D * n \in Nat /\ D * c \in Nat
  OBVIOUS
<1> QED
  BY <1>1, <1>2

\* The error is a fraction of the number that the mantissa has no bit for, or it is half
\* a unit.
LEMMA RoundingError ==
  ASSUME NEW n \in Nat, NEW d \in Nat \ {0}, NEW D \in Nat, D = Pow2[Precision],
         NEW x \in Nat, x = Rounded(n, d) * d
  PROVE  \/ D * x <= D * n + n /\ D * n <= D * x + n
         \/ 2 * x <= 2 * n + d /\ 2 * n <= 2 * x + d
<1>1. PICK e \in Nat : LastBit(n, d, e)
  BY RoundedIs
<1> DEFINE E == Pow2[e]
           q == Nearest(n, d * E)
<1>2. E \in Nat \ {0} /\ d * E \in Nat \ {0} /\ q \in Nat /\ Rounded(n, d) = E * q
  BY <1>1, MantissaFits DEF LastBit
<1>3. x = (d * E) * q
  <2> HIDE DEF E, q
  <2> QED
    BY <1>2
<1>4. 2 * x <= 2 * n + d * E /\ 2 * n <= 2 * x + d * E
  <2> DEFINE c == d * E
  <2>1. c \in Nat \ {0} /\ x = c * q /\ q = Nearest(n, c)
    BY <1>2, <1>3
  <2> HIDE DEF c, q
  <2>2. 2 * x <= 2 * n + c /\ 2 * n <= 2 * x + c
    BY <2>1, NearestIs
  <2> QED
    BY <2>2 DEF c
<1>5. CASE e = 0
  <2>1. E = 1
    BY <1>5, Pow2Defined
  <2>2. d * E = d
    BY <2>1
  <2> QED
    BY <1>4, <2>2
<1>6. CASE e # 0
  <2>1. /\ Precision \in Nat /\ Precision + e - 1 \in Nat /\ (Precision + e - 1) + 1 = Precision + e
        /\ e > 0
    BY <1>6, Units
  <2> DEFINE h == Pow2[Precision + e - 1]
  <2>2. h \in Nat /\ 2 * h = D * E /\ n >= d * h
    <3>1. Pow2[(Precision + e - 1) + 1] = 2 * h /\ Pow2[Precision + e] = D * E /\ h \in Nat
      BY <2>1, Pow2Defined, Pow2Sum, Pow2Above
    <3> QED
      BY <1>1, <2>1, <3>1 DEF LastBit
  <2> HIDE DEF h, E
  <2>3. D * (d * E) <= 2 * n
    <3>1. D * (d * E) = d * (D * E) /\ d * (D * E) = d * (2 * h) /\ d * (2 * h) = 2 * (d * h) /\ d * h \in Nat
      BY <1>2, <2>2
    <3> QED
      BY <2>2, <3>1
  <2> DEFINE c == d * E
  <2>4. c \in Nat /\ D * c <= 2 * n /\ 2 * x <= 2 * n + c /\ 2 * n <= 2 * x + c
    BY <1>2, <1>4, <2>3
  <2> HIDE DEF c
  <2>5. /\ 2 * (D * x) <= 2 * (D * n) + D * c /\ 2 * (D * n) <= 2 * (D * x) + D * c
        /\ D * x \in Nat /\ D * n \in Nat /\ D * c \in Nat
    BY <2>4, Scaled
  <2> DEFINE u == D * x
             v == D * n
             w == D * c
  <2>6. /\ u \in Nat /\ v \in Nat /\ w \in Nat /\ w <= 2 * n
        /\ 2 * u <= 2 * v + w /\ 2 * v <= 2 * u + w
    BY <2>4, <2>5
  <2> HIDE DEF u, v, w
  <2>7. u <= v + n /\ v <= u + n
    BY <2>6
  <2> QED
    BY <2>7 DEF u, v
<1> QED
  BY <1>5, <1>6

\* So the error of a result of at most m units is at most m units in 2^Precision.
LEMMA ErrorAtMost ==
  ASSUME NEW n \in Nat, NEW d \in Nat \ {0}, NEW D \in Nat, D = Pow2[Precision],
         NEW x \in Nat, x = Rounded(n, d) * d,
         NEW m \in Nat, n <= m, D * d <= 2 * m
  PROVE  D * x <= D * n + m /\ D * n <= D * x + m
<1>1. CASE D * x <= D * n + n /\ D * n <= D * x + n
  <2>1. D * x \in Nat /\ D * n \in Nat
    OBVIOUS
  <2> QED
    BY <1>1, <2>1
<1>2. CASE 2 * x <= 2 * n + d /\ 2 * n <= 2 * x + d
  <2>1. /\ 2 * (D * x) <= 2 * (D * n) + D * d /\ 2 * (D * n) <= 2 * (D * x) + D * d
        /\ D * x \in Nat /\ D * n \in Nat /\ D * d \in Nat
    BY <1>2, Scaled
  <2> QED
    BY <2>1
<1> QED
  BY <1>1, <1>2, RoundingError

--------------------------------------------------------------------------------
\* What the roundings of a bin and of its limit add up to.

\* The error of a bin that b is not above.
LEMMA LowArithmetic ==
  ASSUME NEW D \in Nat, NEW N \in Nat, NEW W \in Nat, NEW O \in Nat \ {0}, NEW H \in Nat, 2 * H = O,
         NEW a \in Nat, NEW r \in Nat, NEW o \in Nat, NEW v \in Nat, NEW t \in Nat, NEW b \in Nat,
         v <= o,
         D * (b * O) <= D * t + D * H + (N + 1) * O,
         D * t <= D * (v * N) + N * O,
         D * (o * W) <= D * (r * O) + W * O,
         D * r <= D * a + 2 * W
  PROVE  2 * (D * (W * b)) <= 2 * (D * (a * N)) + D * W + W * (10 * N + 2)
<1> DEFINE A == D * (W * b) * O
           B == D * (v * N) * W
           C == W * N * O
           E == D * H * W
           F == W * O
           G == D * (o * N) * W
           I == D * r * (O * N)
           J == D * (a * N) * O
           K == D * W * O
<1>1. A <= B + 2 * C + E + F
  <2>1. D * (b * O) <= D * (v * N) + N * O + D * H + (N + 1) * O
    <3>1. /\ D * (b * O) \in Nat /\ D * t \in Nat /\ D * H \in Nat /\ (N + 1) * O \in Nat
          /\ D * (v * N) \in Nat /\ N * O \in Nat
      OBVIOUS
    <3> QED
      BY <3>1
  <2>2. (D * (b * O)) * W <= (D * (v * N) + N * O + D * H + (N + 1) * O) * W
    <3>1. D * (b * O) \in Nat /\ (D * (v * N) + N * O + D * H + (N + 1) * O) \in Nat
      OBVIOUS
    <3> QED
      BY <2>1, <3>1, ProductMonotone
  <2>3. (D * (b * O)) * W = A /\ (D * (v * N) + N * O + D * H + (N + 1) * O) * W = B + 2 * C + E + F
    OBVIOUS
  <2> QED
    BY <2>2, <2>3
<1>2. B <= G
  <2>1. v * (D * (N * W)) <= o * (D * (N * W))
    <3>1. D * (N * W) \in Nat
      OBVIOUS
    <3> QED
      BY <3>1, ProductMonotone
  <2>2. v * (D * (N * W)) = B /\ o * (D * (N * W)) = G
    OBVIOUS
  <2> QED
    BY <2>1, <2>2
<1>3. G <= I + C
  <2>1. (D * (o * W)) * N <= (D * (r * O) + W * O) * N
    <3>1. D * (o * W) \in Nat /\ (D * (r * O) + W * O) \in Nat
      OBVIOUS
    <3> QED
      BY <3>1, ProductMonotone
  <2>2. (D * (o * W)) * N = G /\ (D * (r * O) + W * O) * N = I + C
    OBVIOUS
  <2> QED
    BY <2>1, <2>2
<1>4. I <= J + 2 * C
  <2>1. (D * r) * (O * N) <= (D * a + 2 * W) * (O * N)
    <3>1. D * r \in Nat /\ D * a + 2 * W \in Nat /\ O * N \in Nat
      OBVIOUS
    <3> QED
      BY <3>1, ProductMonotone
  <2>2. (D * a + 2 * W) * (O * N) = J + 2 * C
    OBVIOUS
  <2> QED
    BY <2>1, <2>2
<1>5. 2 * E = K
  OBVIOUS
<1>6. /\ A \in Nat /\ B \in Nat /\ C \in Nat /\ E \in Nat /\ F \in Nat
      /\ G \in Nat /\ I \in Nat /\ J \in Nat /\ K \in Nat
  OBVIOUS
<1>7. /\ (2 * (D * (W * b))) * O = 2 * A
      /\ (2 * (D * (a * N)) + D * W + W * (10 * N + 2)) * O = 2 * J + K + 10 * C + 2 * F
  OBVIOUS
<1> HIDE DEF A, B, C, E, F, G, I, J, K
<1>8. 2 * A <= 2 * J + K + 10 * C + 2 * F
  BY <1>1, <1>2, <1>3, <1>4, <1>5, <1>6
<1>9. 2 * (D * (W * b)) \in Nat /\ 2 * (D * (a * N)) + D * W + W * (10 * N + 2) \in Nat
  OBVIOUS
<1> QED
  BY <1>7, <1>8, <1>9, CancelAtMost

\* The error of a bin that b is not below.
LEMMA HighArithmetic ==
  ASSUME NEW D \in Nat, NEW N \in Nat, NEW W \in Nat, NEW O \in Nat \ {0}, NEW H \in Nat, 2 * H = O,
         NEW a \in Nat, NEW r \in Nat, NEW o \in Nat, NEW v \in Nat, NEW t \in Nat, NEW b \in Nat,
         v = o \/ D * O <= D * v + 2 * O,
         t <= b * O + H,
         D * (v * N) <= D * t + N * O,
         D * (r * O) <= D * (o * W) + W * O,
         r <= W,
         D * a <= D * r + 2 * W
  PROVE  2 * (D * (a * N)) <= 2 * (D * (W * b)) + D * W + 10 * (N * W)
<1> DEFINE A == D * (W * b) * O
           B == D * (v * N) * W
           C == W * N * O
           E == D * H * W
           I == D * r * (O * N)
           J == D * (a * N) * O
           K == D * W * O
           M == D * W * (O * N)
<1>1. B <= A + E + C
  <2>1. D * (v * N) <= D * (b * O) + D * H + N * O
    <3>1. t * D <= (b * O + H) * D
      <4>1. b * O + H \in Nat
        OBVIOUS
      <4> QED
        BY <4>1, ProductMonotone
    <3>2. t * D = D * t /\ (b * O + H) * D = D * (b * O) + D * H
      OBVIOUS
    <3>3. /\ D * (b * O) \in Nat /\ D * t \in Nat /\ D * H \in Nat
          /\ D * (v * N) \in Nat /\ N * O \in Nat
      OBVIOUS
    <3> QED
      BY <3>1, <3>2, <3>3
  <2>2. (D * (v * N)) * W <= (D * (b * O) + D * H + N * O) * W
    <3>1. D * (v * N) \in Nat /\ D * (b * O) + D * H + N * O \in Nat
      OBVIOUS
    <3> QED
      BY <2>1, <3>1, ProductMonotone
  <2>3. (D * (b * O) + D * H + N * O) * W = A + E + C
    OBVIOUS
  <2> QED
    BY <2>2, <2>3
<1>2. J <= I + 2 * C
  <2>1. (D * a) * (O * N) <= (D * r + 2 * W) * (O * N)
    <3>1. D * a \in Nat /\ D * r + 2 * W \in Nat /\ O * N \in Nat
      OBVIOUS
    <3> QED
      BY <3>1, ProductMonotone
  <2>2. (D * a) * (O * N) = J /\ (D * r + 2 * W) * (O * N) = I + 2 * C
    OBVIOUS
  <2> QED
    BY <2>1, <2>2
<1>3. I <= B + 2 * C
  <2>1. CASE v = o
    <3>1. (D * (r * O)) * N <= (D * (v * W) + W * O) * N
      <4>1. D * (r * O) \in Nat /\ D * (v * W) + W * O \in Nat
        OBVIOUS
      <4> QED
        BY <2>1, <4>1, ProductMonotone
    <3>2. (D * (r * O)) * N = I /\ (D * (v * W) + W * O) * N = B + C
      OBVIOUS
    <3>3. I \in Nat /\ B \in Nat /\ C \in Nat
      OBVIOUS
    <3> HIDE DEF I, B, C
    <3> QED
      BY <3>1, <3>2, <3>3
  <2>2. CASE D * O <= D * v + 2 * O
    <3>1. (D * O) * (N * W) <= (D * v + 2 * O) * (N * W)
      <4>1. D * O \in Nat /\ D * v + 2 * O \in Nat /\ N * W \in Nat
        OBVIOUS
      <4> QED
        BY <2>2, <4>1, ProductMonotone
    <3>2. (D * O) * (N * W) = M /\ (D * v + 2 * O) * (N * W) = B + 2 * C
      OBVIOUS
    <3>3. r * (D * (O * N)) <= W * (D * (O * N))
      <4>1. D * (O * N) \in Nat
        OBVIOUS
      <4> QED
        BY <4>1, ProductMonotone
    <3>4. r * (D * (O * N)) = I /\ W * (D * (O * N)) = M
      OBVIOUS
    <3>5. I \in Nat /\ B \in Nat /\ C \in Nat /\ M \in Nat
      OBVIOUS
    <3> HIDE DEF I, B, C, M
    <3> QED
      BY <3>1, <3>2, <3>3, <3>4, <3>5
  <2> QED
    BY <2>1, <2>2
<1>4. 2 * E = K
  OBVIOUS
<1>5. /\ A \in Nat /\ B \in Nat /\ C \in Nat /\ E \in Nat
      /\ I \in Nat /\ J \in Nat /\ K \in Nat
  OBVIOUS
<1>6. /\ (2 * (D * (a * N))) * O = 2 * J
      /\ (2 * (D * (W * b)) + D * W + 10 * (N * W)) * O = 2 * A + K + 10 * C
  OBVIOUS
<1> HIDE DEF A, B, C, E, I, J, K
<1>7. 2 * J <= 2 * A + K + 10 * C
  BY <1>1, <1>2, <1>3, <1>4, <1>5
<1>8. 2 * (D * (a * N)) \in Nat /\ 2 * (D * (W * b)) + D * W + 10 * (N * W) \in Nat
  OBVIOUS
<1> QED
  BY <1>6, <1>7, <1>8, CancelAtMost

\* How far T units, for b bins of N in a width W, are from what they stand for: the second
\* case is an error of half a unit.
NearBins(D, N, W, b, T) ==
  \/ /\ D * (T * N) <= D * (W * b) + 2 * (N * W)
     /\ D * (W * b) <= D * (T * N) + 2 * (N * W)
  \/ /\ 2 * (D * (T * N)) <= 2 * (D * (W * b)) + 2 * (N * W) + D * N
     /\ 2 * (D * (W * b)) <= 2 * (D * (T * N)) + 2 * (N * W) + D * N

LEMMA LimitArithmetic ==
  ASSUME NEW D \in Nat, NEW N \in Nat, NEW W \in Nat, NEW O \in Nat \ {0},
         NEW s \in Nat, NEW T \in Nat, NEW b \in Nat, s <= O,
         D * (s * N) <= D * (b * O) + N * O, D * (b * O) <= D * (s * N) + N * O,
         \/ D * (T * O) <= D * (s * W) + s * W /\ D * (s * W) <= D * (T * O) + s * W
         \/ 2 * (T * O) <= 2 * (s * W) + O /\ 2 * (s * W) <= 2 * (T * O) + O
  PROVE  NearBins(D, N, W, b, T)
<1> DEFINE A == D * (W * b) * O
           B == D * (s * N) * W
           C == W * N * O
           J == D * (T * N) * O
           K == D * N * O
           L == s * W * N
<1>1. B <= A + C /\ A <= B + C
  <2>1. /\ (D * (s * N)) * W <= (D * (b * O) + N * O) * W
        /\ (D * (b * O)) * W <= (D * (s * N) + N * O) * W
    <3>1. /\ D * (s * N) \in Nat /\ D * (b * O) + N * O \in Nat
          /\ D * (b * O) \in Nat /\ D * (s * N) + N * O \in Nat
      OBVIOUS
    <3> QED
      BY <3>1, ProductMonotone
  <2>2. /\ (D * (b * O) + N * O) * W = A + C /\ (D * (b * O)) * W = A
        /\ (D * (s * N) + N * O) * W = B + C
    OBVIOUS
  <2> QED
    BY <2>1, <2>2
<1>2. L <= C
  <2>1. s * (W * N) <= O * (W * N)
    <3>1. W * N \in Nat
      OBVIOUS
    <3> QED
      BY <3>1, ProductMonotone
  <2>2. s * (W * N) = L /\ O * (W * N) = C
    OBVIOUS
  <2> QED
    BY <2>1, <2>2
<1>3. /\ A \in Nat /\ B \in Nat /\ C \in Nat /\ J \in Nat /\ K \in Nat /\ L \in Nat
  OBVIOUS
<1>4. CASE D * (T * O) <= D * (s * W) + s * W /\ D * (s * W) <= D * (T * O) + s * W
  <2>1. /\ (D * (T * O)) * N <= (D * (s * W) + s * W) * N
        /\ (D * (s * W)) * N <= (D * (T * O) + s * W) * N
    <3>1. /\ D * (T * O) \in Nat /\ D * (s * W) + s * W \in Nat
          /\ D * (s * W) \in Nat /\ D * (T * O) + s * W \in Nat
      OBVIOUS
    <3> QED
      BY <1>4, <3>1, ProductMonotone
  <2>2. /\ (D * (T * O)) * N = J /\ (D * (s * W) + s * W) * N = B + L
        /\ (D * (s * W)) * N = B /\ (D * (T * O) + s * W) * N = J + L
    OBVIOUS
  <2>3. /\ (D * (T * N)) * O = J /\ (D * (W * b) + 2 * (N * W)) * O = A + 2 * C
        /\ (D * (W * b)) * O = A /\ (D * (T * N) + 2 * (N * W)) * O = J + 2 * C
    OBVIOUS
  <2>4. /\ D * (T * N) \in Nat /\ D * (W * b) + 2 * (N * W) \in Nat
        /\ D * (W * b) \in Nat /\ D * (T * N) + 2 * (N * W) \in Nat
    OBVIOUS
  <2> HIDE DEF A, B, C, J, K, L
  <2>5. J <= A + 2 * C /\ A <= J + 2 * C
    BY <1>1, <1>2, <1>3, <2>1, <2>2
  <2>6. D * (T * N) <= D * (W * b) + 2 * (N * W)
    BY <2>3, <2>4, <2>5, CancelAtMost
  <2>7. D * (W * b) <= D * (T * N) + 2 * (N * W)
    BY <2>3, <2>4, <2>5, CancelAtMost
  <2> QED
    BY <2>6, <2>7 DEF NearBins
<1>5. CASE 2 * (T * O) <= 2 * (s * W) + O /\ 2 * (s * W) <= 2 * (T * O) + O
  <2>1. /\ (2 * (T * O)) * (D * N) <= (2 * (s * W) + O) * (D * N)
        /\ (2 * (s * W)) * (D * N) <= (2 * (T * O) + O) * (D * N)
    <3>1. /\ 2 * (T * O) \in Nat /\ 2 * (s * W) + O \in Nat
          /\ 2 * (s * W) \in Nat /\ 2 * (T * O) + O \in Nat /\ D * N \in Nat
      OBVIOUS
    <3> QED
      BY <1>5, <3>1, ProductMonotone
  <2>2. /\ (2 * (T * O)) * (D * N) = 2 * J /\ (2 * (s * W) + O) * (D * N) = 2 * B + K
        /\ (2 * (s * W)) * (D * N) = 2 * B /\ (2 * (T * O) + O) * (D * N) = 2 * J + K
    OBVIOUS
  <2>3. /\ (2 * (D * (T * N))) * O = 2 * J
        /\ (2 * (D * (W * b)) + 2 * (N * W) + D * N) * O = 2 * A + 2 * C + K
        /\ (2 * (D * (W * b))) * O = 2 * A
        /\ (2 * (D * (T * N)) + 2 * (N * W) + D * N) * O = 2 * J + 2 * C + K
    OBVIOUS
  <2>4. /\ 2 * (D * (T * N)) \in Nat /\ 2 * (D * (W * b)) + 2 * (N * W) + D * N \in Nat
        /\ 2 * (D * (W * b)) \in Nat /\ 2 * (D * (T * N)) + 2 * (N * W) + D * N \in Nat
    OBVIOUS
  <2> HIDE DEF A, B, C, J, K, L
  <2>5. 2 * J <= 2 * A + 2 * C + K /\ 2 * A <= 2 * J + 2 * C + K
    BY <1>1, <1>3, <2>1, <2>2
  <2>6. 2 * (D * (T * N)) <= 2 * (D * (W * b)) + 2 * (N * W) + D * N
    BY <2>3, <2>4, <2>5, CancelAtMost
  <2>7. 2 * (D * (W * b)) <= 2 * (D * (T * N)) + 2 * (N * W) + D * N
    BY <2>3, <2>4, <2>5, CancelAtMost
  <2> QED
    BY <2>6, <2>7 DEF NearBins
<1> QED
  BY <1>4, <1>5

\* The roundings are less than a bin.
LEMMA TooFar ==
  ASSUME NEW D \in Nat, NEW N \in Nat \ {0}, NEW W \in Nat, NEW k \in Nat,
         16 * ((N + 1) * (N + 1)) <= D, W < k * N,
         2 * (D * (k * N)) <= D * N + D * W + W * (12 * N + 2)
  PROVE  FALSE
<1> DEFINE c == 12 * N + 2
           w == k * N
<1>1. N * c < D /\ 2 * c <= D /\ c \in Nat
  <2>1. (N + 1) * (N + 1) = N * N + 2 * N + 1 /\ N * c = 12 * (N * N) + 2 * N /\ N * N \in Nat
    OBVIOUS
  <2> QED
    BY <2>1
<1> HIDE DEF c
<1>2. w \in Nat /\ W + 1 <= w /\ k # 0
  <2>1. w \in Nat
    OBVIOUS
  <2>2. k # 0
    <3> SUFFICES ASSUME k = 0 PROVE FALSE
      OBVIOUS
    <3>1. k * N = 0
      BY SMT
    <3> QED
      BY <3>1
  <2> HIDE DEF w
  <2> QED
    BY <2>1, <2>2 DEF w
<1> HIDE DEF w
<1>3. (W + 1) * D <= w * D /\ W * c <= w * c
  BY <1>1, <1>2, ProductMonotone
<1>4. /\ (W + 1) * D = D * W + D /\ w * D = D * w /\ D * W \in Nat /\ D * w \in Nat
      /\ W * c \in Nat /\ w * c \in Nat /\ D * N \in Nat
  BY <1>1, <1>2
<1>5. D * w + D <= D * N + w * c
  <2>1. 2 * (D * w) <= D * N + D * W + W * c
    BY DEF w, c
  <2> QED
    BY <1>3, <1>4, <2>1
<1>6. CASE k = 1
  <2>1. w = N
    BY <1>6 DEF w
  <2>2. w * c = N * c /\ D * w = D * N /\ N * c \in Nat
    BY <1>1, <2>1
  <2> QED
    BY <1>1, <1>4, <1>5, <2>2
<1>7. CASE k # 1
  <2> DEFINE j == k - 1
             u == j * N
  <2>1. j \in Nat \ {0} /\ k = j + 1
    BY <1>2, <1>7
  <2> HIDE DEF j
  <2>2. w = u + N /\ u \in Nat /\ N <= u
    <3>1. 1 * N <= j * N
      BY <2>1, ProductMonotone
    <3> QED
      BY <2>1, <3>1 DEF w
  <2> HIDE DEF u
  <2>3. N * c <= u * c /\ (2 * c) * u <= D * u
    BY <1>1, <2>2, ProductMonotone
  <2>4. /\ w * c = u * c + N * c /\ (2 * c) * u = 2 * (u * c) /\ D * w = D * u + D * N
        /\ u * c \in Nat /\ N * c \in Nat /\ D * u \in Nat
    BY <1>1, <2>2
  <2> QED
    BY <1>1, <1>4, <1>5, <2>3, <2>4
<1> QED
  BY <1>6, <1>7

\* A value more than a bin below a limit is in a bin below that of the limit.
LEMMA NotBelow ==
  ASSUME NEW D \in Nat, NEW N \in Nat \ {0}, NEW W \in Nat, NEW b \in Nat, NEW T \in Nat, NEW a \in Nat,
         16 * ((N + 1) * (N + 1)) <= D, NearBins(D, N, W, b, T),
         2 * (D * (W * b)) <= 2 * (D * (a * N)) + D * W + W * (10 * N + 2)
  PROVE  T * N <= a * N + W
<1> SUFFICES ASSUME a * N + W + 1 <= T * N PROVE FALSE
  OBVIOUS
<1> DEFINE A == D * (W * b)
           J == D * (T * N)
           I == D * (a * N)
           C == N * W
           K == D * W
<1>1. A \in Nat /\ J \in Nat /\ I \in Nat /\ C \in Nat /\ K \in Nat /\ D * N \in Nat
  OBVIOUS
<1>2. W * (10 * N + 2) = 10 * C + 2 * W /\ W * (12 * N + 2) = 12 * C + 2 * W
  OBVIOUS
<1>3. 2 * A <= 2 * I + K + 10 * C + 2 * W
  BY <1>2
<1>4. CASE J <= A + 2 * C
  <2>1. (a * N + W + 1) * D <= (T * N) * D
    <3>1. a * N + W + 1 \in Nat /\ T * N \in Nat
      OBVIOUS
    <3> QED
      BY <3>1, ProductMonotone
  <2>2. (a * N + W + 1) * D = I + K + D /\ (T * N) * D = J
    OBVIOUS
  <2>3. (14 * N + 2) * W <= D * W
    <3>1. (N + 1) * (N + 1) = N * N + 2 * N + 1 /\ N * N \in Nat
      OBVIOUS
    <3>2. 14 * N + 2 <= D
      BY <3>1
    <3> QED
      BY <3>2, ProductMonotone
  <2>4. (14 * N + 2) * W = 14 * C + 2 * W
    OBVIOUS
  <2>5. D > 0
    BY SMT
  <2> HIDE DEF A, J, I, C, K
  <2> QED
    BY <1>1, <1>4, <1>3, <2>1, <2>2, <2>3, <2>4, <2>5 DEF K
<1>5. CASE 2 * J <= 2 * A + 2 * C + D * N
  <2>1. T - a \in Nat /\ W < (T - a) * N /\ J = I + D * ((T - a) * N)
    <3>1. a <= T
      <4> SUFFICES ASSUME T <= a PROVE FALSE
        OBVIOUS
      <4>1. T * N <= a * N /\ T * N \in Nat /\ a * N \in Nat
        BY ProductMonotone
      <4> QED
        BY <4>1
    <3>2. (T - a) * N = T * N - a * N /\ T - a \in Nat
      BY <3>1
    <3>3. D * ((T - a) * N) = J - I
      BY <3>2
    <3>4. a * N \in Nat /\ T * N \in Nat
      OBVIOUS
    <3> QED
      BY <1>1, <3>2, <3>3, <3>4
  <2> DEFINE k == T - a
             M == D * (k * N)
  <2>2. k \in Nat /\ M \in Nat /\ W < k * N /\ J = I + M
    BY <2>1
  <2> HIDE DEF k, A, J, I, C
  <2>3. 2 * M <= D * N + K + W * (12 * N + 2)
    <3> HIDE DEF M, K
    <3> QED
      BY <1>1, <1>2, <1>5, <1>3, <2>2
  <2> QED
    BY <2>2, <2>3, TooFar
<1> QED
  BY <1>4, <1>5 DEF NearBins

\* A value more than a bin above a limit is in a bin above that of the limit.
LEMMA NotAbove ==
  ASSUME NEW D \in Nat, NEW N \in Nat \ {0}, NEW W \in Nat, NEW b \in Nat, NEW T \in Nat, NEW a \in Nat,
         16 * ((N + 1) * (N + 1)) <= D, NearBins(D, N, W, b, T),
         2 * (D * (a * N)) <= 2 * (D * (W * b)) + D * W + 10 * (N * W)
  PROVE  a * N <= T * N + W
<1> SUFFICES ASSUME T * N + W + 1 <= a * N PROVE FALSE
  OBVIOUS
<1> DEFINE A == D * (W * b)
           J == D * (T * N)
           I == D * (a * N)
           C == N * W
           K == D * W
<1>1. A \in Nat /\ J \in Nat /\ I \in Nat /\ C \in Nat /\ K \in Nat /\ D * N \in Nat
  OBVIOUS
<1>2. W * (12 * N + 2) = 12 * C + 2 * W
  OBVIOUS
<1>3. CASE A <= J + 2 * C
  <2>1. (T * N + W + 1) * D <= (a * N) * D
    <3>1. T * N + W + 1 \in Nat /\ a * N \in Nat
      OBVIOUS
    <3> QED
      BY <3>1, ProductMonotone
  <2>2. (T * N + W + 1) * D = J + K + D /\ (a * N) * D = I
    OBVIOUS
  <2>3. (14 * N + 2) * W <= D * W
    <3>1. (N + 1) * (N + 1) = N * N + 2 * N + 1 /\ N * N \in Nat
      OBVIOUS
    <3>2. 14 * N + 2 <= D
      BY <3>1
    <3> QED
      BY <3>2, ProductMonotone
  <2>4. (14 * N + 2) * W = 14 * C + 2 * W
    OBVIOUS
  <2>5. D > 0
    BY SMT
  <2> HIDE DEF A, J, I, C, K
  <2>6. 2 * I <= 2 * A + K + 10 * C
    BY DEF A, I, K, C
  <2> QED
    BY <1>1, <1>3, <2>1, <2>2, <2>3, <2>4, <2>5, <2>6 DEF K
<1>4. CASE 2 * A <= 2 * J + 2 * C + D * N
  <2>1. a - T \in Nat /\ W < (a - T) * N /\ I = J + D * ((a - T) * N)
    <3>1. T <= a
      <4> SUFFICES ASSUME a <= T PROVE FALSE
        OBVIOUS
      <4>1. a * N <= T * N /\ T * N \in Nat /\ a * N \in Nat
        BY ProductMonotone
      <4> QED
        BY <4>1
    <3>2. (a - T) * N = a * N - T * N /\ a - T \in Nat
      BY <3>1
    <3>3. D * ((a - T) * N) = I - J
      BY <3>2
    <3>4. a * N \in Nat /\ T * N \in Nat
      OBVIOUS
    <3> QED
      BY <1>1, <3>2, <3>3, <3>4
  <2> DEFINE k == a - T
             M == D * (k * N)
  <2>2. k \in Nat /\ M \in Nat /\ W < k * N /\ I = J + M
    BY <2>1
  <2> HIDE DEF k, A, J, I, C
  <2>3. 2 * I <= 2 * A + K + 10 * C
    BY DEF A, I, C
  <2>4. 2 * M <= D * N + K + W * (12 * N + 2)
    <3> HIDE DEF M, K
    <3> QED
      BY <1>1, <1>2, <1>4, <2>2, <2>3
  <2> QED
    BY <2>2, <2>4, TooFar
<1> QED
  BY <1>3, <1>4 DEF NearBins

--------------------------------------------------------------------------------
\* How far a bin is from its values.

\* float has no more bits than a percentile.
LEMMA MantissaBelowOne == Pow2[Precision] <= One
BY Units, Pow2Monotone DEF One

\* Only numbers of more bits than a float has are rounded.
LEMMA RoundingOfUnits ==
  ASSUME NEW n \in Nat, NEW D \in Nat, D = Pow2[Precision], NEW x, x = Rounded(n, 1)
  PROVE  x \in Nat /\ (x = n \/ (D * x <= D * n + n /\ D * n <= D * x + n))
<1>1. x \in Nat
  BY RoundedIsFloat
<1>2. CASE n <= D
  <2>1. IsFloat(n) /\ n * 1 = n
    BY <1>2, UnitsAreFloat
  <2>2. Rounded(n * 1, 1) = n
    BY <2>1, RoundedOfFloat
  <2> QED
    BY <1>1, <2>1, <2>2
<1>3. CASE D <= n
  <2>1. x = Rounded(n, 1) * 1 /\ D * 1 <= 2 * n /\ n <= n /\ 1 \in Nat \ {0}
    BY <1>1, <1>3
  <2>2. D * x <= D * n + n /\ D * n <= D * x + n
    BY <1>1, <2>1, ErrorAtMost
  <2> QED
    BY <1>1, <2>2
<1> QED
  BY <1>2, <1>3

LEMMA HalfAtLeast ==
  ASSUME NEW D \in Nat, D >= 4, NEW m \in Nat, NEW w \in Nat, m = w \/ D * m <= D * w + m
  PROVE  m <= 2 * w
<1> SUFFICES ASSUME 2 * w + 1 <= m, D * m <= D * w + m PROVE FALSE
  OBVIOUS
<1>1. 2 * m <= D * m
  BY ProductMonotone
<1>2. (2 * w + 1) * D <= m * D
  <2>1. 2 * w + 1 \in Nat
    OBVIOUS
  <2> QED
    BY <2>1, ProductMonotone
<1>3. /\ (2 * w + 1) * D = 2 * (D * w) + D /\ m * D = D * m
      /\ D * w \in Nat /\ D * m \in Nat
  OBVIOUS
<1> QED
  BY <1>1, <1>2, <1>3

\* The difference to the least value is not above the width, and wrong by at most two
\* widths in 2^Precision.
LEMMA DifferenceIs ==
  ASSUME original \in Seq(Nat), original \in StrechData, length # 0,
         NEW D \in Nat, D = Pow2[Precision],
         NEW x \in Elements, NEW a \in Nat, a = x - dataMin
  PROVE  LET r == Minus(x, dataMin)
         IN  /\ r \in Nat /\ r <= Width
             /\ D * r <= D * a + 2 * Width /\ D * a <= D * r + 2 * Width
<1> DEFINE r == Minus(x, dataMin)
           m == dataMax - dataMin
           w == Width
<1>1. m \in Nat /\ a <= m /\ w = Rounded(m, 1) /\ w \in Nat
  <2>1. /\ dataMin \in Nat /\ dataMax \in Nat /\ dataMin <= dataMax /\ Max(Elements) \in Nat
        /\ x \in Nat /\ dataMin <= x /\ x <= Max(Elements) /\ Max(Elements) <= dataMax
        /\ w = Rounded(m, 1) /\ w \in Nat
    BY LimitsOfData
  <2> QED
    BY <2>1
<1>2. r = Rounded(a, 1)
  BY DEF Minus
<1>3. D >= 4
  BY Units
<1> HIDE DEF m, r, w
<1>4. m <= 2 * w
  <2>1. w = m \/ D * m <= D * w + m
    BY <1>1, RoundingOfUnits
  <2> QED
    BY <1>1, <1>3, <2>1, HalfAtLeast
<1>5. r <= w
  <2>1. a * 1 <= m * 1
    BY <1>1
  <2> QED
    BY <1>1, <1>2, <2>1, RoundedMonotone
<1>6. r \in Nat /\ D * r <= D * a + 2 * w /\ D * a <= D * r + 2 * w
  <2>1. r \in Nat /\ (r = a \/ (D * r <= D * a + a /\ D * a <= D * r + a))
    BY <1>2, RoundingOfUnits
  <2> DEFINE u == D * r
             v == D * a
  <2>2. u \in Nat /\ v \in Nat /\ (u = v \/ (u <= v + a /\ v <= u + a))
    BY <2>1
  <2> HIDE DEF u, v
  <2>3. a <= 2 * w
    BY <1>1, <1>4
  <2>4. u <= v + 2 * w /\ v <= u + 2 * w
    BY <1>1, <2>2, <2>3
  <2> QED
    BY <2>1, <2>4 DEF u, v
<1>7. r \in Nat /\ r <= w /\ D * r <= D * a + 2 * w /\ D * a <= D * r + 2 * w
  BY <1>5, <1>6
<1> QED
  BY <1>7 DEF r, w

LEMMA MantissaUnits ==
  ASSUME NEW D \in Nat, D = Pow2[Precision]
  PROVE  One \in Nat \ {0} /\ D >= 4 /\ D <= One
BY Units, MantissaBelowOne

\* A quotient of at most 1.
LEMMA QuotientError ==
  ASSUME NEW D \in Nat, D = Pow2[Precision],
         NEW w \in Nat \ {0}, NEW r \in Nat, r <= w, NEW o, o = Over(r, w)
  PROVE  /\ o \in Nat /\ o <= One
         /\ D * (o * w) <= D * (r * One) + w * One
         /\ D * (r * One) <= D * (o * w) + w * One
<1> DEFINE n == r * One
           m == w * One
           y == o * w
<1>1. One \in Nat \ {0} /\ D <= One
  BY MantissaUnits
<1>2. n \in Nat /\ m \in Nat /\ n <= m /\ m = One * w
  BY <1>1, ProductMonotone
<1>3. o = Rounded(n, w)
  BY DEF Over
<1> HIDE DEF n
<1>4. o \in Nat
  BY <1>2, <1>3, RoundedIsFloat
<1>5. o <= One
  <2>1. 1 * One = One /\ 1 <= Pow2[Precision] /\ 1 \in Nat
    BY Units
  <2>2. IsFloat(1 * One)
    BY <2>1, CountIsFloat
  <2> QED
    BY <1>2, <1>3, <2>1, <2>2, BoundedByFloat
<1>6. D * w <= 2 * m
  <2>1. D * w <= One * w
    BY <1>1, ProductMonotone
  <2>2. D * w \in Nat
    OBVIOUS
  <2> QED
    BY <1>2, <2>1, <2>2
<1>7. y \in Nat /\ y = Rounded(n, w) * w
  BY <1>3, <1>4
<1> HIDE DEF m, y
<1>8. D * y <= D * n + m /\ D * n <= D * y + m
  BY <1>2, <1>6, <1>7, ErrorAtMost
<1> QED
  BY <1>4, <1>5, <1>8 DEF n, m, y

\* A part v of N.
LEMMA ProductError ==
  ASSUME NEW D \in Nat, D = Pow2[Precision],
         NEW N \in Nat \ {0}, IsFloat(N * One), NEW v \in Nat, v <= One, NEW t, t = Times(v, N * One)
  PROVE  /\ t \in Nat /\ t <= N * One
         /\ D * t <= D * (v * N) + N * One
         /\ D * (v * N) <= D * t + N * One
<1> DEFINE F == N * One
           n == v * F
           m == F * One
           y == t * One
<1>1. One \in Nat \ {0} /\ D <= One
  BY MantissaUnits
<1>2. F \in Nat /\ One <= F
  <2>1. 1 * One <= N * One
    BY <1>1, ProductMonotone
  <2>2. 1 * One = One
    BY <1>1
  <2> QED
    BY <1>1, <2>1, <2>2
<1> HIDE DEF F
<1>3. n \in Nat /\ m \in Nat /\ n <= m
  <2>1. v * F <= One * F
    BY <1>1, <1>2, ProductMonotone
  <2> QED
    BY <1>1, <1>2, <2>1
<1>4. t = Rounded(n, One) /\ n <= F * One /\ IsFloat(F)
  BY <1>3 DEF Times, F
<1> HIDE DEF n
<1>5. t \in Nat /\ t <= F
  BY <1>1, <1>3, <1>4, RoundedIsFloat, BoundedByFloat
<1>6. D * One <= 2 * m
  <2>1. D * One <= F * One
    BY <1>1, <1>2, ProductMonotone
  <2>2. D * One \in Nat
    BY <1>1
  <2> QED
    BY <1>3, <2>1, <2>2
<1>7. y \in Nat /\ y = Rounded(n, One) * One
  BY <1>1, <1>4, <1>5
<1> DEFINE p == D * t
           e == D * (v * N)
<1>8. p \in Nat /\ e \in Nat
  BY <1>5
<1>9. D * y = p * One /\ m = F * One /\ D * n = e * One
  BY <1>1, <1>5 DEF n, F
<1> HIDE DEF y, m
<1>10. D * y <= D * n + m /\ D * n <= D * y + m
  BY <1>1, <1>3, <1>6, <1>7, ErrorAtMost
<1> HIDE DEF p, e
<1>11. (e + F) * One = D * n + m /\ (p + F) * One = D * y + m
  BY <1>1, <1>2, <1>8, <1>9
<1>12. p <= e + F
  <2>1. p * One <= (e + F) * One /\ e + F \in Nat
    BY <1>2, <1>8, <1>9, <1>10, <1>11
  <2> QED
    BY <1>1, <1>8, <2>1, CancelAtMost
<1>13. e <= p + F
  <2>1. e * One <= (p + F) * One /\ p + F \in Nat
    BY <1>2, <1>8, <1>9, <1>10, <1>11
  <2> QED
    BY <1>1, <1>8, <2>1, CancelAtMost
<1> QED
  BY <1>5, <1>12, <1>13 DEF p, e, F

\* A part of the width is cut off just below 1.
LEMMA PartError ==
  ASSUME NEW D \in Nat, D = Pow2[Precision], NEW o \in Nat, NEW v, v = Min({o, BelowOne})
  PROVE  /\ v \in Nat /\ v <= One /\ v <= o
         /\ v = o \/ D * One <= D * v + 2 * One
<1> DEFINE T == {o, BelowOne}
<1>1. BelowOne \in Nat /\ BelowOne <= One
  BY BelowOneIs
<1>2. T \subseteq Nat /\ T # {}
  BY <1>1
<1> HIDE DEF T
<1>3. Min(T) \in T /\ \A y \in T : Min(T) <= y
  BY <1>2, MinIsLeast
<1>4. v \in Nat /\ v <= o /\ v <= BelowOne /\ (v = o \/ v = BelowOne)
  BY <1>1, <1>3 DEF T
<1>5. One \in Nat \ {0} /\ D \in Nat \ {0}
  BY MantissaUnits
<1>6. D * One <= D * BelowOne + 2 * One
  <2> DEFINE q == One \div D
             k == One % D
             p == D * q
  <2>1. q \in Nat /\ k \in Nat /\ One = p + k
    BY <1>5, DivMod
  <2>2. BelowOne = One - 2 * q
    BY DEF BelowOne
  <2> HIDE DEF q, k
  <2>3. One = BelowOne + 2 * q
    BY <1>1, <1>5, <2>1, <2>2
  <2>4. D * One = D * BelowOne + 2 * p
    BY <1>1, <2>1, <2>3
  <2>5. p \in Nat /\ D * BelowOne \in Nat
    BY <1>1, <2>1
  <2> HIDE DEF p
  <2>6. p <= One
    BY <2>1, <2>5
  <2> QED
    BY <1>5, <2>4, <2>5, <2>6
<1>7. v <= One
  BY <1>1, <1>4, <1>5
<1> QED
  BY <1>4, <1>6, <1>7

\* What the bin says of the product t that it is rounded from.
LEMMA FloorError ==
  ASSUME NEW D \in Nat, D = Pow2[Precision], NEW N \in Nat, NEW H \in Nat, 2 * H = One,
         NEW t \in Nat, t <= N * One, NEW b \in Nat
  PROVE  LET bin == Floor(Rounded(t + H, 1))
         IN  /\ b <= bin => D * (b * One) <= D * t + D * H + (N + 1) * One
             /\ bin <= b /\ b < D => t <= b * One + H
<1> DEFINE n == t + H
           y == Rounded(n, 1)
           bin == Floor(y)
           m == (N + 1) * One
<1>1. One \in Nat \ {0} /\ D >= 4 /\ D <= One
  BY MantissaUnits
<1>2. n \in Nat /\ m \in Nat /\ n <= m /\ One <= m
  <2>1. m = N * One + One /\ N * One \in Nat
    BY <1>1
  <2> HIDE DEF m
  <2> QED
    BY <1>1, <2>1
<1> HIDE DEF n
<1>3. y \in Nat
  BY <1>2, RoundedIsFloat
<1>4. ASSUME b <= bin PROVE D * (b * One) <= D * t + D * H + m
  <2>1. b * One <= y
    <3>1. CASE b = 0
      <4>1. b * One = 0
        BY <1>1, <3>1
      <4> QED
        BY <1>3, <4>1
    <3>2. CASE b # 0
      <4> DEFINE c == b - 1
      <4>1. c \in Nat /\ b = c + 1
        BY <3>2
      <4> HIDE DEF c, y
      <4>2. y < (c + 1) * One => bin <= c
        BY <1>3, <4>1, FloorIs
      <4>3. bin \in Nat /\ b * One \in Nat
        BY <1>1, <1>3, FloorIs
      <4> QED
        BY <1>3, <1>4, <4>1, <4>2, <4>3
    <3> QED
      BY <3>1, <3>2
  <2>2. D * y <= D * n + m
    <3>1. y = Rounded(n, 1) * 1 /\ D * 1 <= 2 * m /\ 1 \in Nat \ {0}
      BY <1>1, <1>2, <1>3
    <3> HIDE DEF y, m
    <3> QED
      BY <1>2, <1>3, <3>1, ErrorAtMost
  <2> DEFINE c == b * One
  <2>3. c \in Nat
    BY <1>1
  <2> HIDE DEF y, c
  <2>4. c * D <= y * D /\ c <= y
    BY <1>3, <2>1, <2>3, ProductMonotone DEF c
  <2>5. c * D = D * c /\ y * D = D * y /\ D * n = D * t + D * H
    BY <1>3, <2>3 DEF n
  <2>6. D * c <= D * y /\ D * c \in Nat /\ D * y \in Nat /\ D * n \in Nat
    BY <1>2, <1>3, <2>3, <2>4, <2>5
  <2> HIDE DEF m
  <2>7. D * c <= D * n + m
    BY <1>2, <2>2, <2>6
  <2> QED
    BY <2>5, <2>7 DEF c
<1>5. ASSUME bin <= b, b < D PROVE t <= b * One + H
  <2> DEFINE f == (b + 1) * One
  <2>1. b + 1 \in Nat /\ b + 1 <= Pow2[Precision]
    BY <1>5
  <2>2. IsFloat(f) /\ f \in Nat /\ f = b * One + One /\ b * One \in Nat
    BY <1>1, <2>1, CountIsFloat
  <2>3. n < f
    <3> SUFFICES ASSUME f <= n PROVE FALSE
      BY <1>2, <2>2
    <3>1. f <= y
      <4>1. f * 1 <= n
        BY <2>2
      <4> HIDE DEF f
      <4> QED
        BY <1>2, <2>2, <4>1, BoundedByFloat
    <3>2. b + 1 <= bin /\ bin \in Nat
      <4> HIDE DEF y
      <4> QED
        BY <1>3, <2>1, <3>1, FloorIs
    <3> QED
      BY <1>5, <3>2
  <2> DEFINE c == b * One
  <2>4. c \in Nat /\ f = c + One
    BY <2>2
  <2> HIDE DEF f, c
  <2>5. t <= c + H
    BY <1>1, <2>3, <2>4 DEF n
  <2> QED
    BY <2>5 DEF c
<1> QED
  BY <1>4, <1>5 DEF n, m

\* The bin of a value that is a above the least is at most b times the width from it, up
\* to half a bin and the roundings.
LEMMA BinError ==
  ASSUME original \in Seq(Nat), original \in StrechData, length # 0, Width # 0,
         NEW D \in Nat, D = Pow2[Precision], NEW N \in Nat, N = nbins - 1, N < D,
         NEW x \in Elements, NEW a \in Nat, a = x - dataMin, NEW b \in 0..N
  PROVE  /\ b <= Bin(x) => 2 * (D * (Width * b)) <= 2 * (D * (a * N)) + D * Width + Width * (10 * N + 2)
         /\ Bin(x) <= b => 2 * (D * (a * N)) <= 2 * (D * (Width * b)) + D * Width + 10 * (N * Width)
<1> DEFINE w == Width
           r == Minus(x, dataMin)
           o == Over(r, w)
           v == Min({o, BelowOne})
           H == One \div 2
           t == Times(v, N * One)
<1>1. /\ w \in Nat \ {0} /\ N \in Nat \ {0} /\ FromInt(N) = N * One /\ IsFloat(N * One)
      /\ H \in Nat /\ 2 * H = One
  BY LimitsOfData, BinsAreFloats
<1>2. r \in Nat /\ r <= w /\ D * r <= D * a + 2 * w /\ D * a <= D * r + 2 * w
  BY DifferenceIs
<1>3. Bin(x) = Floor(Rounded(t + H, 1))
  BY <1>1 DEF Bin, Plus
<1> HIDE DEF w, r, H
<1>4. /\ o \in Nat /\ D * (o * w) <= D * (r * One) + w * One
      /\ D * (r * One) <= D * (o * w) + w * One
  BY <1>1, <1>2, QuotientError
<1> HIDE DEF o
<1>5. v \in Nat /\ v <= One /\ v <= o /\ (v = o \/ D * One <= D * v + 2 * One)
  BY <1>4, PartError
<1> HIDE DEF v
<1>6. /\ t \in Nat /\ t <= N * One /\ D * t <= D * (v * N) + N * One
      /\ D * (v * N) <= D * t + N * One
  BY <1>1, <1>5, ProductError
<1> HIDE DEF t
<1>7. b \in Nat /\ b < D /\ One \in Nat \ {0}
  BY MantissaUnits
<1>8. ASSUME b <= Bin(x)
      PROVE  2 * (D * (w * b)) <= 2 * (D * (a * N)) + D * w + w * (10 * N + 2)
  <2>1. D * (b * One) <= D * t + D * H + (N + 1) * One
    BY <1>1, <1>3, <1>6, <1>7, <1>8, FloorError
  <2> QED
    BY <1>1, <1>2, <1>4, <1>5, <1>6, <1>7, <2>1, LowArithmetic
<1>9. ASSUME Bin(x) <= b
      PROVE  2 * (D * (a * N)) <= 2 * (D * (w * b)) + D * w + 10 * (N * w)
  <2>1. t <= b * One + H
    BY <1>1, <1>3, <1>6, <1>7, <1>9, FloorError
  <2>2. /\ w \in Nat /\ N \in Nat /\ One \in Nat \ {0} /\ H \in Nat /\ 2 * H = One
        /\ D \in Nat /\ a \in Nat
    BY <1>1, <1>7
  <2>3. \/ v = o
        \/ D * One <= D * v + 2 * One
    BY <1>5
  <2> QED
    BY ONLY <1>2, <1>4, <1>5, <1>6, <1>7, <2>1, <2>2, <2>3, HighArithmetic
<1> QED
  BY <1>8, <1>9 DEF w

\* b bins of N are a part of the width.
LEMMA BinPart ==
  ASSUME NEW D \in Nat, D = Pow2[Precision], NEW N \in Nat \ {0}, NEW b \in Nat, b <= N,
         NEW s, s = Over(b * One, N * One)
  PROVE  /\ s \in Nat /\ s <= One
         /\ D * (s * N) <= D * (b * One) + N * One
         /\ D * (b * One) <= D * (s * N) + N * One
<1> DEFINE F == N * One
           r == b * One
<1>1. One \in Nat \ {0} /\ D <= One
  BY MantissaUnits
<1>2. r \in Nat /\ r <= F
  BY <1>1, ProductMonotone
<1>3. F \in Nat \ {0}
  <2>1. 1 * One <= N * One
    BY <1>1, ProductMonotone
  <2>2. 1 * One = One /\ N * One \in Nat
    BY <1>1
  <2> QED
    BY <1>1, <2>1, <2>2
<1>4. s = Over(r, F)
  OBVIOUS
<1> HIDE DEF r, F
<1>5. /\ s \in Nat /\ s <= One /\ D * (s * F) <= D * (r * One) + F * One
      /\ D * (r * One) <= D * (s * F) + F * One
  BY <1>2, <1>3, <1>4, QuotientError
<1> DEFINE p == D * (s * N)
           e == D * r
<1>6. p \in Nat /\ e \in Nat
  BY <1>2, <1>5
<1>7. D * (s * F) = p * One /\ D * (r * One) = e * One
  BY <1>1, <1>2, <1>5 DEF F
<1> HIDE DEF p, e
<1>8. e * One + F * One = (e + F) * One /\ p * One + F * One = (p + F) * One
  BY <1>1, <1>3, <1>6
<1>9. p <= e + F
  <2>1. p * One <= (e + F) * One /\ e + F \in Nat
    BY <1>3, <1>5, <1>6, <1>7, <1>8
  <2> QED
    BY <1>1, <1>6, <2>1, CancelAtMost
<1>10. e <= p + F
  <2>1. e * One <= (p + F) * One /\ p + F \in Nat
    BY <1>3, <1>5, <1>6, <1>7, <1>8
  <2> QED
    BY <1>1, <1>6, <2>1, CancelAtMost
<1> QED
  BY <1>5, <1>9, <1>10 DEF p, e, r, F

\* The limit that a bin stands for is the float next to a number of units near the bin.
LEMMA LimitError ==
  ASSUME original \in Seq(Nat), original \in StrechData, length # 0, Width # 0,
         NEW D \in Nat, D = Pow2[Precision], NEW N \in Nat, N = nbins - 1, N < D, NEW b \in 0..N
  PROVE  \E T \in 0..Width : Limit(b) = Rounded(dataMin + T, 1) /\ NearBins(D, N, Width, b, T)
<1> DEFINE w == Width
           F == N * One
           s == Over(b * One, F)
           T == Times(s, w)
<1>1. w \in Nat \ {0} /\ IsFloat(w) /\ N \in Nat \ {0} /\ FromInt(N) = F /\ F \in Nat \ {0}
  BY LimitsOfData, BinsAreFloats
<1>2. FromInt(b) = b * One /\ One \in Nat \ {0} /\ D <= One /\ b \in Nat
  <2>1. b \in Nat /\ b <= Pow2[Precision] /\ One \in Nat \ {0} /\ D <= One
    BY MantissaUnits
  <2> QED
    BY <2>1, CountIsFloat
<1>3. Limit(b) = Rounded(dataMin + T, 1)
  BY <1>1, <1>2 DEF Limit, Plus
<1> HIDE DEF w
<1>4. /\ s \in Nat /\ s <= One
      /\ D * (s * N) <= D * (b * One) + N * One
      /\ D * (b * One) <= D * (s * N) + N * One
  <2>1. /\ D \in Nat /\ D = Pow2[Precision] /\ N \in Nat \ {0} /\ b <= N /\ b \in Nat
        /\ s = Over(b * One, N * One)
    BY <1>1
  <2> HIDE DEF s
  <2> QED
    BY ONLY <2>1, BinPart
<1> HIDE DEF s, F
<1> DEFINE n == s * w
           y == T * One
<1>5. n \in Nat /\ n <= w * One
  <2>1. s * w <= One * w
    BY <1>1, <1>2, <1>4, ProductMonotone
  <2> QED
    BY <1>1, <1>2, <1>4, <2>1
<1>6. T = Rounded(n, One)
  BY DEF Times
<1> HIDE DEF n, T
<1>7. T \in Nat /\ T <= w
  BY <1>1, <1>2, <1>5, <1>6, RoundedIsFloat, BoundedByFloat
<1>8. y \in Nat /\ y = Rounded(n, One) * One
  BY <1>2, <1>6, <1>7
<1>9. \/ D * y <= D * n + n /\ D * n <= D * y + n
      \/ 2 * y <= 2 * n + One /\ 2 * n <= 2 * y + One
  <2> HIDE DEF y
  <2> QED
    BY <1>2, <1>5, <1>8, RoundingError
<1>10. NearBins(D, N, w, b, T)
  BY <1>1, <1>2, <1>4, <1>7, <1>9, LimitArithmetic DEF n
<1>11. T \in 0..w
  BY <1>1, <1>7
<1> QED
  BY <1>3, <1>10, <1>11 DEF w, T

--------------------------------------------------------------------------------
\* The limits are quantiles.

\* The bin found is the first one that is not below the tolerance.
LEMMA FirstBin ==
  ASSUME NEW cdf \in [0..(nbins - 1) -> Nat], NEW tol \in Nat, cdf[nbins - 1] >= tol
  PROVE  LET b == LowerBound(cdf, tol)
         IN  b \in 0..(nbins - 1) /\ cdf[b] >= tol /\ (b # 0 => cdf[b - 1] < tol)
<1> DEFINE From == {b \in 0..(nbins - 1) : cdf[b] >= tol} \cup {nbins}
           b == Min(From)
<1>1. nbins \in Nat /\ nbins - 1 \in Nat
  BY BinsAreFloats
<1>2. From \subseteq Nat /\ From # {} /\ nbins - 1 \in From
  BY <1>1
<1>3. b \in From /\ \A c \in From : b <= c
  <2> HIDE DEF From
  <2> QED
    BY <1>2, MinIsLeast
<1>4. b \in 0..(nbins - 1) /\ cdf[b] >= tol
  <2>1. b <= nbins - 1 /\ b # nbins
    <3> HIDE DEF From
    <3>1. b \in Nat /\ b <= nbins - 1
      BY <1>2, <1>3
    <3> QED
      BY <1>1, <3>1
  <2> QED
    BY <1>3, <2>1
<1>5. ASSUME b # 0 PROVE cdf[b - 1] < tol
  <2> DEFINE c == b - 1
  <2>1. c \in 0..(nbins - 1) /\ c < b /\ b \in Nat
    <3> HIDE DEF b
    <3> QED
      BY <1>1, <1>4, <1>5
  <2>2. c \notin From
    <3> HIDE DEF From
    <3>1. c \in Nat
      BY <2>1
    <3> QED
      BY <1>3, <2>1, <3>1
  <2>3. cdf[c] \in Nat /\ ~(cdf[c] >= tol)
    BY <2>1, <2>2
  <2> QED
    BY <2>3
<1>6. LowerBound(cdf, tol) = b
  BY DEF LowerBound
<1> QED
  BY <1>4, <1>5, <1>6

\* The mantissa has four bits more than the square of the number of bins.  The code has
\* 256 bins and float: 2^20 <= 2^24.
FineFloats == 16 * (nbins * nbins) <= Pow2[Precision]

LEMMA LimitIsQuantile ==
  ASSUME original \in Seq(Nat), original \in StrechData, length # 0, Width # 0, ExactShares, FineFloats,
         NEW tol \in Nat, tol <= One
  PROVE  LET r == Limit(LowerBound(Cumulated(hist, length), tol))
         IN  \E q \in dataMin..(dataMin + Width) : Rounded(q, 1) = r /\ IsQuantile(q, tol)
<1> DEFINE cdf == Cumulated(hist, length)
           N == nbins - 1
           D == Pow2[Precision]
           b == LowerBound(cdf, tol)
           UpToBin(c) == {j \in 1..length : Bin(original[j]) <= c}
           C(c) == Cardinality(UpToBin(c))
<1>1. length \in Nat \ {0} /\ cdf \in [0..N -> Nat] /\ One \in Nat \ {0}
  BY OriginalIs, HistogramIs, CumulatedIs, Units
<1>2. cdf[N] = One /\ \A c \in 0..N : C(c) \in Nat /\ length * cdf[c] = C(c) * One
  BY SharesAddUp
<1> HIDE DEF cdf, C, UpToBin
<1>3. b \in 0..N /\ cdf[b] >= tol /\ (b # 0 => cdf[b - 1] < tol)
  BY <1>1, <1>2, FirstBin
<1> HIDE DEF b
<1>4. D \in Nat /\ N \in Nat \ {0} /\ N < D /\ 16 * ((N + 1) * (N + 1)) <= D
  <2>1. nbins \in Nat /\ N \in Nat \ {0} /\ N + 1 = nbins
    BY BinsAreFloats
  <2>2. D \in Nat
    BY Units
  <2>3. 16 * ((N + 1) * (N + 1)) <= D
    BY <2>1 DEF FineFloats
  <2> HIDE DEF N, D
  <2>4. (N + 1) * (N + 1) = N * N + 2 * N + 1 /\ N * N \in Nat
    BY <2>1
  <2> QED
    BY <2>1, <2>2, <2>3, <2>4
<1>5. PICK T \in 0..Width : Limit(b) = Rounded(dataMin + T, 1) /\ NearBins(D, N, Width, b, T)
  <2> DEFINE Near(n, d) == \E T \in 0..Width : Limit(b) = Rounded(dataMin + T, 1) /\ NearBins(d, n, Width, b, T)
  <2>1. Near(N, D)
    BY <1>3, <1>4, LimitError
  <2> QED
    BY <2>1
<1> DEFINE q == dataMin + T
<1>6. dataMin \in Nat /\ Width \in Nat /\ T \in Nat /\ T <= Width
  <2>1. dataMin \in Nat /\ Width \in Nat
    BY LimitsOfData
  <2> QED
    BY <2>1
<1>7. q \in dataMin..(dataMin + Width)
  BY <1>6
<1>8. ASSUME NEW j \in 1..length
      PROVE  LET a == original[j] - dataMin
             IN  /\ a \in Nat /\ original[j] * N = dataMin * N + a * N
                 /\ Bin(original[j]) \in 0..N
                 /\ b <= Bin(original[j]) => T * N <= a * N + Width
                 /\ Bin(original[j]) <= b => a * N <= T * N + Width
  <2> DEFINE x == original[j]
             a == x - dataMin
  <2>1. x \in Elements
    BY DEF Elements
  <2>2. a \in Nat /\ x = dataMin + a /\ Bin(x) \in 0..N
    <3>1. x \in Nat /\ dataMin <= x /\ Bin(x) \in 0..N
      BY <2>1, LimitsOfData, BinIs
    <3> QED
      BY <1>6, <3>1
  <2> HIDE DEF x, a, N, D
  <2>3. x * N = dataMin * N + a * N
    BY <1>4, <1>6, <2>2
  <2>4. /\ b <= Bin(x) => 2 * (D * (Width * b)) <= 2 * (D * (a * N)) + D * Width + Width * (10 * N + 2)
        /\ Bin(x) <= b => 2 * (D * (a * N)) <= 2 * (D * (Width * b)) + D * Width + 10 * (N * Width)
    <3>1. D = Pow2[Precision] /\ N = nbins - 1 /\ a = x - dataMin
      BY DEF D, N, a
    <3> QED
      BY <1>3, <1>4, <2>1, <2>2, <3>1, BinError
  <2>5. b \in Nat
    BY <1>3, <1>4
  <2>6. b <= Bin(x) => T * N <= a * N + Width
    BY <1>4, <1>5, <1>6, <2>2, <2>4, <2>5, NotBelow
  <2>7. Bin(x) <= b => a * N <= T * N + Width
    BY <1>4, <1>5, <1>6, <2>2, <2>4, <2>5, NotAbove
  <2> QED
    BY <2>2, <2>3, <2>6, <2>7 DEF a, x
<1> DEFINE Below == {j \in 1..length : original[j] * N < q * N - Width}
           UpTo == {j \in 1..length : original[j] * N <= q * N + Width}
<1>9. q * N = dataMin * N + T * N /\ dataMin * N \in Nat /\ T * N \in Nat
  BY <1>4, <1>6
<1> HIDE DEF N, D, q
<1>10. ASSUME NEW j \in Below PROVE b # 0 /\ j \in UpToBin(b - 1)
  <2> DEFINE a == original[j] - dataMin
             k == Bin(original[j])
  <2>1. /\ j \in 1..length /\ a \in Nat /\ original[j] * N = dataMin * N + a * N
        /\ k \in 0..N /\ (b <= k => T * N <= a * N + Width)
    BY <1>8
  <2>2. original[j] * N < q * N - Width
    OBVIOUS
  <2> HIDE DEF a
  <2>3. a * N \in Nat
    BY <1>4, <2>1
  <2>4. ~(T * N <= a * N + Width)
    BY <1>6, <1>9, <2>1, <2>2, <2>3
  <2> HIDE DEF k
  <2>5. b # 0 /\ k <= b - 1
    BY <1>3, <1>4, <2>1, <2>4
  <2> QED
    BY <2>1, <2>5 DEF UpToBin, k
<1>11. ASSUME NEW j \in UpToBin(b) PROVE j \in UpTo
  <2> DEFINE a == original[j] - dataMin
             k == Bin(original[j])
  <2>1. j \in 1..length /\ k <= b
    BY DEF UpToBin
  <2>2. a \in Nat /\ original[j] * N = dataMin * N + a * N /\ a * N <= T * N + Width
    BY <1>8, <2>1
  <2> HIDE DEF a
  <2>3. a * N \in Nat
    BY <1>4, <2>2
  <2>4. original[j] * N <= q * N + Width
    BY <1>6, <1>9, <2>2, <2>3
  <2> QED
    BY <2>1, <2>4
<1>12. IsFiniteSet(1..length) /\ \A S \in SUBSET (1..length) : IsFiniteSet(S) /\ Cardinality(S) \in Nat
  <2>1. IsFiniteSet(1..length)
    BY <1>1, FS_Interval
  <2>2. ASSUME NEW S \in SUBSET (1..length) PROVE IsFiniteSet(S) /\ Cardinality(S) \in Nat
    <3>1. IsFiniteSet(S)
      BY <2>1, FS_Subset
    <3> QED
      BY <3>1, FS_CardinalityType
  <2> QED
    BY <2>1, <2>2
<1>13. Below \in SUBSET (1..length) /\ UpTo \in SUBSET (1..length) /\ \A c : UpToBin(c) \in SUBSET (1..length)
  BY DEF UpToBin
<1> HIDE DEF Below, UpTo
<1>14. ASSUME Below # {} PROVE Cardinality(Below) * One < tol * length
  <2>1. b # 0 /\ Below \subseteq UpToBin(b - 1)
    BY <1>10, <1>14
  <2> DEFINE c == b - 1
  <2>2. c \in 0..N
    BY <1>3, <1>4, <2>1
  <2>3. cdf[c] \in Nat /\ cdf[c] < tol /\ C(c) \in Nat /\ length * cdf[c] = C(c) * One
    BY <1>1, <1>2, <1>3, <2>1, <2>2
  <2>4. Cardinality(Below) \in Nat /\ Cardinality(Below) <= C(c)
    BY <1>12, <1>13, <2>1, FS_Subset DEF C
  <2> HIDE DEF c
  <2>5. Cardinality(Below) * One <= C(c) * One
    BY <1>1, <2>3, <2>4, ProductMonotone
  <2>6. length * cdf[c] < tol * length
    <3> DEFINE y == cdf[c]
    <3>1. y \in Nat /\ y + 1 <= tol
      BY <2>3
    <3> HIDE DEF y
    <3>2. (y + 1) * length <= tol * length
      BY <1>1, <3>1, ProductMonotone
    <3>3. (y + 1) * length = length * y + length /\ length * y \in Nat /\ tol * length \in Nat
      BY <1>1, <3>1
    <3> DEFINE u == length * y
               v == tol * length
    <3>4. u \in Nat /\ v \in Nat /\ u + length <= v
      BY <3>2, <3>3
    <3> HIDE DEF u, v
    <3>5. u < v
      BY <1>1, <3>4
    <3> QED
      BY <3>5 DEF u, v, y
  <2> DEFINE u == Cardinality(Below) * One
             v == C(c) * One
             z == tol * length
  <2>7. u \in Nat /\ v \in Nat /\ z \in Nat
    BY <1>1, <2>3, <2>4
  <2>8. u <= v /\ v < z
    BY <2>3, <2>5, <2>6
  <2> HIDE DEF u, v, z
  <2>9. u < z
    BY <2>7, <2>8
  <2> QED
    BY <2>9 DEF u, z
<1>15. Cardinality(UpTo) * One >= tol * length
  <2>1. UpToBin(b) \subseteq UpTo
    BY <1>11
  <2>2. Cardinality(UpTo) \in Nat /\ C(b) <= Cardinality(UpTo)
    BY <1>12, <1>13, <2>1, FS_Subset DEF C
  <2>3. cdf[b] \in Nat /\ tol <= cdf[b] /\ C(b) \in Nat /\ length * cdf[b] = C(b) * One
    BY <1>1, <1>2, <1>3
  <2>4. C(b) * One <= Cardinality(UpTo) * One
    BY <1>1, <2>2, <2>3, ProductMonotone
  <2>5. tol * length <= cdf[b] * length /\ cdf[b] * length = length * cdf[b]
    <3> DEFINE y == cdf[b]
    <3>1. y \in Nat /\ tol <= y
      BY <2>3
    <3> HIDE DEF y
    <3>2. tol * length <= y * length /\ y * length = length * y
      BY <1>1, <3>1, ProductMonotone
    <3> QED
      BY <3>2 DEF y
  <2> DEFINE u == tol * length
             v == C(b) * One
             z == Cardinality(UpTo) * One
  <2>6. u \in Nat /\ v \in Nat /\ z \in Nat /\ u <= v /\ v <= z
    BY <1>1, <2>2, <2>3, <2>4, <2>5
  <2> HIDE DEF u, v, z
  <2>7. u <= z
    BY <2>6
  <2> QED
    BY <2>6, <2>7 DEF u, z
<1>16. IsQuantile(q, tol)
  BY <1>14, <1>15 DEF IsQuantile, Below, UpTo, N
<1> QED
  BY <1>5, <1>7, <1>16 DEF q, b, cdf

LEMMA LimitsAreQuantilesHolds ==
  ASSUME FineFloats
  PROVE  IInv => LimitsAreQuantiles
<1> SUFFICES ASSUME IInv, pc = "stretched", ExactShares,
                    NEW tol \in Nat, tol <= One, NEW r, r = Limit(LowerBound(Cumulated(hist, length), tol))
             PROVE  \E q \in dataMin..(dataMin + Width) : Rounded(q, 1) = r /\ IsQuantile(q, tol)
  <2>1. CASE IInv /\ pc = "stretched" /\ ExactShares
    <3>1. /\ tol_low \in Nat /\ tol_high \in Nat
          /\ result = <<Limit(LowerBound(Cumulated(hist, length), tol_low)),
                        Limit(LowerBound(Cumulated(hist, length), tol_high))>>
          /\ ~(tol_low > One) /\ ~(tol_high > One)
      BY <2>1 DEF IInv, TypeOK, StretchedFloats, LimitsAre, InvalidTolerance
    <3>2. tol_low <= One /\ tol_high <= One
      BY <3>1, Units
    <3> QED
      BY <2>1, <3>1, <3>2 DEF LimitsAreQuantiles
  <2> QED
    BY <2>1 DEF LimitsAreQuantiles
<1>1. original \in Seq(Nat) /\ original \in StrechData /\ length # 0 /\ Width # 0
  BY DEF IInv, TypeOK, StretchedFloats, InvalidTolerance
<1> QED
  BY <1>1, LimitIsQuantile

\* Each limit is the float next to a quantile, as long as no share of the histogram is
\* rounded and a float has the bits that the bins need.
THEOREM LimitsFollowTolerances ==
  ASSUME FineFloats
  PROVE  Spec => []LimitsAreQuantiles
BY Invariant, LimitsAreQuantilesHolds, PTL
================================================================================
