------------------------------- MODULE SmallFloat ------------------------------
(***************************************************************************)
(* Binary floating-point numbers that are not negative, with a mantissa of *)
(* Precision bits, for the arithmetic of MathUtils.  float has 24 bits:    *)
(* with a few bits the same roundings happen on small numbers.             *)
(*                                                                         *)
(* A number is given in units of 2^-Point.  As in IEEE 754 a result is the *)
(* number next to the exact one, and of two that are as near the even one. *)
(* There is no largest exponent and no smallest.                           *)
(***************************************************************************)
EXTENDS Integers

CONSTANTS Precision, Point

ASSUME SmallFloatAssumption == Precision \in Nat \ {0, 1} /\ Point \in Nat

\* 2^n.
Pow2[n \in Nat] == IF n = 0 THEN 1 ELSE 2 * Pow2[n - 1]

\* The number of bits of n.
Bits[n \in Nat] == IF n = 0 THEN 0 ELSE 1 + Bits[n \div 2]

One == Pow2[Point]

\* The integer next to n / d.
Nearest(n, d) ==
  LET q == n \div d
      r == 2 * (n % d)
  IN  IF r > d \/ (r = d /\ q % 2 = 1) THEN q + 1 ELSE q

\* The number next to n / d units: its last bit is worth 2^e units.
Rounded(n, d) ==
  LET b == Bits[n \div d]
      e == IF b > Precision THEN b - Precision ELSE 0
  IN  Pow2[e] * Nearest(n, d * Pow2[e])

FromInt(n) == Rounded(n * One, 1)
Plus(x, y)   == Rounded(x + y, 1)
Minus(x, y)  == Rounded(x - y, 1)
Times(x, y)  == Rounded(x * y, One)
Over(x, y)   == Rounded(x * One, y)
Floor(x)     == x \div One
================================================================================
