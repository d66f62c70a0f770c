------------------------------- MODULE MathUtils -------------------------------
(***************************************************************************)
(* A call of MathUtils::reduceMaxValues, which cuts the values of an array *)
(* off at a percentile, or of MathUtils::strechlim, which finds the limits *)
(* of a contrast stretch from a histogram (utils/MathUtils.h).             *)
(*                                                                         *)
(* Precision is the mantissa of float.  Percentiles, tolerances and the    *)
(* values that strechlim computes with are in units of 2^-Point; data are  *)
(* not negative.  The data of reduceMaxValues may need more bits than      *)
(* float has, as doubles may; only a call of strechlim for float compiles. *)
(***************************************************************************)
EXTENDS SmallFloat, Sequences, FiniteSetsExt

CONSTANTS ReduceData, Percentiles,
          StrechData, Tolerances,
          nbins,        \* 256
          Tiny          \* 1e-6f

\* The data of strechlim are floats, and every number of bins and of half bins is one.
ASSUME MathUtilsAssumption ==
  /\ ReduceData \subseteq Seq(Nat) /\ Percentiles \subseteq Nat
  /\ StrechData \subseteq Seq(Nat) /\ Tolerances \subseteq Nat
  /\ \A array \in StrechData : \A j \in 1..Len(array) : Rounded(array[j], 1) = array[j]
  /\ nbins \in Nat \ {0, 1} /\ 2 * nbins <= Pow2[Precision] /\ Precision <= Point
  /\ Tiny \in Nat \ {0}

VARIABLES original,     \* the array as the call found it
          data, highPercentile, cap, i,
          tol_low, tol_high, result,
          pc

vars == <<original, data, highPercentile, cap, i, tol_low, tol_high, result, pc>>

length == Len(original)
Elements == {original[j] : j \in 1..length}

CallReduce ==
  /\ pc = "reduceMaxValues"
  /\ original \in ReduceData /\ highPercentile \in Percentiles
  /\ tol_low = 0 /\ tol_high = 0

CallStrechlim ==
  /\ pc = "strechlim"
  /\ original \in StrechData /\ tol_low \in Tolerances /\ tol_high \in Tolerances
  /\ highPercentile = 0

Init ==
  /\ CallReduce \/ CallStrechlim
  /\ data = original /\ cap = 0 /\ i = 0 /\ result = <<0, 0>>

--------------------------------------------------------------------------------
\* reduceMaxValues.

\* Mutant: the whole length is taken for the last index.
IndexOfLength(p) == Floor(Times(FromInt(length), p))
\* Mutant: the index is rounded up.
IndexAbove(p) == Floor(Times(FromInt(length - 1), p)) + 1

\* static_cast<std::size_t>(std::floor((length - 1) * highPercentile)).
idx(p) == Floor(Times(FromInt(length - 1), p))

\* The copy of the data as float.
buf == [j \in 1..length |-> Rounded(original[j], 1)]

\* b[n] after std::sort.
Sorted(b, n) ==
  CHOOSE v \in {b[j] : j \in DOMAIN b} :
    /\ Cardinality({j \in DOMAIN b : b[j] < v}) <= n
    /\ Cardinality({j \in DOMAIN b : b[j] <= v}) > n

InvalidPercentile == length = 0 \/ highPercentile = 0 \/ highPercentile > One

RejectPercentile ==
  /\ pc = "reduceMaxValues" /\ InvalidPercentile
  /\ pc' = "threw"
  /\ UNCHANGED <<original, data, highPercentile, cap, i, tol_low, tol_high, result>>

\* Behind the end of buf stands any value.
Cap ==
  /\ pc = "reduceMaxValues" /\ ~InvalidPercentile
  /\ LET n == idx(highPercentile)
     IN  IF n < length THEN cap' = Sorted(buf, n) ELSE cap' \in {0} \cup {buf[j] : j \in 1..length}
  /\ pc' = "clip"
  /\ UNCHANGED <<original, data, highPercentile, i, tol_low, tol_high, result>>

Clip ==
  /\ pc = "clip" /\ i < length
  /\ data' = [data EXCEPT ![i + 1] = IF @ > cap THEN cap ELSE @]
  /\ i' = i + 1
  /\ UNCHANGED <<original, highPercentile, cap, tol_low, tol_high, result, pc>>

EndOfClip ==
  /\ pc = "clip" /\ i = length
  /\ pc' = "reduced"
  /\ UNCHANGED <<original, data, highPercentile, cap, i, tol_low, tol_high, result>>

--------------------------------------------------------------------------------
\* strechlim.

dataMin == Min(Elements)

\* Mutant: nothing is done about constant data.
MaxUnguarded == Max(Elements)

\* The largest value, made larger if there is but one.
dataMax == IF Max(Elements) <= dataMin THEN Plus(dataMin, Tiny) ELSE Max(Elements)

Width == Minus(dataMax, dataMin)

\* 1.0f - epsilon.
BelowOne == One - 2 * (One \div Pow2[Precision])

\* Mutant: as many bins as there are, not one less, are laid over the width.
BinOfAll(x) ==
  LET v == Min({Over(Minus(x, dataMin), Width), BelowOne})
  IN  Floor(Plus(Times(v, FromInt(nbins)), One \div 2))

\* The bin of a value, for a width that is not 0.
Bin(x) ==
  LET v == Min({Over(Minus(x, dataMin), Width), BelowOne})
  IN  Floor(Plus(Times(v, FromInt(nbins - 1)), One \div 2))

\* What is no bin of it would be counted beside it.
hist == [b \in 0..(nbins - 1) |-> Cardinality({j \in 1..length : Bin(original[j]) = b})]

\* The histogram h of n values cumulated: each share is rounded, and each sum.
Cumulated(h, n) ==
  LET Share(b) == Over(FromInt(h[b]), FromInt(n))
      cdf[b \in 0..(nbins - 1)] ==
        IF b = 0 THEN Share(0) ELSE Plus(cdf[b - 1], Share(b))
  IN  cdf

\* Mutant: std::upper_bound in the place of std::lower_bound.
UpperBound(cdf, tol) == Min({b \in 0..(nbins - 1) : cdf[b] > tol} \cup {nbins})

\* std::lower_bound: the first bin not below tol, or the end.
LowerBound(cdf, tol) == Min({b \in 0..(nbins - 1) : cdf[b] >= tol} \cup {nbins})

\* The value that stands for a bin.
Limit(b) == Plus(dataMin, Times(Over(FromInt(b), FromInt(nbins - 1)), Width))

InvalidTolerance ==
  length = 0 \/ tol_low > One \/ tol_high > One \/ tol_low >= tol_high

RejectTolerance ==
  /\ pc = "strechlim" /\ InvalidTolerance
  /\ pc' = "threw"
  /\ UNCHANGED <<original, data, highPercentile, cap, i, tol_low, tol_high, result>>

\* 0 / 0 is no number, and the conversion of it to the int bin is undefined.
DivideByZero ==
  /\ pc = "strechlim" /\ ~InvalidTolerance /\ Width = 0
  /\ pc' = "undefined"
  /\ UNCHANGED <<original, data, highPercentile, cap, i, tol_low, tol_high, result>>

FindLimits ==
  /\ pc = "strechlim" /\ ~InvalidTolerance /\ Width # 0
  /\ LET cdf == Cumulated(hist, length)
     IN  result' = <<Limit(LowerBound(cdf, tol_low)), Limit(LowerBound(cdf, tol_high))>>
  /\ pc' = "stretched"
  /\ UNCHANGED <<original, data, highPercentile, cap, i, tol_low, tol_high>>

--------------------------------------------------------------------------------

Next ==
  \/ RejectPercentile \/ Cap \/ Clip \/ EndOfClip
  \/ RejectTolerance \/ DivideByZero \/ FindLimits

Spec == Init /\ [][Next]_vars

--------------------------------------------------------------------------------
\* What reduceMaxValues promises.

\* The last index is a float; every index is one.
ExactLength == FromInt(length - 1) = (length - 1) * One
ExactIndices == length <= Pow2[Precision]

\* reduceMaxValues reads no value behind the end of its copy, as long as the last index
\* of the array is a float.
IndexInRange == pc = "clip" /\ ExactLength => idx(highPercentile) < length

\* Of n values less than (1 - highPercentile) * (n - 1) + 1 are changed, with 1 none, but
\* for those that become the float next to them: values are compared with a float.
FewClipped ==
  LET changed == {j \in 1..length : data[j] \notin {original[j], Rounded(original[j], 1)}}
  IN  Cardinality(changed) * One < (One - highPercentile) * (length - 1) + One

\* The values above the float next to one of them, and no others, were cut down to it: it
\* is then the float next to at least (1 - highPercentile) * (n - 1) values.
TopClipped ==
  \E top \in {Rounded(x, 1) : x \in Elements} :
    /\ \A j \in 1..length : data[j] = IF original[j] > top THEN top ELSE original[j]
    /\ Cardinality({j \in 1..length : Rounded(data[j], 1) = top}) * One
         >= (One - highPercentile) * (length - 1)

\* reduceMaxValues cuts off neither more values than the share 1 - highPercentile nor
\* fewer, whatever is rounded of the data, as long as all indices are floats.  That is
\* what its code says (MathUtils.h:61); its header comment (MathUtils.h:36) gives
\* highPercentile itself as the share that is removed.
ClippedAtPercentile == pc = "reduced" /\ ExactIndices => FewClipped /\ TopClipped

--------------------------------------------------------------------------------
\* What strechlim promises.

\* Only data 2^Precision times as large as the constant that is added make strechlim
\* divide by zero.
NoDivisionByZero == pc = "undefined" => \A x \in Elements : x >= Tiny * Pow2[Precision]

\* Every value is counted in a bin of the histogram, also the largest.
BinsInRange ==
  pc = "stretched" => \A x \in Elements : Bin(x) \in 0..(nbins - 1)

\* The shares of the histogram need no rounding.
ExactShares ==
  \A n \in 1..length : length * Over(FromInt(n), FromInt(length)) = n * One

\* The limits are in order and not below the data, nor above them as long as no share
\* of the histogram is rounded and the width is not rounded up.
LimitsInRange ==
  pc = "stretched" =>
    /\ dataMin <= result[1] /\ result[1] <= result[2]
    /\ ExactShares /\ Width <= dataMax - dataMin => result[2] <= dataMax

\* q is the quantile tol of the data up to the width of a bin: less than tol of the
\* values are more than a bin below q, at least tol are at most a bin above it.
IsQuantile(q, tol) ==
  LET n(x) == x * (nbins - 1)
      Below == {j \in 1..length : n(original[j]) < n(q) - Width}
      UpTo  == {j \in 1..length : n(original[j]) <= n(q) + Width}
  IN  /\ Below # {} => Cardinality(Below) * One < tol * length
      /\ Cardinality(UpTo) * One >= tol * length

\* Each limit is the float next to a quantile, as long as no share is rounded.
LimitsAreQuantiles ==
  LET NextTo(r, tol) == \E q \in dataMin..(dataMin + Width) : Rounded(q, 1) = r /\ IsQuantile(q, tol)
  IN  pc = "stretched" /\ ExactShares => NextTo(result[1], tol_low) /\ NextTo(result[2], tol_high)
================================================================================
