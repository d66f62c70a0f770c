------------------------------ MODULE NaturalFacts -----------------------------
(***************************************************************************)
(* Facts about the naturals that the proofs of several components need:    *)
(* products, least and greatest elements, induction and recursion.         *)
(*                                                                         *)
(* Induction and recursion are stated of sets and functions, not of        *)
(* operators, so that the provers can instantiate them.  Both follow from  *)
(* the well-foundedness of the finite sets of naturals under inclusion.    *)
(***************************************************************************)
EXTENDS Integers, FiniteSetTheorems, FiniteSetsExt, WellFoundedInduction, TLAPS

LEMMA ProductMonotone ==
  ASSUME NEW a \in Nat, NEW b \in Nat, NEW h \in Nat, a <= b
  PROVE  a * h <= b * h
<1>1. PICK d \in Nat : b = a + d
  BY SMT
<1>2. b * h = a * h + d * h /\ d * h \in Nat
  BY <1>1, SMT
<1>. QED
  BY <1>2, SMT

--------------------------------------------------------------------------------
\* Least and greatest elements.

\* Naturals are well-ordered.
LEMMA Least ==
  ASSUME NEW T, T \subseteq Nat, T # {}
  PROVE  \E x \in T : \A y \in T : x <= y
<1>. DEFINE Upto == {0..m : m \in T}
            R == StrictSubsetOrdering(Nat)
<1>1. Upto \subseteq FiniteSubsetsOf(Nat)
  <2>1. ASSUME NEW m \in T PROVE IsFiniteSet(0..m) /\ 0..m \subseteq Nat
    BY FS_Interval
  <2>. QED
    BY <2>1 DEF FiniteSubsetsOf
<1>2. PICK s \in Upto : \A u \in Upto : <<u, s>> \notin R
  <2>1. Upto # {}
    OBVIOUS
  <2>2. IsWellFoundedOn(R, FiniteSubsetsOf(Nat))
    BY FS_StrictSubsetOrderingWellFounded
  <2>. HIDE DEF Upto, R
  <2>. QED
    BY <1>1, <2>1, <2>2, WFMin, Zenon
<1>3. PICK x \in T : s = 0..x
  OBVIOUS
<1>4. ASSUME NEW y \in T, y < x PROVE FALSE
  <2>1. 0..y \subseteq 0..x /\ x \in 0..x /\ x \notin 0..y
    BY <1>4
  <2>2. <<0..y, s>> \in R
    BY <2>1, <1>3 DEF StrictSubsetOrdering
  <2>. QED
    BY <2>2, <1>2
<1>. QED
  BY <1>4

\* The same of Min, and of Max if the set has a bound.
LEMMA MinIsLeast ==
  ASSUME NEW T, T \subseteq Nat, T # {}
  PROVE  Min(T) \in T /\ \A y \in T : Min(T) <= y
BY Least DEF Min

LEMMA MaxIsGreatest ==
  ASSUME NEW T, T \subseteq Nat, T # {}, NEW bound \in Nat, \A y \in T : y <= bound
  PROVE  Max(T) \in T /\ \A y \in T : y <= Max(T)
<1>. DEFINE Above == {b \in Nat : \A y \in T : y <= b}
<1>1. PICK m \in Above : \A b \in Above : m <= b
  <2>1. bound \in Above
    OBVIOUS
  <2>. HIDE DEF Above
  <2>2. Above \subseteq Nat
    BY DEF Above
  <2>. QED
    BY <2>1, <2>2, Least
<1>2. m \in T
  <2>1. SUFFICES ASSUME m \notin T PROVE FALSE
    OBVIOUS
  <2>2. PICK t \in T : TRUE
    OBVIOUS
  <2>3. m \in Nat /\ m - 1 \in Nat /\ \A y \in T : y <= m - 1
    BY <1>1, <2>1, <2>2
  <2>. QED
    BY <1>1, <2>3
<1>3. \E x \in T : \A y \in T : x >= y
  BY <1>1, <1>2
<1>. HIDE DEF Above
<1>. QED
  BY <1>3 DEF Max

--------------------------------------------------------------------------------
\* Induction and recursion.

LEMMA Induct ==
  ASSUME NEW T, 0 \in T, \A n \in Nat : n \in T => n + 1 \in T
  PROVE  Nat \subseteq T
<1>1. ASSUME Nat \ T # {} PROVE FALSE
  <2>1. PICK x \in Nat \ T : \A y \in Nat \ T : x <= y
    BY <1>1, Least
  <2>2. x - 1 \in Nat /\ x - 1 \in T
    BY <2>1
  <2>. QED
    BY <2>1, <2>2
<1>. QED
  BY <1>1

\* f starts at 0, and step n takes it from n to n + 1.
FollowsSteps(f, start, step) ==
  f[0] = start /\ \A n \in Nat : f[n + 1] = step[n][f[n]]

\* There is such a function.
LEMMA Recursion ==
  ASSUME NEW S, NEW start \in S, NEW step \in [Nat -> [S -> S]]
  PROVE  \E f \in [Nat -> S] : FollowsSteps(f, start, step)
<1>. DEFINE Is(f, n) == f[0] = start /\ \A k \in 0..n : k < n => f[k + 1] = step[k][f[k]]
<1>1. \A n \in Nat : \E f \in [Nat -> S] : Is(f, n)
  <2>. DEFINE T == {n \in Nat : \E f \in [Nat -> S] : Is(f, n)}
  <2>1. 0 \in T
    <3>1. Is([k \in Nat |-> start], 0)
      OBVIOUS
    <3>. QED
      BY <3>1
  <2>2. ASSUME NEW n \in Nat, n \in T PROVE n + 1 \in T
    <3>1. PICK f \in [Nat -> S] : Is(f, n)
      BY <2>2
    <3>. DEFINE g == [f EXCEPT ![n + 1] = step[n][f[n]]]
    <3>2. g \in [Nat -> S] /\ g[n + 1] = step[n][f[n]] /\ \A k \in 0..n : g[k] = f[k]
      <4>1. step[n][f[n]] \in S /\ n + 1 \in Nat
        OBVIOUS
      <4>2. \A k \in 0..n : k \in Nat /\ k # n + 1
        OBVIOUS
      <4>. QED
        BY <4>1, <4>2
    <3>3. Is(g, n + 1)
      BY <3>1, <3>2
    <3>. HIDE DEF Is, g
    <3>4. \E e \in [Nat -> S] : Is(e, n + 1)
      BY <3>2, <3>3
    <3>. QED
      BY <3>4
  <2>. HIDE DEF T
  <2>3. Nat \subseteq T
    BY <2>1, <2>2, Induct
  <2>. QED
    BY <2>3 DEF T
<1>2. ASSUME NEW f \in [Nat -> S], NEW n \in Nat, Is(f, n),
             NEW g \in [Nat -> S], NEW m \in Nat, Is(g, m), n <= m
      PROVE  f[n] = g[n]
  <2>. DEFINE T == {k \in Nat : k <= n => f[k] = g[k]}
  <2>1. 0 \in T
    BY <1>2
  <2>2. ASSUME NEW k \in Nat, k \in T PROVE k + 1 \in T
    BY <1>2, <2>2
  <2>. HIDE DEF T
  <2>3. n \in T
    BY <2>1, <2>2, Induct
  <2>. QED
    BY <2>3 DEF T
<1>. DEFINE F == [n \in Nat |-> CHOOSE f \in [Nat -> S] : Is(f, n)]
            h == [n \in Nat |-> F[n][n]]
<1>3. ASSUME NEW n \in Nat PROVE F[n] \in [Nat -> S] /\ Is(F[n], n)
  BY <1>1
<1>. HIDE DEF F
<1>4. h \in [Nat -> S]
  BY <1>3
<1>5. h[0] = start
  BY <1>3
<1>6. ASSUME NEW n \in Nat PROVE h[n + 1] = step[n][h[n]]
  <2>1. F[n + 1][n + 1] = step[n][F[n + 1][n]]
    BY <1>3
  <2>2. F[n + 1][n] = F[n][n]
    <3>1. Is(F[n], n) /\ Is(F[n + 1], n + 1) /\ F[n] \in [Nat -> S] /\ F[n + 1] \in [Nat -> S]
      BY <1>3
    <3>. HIDE DEF Is
    <3>. QED
      BY <3>1, <1>2
  <2>. QED
    BY <2>1, <2>2
<1>. QED
  BY <1>4, <1>5, <1>6 DEF FollowsSteps

\* f is defined recursively on 0..last.
DefinedBy(f, start, step, last) ==
  f = [n \in 0..last |-> IF n = 0 THEN start ELSE step[n][f[n - 1]]]

\* There is such a function, too.
LEMMA BoundedRecursion ==
  ASSUME NEW S, NEW start \in S, NEW last \in Nat, NEW step \in [1..last -> [S -> S]]
  PROVE  \E f \in [0..last -> S] : DefinedBy(f, start, step, last)
<1>. DEFINE next == [n \in Nat |-> IF n + 1 \in 1..last THEN step[n + 1] ELSE [x \in S |-> x]]
<1>1. next \in [Nat -> [S -> S]]
  OBVIOUS
<1>2. PICK g \in [Nat -> S] : FollowsSteps(g, start, next)
  <2>. HIDE DEF next
  <2>. QED
    BY <1>1, Recursion, Zenon
<1>. DEFINE f == [n \in 0..last |-> g[n]]
<1>3. f \in [0..last -> S]
  OBVIOUS
<1>4. ASSUME NEW n \in 0..last, n # 0 PROVE f[n] = step[n][f[n - 1]]
  <2>1. n - 1 \in Nat /\ n - 1 \in 0..last /\ (n - 1) + 1 = n /\ n \in 1..last
    BY <1>4
  <2>2. next[n - 1] = step[n]
    BY <2>1
  <2>3. g[(n - 1) + 1] = next[n - 1][g[n - 1]]
    BY <1>2, <2>1 DEF FollowsSteps
  <2>. QED
    BY <2>1, <2>2, <2>3
<1>5. f[0] = start
  BY <1>2 DEF FollowsSteps
<1>6. f = [n \in 0..last |-> IF n = 0 THEN start ELSE step[n][f[n - 1]]]
  <2>. HIDE DEF f
  <2>1. ASSUME NEW n \in 0..last PROVE f[n] = IF n = 0 THEN start ELSE step[n][f[n - 1]]
    BY <1>4, <1>5
  <2>. QED
    BY <1>3, <2>1
<1>. QED
  BY <1>3, <1>6 DEF DefinedBy
================================================================================
