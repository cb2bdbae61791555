------------------------------ MODULE NatLemmas ------------------------------
(***************************************************************************)
(* Induction and recursion over the natural numbers, with sets and         *)
(* functions where the library has operators: what a recursive function    *)
(* of a model computes is proved from its equation, which has a solution   *)
(* by the lemmas below.                                                    *)
(***************************************************************************)
EXTENDS Powers, Sequences, WellFoundedInduction, TLAPS

\* A set of numbers has a least one.
LEMMA LeastElement ==
    ASSUME NEW T \in SUBSET Nat, T # {}
    PROVE  \E x \in T : \A y \in T : x <= y
<1>1. PICK x \in T : \A y \in T : ~(<<y, x>> \in OpToRel(<, Nat))
  BY NatLessThanWellFounded, WFMin DEF OpToRel
<1>2. ASSUME NEW y \in T PROVE x <= y
  <2>1. ~(y < x)
    BY <1>1, <1>2 DEF OpToRel
  <2> QED BY <2>1
<1> QED BY <1>2

\* Induction: T holds the numbers of which something is true.
LEMMA SetInduction ==
    ASSUME NEW T, 0 \in T, \A n \in Nat : n \in T => n + 1 \in T
    PROVE  \A n \in Nat : n \in T
<1> SUFFICES ASSUME NEW k \in Nat, k \notin T PROVE FALSE
  OBVIOUS
<1> DEFINE Missing == Nat \ T
<1>1. PICK n \in Missing : \A m \in Missing : n <= m
  <2>1. Missing \in SUBSET Nat /\ Missing # {}
    OBVIOUS
  <2> HIDE DEF Missing
  <2> QED BY <2>1, LeastElement
<1>2. n # 0 /\ n - 1 \in Nat /\ n - 1 \notin Missing
  BY <1>1
<1>3. (n - 1) + 1 \in T
  BY <1>2
<1> QED BY <1>1, <1>2, <1>3

\* The same up to a bound.
LEMMA BoundedInduction ==
    ASSUME NEW N \in Nat, NEW T, 0 \in T, \A n \in 0..(N - 1) : n \in T => n + 1 \in T
    PROVE  \A n \in 0..N : n \in T
<1> DEFINE U == {n \in Nat : n <= N => n \in T}
<1>1. 0 \in U /\ \A n \in Nat : n \in U => n + 1 \in U
  OBVIOUS
<1> HIDE DEF U
<1>2. \A n \in Nat : n \in U
  BY <1>1, SetInduction
<1> QED BY <1>2 DEF U

-----------------------------------------------------------------------------
(* Recursion.                                                              *)

\* The functions on 0..n that a recursion builds in n steps.
Beginnings(S, base, F, n) ==
    {g \in [0..n -> S] : g[0] = base /\ \A i \in 0..(n - 1) : g[i + 1] = F[i][g[i]]}

LEMMA BeginningExists ==
    ASSUME NEW S, NEW base \in S, NEW F \in [Nat -> [S -> S]]
    PROVE  \A n \in Nat : Beginnings(S, base, F, n) # {}
<1> DEFINE T == {n \in Nat : Beginnings(S, base, F, n) # {}}
<1>1. 0 \in T
  <2> DEFINE g == [i \in 0..0 |-> base]
  <2>1. g \in Beginnings(S, base, F, 0)
    BY DEF Beginnings
  <2> QED BY <2>1
<1>2. ASSUME NEW n \in Nat, n \in T PROVE n + 1 \in T
  <2>1. PICK g : g \in Beginnings(S, base, F, n)
    BY <1>2
  <2> DEFINE h == [i \in 0..(n + 1) |-> IF i <= n THEN g[i] ELSE F[n][g[n]]]
  <2>2. g \in [0..n -> S] /\ F[n][g[n]] \in S
    BY <2>1 DEF Beginnings
  <2>3. h \in [0..(n + 1) -> S] /\ h[0] = base
    BY <2>1, <2>2 DEF Beginnings
  <2>4. ASSUME NEW i \in 0..n PROVE h[i + 1] = F[i][h[i]]
    <3>1. CASE i = n
      BY <3>1
    <3>2. CASE i # n
      <4>1. i \in 0..(n - 1) /\ h[i + 1] = g[i + 1] /\ h[i] = g[i]
        BY <3>2
      <4> QED BY <2>1, <4>1 DEF Beginnings
    <3> QED BY <3>1, <3>2
  <2> HIDE DEF h
  <2>5. h \in Beginnings(S, base, F, n + 1)
    BY <2>3, <2>4 DEF Beginnings
  <2> QED BY <2>5
<1> HIDE DEF T
<1>3. \A n \in Nat : n \in T
  BY <1>1, <1>2, SetInduction
<1> QED BY <1>3 DEF T

LEMMA BeginningsAgree ==
    ASSUME NEW S, NEW base \in S, NEW F \in [Nat -> [S -> S]], NEW m \in Nat, NEW n \in Nat,
           NEW g \in Beginnings(S, base, F, m), NEW h \in Beginnings(S, base, F, n), m <= n
    PROVE  \A i \in 0..m : g[i] = h[i]
<1> DEFINE T == {i \in 0..m : g[i] = h[i]}
<1>1. 0 \in T
  BY DEF Beginnings
<1>2. ASSUME NEW i \in 0..(m - 1), i \in T PROVE i + 1 \in T
  <2>1. g[i] = h[i] /\ i \in 0..(n - 1) /\ i + 1 \in 0..m
    BY <1>2
  <2>2. g[i + 1] = F[i][g[i]]
    BY DEF Beginnings
  <2>3. h[i + 1] = F[i][h[i]]
    BY <2>1 DEF Beginnings
  <2> QED BY <2>1, <2>2, <2>3
<1> HIDE DEF T
<1>3. \A i \in 0..m : i \in T
  BY <1>1, <1>2, BoundedInduction
<1> QED BY <1>3 DEF T

\* g begins with base, and F[n] leads from g[n] to the next.
Follows(g, base, F) == g[0] = base /\ \A n \in Nat : g[n + 1] = F[n][g[n]]

\* A function on the natural numbers is defined by its first value and its step.
LEMMA NatRecursion ==
    ASSUME NEW S, NEW base \in S, NEW F \in [Nat -> [S -> S]]
    PROVE  \E g \in [Nat -> S] : Follows(g, base, F)
<1> DEFINE part(n) == CHOOSE g : g \in Beginnings(S, base, F, n)
           g == [n \in Nat |-> part(n)[n]]
<1>1. ASSUME NEW n \in Nat PROVE part(n) \in Beginnings(S, base, F, n)
  BY BeginningExists
<1> HIDE DEF part
<1>2. g \in [Nat -> S]
  BY <1>1 DEF Beginnings
<1>3. g[0] = base
  BY <1>1 DEF Beginnings
<1>4. ASSUME NEW n \in Nat PROVE g[n + 1] = F[n][g[n]]
  <2>1. part(n)[n] = part(n + 1)[n]
    BY <1>1, BeginningsAgree
  <2>2. part(n + 1)[n + 1] = F[n][part(n + 1)[n]]
    BY <1>1 DEF Beginnings
  <2> QED BY <2>1, <2>2
<1> HIDE DEF g
<1> QED BY <1>2, <1>3, <1>4 DEF Follows

\* The same on an interval, in the form in which a recursive definition states it.
Unfolds(f, N, base, F) == f = [n \in 0..N |-> IF n = 0 THEN base ELSE F[n][f[n - 1]]]

LEMMA BoundedRecursion ==
    ASSUME NEW S, NEW base \in S, NEW N \in Nat, NEW F \in [1..N -> [S -> S]]
    PROVE  \E f \in [0..N -> S] : Unfolds(f, N, base, F)
<1>1. PICK G \in [Nat -> [S -> S]] : \A n \in Nat : n + 1 \in 1..N => G[n] = F[n + 1]
  <2> DEFINE H == [n \in Nat |-> IF n + 1 \in 1..N THEN F[n + 1] ELSE [x \in S |-> base]]
  <2>1. H \in [Nat -> [S -> S]]
    OBVIOUS
  <2>2. \A n \in Nat : n + 1 \in 1..N => H[n] = F[n + 1]
    OBVIOUS
  <2> HIDE DEF H
  <2> QED BY <2>1, <2>2
<1>2. PICK g \in [Nat -> S] : Follows(g, base, G)
  BY NatRecursion
<1>3. g[0] = base /\ \A n \in Nat : g[n + 1] = G[n][g[n]]
  BY <1>2 DEF Follows
<1> DEFINE f == [n \in 0..N |-> g[n]]
<1>4. f \in [0..N -> S]
  BY <1>3
<1>5. ASSUME NEW n \in 0..N PROVE f[n] = IF n = 0 THEN base ELSE F[n][f[n - 1]]
  <2>1. CASE n # 0
    <3>1. n - 1 \in Nat /\ (n - 1) + 1 = n /\ n \in 1..N /\ n - 1 \in 0..N
      BY <2>1
    <3>2. g[n] = G[n - 1][g[n - 1]] /\ g[n - 1] \in S
      BY <1>3, <3>1
    <3>3. g[n] = F[n][g[n - 1]]
      BY <1>1, <3>1, <3>2
    <3> QED BY <2>1, <3>1, <3>3
  <2> QED BY <1>3, <2>1
<1> HIDE DEF f
<1>6. Unfolds(f, N, base, F)
  BY <1>4, <1>5 DEF Unfolds
<1> QED BY <1>4, <1>6

-----------------------------------------------------------------------------
(* Arithmetic.                                                             *)

LEMMA TimesMonotone ==
    ASSUME NEW a \in Int, NEW b \in Int, NEW m \in Nat, a <= b
    PROVE  a * m <= b * m
<1>1. (b - a) * m >= 0
  OBVIOUS
<1> QED BY <1>1

LEMMA TimesSuccessor ==
    ASSUME NEW a \in Int, NEW m \in Nat
    PROVE  (a + 1) * m = (a * m) + m
OBVIOUS

\* What is small enough often enough is at most the quotient.
LEMMA QuotientBound ==
    ASSUME NEW a \in Int, NEW b \in Nat, NEW m \in Nat \ {0}, a * m <= b
    PROVE  a <= b \div m
<1> DEFINE q == b \div m
<1>1. q \in Nat /\ b < (q * m) + m
  OBVIOUS
<1> HIDE DEF q
<1>2. SUFFICES ASSUME q + 1 <= a PROVE FALSE
  BY <1>1 DEF q
<1>3. (q + 1) * m <= a * m
  BY <1>1, <1>2, TimesMonotone
<1>4. (q + 1) * m = (q * m) + m /\ q * m \in Int /\ a * m \in Int
  BY <1>1
<1> QED BY <1>1, <1>3, <1>4

\* The powers of two.
LEMMA PowersOfTwo ==
    /\ Pow2 \in [Nat -> Nat \ {0}] /\ Pow2[0] = 1
    /\ \A n \in Nat : Pow2[n + 1] = 2 * Pow2[n]
<1> DEFINE double == [n \in Nat |-> [x \in Nat \ {0} |-> 2 * x]]
<1>1. double \in [Nat -> [Nat \ {0} -> Nat \ {0}]]
  OBVIOUS
<1>2. PICK g \in [Nat -> Nat \ {0}] : Follows(g, 1, double)
  <2> HIDE DEF double
  <2>1. 1 \in Nat \ {0}
    OBVIOUS
  <2> QED BY <1>1, <2>1, NatRecursion
<1>3. g = [n \in Nat |-> IF n = 0 THEN 1 ELSE 2 * g[n - 1]]
  <2>1. ASSUME NEW n \in Nat PROVE g[n] = IF n = 0 THEN 1 ELSE 2 * g[n - 1]
    <3>1. CASE n # 0
      <4>1. n - 1 \in Nat /\ (n - 1) + 1 = n
        BY <3>1
      <4>2. g[n] = double[n - 1][g[n - 1]]
        BY <1>2, <4>1 DEF Follows
      <4> QED BY <3>1, <4>1, <4>2
    <3> QED BY <1>2, <3>1 DEF Follows
  <2> QED BY <2>1
<1>4. Pow2 = [n \in Nat |-> IF n = 0 THEN 1 ELSE 2 * Pow2[n - 1]]
  BY <1>3 DEF Pow2
<1>5. Pow2[0] = 1 /\ \A n \in Nat : Pow2[n + 1] = 2 * Pow2[n]
  <2>1. ASSUME NEW n \in Nat PROVE Pow2[n + 1] = 2 * Pow2[n]
    <3>1. n + 1 \in Nat /\ n + 1 # 0 /\ (n + 1) - 1 = n
      OBVIOUS
    <3> QED BY <1>4, <3>1
  <2>2. Pow2[0] = 1
    BY <1>4
  <2> QED BY <2>1, <2>2
<1> DEFINE T == {n \in Nat : Pow2[n] \in Nat \ {0}}
<1>6. 0 \in T /\ \A n \in Nat : n \in T => n + 1 \in T
  BY <1>5
<1> HIDE DEF T
<1>7. \A n \in Nat : n \in T
  BY <1>6, SetInduction
<1> QED BY <1>4, <1>5, <1>7 DEF T

\* What is halved with every step is small after a number of them.
LEMMA Halving ==
    ASSUME NEW a \in Nat, NEW b \in Int, NEW n \in Nat, NEW bound \in Nat,
           a * Pow2[n] <= bound, 2 * b <= a
    PROVE  b * Pow2[n + 1] <= bound
<1>1. Pow2[n] \in Nat /\ Pow2[n + 1] = 2 * Pow2[n]
  BY PowersOfTwo
<1>2. (2 * b) * Pow2[n] <= a * Pow2[n]
  BY <1>1, TimesMonotone
<1>3. b * Pow2[n + 1] = (2 * b) * Pow2[n]
  BY <1>1
<1>4. a * Pow2[n] \in Int /\ (2 * b) * Pow2[n] \in Int
  BY <1>1
<1> QED BY <1>2, <1>3, <1>4
=============================================================================
