------------------------------ MODULE NatFacts ------------------------------
(***************************************************************************)
(* Induction for the proofs of the other modules.  The library states it   *)
(* for a predicate given as an operator; here it is stated for a set,      *)
(* which is what the provers can instantiate: the numbers that have a      *)
(* property are a set.  And the little arithmetic with products and        *)
(* quotients that they need to be told.                                    *)
(***************************************************************************)
EXTENDS Integers, WellFoundedInduction, TLAPS

\* A set of natural numbers that is not empty has a least element.
LEMMA LeastNatural ==
  ASSUME NEW T \in SUBSET Nat, T # {}
  PROVE  \E n \in T : \A m \in T : n <= m
<1>1. PICK n \in T : \A m \in T : ~ (<<m, n>> \in OpToRel(<, Nat))
  BY NatLessThanWellFounded, WFMin
<1>2. \A m \in T : ~(m < n)
  BY <1>1 DEF OpToRel
<1> QED BY <1>2

\* A set that has 0, and n + 1 with each n, has every natural number.
LEMMA SetInduction ==
  ASSUME NEW T, 0 \in T, \A n \in Nat : n \in T => n + 1 \in T
  PROVE  Nat \subseteq T
<1> SUFFICES ASSUME Nat \ T # {} PROVE FALSE
  OBVIOUS
<1>1. PICK n \in Nat \ T : \A m \in Nat \ T : n <= m
  BY LeastNatural
<1>2. n # 0 /\ n - 1 \in Nat
  BY <1>1
<1>3. n - 1 \in T
  BY <1>1, <1>2
<1>4. (n - 1) + 1 \in T
  BY <1>2, <1>3
<1> QED BY <1>1, <1>4

\* f is what a first value and a step from each value to the next define, up to n.
DefinedUpTo(f, n, first, step) ==
    /\ f[0] = first
    /\ \A k \in 0..(n - 1) : f[k + 1] = step[<<k, f[k]>>]

\* Two functions defined so agree.
LEMMA RecursionUnique ==
  ASSUME NEW T, NEW first \in T, NEW step \in [Nat \X T -> T], NEW n \in Nat,
         NEW f, NEW g, DefinedUpTo(f, n, first, step), DefinedUpTo(g, n, first, step)
  PROVE  \A k \in 0..n : f[k] = g[k]
<1> DEFINE S == {k \in Nat : k <= n => f[k] = g[k]}
<1>1. 0 \in S
  BY DEF DefinedUpTo
<1>2. ASSUME NEW k \in Nat, k \in S PROVE k + 1 \in S
  <2> SUFFICES ASSUME k + 1 <= n PROVE f[k + 1] = g[k + 1]
    OBVIOUS
  <2>1. k \in 0..(n - 1) /\ f[k] = g[k]
    BY <1>2
  <2> QED BY <2>1 DEF DefinedUpTo
<1>3. Nat \subseteq S
  <2> HIDE DEF S
  <2> QED BY <1>1, <1>2, SetInduction
<1> QED BY <1>3

\* There is such a function on the numbers up to n ...
LEMMA RecursionUpTo ==
  ASSUME NEW T, NEW first \in T, NEW step \in [Nat \X T -> T]
  PROVE  \A n \in Nat : \E f \in [0..n -> T] : DefinedUpTo(f, n, first, step)
<1> DEFINE S == {n \in Nat : \E f \in [0..n -> T] : DefinedUpTo(f, n, first, step)}
<1>1. 0 \in S
  <2>1. [k \in 0..0 |-> first] \in [0..0 -> T]
    OBVIOUS
  <2>2. DefinedUpTo([k \in 0..0 |-> first], 0, first, step)
    BY DEF DefinedUpTo
  <2> QED BY <2>1, <2>2
<1>2. ASSUME NEW n \in Nat, n \in S PROVE n + 1 \in S
  <2>1. PICK f \in [0..n -> T] : DefinedUpTo(f, n, first, step)
    BY <1>2
  <2> DEFINE g == [k \in 0..(n + 1) |-> IF k <= n THEN f[k] ELSE step[<<n, f[n]>>]]
  <2>2. f[n] \in T
    OBVIOUS
  <2>3. g \in [0..(n + 1) -> T]
    BY <2>2
  <2>4. g[0] = first
    BY <2>1 DEF DefinedUpTo
  <2>5. ASSUME NEW k \in 0..n PROVE g[k + 1] = step[<<k, g[k]>>]
    <3>1. CASE k < n
      BY <3>1, <2>1 DEF DefinedUpTo
    <3>2. CASE k = n
      BY <3>2, SMTT(30)
    <3> QED BY <3>1, <3>2
  <2>6. DefinedUpTo(g, n + 1, first, step)
    <3> HIDE DEF g
    <3> QED BY <2>4, <2>5 DEF DefinedUpTo
  <2> QED BY <2>3, <2>6
<1>3. Nat \subseteq S
  <2> HIDE DEF S
  <2> QED BY <1>1, <1>2, SetInduction
<1> QED BY <1>3

\* ... and one on all of them.
LEMMA Recursion ==
  ASSUME NEW T, NEW first \in T, NEW step \in [Nat \X T -> T]
  PROVE  \E f \in [Nat -> T] : \A n \in Nat : DefinedUpTo(f, n, first, step)
<1> DEFINE upto == [n \in Nat |-> CHOOSE f \in [0..n -> T] : DefinedUpTo(f, n, first, step)]
           f == [n \in Nat |-> upto[n][n]]
<1>1. \A n \in Nat : upto[n] \in [0..n -> T] /\ DefinedUpTo(upto[n], n, first, step)
  BY RecursionUpTo
<1> HIDE DEF upto
<1>2. f \in [Nat -> T]
  BY <1>1
<1>3. f[0] = first
  BY <1>1 DEF DefinedUpTo
<1>4. ASSUME NEW n \in Nat PROVE f[n + 1] = step[<<n, f[n]>>]
  <2>1. DefinedUpTo(upto[n + 1], n + 1, first, step) /\ DefinedUpTo(upto[n], n, first, step)
    BY <1>1
  <2>2. DefinedUpTo(upto[n + 1], n, first, step)
    BY <2>1 DEF DefinedUpTo
  <2>3. ASSUME NEW a, NEW b, DefinedUpTo(a, n, first, step), DefinedUpTo(b, n, first, step)
        PROVE  \A k \in 0..n : a[k] = b[k]
    BY <2>3, RecursionUnique
  <2>4. upto[n + 1][n] = upto[n][n]
    BY <2>1, <2>2, <2>3
  <2> QED BY <2>1, <2>4 DEF DefinedUpTo
<1>5. ASSUME NEW n \in Nat PROVE DefinedUpTo(f, n, first, step)
  <2> HIDE DEF f
  <2> QED BY <1>3, <1>4 DEF DefinedUpTo
<1> QED BY <1>2, <1>5

-----------------------------------------------------------------------------
(* Comparisons, and products and quotients of two variables, one fact at a   *)
(* time.                                                                     *)

\* A number other than the next is on the same side of both.
LEMMA NextNumber ==
  ASSUME NEW k \in Nat, NEW x \in Nat, x # k + 1
  PROVE  (x <= k => x <= k + 1) /\ (k < x => k + 1 < x)
OBVIOUS

\* A larger factor makes room for one more.
LEMMA ProductGrows ==
  ASSUME NEW i \in Nat, NEW j \in Nat, NEW b \in Nat, i < j
  PROVE  i * b + b <= j * b
OBVIOUS

\* What a quotient and a remainder are.
LEMMA QuotientFacts ==
  ASSUME NEW a \in Nat, NEW b \in Nat \ {0}
  PROVE  a \div b \in Nat /\ a % b \in 0..(b - 1) /\ a = (a \div b) * b + (a % b)
OBVIOUS

\* A quotient is known by its bounds.
LEMMA QuotientUnique ==
  ASSUME NEW a \in Nat, NEW b \in Nat \ {0}, NEW q \in Nat, NEW r \in 0..(b - 1), a = q * b + r
  PROVE  a \div b = q /\ a % b = r
OBVIOUS
=============================================================================
