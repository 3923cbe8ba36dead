----------------------------- MODULE NumberLemmas -----------------------------
(***************************************************************************)
(* Facts about natural numbers that the proofs need.                       *)
(*                                                                         *)
(* Every non-empty set of them has a smallest element.  This is how the    *)
(* other modules prove by induction: whatever fails for some number fails  *)
(* for a smallest one.  (The library's induction theorems take an          *)
(* operator, which the provers cannot instantiate.)                        *)
(***************************************************************************)
EXTENDS Integers, FiniteSetTheorems, TLAPS

\* A set T of numbers has a smallest one.  The library has it that a set of
\* finite sets has a minimal one: of the sets 1 .. n for n in T, this is 1 .. m.
LEMMA SmallestOf ==
  ASSUME NEW T \in SUBSET Nat, T # {}
  PROVE  \E m \in T : \A n \in T : m <= n
<1> DEFINE R == StrictSubsetOrdering(Nat)
           F == {1 .. n : n \in T}
<1>1. F \subseteq FiniteSubsetsOf(Nat) /\ F # {}
  <2>1. ASSUME NEW n \in T PROVE IsFiniteSet(1 .. n) /\ 1 .. n \subseteq Nat
    BY FS_Interval
  <2> QED BY <2>1 DEF FiniteSubsetsOf
<1>2. PICK U \in F : \A V \in F : ~(<<V, U>> \in R)
  <2> HIDE DEF R, F
  <2>1. IsWellFoundedOn(R, FiniteSubsetsOf(Nat))
    BY FS_StrictSubsetOrderingWellFounded DEF R
  <2> QED BY <1>1, <2>1, WFMin
<1>3. PICK m \in T : U = 1 .. m
  OBVIOUS
<1>4. ASSUME NEW n \in T, n < m PROVE FALSE
  <2>1. 1 .. n \subseteq 1 .. m /\ 1 .. n # 1 .. m
    <3>1. m \in 1 .. m /\ m \notin 1 .. n
      BY <1>4
    <3> QED BY <1>4, <3>1
  <2>2. <<1 .. n, 1 .. m>> \in R
    <3>1. 1 .. n \subseteq Nat /\ 1 .. m \subseteq Nat
      OBVIOUS
    <3> QED BY <2>1, <3>1 DEF StrictSubsetOrdering
  <2> QED BY <1>2, <1>3, <2>2
<1> QED BY <1>4

-----------------------------------------------------------------------------
\* Division with remainder.
LEMMA Division ==
  ASSUME NEW n \in Nat \ {0}, NEW k \in Nat
  PROVE  /\ k \div n \in Nat /\ k % n \in 0 .. n - 1 /\ k % n <= k
         /\ k = (k \div n) * n + (k % n)
OBVIOUS

\* Quotient and remainder are unique.
LEMMA DivisionUnique ==
  ASSUME NEW n \in Nat \ {0}, NEW p \in Int, NEW q \in Int,
         NEW r \in 0 .. n - 1, NEW s \in 0 .. n - 1, p * n + r = q * n + s
  PROVE  p = q /\ r = s
OBVIOUS

\* A number smaller than n is its own remainder.
LEMMA SmallRemainder ==
  ASSUME NEW n \in Nat \ {0}, NEW r \in 0 .. n - 1
  PROVE  r % n = r
OBVIOUS

\* A stride of n does not change the remainder.
LEMMA StrideRemainder ==
  ASSUME NEW n \in Nat \ {0}, NEW k \in Nat
  PROVE  (k + n) % n = k % n
<1> DEFINE q == k \div n
           r == k % n
           p == (k + n) \div n
           s == (k + n) % n
<1>1. q \in Int /\ r \in 0 .. n - 1 /\ k = q * n + r
  BY Division
<1>2. p \in Int /\ s \in 0 .. n - 1 /\ k + n = p * n + s
  <2>1. k + n \in Nat
    OBVIOUS
  <2> QED BY <2>1, Division, SMTT(30)
<1> HIDE DEF q, r, p, s
<1>3. q + 1 \in Int /\ (q + 1) * n + r = p * n + s
  BY <1>1, <1>2
<1>4. r = s
  BY <1>1, <1>2, <1>3, DivisionUnique
<1> QED BY <1>4 DEF r, s

\* Two numbers with the same remainder are equal or n apart.
LEMMA SameRemainder ==
  ASSUME NEW n \in Nat \ {0}, NEW k \in Nat, NEW l \in Nat,
         k % n = l % n, k <= l, l < k + n
  PROVE  k = l
<1> DEFINE q == l \div n
           r == l % n
           p == k \div n
<1>1. q \in Int /\ r \in 0 .. n - 1 /\ l = q * n + r
  BY Division
<1>2. p \in Int /\ k = p * n + r
  BY Division
<1> HIDE DEF q, r, p
<1>3. q >= p
  BY <1>1, <1>2
<1>4. q < p + 1
  BY <1>1, <1>2
<1> QED BY <1>1, <1>2, <1>3, <1>4
=============================================================================
