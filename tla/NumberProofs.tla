---------------------------- MODULE NumberProofs ----------------------------
(***************************************************************************)
(* Facts about numbers, sets of numbers and folds that the proofs of       *)
(* several components share: remainders as case distinctions, the smallest *)
(* and the largest of a set, induction, and what a fold over a sequence    *)
(* computes.                                                               *)
(***************************************************************************)
EXTENDS Integers, FiniteSetsExt, WellFoundedInduction, TLAPS

(* The remainder of a number less than a modulus away from zero.           *)
LEMMA RemainderOf ==
    ASSUME NEW modulus \in Nat, NEW x \in Int, -modulus < x, x < modulus
    PROVE  x % modulus = IF x >= 0 THEN x ELSE x + modulus
OBVIOUS

(* The remainder of the difference of two numbers below a modulus.         *)
LEMMA DifferenceOf ==
    ASSUME NEW modulus \in Nat, modulus > 0,
           NEW a \in 0 .. modulus - 1, NEW b \in 0 .. modulus - 1
    PROVE  /\ (b - a) % modulus = IF b >= a THEN b - a ELSE b - a + modulus
           /\ (b - a) % modulus \in 0 .. modulus - 1
BY RemainderOf

(* The smaller of two numbers.                                             *)
LEMMA MinIs ==
    ASSUME NEW a \in Int, NEW b \in Int
    PROVE  Min({a, b}) = IF a <= b THEN a ELSE b
BY DEF Min

(* The larger of two numbers.                                              *)
LEMMA MaxIs ==
    ASSUME NEW a \in Int, NEW b \in Int
    PROVE  Max({a, b}) = IF a >= b THEN a ELSE b
BY DEF Max

Below == OpToRel(<, Nat)

(* A set of natural numbers has a smallest.                                *)
LEMMA SmallestOf ==
    ASSUME NEW T \in SUBSET Nat, T # {}
    PROVE  \E m \in T : \A k \in T : m <= k
<1>1. IsWellFoundedOn(Below, Nat)
  BY NatLessThanWellFounded DEF Below
<1>2. PICK m \in T : \A k \in T : ~(<<k, m>> \in Below)
  BY <1>1, WFMin
<1>3. ASSUME NEW k \in T
      PROVE  m <= k
  <2>1. k \in Nat /\ m \in Nat
    OBVIOUS
  <2>2. <<k, m>> \in Below <=> k < m
    BY <2>1 DEF Below, OpToRel
  <2> QED
    BY <1>2, <2>1, <2>2
<1> QED
  BY <1>3

(* A bounded set of numbers has a largest, and Max finds it.               *)
LEMMA LargestOf ==
    ASSUME NEW S \in SUBSET Int, S # {}, NEW bound \in Int, \A x \in S : x <= bound
    PROVE  Max(S) \in S /\ \A x \in S : x <= Max(S)
<1> DEFINE T == {n \in Nat : bound - n \in S}
<1>1. T \in SUBSET Nat /\ T # {}
  <2>1. PICK x \in S : TRUE
    OBVIOUS
  <2>2. bound - x \in Nat /\ bound - (bound - x) = x
    BY <2>1
  <2> QED
    BY <2>1, <2>2
<1>2. PICK m \in T : \A k \in T : m <= k
  BY <1>1, SmallestOf
<1>3. \A x \in S : x <= bound - m
  <2>1. ASSUME NEW x \in S
        PROVE  x <= bound - m
    <3>1. bound - x \in Nat /\ bound - (bound - x) = x /\ m \in Nat
      BY <2>1
    <3>2. bound - x \in T
      BY <3>1
    <3> HIDE DEF T
    <3>3. m <= bound - x
      BY <1>2, <3>2
    <3> QED
      BY <3>1, <3>3
  <2> QED
    BY <2>1
<1>4. bound - m \in S
  OBVIOUS
<1> QED
  BY <1>3, <1>4 DEF Max

(* A set of natural numbers with 0 and every successor is all of them.     *)
LEMMA AllNaturals ==
    ASSUME NEW T \in SUBSET Nat, 0 \in T, \A n \in T : n + 1 \in T
    PROVE  T = Nat
<1> SUFFICES ASSUME T # Nat PROVE FALSE
  OBVIOUS
<1>1. Nat \ T \in SUBSET Nat /\ Nat \ T # {}
  OBVIOUS
<1>2. PICK m \in Nat \ T : \A k \in Nat \ T : m <= k
  BY <1>1, SmallestOf
<1>3. m # 0 /\ m - 1 \in Nat
  BY <1>2
<1>4. m - 1 \in T
  BY <1>2, <1>3
<1> QED
  BY <1>2, <1>4
-----------------------------------------------------------------------------
(* Folds over sequences.                                                   *)

(* The last of some numbers.                                               *)
LEMMA LastOf ==
    ASSUME NEW m \in Nat, NEW s \in SUBSET (1 .. m), m \in s
    PROVE  Max(s) = m
<1>1. \A y \in s : y \in Int /\ y <= m
  OBVIOUS
<1>2. s \in SUBSET Int /\ s # {} /\ m \in Int
  OBVIOUS
<1>3. Max(s) \in s /\ m <= Max(s)
  BY <1>1, <1>2, LargestOf
<1>4. Max(s) <= m /\ Max(s) \in Int
  BY <1>1, <1>3
<1> QED
  BY <1>2, <1>3, <1>4

(* The function by which a fold over a sequence of length n is defined, by *)
(* what step makes of a value at each of its places.                       *)
IsFold(g, base, step, n) ==
    \A s \in SUBSET (1 .. n) :
        g[s] = IF s = {} THEN base ELSE step[Max(s)][g[s \ {Max(s)}]]

(* It exists, whatever its steps do: it is built up from the first places. *)
LEMMA FoldExists ==
    ASSUME NEW Values, NEW base \in Values, NEW n \in Nat,
           NEW step \in [1 .. n -> [Values -> Values]]
    PROVE  \E g \in [SUBSET (1 .. n) -> Values] : IsFold(g, base, step, n)
<1> DEFINE Folds(g, k) == \A s \in SUBSET (1 .. k) :
               g[s] = IF s = {} THEN base ELSE step[Max(s)][g[s \ {Max(s)}]]
           Exists(k) == k <= n => \E g \in [SUBSET (1 .. k) -> Values] : Folds(g, k)
           T == {k \in Nat : Exists(k)}
<1>1. Exists(0)
  <2> DEFINE g == [s \in SUBSET (1 .. 0) |-> base]
  <2>1. g \in [SUBSET (1 .. 0) -> Values] /\ Folds(g, 0)
    OBVIOUS
  <2> QED
    BY <2>1
<1>2. ASSUME NEW k \in Nat, Exists(k) PROVE Exists(k + 1)
  <2> SUFFICES ASSUME k + 1 <= n
               PROVE  \E g \in [SUBSET (1 .. k + 1) -> Values] : Folds(g, k + 1)
    OBVIOUS
  <2>1. k \in Nat /\ k <= n /\ k + 1 \in 1 .. n
    OBVIOUS
  <2>2. PICK f \in [SUBSET (1 .. k) -> Values] : Folds(f, k)
    BY <1>2, <2>1
  <2> DEFINE g == [s \in SUBSET (1 .. k + 1) |->
                      IF k + 1 \in s THEN step[k + 1][f[s \ {k + 1}]] ELSE f[s]]
  <2>3. ASSUME NEW s \in SUBSET (1 .. k + 1), k + 1 \notin s
        PROVE  s \in SUBSET (1 .. k) /\ g[s] = f[s]
    <3>1. s \in SUBSET (1 .. k)
      BY <2>1, <2>3
    <3> QED
      BY <2>3, <3>1
  <2>4. ASSUME NEW s \in SUBSET (1 .. k + 1), k + 1 \in s
        PROVE  /\ s \ {k + 1} \in SUBSET (1 .. k)
               /\ g[s] = step[k + 1][f[s \ {k + 1}]]
               /\ g[s \ {k + 1}] = f[s \ {k + 1}]
    <3>1. s \ {k + 1} \in SUBSET (1 .. k) /\ s \ {k + 1} \in SUBSET (1 .. k + 1)
      BY <2>1
    <3> QED
      BY <2>4, <3>1
  <2>5. \A t \in SUBSET (1 .. k) : f[t] \in Values
    OBVIOUS
  <2>6. \A s \in SUBSET (1 .. k + 1) : g[s] \in Values
    BY <2>1, <2>3, <2>4, <2>5
  <2>7. g \in [SUBSET (1 .. k + 1) -> Values]
    BY <2>6
  <2> HIDE DEF g
  <2>8. ASSUME NEW s \in SUBSET (1 .. k + 1)
        PROVE  g[s] = IF s = {} THEN base ELSE step[Max(s)][g[s \ {Max(s)}]]
    <3>1. CASE k + 1 \in s
      <4> DEFINE m == k + 1
      <4>1. m \in Nat /\ s \in SUBSET (1 .. m) /\ m \in s
        BY <2>1, <3>1
      <4>2. Max(s) = m /\ s # {}
        <5> HIDE DEF m
        <5> QED
          BY <4>1, LastOf
      <4> QED
        BY <2>4, <3>1, <4>2
    <3>2. CASE k + 1 \notin s /\ s = {}
      BY <2>2, <2>3, <3>2
    <3>3. CASE k + 1 \notin s /\ s # {}
      <4>1. s \in SUBSET (1 .. k) /\ g[s] = f[s]
        BY <2>3, <3>3
      <4>2. s \ {Max(s)} \in SUBSET (1 .. k + 1) /\ k + 1 \notin s \ {Max(s)}
        BY <3>3
      <4>3. g[s \ {Max(s)}] = f[s \ {Max(s)}]
        BY <2>3, <4>2
      <4> QED
        BY <2>2, <3>3, <4>1, <4>3
    <3> QED
      BY <3>1, <3>2, <3>3
  <2> QED
    BY <2>7, <2>8
<1> HIDE DEF Exists
<1>3. T = Nat
  <2>1. T \in SUBSET Nat /\ 0 \in T /\ \A k \in T : k + 1 \in T
    BY <1>1, <1>2
  <2> HIDE DEF T
  <2> QED
    BY <2>1, AllNaturals
<1>4. Exists(n)
  BY <1>3
<1>5. n <= n
  OBVIOUS
<1> QED
  BY <1>4, <1>5, Zenon DEF Exists, IsFold
=============================================================================
