---------------------------- MODULE PowerProofs ----------------------------
(***************************************************************************)
(* Arithmetic the other proofs need and the provers do not have: powers of *)
(* two, which count the subsets of an interval, and least elements.        *)
(***************************************************************************)
EXTENDS Integers, FiniteSetTheorems, TLAPS

(* 2^n counts the subsets of 1..n.                                         *)
LEMMA PowerCounts == ASSUME NEW n \in Nat
  PROVE IsFiniteSet(SUBSET (1..n)) /\ Cardinality(SUBSET (1..n)) = 2^n
<1>1. IsFiniteSet(1..n) /\ Cardinality(1..n) = n
  BY FS_Interval
<1> QED BY <1>1, FS_SUBSET

(* A subset of 1..(n + 1) is one of 1..n, with or without n + 1.           *)
LEMMA PowerStep == ASSUME NEW n \in Nat PROVE 2^(n + 1) = 2 * 2^n
<1> DEFINE P == SUBSET (1..n)
           Q == {T \union {n + 1} : T \in P}
<1>1. IsFiniteSet(P) /\ Cardinality(P) = 2^n /\ 2^n \in Nat
  BY PowerCounts, FS_CardinalityType
<1>2. Cardinality(SUBSET (1..(n + 1))) = 2^(n + 1)
  BY PowerCounts
<1>3. SUBSET (1..(n + 1)) = P \union Q
  <2>1. ASSUME NEW T \in SUBSET (1..(n + 1)) PROVE T \in P \union Q
    <3>1. CASE n + 1 \in T
      <4>1. T \ {n + 1} \in P /\ T = (T \ {n + 1}) \union {n + 1}
        BY <3>1
      <4> QED BY <4>1
    <3>2. CASE n + 1 \notin T
      BY <3>2
    <3> QED BY <3>1, <3>2
  <2>2. 1..n \subseteq 1..(n + 1) /\ n + 1 \in 1..(n + 1)
    OBVIOUS
  <2>3. P \union Q \subseteq SUBSET (1..(n + 1))
    BY <2>2
  <2> QED BY <2>1, <2>3
<1>4. P \intersect Q = {}
  <2>1. \A T \in P : n + 1 \notin T
    OBVIOUS
  <2> QED BY <2>1
<1>5. IsFiniteSet(Q) /\ Cardinality(Q) = 2^n
  <2> DEFINE f == [T \in P |-> T \union {n + 1}]
  <2>1. f \in Bijection(P, Q)
    <3>1. \A T \in P : n + 1 \notin T
      OBVIOUS
    <3>2. ASSUME NEW S \in P, NEW T \in P, f[S] = f[T] PROVE S = T
      <4>1. S = (S \union {n + 1}) \ {n + 1} /\ T = (T \union {n + 1}) \ {n + 1}
        BY <3>1
      <4> QED BY <3>2, <4>1
    <3>3. f \in [P -> Q] /\ \A U \in Q : \E T \in P : f[T] = U
      OBVIOUS
    <3> HIDE DEF f, P, Q
    <3> QED BY <3>2, <3>3 DEF Bijection, Injection, Surjection, IsInjective
  <2> HIDE DEF f, P, Q
  <2> QED BY <1>1, <2>1, FS_Bijection DEF ExistsBijection
<1> HIDE DEF P, Q
<1>6. Cardinality(P \union Q) = 2^n + 2^n
  BY <1>1, <1>4, <1>5, FS_Union, FS_EmptySet
<1>7. 2^(n + 1) = 2^n + 2^n
  BY <1>2, <1>3, <1>6
<1> QED BY <1>1, <1>7

(* Powers are positive and do not shrink.                                  *)
LEMMA PowerGrows == ASSUME NEW m \in Nat, NEW n \in Nat, m <= n
  PROVE  2^m \in Nat /\ 2^n \in Nat /\ 1 <= 2^m /\ 2^m <= 2^n
<1>1. SUBSET (1..m) \in SUBSET (SUBSET (1..n))
  OBVIOUS
<1>2. 2^m <= 2^n
  <2> DEFINE S == SUBSET (1..m)
             T == SUBSET (1..n)
  <2>1. IsFiniteSet(T) /\ Cardinality(T) = 2^n /\ Cardinality(S) = 2^m /\ S \in SUBSET T
    BY <1>1, PowerCounts
  <2> HIDE DEF S, T
  <2>2. Cardinality(S) <= Cardinality(T)
    BY <2>1, FS_Subset
  <2> QED BY <2>1, <2>2
<1>3. {} \in SUBSET (1..m)
  OBVIOUS
<1>4. 2^m \in Nat /\ 2^n \in Nat /\ 2^m # 0
  BY <1>3, PowerCounts, FS_CardinalityType, FS_EmptySet
<1> QED BY <1>2, <1>4

(* A set of numbers with a member has a least one: induction, over a set.  *)
LEMMA Least == ASSUME NEW T \in SUBSET Nat, T # {}
  PROVE \E m \in T : \A k \in T : m <= k
<1> DEFINE R == OpToRel(<, Nat)
<1>1. IsWellFoundedOn(R, Nat)
  BY NatLessThanWellFounded
<1>3. \A x, y \in Nat : x < y => <<x, y>> \in R
  BY DEF OpToRel
<1> HIDE DEF R
<1>2. PICK m \in T : \A y \in T : ~ (<<y, m>> \in R)
  BY <1>1, WFMin
<1>4. \A k \in T : ~(k < m)
  BY <1>2, <1>3
<1> QED BY <1>4
=============================================================================
