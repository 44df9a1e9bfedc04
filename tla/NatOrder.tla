------------------------------ MODULE NatOrder ------------------------------
(***************************************************************************)
(* The naturals are well ordered, stated without an operator parameter so  *)
(* that a proof can argue by the least counterexample.                     *)
(***************************************************************************)
EXTENDS Integers, FiniteSetsExt, FiniteSetTheorems, WellFoundedInduction, TLAPS

(***************************************************************************)
(* Every non-empty set of naturals has a least element: among the          *)
(* intervals 1..x one is minimal for strict inclusion.  Used where the     *)
(* code looks for the first broken row (hash.go VerifyChain).              *)
(***************************************************************************)
LEMMA LeastNat ==
  ASSUME NEW S, S \subseteq Nat, S # {}
  PROVE  \E x \in S : \A y \in S : x <= y
<1> DEFINE Below == {1 .. x : x \in S}
           Order == StrictSubsetOrdering(Nat)
<1>1. \A x \in S : IsFiniteSet(1 .. x)
  BY FS_Interval
<1>2. Below \subseteq FiniteSubsetsOf(Nat)
  BY <1>1 DEF FiniteSubsetsOf
<1>3. Below # {}
  OBVIOUS
<1>4. IsWellFoundedOn(Order, FiniteSubsetsOf(Nat))
  BY FS_StrictSubsetOrderingWellFounded
<1> HIDE DEF Order, Below
<1>5. \E X \in Below : \A Y \in Below : ~ (<<Y, X>> \in Order)
  BY <1>2, <1>3, <1>4, WFMin, Zenon
<1>6. PICK x \in S : \A y \in S : ~ (<<1 .. y, 1 .. x>> \in Order)
  BY <1>5 DEF Below
<1>7. ASSUME NEW y \in S, ~ (x <= y)
      PROVE  FALSE
  <2>1. x \in 1 .. x /\ x \notin 1 .. y
    BY <1>7, x \in Nat, y \in Nat
  <2>2. 1 .. y \subseteq 1 .. x /\ 1 .. y # 1 .. x
    BY <1>7, <2>1, x \in Nat, y \in Nat
  <2>3. 1 .. y \in SUBSET Nat /\ 1 .. x \in SUBSET Nat
    BY x \in Nat, y \in Nat
  <2>4. <<1 .. y, 1 .. x>> \in Order
    BY <2>2, <2>3, Zenon DEF Order, StrictSubsetOrdering
  <2>5. QED
    BY <1>6, <2>4
<1>8. QED
  BY <1>7

(***************************************************************************)
(* The community modules' Min is the least element of such a set.          *)
(***************************************************************************)
LEMMA MinIsLeast ==
  ASSUME NEW S, S \subseteq Nat, S # {}
  PROVE  /\ Min(S) \in S
         /\ \A y \in S : Min(S) <= y
  BY LeastNat DEF Min

(***************************************************************************)
(* And Max the greatest element of a bounded one: the newest row of a      *)
(* document (Postgres.LatestByDoc, ORDER BY seq DESC LIMIT 1).             *)
(***************************************************************************)
LEMMA MaxIsGreatest ==
  ASSUME NEW n \in Nat, NEW S, S \subseteq 0 .. n, S # {}
  PROVE  /\ Max(S) \in S
         /\ \A y \in S : y <= Max(S)
<1> DEFINE Gaps == {n - x : x \in S}
<1>1. \A x \in S : n - x \in Nat
  OBVIOUS
<1>2. Gaps \subseteq Nat /\ Gaps # {}
  BY <1>1, Zenon
<1>3. PICK g \in Gaps : \A h \in Gaps : g <= h
  BY <1>2, LeastNat
<1>4. PICK x \in S : g = n - x
  BY <1>3
<1>5. \A y \in S : n - x <= n - y
  BY <1>3, <1>4
<1>6. \A y \in S : x >= y
  BY <1>5
<1>7. QED
  <2>1. \E m \in S : \A y \in S : m >= y
    BY <1>6
  <2>2. Max(S) \in S /\ \A y \in S : Max(S) >= y
    BY <2>1 DEF Max
  <2>3. QED
    BY <2>2
=============================================================================
