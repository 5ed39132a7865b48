----------------------------- MODULE NaturalSets -----------------------------
(***************************************************************************)
(* Least and greatest elements of sets of numbers: an induction over       *)
(* numbers is the choice of a least counterexample.                        *)
(***************************************************************************)
EXTENDS Integers, FiniteSetsExt, WellFoundedInduction, TLAPS

\* A set of naturals has a least element.
LEMMA LeastNatural ==
  ASSUME NEW T, T \subseteq Nat, T # {}
  PROVE  \E x \in T : \A y \in T : x <= y
<1> DEFINE R == OpToRel(<, Nat)
<1>1. IsWellFoundedOn(R, Nat) BY NatLessThanWellFounded
<1>2. PICK x \in T : \A y \in T : ~(<<y, x>> \in R) BY <1>1, WFMin
<1>3. \A y \in T : ~(y < x) BY <1>2 DEF OpToRel
<1> QED BY <1>3

\* One that is bounded has a greatest element, its Max.
LEMMA GreatestNatural ==
  ASSUME NEW b \in Nat, NEW T, T \subseteq 0..b, T # {}
  PROVE  Max(T) \in T /\ \A y \in T : y <= Max(T)
<1> DEFINE U == {b - x : x \in T}
<1>1. U \subseteq Nat /\ U # {}
  <2>1. ASSUME NEW x \in T PROVE b - x \in Nat OBVIOUS
  <2>2. PICK x \in T : TRUE OBVIOUS
  <2>3. b - x \in U OBVIOUS
  <2> QED BY <2>1, <2>3
<1>2. PICK u \in U : \A v \in U : u <= v BY <1>1, LeastNatural
<1>3. PICK x \in T : u = b - x BY <1>2
<1>4. \A y \in T : x >= y BY <1>2, <1>3
<1>5. \E x_1 \in T : \A y \in T : x_1 >= y BY <1>4
<1>6. Max(T) \in T /\ \A y \in T : Max(T) >= y BY <1>5 DEF Max
<1> QED BY <1>6
==============================================================================
