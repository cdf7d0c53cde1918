---------------------------- MODULE LeastNumber -----------------------------
(***************************************************************************)
(* The least-number principle, in the form the proofs about a CHOOSE of a  *)
(* least number need it.                                                   *)
(***************************************************************************)
EXTENDS Naturals, WellFoundedInduction, TLAPS

Below == {p \in Nat \X Nat : p[1] < p[2]}

\* The order of the natural numbers has no infinite descent.
LEMMA BelowWellFounded == IsWellFoundedOn(Below, Nat)
    BY NatLessThanWellFounded, Zenon DEF OpToRel, Below

\* Every set of natural numbers that is not empty has a least member.
LEMMA LeastMember ==
    ASSUME NEW T, T \subseteq Nat, T # {}
    PROVE  \E x \in T : \A y \in T : x <= y
<1>1. PICK x \in T : \A y \in T : ~ (<<y, x>> \in Below)
    BY BelowWellFounded, WFMin
<1>2. \A a, b \in Nat : a < b => <<a, b>> \in Below
    BY DEF Below
<1>3. \A y \in T : ~(y < x)
    BY <1>1, <1>2
<1>4. \A y \in T : x <= y
    BY <1>3
<1> QED BY <1>4
=============================================================================
