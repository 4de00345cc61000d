----------------------------- MODULE Induction -----------------------------
(***************************************************************************)
(* Induction over the natural numbers, for sets. The library states it for *)
(* an operator, of which no prover here can be given an instance; for a    *)
(* set it follows from the well-foundedness of <. What is to be shown of   *)
(* every number is then that a set, defined by it, contains them all.      *)
(***************************************************************************)
EXTENDS Naturals, WellFoundedInduction, TLAPS

\* No descent from a natural number goes on forever.
LEMMA Descent ==
    \E R : IsWellFoundedOn(R, Nat) /\ \A m, n \in Nat : m < n => <<m, n>> \in R
<1>1. IsWellFoundedOn(OpToRel(<, Nat), Nat)
  BY NatLessThanWellFounded
<1>2. \A m, n \in Nat : m < n => <<m, n>> \in OpToRel(<, Nat)
  BY DEF OpToRel
<1> QED  BY <1>1, <1>2, Zenon

\* A set of naturals that is not empty has a least element.
LEMMA Least ==
    ASSUME NEW T \in SUBSET Nat, T # {}
    PROVE  \E m \in T : \A n \in T : m <= n
<1>1. PICK R : IsWellFoundedOn(R, Nat) /\ \A m, n \in Nat : m < n => <<m, n>> \in R
  BY Descent
<1>2. IsWellFoundedOn(R, Nat) /\ T \subseteq Nat /\ T # {}
  BY <1>1
<1>3. PICK m \in T : \A n \in T : <<n, m>> \notin R
  BY <1>2, WFMin, Zenon
<1>4. \A n \in T : ~(n < m)
  BY <1>1, <1>3
<1> QED  BY <1>4

\* A set that has 0 and the successor of each of its naturals has them all.
LEMMA SetInduction ==
    ASSUME NEW T, 0 \in T, \A n \in Nat : n \in T => n + 1 \in T
    PROVE  Nat \subseteq T
<1> DEFINE Rest == Nat \ T
<1> SUFFICES ASSUME Rest # {} PROVE FALSE
  OBVIOUS
<1>1. Rest \in SUBSET Nat
  OBVIOUS
<1>2. PICK m \in Rest : \A n \in Rest : m <= n
  BY <1>1, Least
<1>3. m \in Nat \ {0}
  BY <1>2
<1>4. m - 1 \in Nat /\ m - 1 \notin Rest
  BY <1>2, <1>3
<1>5. (m - 1) + 1 \in T
  BY <1>4
<1> QED  BY <1>3, <1>5
=============================================================================
