------------------------------ MODULE Counting ------------------------------
(***************************************************************************)
(* Lemmas on natural numbers and on the size of finite sets that the       *)
(* proofs of several components need.  LeastNat gives proofs by a least    *)
(* counterexample; the others say how a count changes when a set loses     *)
(* elements, gains at most one, or loses a given one.                      *)
(***************************************************************************)
EXTENDS FiniteSetTheorems, TLAPS

\* Every non-empty set of natural numbers has a least element.
LEMMA LeastNat ==
  ASSUME NEW T \in SUBSET Nat, T # {}
  PROVE  \E n \in T : \A m \in T : n <= m
  <1> DEFINE R == {p \in Nat \X Nat : p[1] < p[2]}
  <1>1. IsWellFoundedOn(R, Nat)
    BY NatLessThanWellFounded DEF OpToRel
  <1>2. PICK n \in T : \A m \in T : ~(<<m, n>> \in R)
    <2> HIDE DEF R
    <2> QED
      BY <1>1, WFMin
  <1>3. ASSUME NEW m \in T PROVE n <= m
    <2>1. ~(m < n)
      BY <1>2
    <2> QED
      BY <2>1
  <1> QED
    BY <1>3

\* A part of a finite set counts no more than the set.
LEMMA CountPart ==
  ASSUME NEW P, IsFiniteSet(P), NEW Q, Q \subseteq P
  PROVE  /\ IsFiniteSet(Q)
         /\ Cardinality(P) \in Nat /\ Cardinality(Q) \in Nat
         /\ Cardinality(Q) <= Cardinality(P)
  BY FS_Subset, FS_CardinalityType

\* With one element more it counts at most one more.
LEMMA CountGain ==
  ASSUME NEW P, IsFiniteSet(P), NEW x, NEW Q, Q \subseteq P \cup {x}
  PROVE  /\ IsFiniteSet(Q)
         /\ Cardinality(P) \in Nat /\ Cardinality(Q) \in Nat
         /\ Cardinality(Q) <= Cardinality(P) + 1
  <1>1. /\ IsFiniteSet(P \cup {x})
        /\ Cardinality(P \cup {x}) = IF x \in P THEN Cardinality(P) ELSE Cardinality(P) + 1
    BY FS_AddElement
  <1>2. Cardinality(P) \in Nat
    BY FS_CardinalityType
  <1>3. /\ IsFiniteSet(Q) /\ Cardinality(Q) \in Nat
        /\ Cardinality(Q) <= Cardinality(P \cup {x})
    BY <1>1, CountPart
  <1> QED
    BY <1>1, <1>2, <1>3

\* Without one of its elements it counts at least one less.
LEMMA CountLoss ==
  ASSUME NEW P, IsFiniteSet(P), NEW x \in P, NEW Q, Q \subseteq P \ {x}
  PROVE  /\ IsFiniteSet(Q)
         /\ Cardinality(P) \in Nat /\ Cardinality(Q) \in Nat
         /\ Cardinality(Q) + 1 <= Cardinality(P)
  <1>1. IsFiniteSet(P \ {x}) /\ Cardinality(P \ {x}) = Cardinality(P) - 1
    BY FS_RemoveElement
  <1>2. Cardinality(P) \in Nat /\ Cardinality(P \ {x}) \in Nat
    BY <1>1, FS_CardinalityType
  <1> QED
    BY <1>1, <1>2, CountPart
=============================================================================
