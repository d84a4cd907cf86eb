---------------------------- MODULE LeastNatural ----------------------------
(***************************************************************************)
(* A nonempty set of naturals has a least element.                         *)
(***************************************************************************)
EXTENDS Integers, TLAPS, WellFoundedInduction

(* The fact behind every CHOOSE of a least number: the least row of the      *)
(* sketch, the first layer that has not landed.                              *)
LEMMA LeastExists ==
    ASSUME NEW S \in SUBSET Nat, S # {}
    PROVE  \E v \in S : \A w \in S : v <= w
<1> DEFINE Less == {ss \in Nat \X Nat : ss[1] < ss[2]}
<1>1. IsWellFoundedOn(Less, Nat)
  BY NatLessThanWellFounded, Zenon DEF OpToRel
<1> HIDE DEF Less
<1>2. S \subseteq Nat
  OBVIOUS
<1>3. \E v \in S : \A w \in S : ~(<<w, v>> \in Less)
  BY <1>1, <1>2, WFMin, Zenon
<1>4. PICK v \in S : \A w \in S : ~(<<w, v>> \in Less)
  BY <1>3
<1>5. ASSUME NEW w \in S PROVE v <= w
  <2>1. <<w, v>> \in Nat \X Nat /\ <<w, v>>[1] = w /\ <<w, v>>[2] = v
    BY <1>2
  <2>2. ~(w < v)
    BY <1>4, <2>1 DEF Less
  <2> QED BY <1>2, <2>2
<1> QED BY <1>5
=============================================================================
