---------------------------- MODULE OrderLemmas ----------------------------
(***************************************************************************)
(* What the proofs about several components need of orders: a finite set   *)
(* that is not empty has a first and a last element.  An order is given as *)
(* a set of pairs, so that each component can put its own in.              *)
(***************************************************************************)
EXTENDS Integers, FiniteSets, FiniteSetTheorems, WellFoundedInduction, TLAPS

\* A set of naturals that is not empty has a least element.
LEMMA LeastNat ==
    ASSUME NEW T \in SUBSET Nat, T # {}
    PROVE  \E n \in T : \A m \in T : n <= m
<1>1. PICK n \in T : \A m \in T : ~(<<m, n>> \in OpToRel(<, Nat))
    BY NatLessThanWellFounded, WFMin
<1>2. \A m \in T : ~(m < n)
    BY <1>1 DEF OpToRel
<1> QED
    BY <1>2

\* A strict order on a finite set has an element with nothing above it: one
\* with the fewest elements above.
LEMMA FiniteHasLast ==
    ASSUME NEW S, IsFiniteSet(S), S # {}, NEW R,
           \A x \in S : <<x, x>> \notin R,
           \A x, y, z \in S : <<x, y>> \in R /\ <<y, z>> \in R => <<x, z>> \in R
    PROVE  \E x \in S : \A y \in S : <<x, y>> \notin R
<1> DEFINE Above(x) == {y \in S : <<x, y>> \in R}
           Sizes == {Cardinality(Above(x)) : x \in S}
<1>1. \A x \in S : IsFiniteSet(Above(x)) /\ Cardinality(Above(x)) \in Nat
    BY FS_Subset, FS_CardinalityType
<1>2. Sizes \in SUBSET Nat /\ Sizes # {}
    <2>1. \A x \in S : Cardinality(Above(x)) \in Nat
        BY <1>1
    <2> HIDE DEF Above
    <2> QED
        BY <2>1
<1>3. PICK n \in Sizes : \A m \in Sizes : n <= m
    <2> HIDE DEF Sizes
    <2> QED
        BY <1>2, LeastNat
<1>4. PICK x \in S : n = Cardinality(Above(x))
    BY <1>3
<1>5. SUFFICES ASSUME NEW y \in S, <<x, y>> \in R
               PROVE  FALSE
    OBVIOUS
<1>6. Above(y) \subseteq Above(x) /\ y \in Above(x) /\ y \notin Above(y)
    BY <1>5
<1> HIDE DEF Above
<1>7. Cardinality(Above(y)) <= Cardinality(Above(x)) /\ Cardinality(Above(y)) # Cardinality(Above(x))
    BY <1>1, <1>6, FS_Subset
<1>8. Cardinality(Above(x)) <= Cardinality(Above(y))
    BY <1>3, <1>4
<1> QED
    BY <1>1, <1>7, <1>8

\* The same downwards.
LEMMA FiniteHasFirst ==
    ASSUME NEW S, IsFiniteSet(S), S # {}, NEW R,
           \A x \in S : <<x, x>> \notin R,
           \A x, y, z \in S : <<x, y>> \in R /\ <<y, z>> \in R => <<x, z>> \in R
    PROVE  \E x \in S : \A y \in S : <<y, x>> \notin R
<1> DEFINE Q == {p \in S \X S : <<p[2], p[1]>> \in R}
<1>1. \A x, y \in S : <<x, y>> \in Q <=> <<y, x>> \in R
    OBVIOUS
<1> HIDE DEF Q
<1>2. /\ \A x \in S : <<x, x>> \notin Q
      /\ \A x, y, z \in S : <<x, y>> \in Q /\ <<y, z>> \in Q => <<x, z>> \in Q
    BY <1>1
<1>3. \E x \in S : \A y \in S : <<x, y>> \notin Q
    BY <1>2, FiniteHasLast
<1> QED
    BY <1>1, <1>3
=============================================================================
