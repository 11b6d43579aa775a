---------------------------- MODULE ProofLemmas ----------------------------
(***************************************************************************)
(* What the proofs about several components need of numbers, of finite     *)
(* sets and of orders: the least of some numbers, the size of a union, and *)
(* the lexicographic order in which the steps of a program run out.        *)
(***************************************************************************)
EXTENDS Naturals, FiniteSets, FiniteSetTheorems, WellFoundedInduction, TLAPS

\* Of some numbers one is the least.
LEMMA LeastExists ==
  ASSUME NEW T, T \subseteq Nat, T # {}
  PROVE  \E x \in T : \A y \in T : x <= y
<1>1. PICK x \in T : \A y \in T : ~(<<y, x>> \in OpToRel(<, Nat))
  BY NatLessThanWellFounded, WFMin
<1>2. ASSUME NEW y \in T PROVE x <= y
  <2>1. x \in Nat /\ y \in Nat
    OBVIOUS
  <2>2. ~(y < x)
    BY <1>1, <2>1 DEF OpToRel
  <2> QED BY <2>1, <2>2
<1> QED BY <1>2

\* Sets without a common element add up.
LEMMA DisjointUnion ==
  ASSUME NEW S, IsFiniteSet(S), NEW T, IsFiniteSet(T), S \cap T = {}
  PROVE  /\ IsFiniteSet(S \cup T)
         /\ Cardinality(S) \in Nat /\ Cardinality(T) \in Nat
         /\ Cardinality(S \cup T) = Cardinality(S) + Cardinality(T)
<1>1. Cardinality(S) \in Nat /\ Cardinality(T) \in Nat
  BY FS_CardinalityType
<1>2. /\ IsFiniteSet(S \cup T)
      /\ Cardinality(S \cup T) = Cardinality(S) + Cardinality(T) - Cardinality(S \cap T)
  BY FS_Union
<1>3. Cardinality(S \cap T) = 0
  BY FS_EmptySet
<1> QED BY <1>1, <1>2, <1>3

-----------------------------------------------------------------------------
(* What is left to do, and the order in which it becomes less.             *)

\* Of places 1 to n, how many are not passed yet by a walk that is at k.
ToGo(k, n) == IF k > n THEN 0 ELSE n + 1 - k

\* With each place that is passed there are fewer.
LEMMA FewerToGo ==
  ASSUME NEW k \in Nat, NEW n \in Nat
  PROVE  /\ ToGo(k, n) \in Nat
         /\ k <= n => ToGo(k + 1, n) < ToGo(k, n)
  BY DEF ToGo

\* The pairs of which the first number is the smaller one.
Smaller == {p \in Nat \X Nat : p[1] < p[2]}

\* The lexicographic order of lists of n numbers.
LexOrder(n) == LexProductOrdering(Smaller, Nat, n)

\* No list of numbers can go down in it for ever.
LEMMA OrderWellFounded ==
  \A n \in Nat : IsWellFoundedOn(LexOrder(n), [1..n -> Nat])
<1>1. IsWellFoundedOn(Smaller, Nat)
  BY NatLessThanWellFounded DEF OpToRel, Smaller
<1> QED BY <1>1, WFLexProductOrdering DEF LexOrder

\* The first place at which two lists differ is in order.
LEMMA InOrder ==
  ASSUME NEW n \in Nat, NEW a \in [1..n -> Nat], NEW b \in [1..n -> Nat],
         NEW j \in 1..n, \A i \in 1..(j - 1) : a[i] = b[i], a[j] < b[j]
  PROVE  <<a, b>> \in LexOrder(n)
<1>1. <<a[j], b[j]>> \in Smaller
  BY DEF Smaller
<1> QED BY <1>1 DEF LexOrder, LexProductOrdering

\* So it is with three numbers.
LEMMA ThreeInOrder ==
  ASSUME NEW a1 \in Nat, NEW a2 \in Nat, NEW a3 \in Nat,
         NEW b1 \in Nat, NEW b2 \in Nat, NEW b3 \in Nat,
         \/ a1 < b1
         \/ a1 = b1 /\ a2 < b2
         \/ a1 = b1 /\ a2 = b2 /\ a3 < b3
  PROVE  <<<<a1, a2, a3>>, <<b1, b2, b3>>>> \in LexOrder(3)
<1> DEFINE a == <<a1, a2, a3>>
           b == <<b1, b2, b3>>
<1>1. a \in [1..3 -> Nat] /\ b \in [1..3 -> Nat]
  OBVIOUS
<1>2. ASSUME NEW j \in 1..3, \A i \in 1..(j - 1) : a[i] = b[i], a[j] < b[j]
      PROVE  <<a, b>> \in LexOrder(3)
  BY <1>1, <1>2, InOrder
<1>3. CASE a1 < b1
  BY <1>3, <1>2
<1>4. CASE a1 = b1 /\ a2 < b2
  BY <1>4, <1>2
<1>5. CASE a1 = b1 /\ a2 = b2 /\ a3 < b3
  BY <1>5, <1>2
<1> QED BY <1>3, <1>4, <1>5

\* And so with four.
LEMMA FourInOrder ==
  ASSUME NEW a1 \in Nat, NEW a2 \in Nat, NEW a3 \in Nat, NEW a4 \in Nat,
         NEW b1 \in Nat, NEW b2 \in Nat, NEW b3 \in Nat, NEW b4 \in Nat,
         \/ a1 < b1
         \/ a1 = b1 /\ a2 < b2
         \/ a1 = b1 /\ a2 = b2 /\ a3 < b3
         \/ a1 = b1 /\ a2 = b2 /\ a3 = b3 /\ a4 < b4
  PROVE  <<<<a1, a2, a3, a4>>, <<b1, b2, b3, b4>>>> \in LexOrder(4)
<1> DEFINE a == <<a1, a2, a3, a4>>
           b == <<b1, b2, b3, b4>>
<1>1. a \in [1..4 -> Nat] /\ b \in [1..4 -> Nat]
  OBVIOUS
<1>2. ASSUME NEW j \in 1..4, \A i \in 1..(j - 1) : a[i] = b[i], a[j] < b[j]
      PROVE  <<a, b>> \in LexOrder(4)
  BY <1>1, <1>2, InOrder
<1>3. CASE a1 < b1
  BY <1>3, <1>2
<1>4. CASE a1 = b1 /\ a2 < b2
  BY <1>4, <1>2
<1>5. CASE a1 = b1 /\ a2 = b2 /\ a3 < b3
  BY <1>5, <1>2
<1>6. CASE a1 = b1 /\ a2 = b2 /\ a3 = b3 /\ a4 < b4
  BY <1>6, <1>2
<1> QED BY <1>3, <1>4, <1>5, <1>6
=============================================================================
