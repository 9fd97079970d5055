------------------------------ MODULE Induction ------------------------------
(***************************************************************************)
(* Induction without a predicate: the principles the proofs of this        *)
(* project use on what is computed over lists and sets, stated of sets of  *)
(* numbers and of sets of sets, so that a claim is a set of those it holds *)
(* of and no theorem takes an operator.                                    *)
(***************************************************************************)
EXTENDS Integers, FiniteSetsExt, FiniteSetTheorems, WellFoundedInduction, TLAPS

(***************************************************************************)
(* A set of natural numbers has a least one, if it has any.                *)
(***************************************************************************)
LEMMA LeastNumber ==
  ASSUME NEW T \in SUBSET Nat, T # {}
  PROVE  \E n \in T : \A m \in T : n <= m
<1>1. IsWellFoundedOn(OpToRel(<, Nat), Nat)
  BY NatLessThanWellFounded
<1>2. PICK n \in T : \A m \in T : <<m, n>> \notin OpToRel(<, Nat)
  BY <1>1, WFMin
<1>3. ASSUME NEW m \in T, m < n
      PROVE  FALSE
  <2>1. <<m, n>> \in OpToRel(<, Nat)
    BY <1>3 DEF OpToRel
  <2> QED BY <2>1, <1>2
<1> QED BY <1>3

(***************************************************************************)
(* What holds of 0, and of n + 1 whenever it holds of n, holds of every    *)
(* number: `holds` is the set of those it holds of.                        *)
(***************************************************************************)
LEMMA NumberInduction ==
  ASSUME NEW holds, 0 \in holds, \A n \in Nat : n \in holds => n + 1 \in holds
  PROVE  Nat \subseteq holds
<1> DEFINE T == Nat \ holds
<1>1. SUFFICES ASSUME T # {}
               PROVE  FALSE
  OBVIOUS
<1>2. PICK n \in T : \A m \in T : n <= m
  BY <1>1, LeastNumber
<1>3. n # 0 /\ n - 1 \in Nat /\ n - 1 \notin T
  BY <1>2
<1> QED BY <1>3

(***************************************************************************)
(* The same up to a bound.                                                 *)
(***************************************************************************)
LEMMA IntervalInduction ==
  ASSUME NEW len \in Nat, NEW holds, 0 \in holds,
         \A n \in 0..(len - 1) : n \in holds => n + 1 \in holds
  PROVE  0..len \subseteq holds
<1> DEFINE up == {n \in Nat : n <= len => n \in holds}
<1>1. 0 \in up
  OBVIOUS
<1>2. ASSUME NEW n \in Nat, n \in up
      PROVE  n + 1 \in up
  BY <1>2
<1>3. Nat \subseteq up
  <2> HIDE DEF up
  <2> QED BY <1>1, <1>2, NumberInduction
<1> QED BY <1>3

(***************************************************************************)
(* Of some subsets of a finite set, one has no other of them inside it.    *)
(***************************************************************************)
LEMMA MinimalSet ==
  ASSUME NEW S, IsFiniteSet(S), NEW T \in SUBSET SUBSET S, T # {}
  PROVE  \E x \in T : \A y \in T : y \subseteq x => y = x
<1>1. T \subseteq FiniteSubsetsOf(S)
  BY FS_FiniteSubsetsOfFinite
<1>2. PICK x \in T : \A y \in T : <<y, x>> \notin StrictSubsetOrdering(S)
  BY <1>1, WFMin, FS_StrictSubsetOrderingWellFounded
<1>3. ASSUME NEW y \in T, y \subseteq x
      PROVE  y = x
  <2>1. <<y, x>> \in (SUBSET S) \X (SUBSET S)
    OBVIOUS
  <2> QED BY <2>1, <1>2, <1>3 DEF StrictSubsetOrdering
<1> QED BY <1>3

(***************************************************************************)
(* A set of numbers with a bound has a largest one, if it has any.         *)
(***************************************************************************)
LEMMA LargestNumber ==
  ASSUME NEW len \in Nat, NEW S \in SUBSET (0..len), S # {}
  PROVE  \E n \in S : \A m \in S : m <= n
<1> DEFINE T == {len - k : k \in S}
<1>1. T \in SUBSET Nat /\ T # {}
  <2>1. ASSUME NEW k \in S
        PROVE  len - k \in Nat
    <3>1. k \in 0..len
      OBVIOUS
    <3> QED BY <3>1
  <2> QED BY <2>1
<1>2. PICK t \in T : \A u \in T : t <= u
  <2> HIDE DEF T
  <2> QED BY <1>1, LeastNumber
<1>3. PICK n \in S : t = len - n
  OBVIOUS
<1>4. \A m \in S : len - m \in T
  OBVIOUS
<1>5. ASSUME NEW m \in S
      PROVE  m <= n
  <2>1. len - n <= len - m
    BY <1>2, <1>3, <1>4
  <2>2. m \in 0..len /\ n \in 0..len
    OBVIOUS
  <2> HIDE DEF T
  <2> QED BY <2>1, <2>2
<1> QED BY <1>5

(***************************************************************************)
(* The largest number of some of the places of a list is one of them: the  *)
(* place whose element a fold over the list adds last.                     *)
(***************************************************************************)
LEMMA MaxInInterval ==
  ASSUME NEW n \in Nat, NEW s \in SUBSET (1..n), s # {}
  PROVE  Max(s) \in s /\ \A m \in s : m <= Max(s)
<1>1. \E k \in s : \A m \in s : m <= k
  <2>1. s \in SUBSET (0..n)
    OBVIOUS
  <2> QED BY <2>1, LargestNumber
<1>2. PICK k \in s : \A m \in s : k >= m
  <2>1. \A k \in s : k \in Int
    OBVIOUS
  <2> QED BY <1>1, <2>1
<1>3. Max(s) \in s /\ \A m \in s : Max(s) >= m
  BY <1>2 DEF Max
<1>4. \A m \in s : m \in Int
  OBVIOUS
<1> QED BY <1>3, <1>4

(***************************************************************************)
(* The equation of a fold over a finite set S has a solution: with the     *)
(* element each subset gives up next, and the step as a function.  The     *)
(* folds of the community modules are defined as a choice of one.          *)
(***************************************************************************)
FoldEquation(S, base, F, pick, g) ==
  \A s \in SUBSET S : g[s] = IF s = {} THEN base ELSE F[<<pick[s], g[s \ {pick[s]}]>>]

LEMMA FoldExists ==
  ASSUME NEW S, IsFiniteSet(S), NEW R, NEW base \in R,
         NEW F \in [S \X R -> R],
         NEW pick, \A s \in SUBSET S : s # {} => pick[s] \in s
  PROVE  \E g \in [SUBSET S -> R] : FoldEquation(S, base, F, pick, g)
<1> DEFINE Step(s, g) == IF s = {} THEN base ELSE F[<<pick[s], g[s \ {pick[s]}]>>]
           holds == {n \in Nat : \E g \in [SUBSET S -> R] :
                       \A s \in SUBSET S : Cardinality(s) <= n => g[s] = Step(s, g)}
<1>1. \A s \in SUBSET S : IsFiniteSet(s) /\ Cardinality(s) \in Nat
  BY FS_Subset, FS_CardinalityType
<1>2. ASSUME NEW s \in SUBSET S, NEW g \in [SUBSET S -> R]
      PROVE  Step(s, g) \in R
  <2>1. CASE s = {}
    BY <2>1
  <2>2. CASE s # {}
    <3>1. pick[s] \in s /\ s \ {pick[s]} \in SUBSET S
      BY <2>2
    <3>2. <<pick[s], g[s \ {pick[s]}]>> \in S \X R
      BY <3>1
    <3> QED BY <2>2, <3>2
  <2> QED BY <2>1, <2>2
<1>3. 0 \in holds
  <2> DEFINE g == [s \in SUBSET S |-> base]
  <2>1. ASSUME NEW s \in SUBSET S, Cardinality(s) <= 0
        PROVE  s = {}
    BY <2>1, <1>1, FS_EmptySet
  <2>2. \A s \in SUBSET S : Cardinality(s) <= 0 => g[s] = Step(s, g)
    BY <2>1
  <2>3. g \in [SUBSET S -> R]
    OBVIOUS
  <2> HIDE DEF g, Step
  <2> QED BY <2>2, <2>3
<1>4. ASSUME NEW n \in Nat, n \in holds
      PROVE  n + 1 \in holds
  <2>1. PICK g \in [SUBSET S -> R] :
          \A s \in SUBSET S : Cardinality(s) <= n => g[s] = Step(s, g)
    BY <1>4
  <2> DEFINE h == [s \in SUBSET S |-> IF Cardinality(s) <= n THEN g[s] ELSE Step(s, g)]
  <2>2. h \in [SUBSET S -> R]
    <3> HIDE DEF Step
    <3> QED BY <1>2
  <2>3. ASSUME NEW s \in SUBSET S, Cardinality(s) <= n + 1
        PROVE  h[s] = Step(s, g) /\ Step(s, g) = Step(s, h)
    <3>1. h[s] = Step(s, g)
      <4> HIDE DEF Step
      <4> QED BY <2>1
    <3>2. CASE s = {}
      BY <3>1, <3>2
    <3>3. CASE s # {}
      <4> DEFINE less == s \ {pick[s]}
      <4>1. Cardinality(less) <= n /\ less \in SUBSET S
        BY <1>1, <2>3, <3>3, FS_RemoveElement
      <4>2. h[less] = g[less]
        BY <4>1
      <4> QED BY <3>1, <3>3, <4>2
    <3> QED BY <3>2, <3>3
  <2>4. \A s \in SUBSET S : Cardinality(s) <= n + 1 => h[s] = Step(s, h)
    BY <2>3
  <2> HIDE DEF h, Step
  <2> QED BY <2>2, <2>4
<1>5. Nat \subseteq holds
  <2> HIDE DEF holds
  <2> QED BY <1>3, <1>4, NumberInduction
<1>6. PICK g \in [SUBSET S -> R] :
        \A s \in SUBSET S : Cardinality(s) <= Cardinality(S) => g[s] = Step(s, g)
  <2> HIDE DEF Step
  <2> QED BY <1>1, <1>5
<1>7. \A s \in SUBSET S : Cardinality(s) <= Cardinality(S)
  BY FS_Subset
<1> QED BY <1>6, <1>7 DEF FoldEquation
=============================================================================
