----------------------------- MODULE FoldLemmas -----------------------------
(***************************************************************************)
(* What the proofs about the folds and the selections of the models rest   *)
(* on: induction over the natural numbers for a property that is given as  *)
(* a set, and the existence of the function by which a fold is defined.    *)
(* The operation of a fold is given as a function, a selection by the set  *)
(* of the indices it keeps.                                                *)
(***************************************************************************)
EXTENDS Naturals, FiniteSets, Sequences, FiniteSetTheorems, WellFoundedInduction, TLAPS

\* A set of natural numbers that is not empty has a least one.
LEMMA LeastNat ==
  ASSUME NEW T \in SUBSET Nat, T # {}
  PROVE  \E x \in T : \A y \in T : x <= y
<1>1. PICK x \in T : \A y \in T : ~ (<<y, x>> \in OpToRel(<, Nat))
  BY NatLessThanWellFounded, WFMin
<1>2. ASSUME NEW y \in T PROVE x <= y
  <2>1. <<y, x>> \in Nat \X Nat /\ ~ (y < x)
    BY <1>1 DEF OpToRel
  <2> QED BY <2>1
<1> QED BY <1>2

\* Induction, for a property given as the set of the numbers that have it.
LEMMA SetInduction ==
  ASSUME NEW T, 0 \in T, \A n \in Nat : n \in T => n + 1 \in T
  PROVE  Nat \subseteq T
<1>1. SUFFICES ASSUME Nat \ T # {} PROVE FALSE
  OBVIOUS
<1>2. PICK x \in Nat \ T : \A y \in Nat \ T : x <= y
  BY <1>1, LeastNat
<1>3. x # 0 /\ x - 1 \in Nat /\ x - 1 \in T
  BY <1>2
<1>4. (x - 1) + 1 \in T
  BY <1>3
<1> QED BY <1>2, <1>4

\* Induction over the subsets of a finite set, one element at a time.
LEMMA SubsetInduction ==
  ASSUME NEW R, IsFiniteSet(R), NEW T, {} \in T,
         \A s \in (SUBSET R) \ {{}} : \E x \in s : s \ {x} \in T => s \in T
  PROVE  \A s \in SUBSET R : s \in T
<1> DEFINE U == {n \in Nat : \A s \in SUBSET R : Cardinality(s) = n => s \in T}
<1>1. \A s \in SUBSET R : IsFiniteSet(s) /\ Cardinality(s) \in Nat
  BY FS_Subset, FS_CardinalityType
<1>2. 0 \in U
  BY <1>1, FS_EmptySet
<1>3. ASSUME NEW n \in Nat, n \in U PROVE n + 1 \in U
  <2>1. SUFFICES ASSUME NEW s \in SUBSET R, Cardinality(s) = n + 1 PROVE s \in T
    BY <1>1
  <2>2. PICK x \in s : s \ {x} \in T => s \in T
    BY <1>1, <2>1, FS_EmptySet
  <2>3. Cardinality(s \ {x}) = Cardinality(s) - 1 /\ s \ {x} \in SUBSET R
    BY <1>1, <2>2, FS_RemoveElement
  <2>4. s \ {x} \in T
    <3>1. Cardinality(s \ {x}) = n
      BY <2>1, <2>3
    <3> QED BY <1>3, <2>3, <3>1
  <2> QED BY <2>2, <2>4
<1> HIDE DEF U
<1>4. Nat \subseteq U
  BY <1>2, <1>3, SetInduction
<1> QED BY <1>1, <1>4 DEF U

-----------------------------------------------------------------------------
\* Folds.

\* A fold over the finite set R exists: it takes the elements of a subset one by one,
\* in the order in which c chooses them, and never leaves the set S.
Choice(c, R) == /\ c \in [(SUBSET R) \ {{}} -> R]
                /\ \A s \in (SUBSET R) \ {{}} : c[s] \in s
Step(F, S, R) == F \in [S \X R -> S]
Fold(g, R, S, base, F, c) == /\ g \in [SUBSET R -> S]
                             /\ g[{}] = base
                             /\ \A s \in (SUBSET R) \ {{}} : g[s] = F[<<g[s \ {c[s]}], c[s]>>]
LEMMA FoldExists ==
  ASSUME NEW R, IsFiniteSet(R), NEW S, NEW base, base \in S, NEW F, Step(F, S, R), NEW c, Choice(c, R)
  PROVE  \E g : Fold(g, R, S, base, F, c)
<1> DEFINE
  D(n) == {s \in SUBSET R : Cardinality(s) <= n}
  Folds(n, g) == \A s \in D(n) : g[s] = IF s = {} THEN base ELSE F[<<g[s \ {c[s]}], c[s]>>]
  T == {n \in Nat : \E g \in [D(n) -> S] : Folds(n, g)}
<1>1. /\ c \in [(SUBSET R) \ {{}} -> R] /\ \A s \in (SUBSET R) \ {{}} : c[s] \in s
      /\ F \in [S \X R -> S]
  BY DEF Choice, Step
<1>2. \A s \in SUBSET R : IsFiniteSet(s) /\ Cardinality(s) \in Nat
  BY FS_Subset, FS_CardinalityType
<1>3. \A s \in (SUBSET R) \ {{}} :
        /\ s \ {c[s]} \in SUBSET R
        /\ Cardinality(s \ {c[s]}) = Cardinality(s) - 1 /\ c[s] \in R
  BY <1>1, <1>2, FS_RemoveElement
<1>4. 0 \in T
  <2>1. \A s \in D(0) : s = {}
    BY <1>2, FS_EmptySet
  <2> DEFINE g == [s \in D(0) |-> base]
  <2>2. g \in [D(0) -> S] /\ Folds(0, g)
    BY <2>1
  <2> QED BY <2>2
<1>5. ASSUME NEW n \in Nat, n \in T PROVE n + 1 \in T
  <2>1. PICK g \in [D(n) -> S] : Folds(n, g)
    BY <1>5
  <2> DEFINE h == [s \in D(n + 1) |-> IF s = {} THEN base ELSE F[<<g[s \ {c[s]}], c[s]>>]]
  <2>2. ASSUME NEW s \in D(n + 1), s # {} PROVE s \ {c[s]} \in D(n) /\ s \ {c[s]} \in D(n + 1)
    BY <1>2, <1>3, <2>2
  <2>3. h \in [D(n + 1) -> S]
    <3>1. ASSUME NEW s \in D(n + 1) PROVE h[s] \in S
      <4>1. CASE s = {}
        BY <4>1
      <4>2. CASE s # {}
        <5>1. g[s \ {c[s]}] \in S /\ c[s] \in R
          BY <1>3, <2>1, <2>2, <4>2
        <5>2. F[<<g[s \ {c[s]}], c[s]>>] \in S
          BY <1>1, <5>1
        <5> QED BY <4>2, <5>2
      <4> QED BY <4>1, <4>2
    <3> QED BY <3>1
  <2>4. \A s \in D(n) : s \in D(n + 1) /\ h[s] = g[s]
    <3>1. \A s \in D(n) : s \in D(n + 1)
      BY <1>2
    <3> QED BY <2>1, <3>1
  <2>5. Folds(n + 1, h)
    <3>1. ASSUME NEW s \in D(n + 1), s # {}
          PROVE  h[s] = F[<<h[s \ {c[s]}], c[s]>>]
      <4>1. h[s] = F[<<g[s \ {c[s]}], c[s]>>]
        BY <3>1
      <4>2. h[s \ {c[s]}] = g[s \ {c[s]}]
        BY <2>2, <2>4, <3>1
      <4> QED BY <4>1, <4>2
    <3> HIDE DEF h
    <3>2. {} \in D(n + 1) => h[{}] = base
      BY DEF h
    <3> QED BY <3>1, <3>2
  <2> HIDE DEF h, Folds, D
  <2>6. \E f \in [D(n + 1) -> S] : Folds(n + 1, f)
    BY <2>3, <2>5
  <2> QED BY <2>6
<1> HIDE DEF T
<1>6. Cardinality(R) \in T
  BY <1>2, <1>4, <1>5, SetInduction
<1>7. D(Cardinality(R)) = SUBSET R
  BY <1>2, FS_Subset
<1>8. \E g \in [SUBSET R -> S] : Folds(Cardinality(R), g)
  BY <1>6, <1>7 DEF T
<1>9. {} \in SUBSET R
  OBVIOUS
<1> QED BY <1>7, <1>8, <1>9 DEF Fold

\* The greatest number of a set of numbers up to n, and of 1..k.
Greatest(s) == CHOOSE x \in s : \A y \in s : x >= y
LEMMA GreatestBounds ==
  ASSUME NEW n \in Nat, NEW s \in (SUBSET (1..n)) \ {{}}
  PROVE  Greatest(s) \in s /\ \A y \in s : y <= Greatest(s)
<1> DEFINE T == {n - x : x \in s}
<1>1. T \in SUBSET Nat /\ T # {}
  <2>1. ASSUME NEW x \in s PROVE n - x \in Nat
    <3>1. x \in 1..n
      OBVIOUS
    <3> QED BY <3>1
  <2>2. PICK x \in s : TRUE
    OBVIOUS
  <2>3. n - x \in T
    OBVIOUS
  <2>4. \A d \in T : d \in Nat
    BY <2>1
  <2> HIDE DEF T
  <2> QED BY <2>3, <2>4
<1>2. PICK d \in T : \A e \in T : d <= e
  BY <1>1, LeastNat
<1>3. PICK x \in s : d = n - x
  BY <1>2
<1>4. ASSUME NEW y \in s PROVE x >= y
  <2>1. x \in 1..n /\ y \in 1..n /\ n - y \in T
    OBVIOUS
  <2> QED BY <1>2, <1>3, <2>1
<1>5. Greatest(s) \in s /\ \A y \in s : Greatest(s) >= y
  BY <1>4 DEF Greatest
<1>6. \A y \in s : y \in 1..n
  OBVIOUS
<1> HIDE DEF T
<1> QED BY <1>5, <1>6

LEMMA GreatestIs ==
  ASSUME NEW n \in Nat
  PROVE  /\ \A s \in (SUBSET (1..n)) \ {{}} : Greatest(s) \in s
         /\ \A k \in 1..n : Greatest(1..k) = k /\ (1..k) \ {Greatest(1..k)} = 1..(k - 1)
<1>1. \A s \in (SUBSET (1..n)) \ {{}} : Greatest(s) \in s
  BY GreatestBounds
<1>2. ASSUME NEW k \in 1..n PROVE Greatest(1..k) = k
  <2>1. k \in 1..k /\ \A y \in 1..k : k >= y
    OBVIOUS
  <2>2. Greatest(1..k) \in 1..k /\ \A y \in 1..k : Greatest(1..k) >= y
    BY <2>1 DEF Greatest
  <2> QED BY <2>1, <2>2
<1>3. \A k \in 1..n : (1..k) \ {k} = 1..(k - 1)
  OBVIOUS
<1> QED BY <1>1, <1>2, <1>3

\* The function by which a fold over the indices 1..n from the left is defined.
FoldsLeft(g, n, S, base, F) ==
  /\ g \in [SUBSET (1..n) -> S] /\ g[{}] = base
  /\ \A s \in (SUBSET (1..n)) \ {{}} : g[s] = F[<<g[s \ {Greatest(s)}], Greatest(s)>>]
LEMMA LeftFold ==
  ASSUME NEW n \in Nat, NEW S, NEW base, base \in S, NEW F, Step(F, S, 1..n)
  PROVE  \E g : FoldsLeft(g, n, S, base, F)
<1> DEFINE c == [s \in (SUBSET (1..n)) \ {{}} |-> Greatest(s)]
<1>1. Choice(c, 1..n)
  BY GreatestIs DEF Choice
<1>2. IsFiniteSet(1..n)
  BY FS_Interval
<1>3. PICK g : Fold(g, 1..n, S, base, F, c)
  BY <1>1, <1>2, FoldExists
<1> QED BY <1>3 DEF Fold, FoldsLeft

\* A fold over the numbers R from the lowest to the highest.
FoldsUp(g, R, S, base, F) ==
  /\ g \in [SUBSET R -> S] /\ g[{}] = base
  /\ \A s \in (SUBSET R) \ {{}} : g[s] = F[<<g[s \ {Greatest(s)}], Greatest(s)>>]
LEMMA UpwardFold ==
  ASSUME NEW n \in Nat, NEW R \in SUBSET (1..n), NEW S, NEW base, base \in S, NEW F, Step(F, S, R)
  PROVE  \E g : FoldsUp(g, R, S, base, F)
<1> DEFINE c == [s \in (SUBSET R) \ {{}} |-> Greatest(s)]
<1>1. \A s \in (SUBSET R) \ {{}} : s \in (SUBSET (1..n)) \ {{}}
  OBVIOUS
<1>2. \A s \in (SUBSET R) \ {{}} : Greatest(s) \in s
  BY <1>1, GreatestIs
<1>3. Choice(c, R)
  BY <1>2 DEF Choice
<1>4. IsFiniteSet(R)
  <2>1. IsFiniteSet(1..n)
    BY FS_Interval
  <2> QED BY <2>1, FS_Subset
<1>5. PICK g : Fold(g, R, S, base, F, c)
  BY <1>3, <1>4, FoldExists
<1>6. FoldsUp(g, R, S, base, F)
  BY <1>5 DEF Fold, FoldsUp
<1> QED BY <1>6

\* A fold whose steps stay in T stays in T.
LEMMA FoldedIn ==
  ASSUME NEW n \in Nat, NEW R \in SUBSET (1..n), NEW T, NEW h, h[{}] \in T,
         \A s \in (SUBSET R) \ {{}} : h[s \ {Greatest(s)}] \in T => h[s] \in T
  PROVE  \A s \in SUBSET R : h[s] \in T
<1> DEFINE U == {s \in SUBSET R : h[s] \in T}
<1>1. {} \in U
  <2>1. {} \in SUBSET R
    OBVIOUS
  <2> QED BY <2>1
<1>2. IsFiniteSet(R)
  <2>1. IsFiniteSet(1..n)
    BY FS_Interval
  <2> QED BY <2>1, FS_Subset
<1>3. ASSUME NEW s \in (SUBSET R) \ {{}} PROVE \E x \in s : s \ {x} \in U => s \in U
  <2>1. Greatest(s) \in s
    BY GreatestIs
  <2> QED BY <2>1
<1> HIDE DEF U
<1>4. \A s \in SUBSET R : s \in U
  BY <1>1, <1>2, <1>3, SubsetInduction
<1> QED BY <1>4 DEF U
=============================================================================
