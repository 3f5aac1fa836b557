------------------------------ MODULE Induction ------------------------------
(***************************************************************************)
(* What the proofs need of induction: on the natural numbers and on the    *)
(* subsets of a finite set, in the form that speaks of a set of numbers or *)
(* sets instead of a predicate; the sums that are defined by it, and the   *)
(* largest and the least of finitely many numbers.                         *)
(***************************************************************************)
EXTENDS Integers, FiniteSets, FiniteSetsExt, FiniteSetTheorems, WellFoundedInduction, TLAPS

\* A set of natural numbers that is not empty has a least one.
LEMMA SetMinimum ==
    ASSUME NEW T \in SUBSET Nat, T # {}
    PROVE  \E x \in T : \A y \in T : x <= y
<1> DEFINE R == OpToRel(<, Nat)
<1>1. IsWellFoundedOn(R, Nat)
  BY NatLessThanWellFounded, Zenon
<1>2. \A x, y \in Nat : x < y => <<x, y>> \in R
  BY DEF OpToRel
<1> HIDE DEF R
<1>3. PICK x \in T : \A y \in T : ~ (<<y, x>> \in R)
  BY <1>1, WFMin
<1>4. ASSUME NEW y \in T PROVE x <= y
  <2>1. ~ (y < x)
    BY <1>2, <1>3
  <2> QED
    BY <2>1
<1> QED
  BY <1>4

\* A set with 0 and with the successor of every number in it has all numbers.
LEMMA SetInduction ==
    ASSUME NEW S, 0 \in S, \A n \in Nat : n \in S => n + 1 \in S
    PROVE  Nat \subseteq S
<1> DEFINE T == Nat \ S
<1>1. SUFFICES ASSUME T # {} PROVE FALSE
  OBVIOUS
<1>2. PICK x \in T : \A y \in T : x <= y
  BY <1>1, SetMinimum
<1>3. x # 0 /\ x - 1 \in Nat /\ x - 1 \notin T
  BY <1>2
<1> QED
  BY <1>3

\* A family with every subset of S that it has all predecessors of has all subsets.
LEMMA SubsetInduction ==
    ASSUME NEW S, IsFiniteSet(S), NEW F,
           \A T \in SUBSET S : (\A x \in T : T \ {x} \in F) => T \in F
    PROVE  SUBSET S \subseteq F
<1> DEFINE N == {n \in Nat : \A T \in SUBSET S : Cardinality(T) = n => T \in F}
<1>1. \A T \in SUBSET S : IsFiniteSet(T) /\ Cardinality(T) \in Nat
  BY FS_Subset, FS_CardinalityType
<1>2. 0 \in N
  <2>1. \A T \in SUBSET S : Cardinality(T) = 0 => T = {}
    BY <1>1, FS_EmptySet
  <2> QED
    BY <2>1
<1>3. ASSUME NEW n \in Nat, n \in N PROVE n + 1 \in N
  <2>1. SUFFICES ASSUME NEW T \in SUBSET S, Cardinality(T) = n + 1 PROVE T \in F
    OBVIOUS
  <2>2. ASSUME NEW x \in T PROVE T \ {x} \in F
    <3>1. Cardinality(T \ {x}) = Cardinality(T) - 1
      BY <1>1, FS_RemoveElement
    <3>2. Cardinality(T \ {x}) = n
      BY <2>1, <3>1
    <3> QED
      BY <1>3, <3>2
  <2> QED
    BY <2>2
<1> HIDE DEF N
<1>4. Nat \subseteq N
  BY <1>2, <1>3, SetInduction
<1> QED
  BY <1>1, <1>4 DEF N

-----------------------------------------------------------------------------
(***************************************************************************)
(* Sums.  Total(w, S) adds w[x] for the x in S; IsSum(g, w, S) is how the  *)
(* function is defined by which MapThenSumSet does it.                     *)
(***************************************************************************)
Total(w, S) == MapThenSumSet(LAMBDA x : w[x], S)

Picked(s) == CHOOSE x \in s : TRUE

IsSum(g, w, S) ==
    g = [s \in SUBSET S |-> IF s = {} THEN 0 ELSE w[Picked(s)] + g[s \ {Picked(s)}]]

\* The same for the subsets with at most n elements.
Small(S, n) == {s \in SUBSET S : Cardinality(s) <= n}

IsSmallSum(g, w, S, n) ==
    g = [s \in Small(S, n) |-> IF s = {} THEN 0 ELSE w[Picked(s)] + g[s \ {Picked(s)}]]

LEMMA SmallSumExists ==
    ASSUME NEW S, IsFiniteSet(S), NEW w, NEW n \in Nat
    PROVE  \E g : IsSmallSum(g, w, S, n)
<1> DEFINE H(g, s) == IF s = {} THEN 0 ELSE w[Picked(s)] + g[s \ {Picked(s)}]
           N == {m \in Nat : \E g : g = [s \in Small(S, m) |-> H(g, s)]}
<1>1. \A s \in SUBSET S : IsFiniteSet(s) /\ Cardinality(s) \in Nat
  BY FS_Subset, FS_CardinalityType
<1>2. 0 \in N
  <2>1. \A s \in Small(S, 0) : s = {}
    BY <1>1, FS_EmptySet DEF Small
  <2> DEFINE g == [s \in Small(S, 0) |-> 0]
  <2>2. g = [s \in Small(S, 0) |-> H(g, s)]
    BY <2>1
  <2> HIDE DEF g
  <2> QED
    BY <2>2
<1>3. ASSUME NEW m \in Nat, m \in N PROVE m + 1 \in N
  <2>1. PICK g : g = [s \in Small(S, m) |-> H(g, s)]
    BY <1>3
  <2> DEFINE h == [s \in Small(S, m + 1) |-> H(g, s)]
  <2>2. \A s \in Small(S, m) : s \in Small(S, m + 1)
    BY <1>1 DEF Small
  <2>3. \A s \in Small(S, m) : h[s] = g[s]
    <3> HIDE DEF H
    <3> QED
      BY <2>1, <2>2
  <2>4. ASSUME NEW s \in Small(S, m + 1), s # {} PROVE s \ {Picked(s)} \in Small(S, m)
    <3>1. Picked(s) \in s
      BY <2>4 DEF Picked
    <3>2. s \in SUBSET S /\ Cardinality(s) <= m + 1 /\ IsFiniteSet(s) /\ Cardinality(s) \in Nat
      BY <1>1 DEF Small
    <3>3. Cardinality(s \ {Picked(s)}) = Cardinality(s) - 1
      BY <3>1, <3>2, FS_RemoveElement
    <3> QED
      BY <3>2, <3>3 DEF Small
  <2>5. \A s \in Small(S, m + 1) : H(g, s) = H(h, s)
    BY <2>3, <2>4
  <2>6. h = [s \in Small(S, m + 1) |-> H(h, s)]
    <3> HIDE DEF H
    <3> QED
      BY <2>5
  <2> HIDE DEF h, H
  <2> QED
    BY <2>6
<1> HIDE DEF N
<1>4. n \in N
  BY <1>2, <1>3, SetInduction
<1> QED
  BY <1>4 DEF N, IsSmallSum

LEMMA SumExists ==
    ASSUME NEW S, IsFiniteSet(S), NEW w
    PROVE  \E g : IsSum(g, w, S)
<1> DEFINE n == Cardinality(S)
<1>1. n \in Nat /\ \A s \in SUBSET S : Cardinality(s) <= n
  BY FS_CardinalityType, FS_Subset
<1>2. Small(S, n) = SUBSET S
  BY <1>1 DEF Small
<1> HIDE DEF n
<1>3. PICK g : IsSmallSum(g, w, S, n)
  BY <1>1, SmallSumExists
<1> QED
  BY <1>2, <1>3 DEF IsSum, IsSmallSum

\* Sums of numbers are numbers.
LEMMA SumIsNumber ==
    ASSUME NEW S, IsFiniteSet(S), NEW w, \A x \in S : w[x] \in Int, NEW g, IsSum(g, w, S)
    PROVE  \A s \in SUBSET S : g[s] \in Int
<1> DEFINE F == {s \in SUBSET S : g[s] \in Int}
<1>1. \A s \in SUBSET S : g[s] = IF s = {} THEN 0 ELSE w[Picked(s)] + g[s \ {Picked(s)}]
  BY DEF IsSum
<1>2. ASSUME NEW T \in SUBSET S, \A x \in T : T \ {x} \in F PROVE T \in F
  <2>1. CASE T = {}
    <3>1. g[T] = 0
      BY <1>1, <2>1
    <3> QED
      BY <3>1
  <2>2. CASE T # {}
    <3> DEFINE y == Picked(T)
    <3>1. y \in T /\ y \in S
      BY <2>2 DEF Picked
    <3>2. g[T] = w[y] + g[T \ {y}]
      BY <1>1, <2>2
    <3> HIDE DEF y
    <3>3. w[y] \in Int /\ g[T \ {y}] \in Int
      BY <1>2, <3>1
    <3> QED
      BY <3>2, <3>3
  <2> QED
    BY <2>1, <2>2
<1> HIDE DEF F
<1>3. SUBSET S \subseteq F
  BY <1>2, SubsetInduction
<1> QED
  BY <1>3 DEF F

\* It does not matter in which order numbers are added.
LEMMA SumOfAny ==
    ASSUME NEW S, IsFiniteSet(S), NEW w, \A x \in S : w[x] \in Int, NEW g, IsSum(g, w, S)
    PROVE  \A s \in SUBSET S, x \in S : x \in s => g[s] = w[x] + g[s \ {x}]
<1> DEFINE F == {s \in SUBSET S : \A x \in s : g[s] = w[x] + g[s \ {x}]}
<1>1. /\ \A s \in SUBSET S : g[s] = IF s = {} THEN 0 ELSE w[Picked(s)] + g[s \ {Picked(s)}]
      /\ \A s \in SUBSET S : g[s] \in Int
  BY SumIsNumber DEF IsSum
<1>2. ASSUME NEW T \in SUBSET S, \A x \in T : T \ {x} \in F PROVE T \in F
  <2> DEFINE y == Picked(T)
  <2>1. SUFFICES ASSUME NEW x \in T PROVE g[T] = w[x] + g[T \ {x}]
    OBVIOUS
  <2>2. y \in T
    BY DEF Picked
  <2>3. g[T] = w[y] + g[T \ {y}]
    BY <1>1
  <2> HIDE DEF y
  <2>4. CASE x = y
    BY <2>3, <2>4
  <2>5. CASE x # y
    <3>1. (T \ {y}) \ {x} = (T \ {x}) \ {y}
      OBVIOUS
    <3>2. g[T \ {y}] = w[x] + g[(T \ {y}) \ {x}]
      BY <1>2, <2>2, <2>5
    <3>3. g[T \ {x}] = w[y] + g[(T \ {x}) \ {y}]
      BY <1>2, <2>2, <2>5
    <3>4. w[x] \in Int /\ w[y] \in Int /\ g[(T \ {x}) \ {y}] \in Int
      BY <1>1, <2>2
    <3> DEFINE c == g[(T \ {x}) \ {y}]
               d == g[T \ {x}]
               e == g[T \ {y}]
    <3>5. /\ g[T] = w[y] + e /\ e = w[x] + c /\ d = w[y] + c
          /\ w[x] \in Int /\ w[y] \in Int /\ c \in Int
      BY <2>3, <3>1, <3>2, <3>3, <3>4
    <3> HIDE DEF c, d, e
    <3>6. g[T] = w[x] + d
      BY <3>5
    <3> QED
      BY <3>6 DEF d
  <2> QED
    BY <2>4, <2>5
<1> HIDE DEF F
<1>3. SUBSET S \subseteq F
  BY <1>2, SubsetInduction
<1>4. \A s \in SUBSET S : s \in F
  BY <1>3
<1> QED
  BY <1>4 DEF F

\* Two functions that add the same numbers agree where both do.
LEMMA SumUnique ==
    ASSUME NEW S, IsFiniteSet(S), NEW T \in SUBSET S, NEW v, NEW w,
           \A x \in T : v[x] = w[x], NEW g, IsSum(g, v, S), NEW h, IsSum(h, w, T)
    PROVE  g[T] = h[T]
<1> DEFINE F == {s \in SUBSET T : g[s] = h[s]}
<1>1. IsFiniteSet(T)
  BY FS_Subset
<1>2. /\ \A s \in SUBSET S : g[s] = IF s = {} THEN 0 ELSE v[Picked(s)] + g[s \ {Picked(s)}]
      /\ \A s \in SUBSET T : h[s] = IF s = {} THEN 0 ELSE w[Picked(s)] + h[s \ {Picked(s)}]
  BY DEF IsSum
<1>3. ASSUME NEW s \in SUBSET T, \A x \in s : s \ {x} \in F PROVE s \in F
  <2>1. s # {} => Picked(s) \in s
    BY DEF Picked
  <2>2. s # {} => g[s \ {Picked(s)}] = h[s \ {Picked(s)}] /\ v[Picked(s)] = w[Picked(s)]
    BY <1>3, <2>1
  <2>3. g[s] = h[s]
    BY <1>2, <2>2
  <2> QED
    BY <2>3
<1> HIDE DEF F
<1>4. SUBSET T \subseteq F
  BY <1>1, <1>3, SubsetInduction
<1> QED
  BY <1>4 DEF F

\* So Total is what it should be.
LEMMA TotalIsSum ==
    ASSUME NEW S, IsFiniteSet(S), NEW w, NEW g, IsSum(g, w, S)
    PROVE  Total(w, S) = g[S]
<1> DEFINE h == CHOOSE f : IsSum(f, w, S)
<1>1. IsSum(h, w, S)
  OBVIOUS
<1>2. Total(w, S) = h[S]
  BY DEF Total, MapThenSumSet, MapThenFoldSet, IsSum, Picked
<1> HIDE DEF h
<1>3. g[S] = h[S]
  BY <1>1, SumUnique
<1> QED
  BY <1>2, <1>3

LEMMA TotalOfNone == \A w : Total(w, {}) = 0
<1> TAKE w
<1>1. PICK g : IsSum(g, w, {})
  BY SumExists, FS_EmptySet
<1>2. Total(w, {}) = g[{}]
  BY <1>1, TotalIsSum, FS_EmptySet
<1> QED
  BY <1>1, <1>2 DEF IsSum

LEMMA TotalOfMore ==
    ASSUME NEW S, IsFiniteSet(S), NEW w, \A x \in S : w[x] \in Int, NEW x \in S
    PROVE  /\ Total(w, S) \in Int
           /\ Total(w, S \ {x}) \in Int
           /\ Total(w, S) = w[x] + Total(w, S \ {x})
<1>1. IsFiniteSet(S \ {x})
  BY FS_Subset
<1>2. PICK g : IsSum(g, w, S)
  BY SumExists
<1>3. PICK h : IsSum(h, w, S \ {x})
  BY <1>1, SumExists
<1>4. Total(w, S) = g[S] /\ Total(w, S \ {x}) = h[S \ {x}]
  BY <1>1, <1>2, <1>3, TotalIsSum
<1>5. g[S \ {x}] = h[S \ {x}]
  BY <1>2, <1>3, SumUnique
<1>6. g[S] = w[x] + g[S \ {x}] /\ g[S] \in Int /\ g[S \ {x}] \in Int
  BY <1>2, SumOfAny, SumIsNumber
<1> QED
  BY <1>4, <1>5, <1>6

\* A total only depends on the numbers that are added.
LEMMA SameTotal ==
    ASSUME NEW S, IsFiniteSet(S), NEW v, NEW w, \A x \in S : v[x] = w[x]
    PROVE  Total(v, S) = Total(w, S)
<1>1. PICK g : IsSum(g, v, S)
  BY SumExists
<1>2. PICK h : IsSum(h, w, S)
  BY SumExists
<1>3. g[S] = h[S]
  BY <1>1, <1>2, SumUnique
<1> QED
  BY <1>1, <1>2, <1>3, TotalIsSum

LEMMA TotalType ==
    ASSUME NEW S, IsFiniteSet(S), NEW w, \A x \in S : w[x] \in Int
    PROVE  Total(w, S) \in Int
<1>1. PICK g : IsSum(g, w, S)
  BY SumExists
<1> QED
  BY <1>1, TotalIsSum, SumIsNumber

\* A total of natural numbers is one.
LEMMA NaturalTotal ==
    ASSUME NEW S, IsFiniteSet(S), NEW w, \A x \in S : w[x] \in Nat
    PROVE  Total(w, S) \in Nat
<1> DEFINE F == {s \in SUBSET S : Total(w, s) \in Nat}
<1>1. ASSUME NEW T \in SUBSET S, \A x \in T : T \ {x} \in F PROVE T \in F
  <2>1. IsFiniteSet(T)
    BY FS_Subset
  <2>2. CASE T = {}
    BY <2>2, TotalOfNone
  <2>3. CASE T # {}
    <3>1. PICK x \in T : TRUE
      BY <2>3
    <3>2. Total(w, T) = w[x] + Total(w, T \ {x}) /\ Total(w, T \ {x}) \in Nat
      BY <1>1, <2>1, <3>1, TotalOfMore
    <3> QED
      BY <3>2
  <2> QED
    BY <2>2, <2>3
<1> HIDE DEF F
<1>2. SUBSET S \subseteq F
  BY <1>1, SubsetInduction
<1> QED
  BY <1>2 DEF F

(***************************************************************************)
(* The largest and the least of finitely many.                             *)
(***************************************************************************)
LEMMA LargestOf ==
    ASSUME NEW S, IsFiniteSet(S), S # {}, NEW w, \A x \in S : w[x] \in Int
    PROVE  \E x \in S : \A y \in S : w[y] <= w[x]
<1> DEFINE F == {T \in SUBSET S : T # {} => \E x \in T : \A y \in T : w[y] <= w[x]}
<1>1. ASSUME NEW T \in SUBSET S, \A x \in T : T \ {x} \in F PROVE T \in F
  <2>1. SUFFICES ASSUME T # {} PROVE \E x \in T : \A y \in T : w[y] <= w[x]
    OBVIOUS
  <2>2. PICK a \in T : TRUE
    BY <2>1
  <2>3. CASE T \ {a} = {}
    <3>1. w[a] \in Int /\ \A y \in T : y = a
      BY <2>2, <2>3
    <3> QED
      BY <2>2, <3>1
  <2>4. CASE T \ {a} # {}
    <3>1. PICK b \in T \ {a} : \A y \in T \ {a} : w[y] <= w[b]
      BY <1>1, <2>2, <2>4
    <3>2. w[a] \in Int /\ w[b] \in Int /\ \A y \in T : w[y] \in Int
      BY <2>2, <3>1
    <3>3. CASE w[a] <= w[b]
      BY <3>1, <3>2, <3>3
    <3>4. CASE ~(w[a] <= w[b])
      <4>1. \A y \in T : w[y] <= w[a]
        BY <3>1, <3>2, <3>4
      <4> QED
        BY <2>2, <4>1
    <3> QED
      BY <3>3, <3>4
  <2> QED
    BY <2>3, <2>4
<1> HIDE DEF F
<1>2. S \in F
  BY <1>1, SubsetInduction
<1> QED
  BY <1>2 DEF F

\* Of finitely many numbers there is a least one.
LEMMA LeastOf ==
    ASSUME NEW S, IsFiniteSet(S), S # {}, NEW w, \A x \in S : w[x] \in Int
    PROVE  \E x \in S : \A y \in S : w[x] <= w[y]
<1> DEFINE v == [x \in S |-> -w[x]]
<1>1. \A x \in S : v[x] = -w[x] /\ v[x] \in Int
  OBVIOUS
<1> HIDE DEF v
<1>2. PICK x \in S : \A y \in S : v[y] <= v[x]
  BY <1>1, LargestOf
<1>3. \A y \in S : w[x] <= w[y]
  BY <1>1, <1>2
<1> QED
  BY <1>3

\* An interval has finitely many numbers.
LEMMA IntervalFinite ==
    ASSUME NEW m \in Int, NEW n \in Int
    PROVE  IsFiniteSet(m .. n)
BY FS_Interval
=============================================================================
