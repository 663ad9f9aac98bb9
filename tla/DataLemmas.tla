----------------------------- MODULE DataLemmas -----------------------------
(***************************************************************************)
(* Induction over numbers and finite sets, stated for sets rather than for *)
(* predicates, and what follows from it about folds: a fold is defined,    *)
(* whatever is kept by its operator holds of it, and a sum may be taken    *)
(* apart in any order. And queues: what a sequence without repetitions     *)
(* holds after a part of it is taken, joined or removed.                   *)
(***************************************************************************)
EXTENDS Integers, SequencesExt, FiniteSets, Functions, SequenceTheorems, WellFoundedInduction,
        FiniteSetTheorems, TLAPS

\* Induction over the natural numbers: S is the set of those that have a property.
LEMMA SetInduction ==
    ASSUME NEW S, 0 \in S, \A n \in Nat : n \in S => n + 1 \in S
    PROVE  Nat \subseteq S
<1> SUFFICES ASSUME Nat \ S # {} PROVE FALSE
  OBVIOUS
<1> DEFINE R == OpToRel(<, Nat)
<1>0. \A x, y \in Nat : x < y => <<x, y>> \in R
  BY DEF OpToRel
<1>1. IsWellFoundedOn(R, Nat)
  BY NatLessThanWellFounded
<1> HIDE DEF R
<1>2. PICK x \in Nat \ S : \A y \in Nat \ S : ~ (<<y, x>> \in R)
  <2> DEFINE T == Nat \ S
  <2>1. T \subseteq Nat /\ T # {}
    OBVIOUS
  <2> HIDE DEF T
  <2>2. \E x \in T : \A y \in T : ~ (<<y, x>> \in R)
    BY <1>1, <2>1, WFMin
  <2> QED
    BY <2>2 DEF T
<1>3. x \in Nat \ {0} /\ x - 1 \in Nat /\ x - 1 < x
  OBVIOUS
<1>4. <<x - 1, x>> \in R
  BY <1>0, <1>3
<1>5. x - 1 \in S
  BY <1>2, <1>3, <1>4
<1> QED
  BY <1>3, <1>5

\* Induction over the subsets of a finite set: P is the set of those that have a property.
Inductive(S, P) == \A T \in SUBSET S : (\A x \in T : T \ {x} \in P) => T \in P

LEMMA SubsetInduction ==
    ASSUME NEW S, IsFiniteSet(S), NEW P, Inductive(S, P)
    PROVE  SUBSET S \subseteq P
<1> USE DEF Inductive
<1> DEFINE N == {n \in Nat : \A T \in SUBSET S : Cardinality(T) <= n => T \in P}
<1>0. \A T \in SUBSET S : Cardinality(T) \in Nat /\ IsFiniteSet(T) /\ (Cardinality(T) = 0 <=> T = {})
  BY FS_Subset, FS_CardinalityType, FS_EmptySet
<1>1. 0 \in N
  BY <1>0
<1>2. ASSUME NEW n \in Nat, n \in N
      PROVE  n + 1 \in N
  <2>1. ASSUME NEW T \in SUBSET S, Cardinality(T) <= n + 1, NEW x \in T
        PROVE  T \ {x} \in P
    <3>1. T \ {x} \in SUBSET S /\ Cardinality(T \ {x}) = Cardinality(T) - 1
      BY <1>0, <2>1, FS_RemoveElement
    <3> QED
      BY <1>0, <1>2, <2>1, <3>1
  <2> QED
    BY <2>1
<1>3. ASSUME NEW T \in SUBSET S PROVE T \in P
  <2> HIDE DEF N
  <2>1. Nat \subseteq N
    BY <1>1, <1>2, SetInduction
  <2>2. Cardinality(T) \in N /\ Cardinality(T) \in Nat
    BY <1>0, <2>1
  <2> QED
    BY <2>2 DEF N
<1> QED
  BY <1>3

-----------------------------------------------------------------------------
(* Folds.                                                                  *)

\* The element a fold takes next.
Pick(s) == CHOOSE x \in s : TRUE

(* g is the fold of op, a function of pairs, over the subsets of S. *)
Folded(S, base, op, g) ==
    g = [s \in SUBSET S |-> IF s = {} THEN base ELSE op[<<Pick(s), g[s \ {Pick(s)}]>>]]

\* It is defined, and its values are where the operator's are.
LEMMA FoldExists ==
    ASSUME NEW S, IsFiniteSet(S), NEW V, NEW base \in V, NEW op \in [S \X V -> V]
    PROVE  \E g \in [SUBSET S -> V] : Folded(S, base, op, g)
<1> DEFINE Upto(n, g) == \A s \in SUBSET S : Cardinality(s) <= n =>
              g[s] = IF s = {} THEN base ELSE op[<<Pick(s), g[s \ {Pick(s)}]>>]
           N == {n \in Nat : \E g \in [SUBSET S -> V] : Upto(n, g)}
<1>0. \A s \in SUBSET S : Cardinality(s) \in Nat /\ IsFiniteSet(s) /\ (Cardinality(s) = 0 <=> s = {})
  BY FS_Subset, FS_CardinalityType, FS_EmptySet
<1>1. 0 \in N
  <2> DEFINE g == [s \in SUBSET S |-> base]
  <2>1. g \in [SUBSET S -> V]
    OBVIOUS
  <2>2. Upto(0, g)
    BY <1>0
  <2> QED
    BY <2>1, <2>2
<1>p. \A s \in SUBSET S : s # {} => Pick(s) \in s
  BY DEF Pick
<1>2. ASSUME NEW n \in Nat, n \in N
      PROVE  n + 1 \in N
  <2>1. PICK g \in [SUBSET S -> V] : Upto(n, g)
    BY <1>2
  <2> DEFINE h == [s \in SUBSET S |-> IF s = {} THEN base ELSE op[<<Pick(s), g[s \ {Pick(s)}]>>]]
  <2>2. h \in [SUBSET S -> V]
    <3> SUFFICES ASSUME NEW s \in SUBSET S, s # {} PROVE op[<<Pick(s), g[s \ {Pick(s)}]>>] \in V
      OBVIOUS
    <3>1. Pick(s) \in S /\ s \ {Pick(s)} \in SUBSET S
      BY <1>p
    <3> QED
      BY <3>1
  <2>3. ASSUME NEW s \in SUBSET S, s # {}, Cardinality(s) <= n + 1
        PROVE  h[s \ {Pick(s)}] = g[s \ {Pick(s)}]
    <3>1. Pick(s) \in s /\ s \ {Pick(s)} \in SUBSET S
      BY <1>p, <2>3
    <3>2. Cardinality(s \ {Pick(s)}) <= n
      BY <1>0, <2>3, <3>1, FS_RemoveElement
    <3> QED
      BY <2>1, <3>1, <3>2
  <2>4. \A s \in SUBSET S : s # {} => s \ {Pick(s)} \in SUBSET S
    OBVIOUS
  <2>5. ASSUME NEW s \in SUBSET S, Cardinality(s) <= n + 1
        PROVE  h[s] = IF s = {} THEN base ELSE op[<<Pick(s), h[s \ {Pick(s)}]>>]
    <3>1. h[s] = IF s = {} THEN base ELSE op[<<Pick(s), g[s \ {Pick(s)}]>>]
      OBVIOUS
    <3> HIDE DEF h
    <3> QED
      BY <2>3, <2>5, <3>1
  <2>6. Upto(n + 1, h)
    <3> HIDE DEF h
    <3> QED
      BY <2>5
  <2> HIDE DEF h, Upto
  <2> QED
    BY <2>2, <2>6
<1>3. Cardinality(S) \in N
  <2> HIDE DEF N
  <2>1. Nat \subseteq N
    BY <1>1, <1>2, SetInduction
  <2> QED
    BY <2>1, <1>0
<1>4. PICK g \in [SUBSET S -> V] : Upto(Cardinality(S), g)
  BY <1>3
<1>5. \A s \in SUBSET S : Cardinality(s) <= Cardinality(S)
  BY FS_Subset
<1>6. \A s \in SUBSET S : g[s] = IF s = {} THEN base ELSE op[<<Pick(s), g[s \ {Pick(s)}]>>]
  BY <1>4, <1>5
<1>7. Folded(S, base, op, g)
  BY <1>6 DEF Folded
<1> QED
  BY <1>7

-----------------------------------------------------------------------------
(* Sums.                                                                   *)

\* The sum of f over a finite set.
Total(f, T) == FoldFunctionOnSet(+, 0, f, T)

\* g adds up f over the subsets of T.
Adds(f, T, g) == g = [s \in SUBSET T |-> IF s = {} THEN 0 ELSE f[Pick(s)] + g[s \ {Pick(s)}]]

\* What adds up numbers exists.
LEMMA SumExists ==
    ASSUME NEW T, IsFiniteSet(T), NEW f, \A x \in T : f[x] \in Nat
    PROVE  \E g \in [SUBSET T -> Nat] : Adds(f, T, g)
<1> DEFINE op == [p \in T \X Nat |-> f[p[1]] + p[2]]
<1>1. op \in [T \X Nat -> Nat]
  OBVIOUS
<1>2. PICK g \in [SUBSET T -> Nat] : Folded(T, 0, op, g)
  <2>1. 0 \in Nat
    OBVIOUS
  <2> HIDE DEF op
  <2> QED
    BY <1>1, <2>1, FoldExists
<1>3. ASSUME NEW s \in SUBSET T, s # {}
      PROVE  op[<<Pick(s), g[s \ {Pick(s)}]>>] = f[Pick(s)] + g[s \ {Pick(s)}]
  <2>1. Pick(s) \in T /\ s \ {Pick(s)} \in SUBSET T
    BY <1>3 DEF Pick
  <2>2. g[s \ {Pick(s)}] \in Nat
    BY <2>1
  <2> QED
    BY <2>1, <2>2
<1>4. Adds(f, T, g)
  <2> HIDE DEF op
  <2> QED
    BY <1>2, <1>3 DEF Adds, Folded
<1> QED
  BY <1>4

\* A sum is what something that adds up says of the whole set.
LEMMA SumAdds ==
    ASSUME NEW T, IsFiniteSet(T), NEW f, \A x \in T : f[x] \in Nat
    PROVE  \E g : Adds(f, T, g) /\ Total(f, T) = g[T]
<1> DEFINE g == CHOOSE iter : iter = [s \in SUBSET T |->
                    IF s = {} THEN 0 ELSE f[CHOOSE x \in s : TRUE] + iter[s \ {CHOOSE x \in s : TRUE}]]
<1>1. \E iter : iter = [s \in SUBSET T |->
                    IF s = {} THEN 0 ELSE f[CHOOSE x \in s : TRUE] + iter[s \ {CHOOSE x \in s : TRUE}]]
  <2>1. \E iter : Adds(f, T, iter)
    BY SumExists
  <2> QED
    BY <2>1, Zenon DEF Adds, Pick
<1>2. Adds(f, T, g)
  BY <1>1, Zenon DEF Adds, Pick
<1>3. Total(f, T) = g[T]
  BY Zenon DEF Total, FoldFunctionOnSet, MapThenFoldSet
<1> QED
  BY <1>2, <1>3

\* What adds up f is one function on the sets it is defined on, and only depends on f there.
LEMMA AddsUnique ==
    ASSUME NEW T, IsFiniteSet(T), NEW U \in SUBSET T, NEW f, NEW h, \A x \in U : f[x] = h[x],
           NEW g, Adds(f, T, g), NEW k, Adds(h, U, k)
    PROVE  \A s \in SUBSET U : g[s] = k[s]
<1> DEFINE P == {s \in SUBSET U : g[s] = k[s]}
<1>1. ASSUME NEW s \in SUBSET U, \A x \in s : s \ {x} \in P PROVE s \in P
  <2>1. /\ g[s] = IF s = {} THEN 0 ELSE f[Pick(s)] + g[s \ {Pick(s)}]
        /\ k[s] = IF s = {} THEN 0 ELSE h[Pick(s)] + k[s \ {Pick(s)}]
    BY DEF Adds
  <2>2. s # {} => Pick(s) \in s
    BY DEF Pick
  <2> QED
    BY <1>1, <2>1, <2>2
<1>2. IsFiniteSet(U)
  BY FS_Subset
<1>3. SUBSET U \subseteq P
  <2> HIDE DEF P
  <2>1. Inductive(U, P)
    BY <1>1 DEF Inductive
  <2> QED
    BY <1>2, <2>1, SubsetInduction
<1> QED
  BY <1>3

\* Any element may be taken out first.
LEMMA AddsAny ==
    ASSUME NEW T, IsFiniteSet(T), NEW f, \A x \in T : f[x] \in Nat, NEW g, Adds(f, T, g)
    PROVE  \A s \in SUBSET T : g[s] \in Nat /\ \A x \in s : g[s] = f[x] + g[s \ {x}]
<1> DEFINE P == {s \in SUBSET T : g[s] \in Nat /\ \A x \in s : g[s] = f[x] + g[s \ {x}]}
<1>1. ASSUME NEW s \in SUBSET T, \A x \in s : s \ {x} \in P PROVE s \in P
  <2>1. g[s] = IF s = {} THEN 0 ELSE f[Pick(s)] + g[s \ {Pick(s)}]
    BY DEF Adds
  <2>2. s # {} => Pick(s) \in s
    BY DEF Pick
  <2>3. g[s] \in Nat
    <3>1. CASE s = {}
      BY <2>1, <3>1
    <3>2. CASE s # {}
      <4>1. s \ {Pick(s)} \in P /\ Pick(s) \in T
        BY <1>1, <2>2, <3>2
      <4>2. g[s \ {Pick(s)}] \in Nat /\ f[Pick(s)] \in Nat
        BY <4>1
      <4> QED
        BY <2>1, <3>2, <4>2
    <3> QED
      BY <3>1, <3>2
  <2>4. ASSUME NEW x \in s PROVE g[s] = f[x] + g[s \ {x}]
    <3> DEFINE p == Pick(s)
    <3>1. p \in s /\ g[s] = f[p] + g[s \ {p}]
      BY <2>1, <2>2
    <3> HIDE DEF p
    <3>2. CASE x # p
      <4>1. s \ {p} \in P /\ s \ {x} \in P /\ x \in s \ {p} /\ p \in s \ {x}
        BY <1>1, <3>1, <3>2
      <4>2. g[s \ {p}] = f[x] + g[(s \ {p}) \ {x}] /\ g[s \ {x}] = f[p] + g[(s \ {x}) \ {p}]
        BY <4>1
      <4>3. (s \ {p}) \ {x} = (s \ {x}) \ {p} /\ (s \ {p}) \ {x} = (s \ {p}) \ {x}
        OBVIOUS
      <4>4. g[(s \ {x}) \ {p}] \in Nat
        <5>1. (s \ {x}) \ {p} \in SUBSET T /\ x \in T /\ f[x] \in Nat /\ f[p] \in Nat
          BY <3>1
        <5>2. \E q \in [SUBSET T -> Nat] : Adds(f, T, q)
          BY SumExists
        <5>3. PICK q \in [SUBSET T -> Nat] : Adds(f, T, q)
          BY <5>2
        <5>4. g[(s \ {x}) \ {p}] = q[(s \ {x}) \ {p}]
          BY <5>1, <5>3, AddsUnique
        <5> QED
          BY <5>1, <5>4
      <4>5. f[x] \in Nat /\ f[p] \in Nat
        BY <3>1
      <4> DEFINE a == f[x] b == f[p] c == g[(s \ {x}) \ {p}] d == g[s \ {p}] e == g[s \ {x}] z == g[s]
      <4>6. a \in Nat /\ b \in Nat /\ c \in Nat /\ d = a + c /\ e = b + c /\ z = b + d
        BY <3>1, <4>2, <4>3, <4>4, <4>5
      <4> HIDE DEF a, b, c, d, e, z
      <4>7. z = a + e
        BY <4>6
      <4> QED
        BY <4>7 DEF a, e, z
    <3> QED
      BY <3>1, <3>2
  <2> QED
    BY <2>3, <2>4
<1>2. SUBSET T \subseteq P
  <2> HIDE DEF P
  <2>1. Inductive(T, P)
    BY <1>1 DEF Inductive
  <2> QED
    BY <2>1, SubsetInduction
<1> QED
  BY <1>2

\* Two functions that agree on a set have the same sum over it.
LEMMA TotalAgrees ==
    ASSUME NEW T, IsFiniteSet(T), NEW f, \A x \in T : f[x] \in Nat, NEW h, \A x \in T : f[x] = h[x]
    PROVE  Total(f, T) = Total(h, T)
<1>1. PICK g : Adds(f, T, g) /\ Total(f, T) = g[T]
  BY SumAdds
<1>2. PICK k : Adds(h, T, k) /\ Total(h, T) = k[T]
  <2>1. \A x \in T : h[x] \in Nat
    OBVIOUS
  <2> QED
    BY <2>1, SumAdds
<1>3. \A s \in SUBSET T : g[s] = k[s]
  <2>1. T \in SUBSET T
    OBVIOUS
  <2> QED
    BY <1>1, <1>2, <2>1, AddsUnique
<1> QED
  BY <1>1, <1>2, <1>3

\* A sum is what a function that adds up over a larger set says of it.
LEMMA TotalOfPart ==
    ASSUME NEW T, IsFiniteSet(T), NEW f, \A x \in T : f[x] \in Nat, NEW g, Adds(f, T, g),
           NEW U \in SUBSET T
    PROVE  Total(f, U) = g[U]
<1>1. IsFiniteSet(U) /\ \A x \in U : f[x] \in Nat
  BY FS_Subset
<1>2. PICK k : Adds(f, U, k) /\ Total(f, U) = k[U]
  BY <1>1, SumAdds
<1>3. \A s \in SUBSET U : g[s] = k[s]
  BY <1>2, AddsUnique
<1> QED
  BY <1>2, <1>3

\* A sum of numbers is one.
LEMMA TotalType ==
    ASSUME NEW T, IsFiniteSet(T), NEW f, \A x \in T : f[x] \in Nat
    PROVE  Total(f, T) \in Nat
<1>1. PICK g : Adds(f, T, g) /\ Total(f, T) = g[T]
  BY SumAdds
<1> QED
  BY <1>1, AddsAny

\* Nothing adds up to nothing.
LEMMA TotalEmpty ==
    ASSUME NEW f
    PROVE  Total(f, {}) = 0
<1>1. IsFiniteSet({}) /\ \A x \in {} : f[x] \in Nat
  BY FS_EmptySet
<1>2. PICK g : Adds(f, {}, g) /\ Total(f, {}) = g[{}]
  BY <1>1, SumAdds
<1> QED
  BY <1>2 DEF Adds

\* Nothing but zeros adds up to zero.
LEMMA TotalZero ==
    ASSUME NEW T, IsFiniteSet(T), NEW f, \A x \in T : f[x] = 0
    PROVE  Total(f, T) = 0
<1>0. \A x \in T : f[x] \in Nat
  OBVIOUS
<1>1. PICK g : Adds(f, T, g) /\ Total(f, T) = g[T]
  BY <1>0, SumAdds
<1> DEFINE P == {s \in SUBSET T : g[s] = 0}
<1>2. ASSUME NEW s \in SUBSET T, \A x \in s : s \ {x} \in P PROVE s \in P
  <2>1. g[s] = IF s = {} THEN 0 ELSE f[Pick(s)] + g[s \ {Pick(s)}]
    BY <1>1 DEF Adds
  <2>2. s # {} => Pick(s) \in s
    BY DEF Pick
  <2> QED
    BY <1>2, <2>1, <2>2
<1>3. SUBSET T \subseteq P
  <2> HIDE DEF P
  <2>1. Inductive(T, P)
    BY <1>2 DEF Inductive
  <2> QED
    BY <2>1, SubsetInduction
<1> QED
  BY <1>1, <1>3

\* A sum without one of its elements.
LEMMA TotalRemove ==
    ASSUME NEW T, IsFiniteSet(T), NEW f, \A x \in T : f[x] \in Nat, NEW x \in T
    PROVE  Total(f, T) = f[x] + Total(f, T \ {x})
<1>1. PICK g : Adds(f, T, g) /\ Total(f, T) = g[T]
  BY SumAdds
<1>2. g[T] = f[x] + g[T \ {x}]
  BY <1>1, AddsAny
<1>3. Total(f, T \ {x}) = g[T \ {x}]
  <2>1. T \ {x} \in SUBSET T
    OBVIOUS
  <2> QED
    BY <1>1, <2>1, TotalOfPart
<1> QED
  BY <1>1, <1>2, <1>3

\* A sum without some of its elements.
LEMMA TotalSplit ==
    ASSUME NEW T, IsFiniteSet(T), NEW f, \A x \in T : f[x] \in Nat, NEW Q \in SUBSET T
    PROVE  Total(f, T) = Total(f, Q) + Total(f, T \ Q)
<1>1. PICK g : Adds(f, T, g) /\ Total(f, T) = g[T]
  BY SumAdds
<1>a. Adds(f, T, g)
  BY <1>1
<1>2. \A s \in SUBSET T : g[s] \in Nat /\ \A x \in s : g[s] = f[x] + g[s \ {x}]
  BY <1>a, AddsAny
<1> DEFINE P == {s \in SUBSET T : g[T] = g[s] + g[T \ s]}
<1>3. ASSUME NEW s \in SUBSET T, \A x \in s : s \ {x} \in P PROVE s \in P
  <2>1. CASE s = {}
    <3>1. g[{}] = 0
      BY <1>1 DEF Adds
    <3>2. T \ {} = T /\ g[T] \in Nat
      BY <1>2
    <3> QED
      BY <2>1, <3>1, <3>2
  <2>2. CASE s # {}
    <3>1. PICK x \in s : TRUE
      BY <2>2
    <3>2. g[T] = g[s \ {x}] + g[T \ (s \ {x})]
      BY <1>3
    <3>3. T \ (s \ {x}) \in SUBSET T /\ x \in T \ (s \ {x})
          /\ (T \ (s \ {x})) \ {x} = T \ s
      OBVIOUS
    <3>4. g[T \ (s \ {x})] = f[x] + g[T \ s]
      BY <1>2, <3>3
    <3>5. g[s] = f[x] + g[s \ {x}]
      BY <1>2
    <3>6. f[x] \in Nat /\ g[s \ {x}] \in Nat /\ g[T \ s] \in Nat
      <4>1. s \ {x} \in SUBSET T /\ T \ s \in SUBSET T /\ x \in T
        OBVIOUS
      <4> QED
        BY <1>2, <4>1
    <3> QED
      BY <3>2, <3>4, <3>5, <3>6
  <2> QED
    BY <2>1, <2>2
<1>4. SUBSET T \subseteq P
  <2> HIDE DEF P
  <2>1. Inductive(T, P)
    BY <1>3 DEF Inductive
  <2> QED
    BY <2>1, SubsetInduction
<1>5. Total(f, Q) = g[Q] /\ Total(f, T \ Q) = g[T \ Q]
  <2>1. T \ Q \in SUBSET T
    OBVIOUS
  <2> QED
    BY <1>1, <2>1, TotalOfPart
<1> QED
  BY <1>1, <1>4, <1>5

\* A part of a sum is no more than the sum, for a function that agrees with it there.
LEMMA TotalPart ==
    ASSUME NEW T, IsFiniteSet(T), NEW f, \A x \in T : f[x] \in Nat, NEW D \in SUBSET T,
           NEW h, \A x \in D : f[x] = h[x]
    PROVE  Total(h, D) \in Nat /\ Total(f, T) \in Nat /\ Total(h, D) <= Total(f, T)
<1>1. IsFiniteSet(D) /\ IsFiniteSet(T \ D) /\ D \subseteq T /\ T \ D \subseteq T
  BY FS_Subset
<1>2. (\A x \in D : f[x] \in Nat) /\ (\A x \in T \ D : f[x] \in Nat)
  OBVIOUS
<1>3. Total(f, D) \in Nat /\ Total(f, T \ D) \in Nat
  BY <1>1, <1>2, TotalType
<1>4. Total(f, T) = Total(f, D) + Total(f, T \ D)
  BY TotalSplit
<1>5. Total(f, D) = Total(h, D)
  BY <1>1, <1>2, TotalAgrees
<1> QED
  BY <1>3, <1>4, <1>5

\* A sum with one element more is no more than the sum and what the element adds.
LEMMA TotalGrows ==
    ASSUME NEW T, IsFiniteSet(T), NEW f, \A x \in T : f[x] \in Nat, NEW a, NEW D,
           D \subseteq T \cup {a}, NEW h, h[a] \in Nat, \A x \in T \ {a} : f[x] = h[x]
    PROVE  Total(h, D) <= Total(f, T) + h[a]
<1> DEFINE P == D \ {a}
<1>1. P \in SUBSET T /\ (\A x \in P : f[x] = h[x] /\ h[x] \in Nat) /\ (\A x \in D : h[x] \in Nat)
  OBVIOUS
<1> HIDE DEF P
<1>2. Total(h, P) \in Nat /\ Total(f, T) \in Nat /\ Total(h, P) <= Total(f, T)
  BY <1>1, TotalPart
<1>3. IsFiniteSet(D)
  BY FS_AddElement, FS_Subset
<1>4. CASE a \in D
  <2>1. Total(h, D) = h[a] + Total(h, P)
    BY <1>1, <1>3, <1>4, TotalRemove DEF P
  <2> QED
    BY <1>2, <2>1
<1>5. CASE a \notin D
  <2>1. D = P
    BY <1>5 DEF P
  <2> QED
    BY <1>2, <2>1
<1> QED
  BY <1>4, <1>5

\* A sum of more is more.
LEMMA TotalLess ==
    ASSUME NEW T, IsFiniteSet(T), NEW f, NEW h, \A x \in T : f[x] \in Nat /\ h[x] \in Nat /\ f[x] <= h[x]
    PROVE  Total(f, T) <= Total(h, T)
<1> DEFINE P == {s \in SUBSET T : Total(f, s) <= Total(h, s)}
<1>1. ASSUME NEW s \in SUBSET T, \A x \in s : s \ {x} \in P PROVE s \in P
  <2>1. CASE s = {}
    <3>1. Total(f, {}) = 0 /\ Total(h, {}) = 0
      BY TotalEmpty
    <3> QED
      BY <2>1, <3>1
  <2>2. CASE s # {}
    <3>1. PICK x \in s : TRUE
      BY <2>2
    <3>2. IsFiniteSet(s) /\ IsFiniteSet(s \ {x})
      BY FS_Subset
    <3>3. /\ \A y \in s : f[y] \in Nat /\ h[y] \in Nat
          /\ \A y \in s \ {x} : f[y] \in Nat /\ h[y] \in Nat
      OBVIOUS
    <3>4. Total(f, s) = f[x] + Total(f, s \ {x}) /\ Total(h, s) = h[x] + Total(h, s \ {x})
      BY <3>2, <3>3, TotalRemove
    <3>5. Total(f, s \ {x}) \in Nat /\ Total(h, s \ {x}) \in Nat
      BY <3>2, <3>3, TotalType
    <3>6. Total(f, s \ {x}) <= Total(h, s \ {x}) /\ f[x] <= h[x] /\ f[x] \in Nat /\ h[x] \in Nat
      BY <1>1
    <3>7. Total(f, s) <= Total(h, s)
      BY <3>4, <3>5, <3>6
    <3> QED
      BY <3>7
  <2> QED
    BY <2>1, <2>2
<1>2. SUBSET T \subseteq P
  <2> HIDE DEF P
  <2>1. Inductive(T, P)
    BY <1>1 DEF Inductive
  <2> QED
    BY <2>1, SubsetInduction
<1>3. T \in P
  BY <1>2
<1> QED
  BY <1>3

\* A finite set of numbers has a greatest.
LEMMA MaxFacts ==
    ASSUME NEW S, IsFiniteSet(S), S \subseteq Int, S # {}
    PROVE  Max(S) \in S /\ \A x \in S : x <= Max(S)
<1> DEFINE P == {T \in SUBSET S : T # {} => \E m \in T : \A x \in T : m >= x}
<1>1. ASSUME NEW T \in SUBSET S, \A x \in T : T \ {x} \in P
      PROVE  T \in P
  <2> SUFFICES ASSUME T # {} PROVE \E m \in T : \A x \in T : m >= x
    OBVIOUS
  <2>1. PICK y \in T : TRUE
    OBVIOUS
  <2>2. CASE T \ {y} = {}
    BY <2>1, <2>2
  <2>3. CASE T \ {y} # {}
    <3>1. PICK m \in T \ {y} : \A x \in T \ {y} : m >= x
      BY <1>1, <2>1, <2>3
    <3>2. m \in Int /\ y \in Int /\ T \subseteq Int
      BY <2>1, <3>1
    <3>3. CASE m >= y
      BY <3>1, <3>2, <3>3
    <3>4. CASE ~(m >= y)
      BY <2>1, <3>1, <3>2, <3>4
    <3> QED
      BY <3>3, <3>4
  <2> QED
    BY <2>2, <2>3
<1>2. S \in P
  <2> HIDE DEF P
  <2>1. Inductive(S, P)
    BY <1>1 DEF Inductive
  <2> QED
    BY <2>1, SubsetInduction
<1>3. \E m \in S : \A x \in S : m >= x
  BY <1>2
<1>4. Max(S) \in S /\ \A x \in S : Max(S) >= x
  BY <1>3 DEF Max
<1> QED
  BY <1>4

\* A set of natural numbers has a least.
LEMMA MinFacts ==
    ASSUME NEW S, S \subseteq Nat, S # {}
    PROVE  Min(S) \in S /\ \A x \in S : Min(S) <= x
<1> DEFINE R == OpToRel(<, Nat)
<1>0. \A x, y \in Nat : x < y => <<x, y>> \in R
  BY DEF OpToRel
<1>1. IsWellFoundedOn(R, Nat)
  BY NatLessThanWellFounded
<1> HIDE DEF R
<1>2. PICK m \in S : \A y \in S : ~ (<<y, m>> \in R)
  <2>1. \E x \in S : \A y \in S : ~ (<<y, x>> \in R)
    BY <1>1, WFMin
  <2> QED
    BY <2>1
<1>3. ASSUME NEW y \in S PROVE m <= y
  <2>1. y \in Nat /\ m \in Nat
    OBVIOUS
  <2>2. ~(y < m)
    BY <1>0, <1>2, <2>1
  <2> QED
    BY <2>1, <2>2
<1> QED
  BY <1>3 DEF Min

\* A sum grows by what one of its terms does.
LEMMA TotalOneMore ==
    ASSUME NEW T, IsFiniteSet(T), NEW f, \A x \in T : f[x] \in Nat, NEW a \in T,
           NEW h, h[a] = f[a] + 1, \A x \in T \ {a} : h[x] = f[x]
    PROVE  Total(h, T) = Total(f, T) + 1
<1>1. IsFiniteSet(T \ {a}) /\ \A x \in T \ {a} : f[x] \in Nat
  BY FS_Subset
<1>2. Total(f, T) = f[a] + Total(f, T \ {a})
  BY TotalRemove
<1>3. \A x \in T : h[x] \in Nat
  OBVIOUS
<1>4. Total(h, T) = h[a] + Total(h, T \ {a})
  BY <1>3, TotalRemove
<1>5. Total(f, T \ {a}) = Total(h, T \ {a}) /\ Total(f, T \ {a}) \in Nat
  BY <1>1, TotalAgrees, TotalType
<1> QED
  BY <1>2, <1>4, <1>5

-----------------------------------------------------------------------------
(* Sequences without repetitions.                                          *)

\* The indices of a sequence, and what it holds.
LEMMA SeqFacts ==
    ASSUME NEW S, NEW q \in Seq(S)
    PROVE  /\ Len(q) \in Nat /\ DOMAIN q = 1 .. Len(q) /\ Range(q) \subseteq S
           /\ \A e : e \in Range(q) <=> \E j \in 1 .. Len(q) : q[j] = e
           /\ IsInjective(q) <=> \A a, b \in 1 .. Len(q) : q[a] = q[b] => a = b
<1>1. Len(q) \in Nat /\ DOMAIN q = 1 .. Len(q) /\ \A j \in 1 .. Len(q) : q[j] \in S
  BY LenProperties, ElementOfSeq
<1>2. \A e : e \in Range(q) <=> \E j \in 1 .. Len(q) : q[j] = e
  BY <1>1 DEF Range
<1>3. IsInjective(q) <=> \A a, b \in 1 .. Len(q) : q[a] = q[b] => a = b
  BY <1>1 DEF IsInjective
<1> QED
  BY <1>1, <1>2, <1>3

\* What a part of a sequence holds.
LEMMA PartFacts ==
    ASSUME NEW S, NEW q \in Seq(S), NEW m \in 1 .. Len(q) + 1, NEW n \in 0 .. Len(q)
    PROVE  /\ SubSeq(q, m, n) \in Seq(S)
           /\ m <= n + 1 => Len(SubSeq(q, m, n)) = n - m + 1
           /\ \A e : e \in Range(SubSeq(q, m, n)) <=> \E j \in m .. n : q[j] = e
           /\ IsInjective(q) => IsInjective(SubSeq(q, m, n))
<1> DEFINE p == SubSeq(q, m, n)
<1>0. Len(q) \in Nat /\ m \in Int /\ n \in Int /\ \A i \in m .. n : q[i] \in S
  <2>1. Len(q) \in Nat
    BY SeqFacts
  <2> QED
    BY <2>1, ElementOfSeq
<1>1. /\ p \in Seq(S) /\ Len(p) = IF m <= n THEN n - m + 1 ELSE 0
      /\ \A i \in 1 .. n - m + 1 : p[i] = q[m + i - 1]
  BY <1>0, SubSeqProperties
<1> HIDE DEF p
<1>2. \A e : e \in Range(p) <=> \E j \in 1 .. Len(p) : p[j] = e
  BY <1>1, SeqFacts
<1>3. ASSUME NEW j \in m .. n PROVE j - m + 1 \in 1 .. Len(p) /\ p[j - m + 1] = q[j]
  <2>1. j \in Int /\ m <= n /\ Len(p) = n - m + 1 /\ j - m + 1 \in 1 .. n - m + 1
    BY <1>0, <1>1
  <2>2. m + (j - m + 1) - 1 = j
    BY <1>0, <2>1
  <2>3. p[j - m + 1] = q[m + (j - m + 1) - 1]
    BY <1>1, <2>1
  <2> QED
    BY <2>1, <2>2, <2>3
<1>4. ASSUME NEW i \in 1 .. Len(p) PROVE m + i - 1 \in m .. n /\ p[i] = q[m + i - 1]
  BY <1>0, <1>1
<1>5. \A e : e \in Range(p) <=> \E j \in m .. n : q[j] = e
  BY <1>2, <1>3, <1>4, ZenonT(60)
<1>6. ASSUME IsInjective(q) PROVE IsInjective(p)
  <2>1. \A a, b \in 1 .. Len(q) : q[a] = q[b] => a = b
    BY <1>6, SeqFacts
  <2>2. ASSUME NEW a \in 1 .. Len(p), NEW b \in 1 .. Len(p), p[a] = p[b] PROVE a = b
    <3>1. m + a - 1 \in 1 .. Len(q) /\ m + b - 1 \in 1 .. Len(q)
      BY <1>0, <1>4
    <3>2. q[m + a - 1] = q[m + b - 1]
      BY <1>4, <2>2
    <3>3. m + a - 1 = m + b - 1
      BY <2>1, <3>1, <3>2
    <3>4. a \in Int /\ b \in Int
      BY <1>1
    <3> QED
      BY <1>0, <3>3, <3>4
  <2> QED
    BY <1>1, <2>2, SeqFacts
<1>7. m <= n + 1 => Len(p) = n - m + 1
  BY <1>0, <1>1
<1> QED
  BY <1>1, <1>5, <1>6, <1>7 DEF p

\* What two sequences hold, they hold joined.
LEMMA JoinFacts ==
    ASSUME NEW S, NEW p \in Seq(S), NEW q \in Seq(S)
    PROVE  /\ p \o q \in Seq(S) /\ Len(p \o q) = Len(p) + Len(q)
           /\ Range(p \o q) = Range(p) \cup Range(q)
           /\ IsInjective(p) /\ IsInjective(q) /\ Range(p) \cap Range(q) = {} => IsInjective(p \o q)
<1> DEFINE r == p \o q
<1>0. Len(p) \in Nat /\ Len(q) \in Nat
  BY SeqFacts
<1>1. /\ r \in Seq(S) /\ Len(r) = Len(p) + Len(q)
      /\ \A i \in 1 .. Len(p) + Len(q) : r[i] = IF i <= Len(p) THEN p[i] ELSE q[i - Len(p)]
  BY ConcatProperties
<1> HIDE DEF r
<1>2. \A e : e \in Range(p) <=> \E j \in 1 .. Len(p) : p[j] = e
  BY SeqFacts
<1>3. \A e : e \in Range(q) <=> \E j \in 1 .. Len(q) : q[j] = e
  BY SeqFacts
<1>4. \A e : e \in Range(r) <=> \E j \in 1 .. Len(r) : r[j] = e
  BY <1>1, SeqFacts
<1>5. ASSUME NEW i \in 1 .. Len(r) PROVE r[i] \in Range(p) \cup Range(q)
  <2>1. CASE i <= Len(p)
    BY <1>0, <1>1, <1>2, <2>1
  <2>2. CASE i > Len(p)
    <3>1. i - Len(p) \in 1 .. Len(q) /\ r[i] = q[i - Len(p)]
      BY <1>0, <1>1, <2>2
    <3> QED
      BY <1>3, <3>1
  <2> QED
    BY <1>0, <2>1, <2>2
<1>6. ASSUME NEW j \in 1 .. Len(p) PROVE p[j] \in Range(r)
  <2>1. j \in 1 .. Len(r) /\ r[j] = p[j]
    BY <1>0, <1>1
  <2> QED
    BY <1>4, <2>1
<1>7. ASSUME NEW j \in 1 .. Len(q) PROVE q[j] \in Range(r)
  <2>1. j + Len(p) \in 1 .. Len(r) /\ ~(j + Len(p) <= Len(p)) /\ j + Len(p) - Len(p) = j
    BY <1>0, <1>1
  <2>2. r[j + Len(p)] = q[j + Len(p) - Len(p)]
    BY <1>1, <2>1
  <2> QED
    BY <1>4, <2>1, <2>2
<1>8. Range(r) = Range(p) \cup Range(q)
  BY <1>2, <1>3, <1>4, <1>5, <1>6, <1>7
<1>9. ASSUME IsInjective(p), IsInjective(q), Range(p) \cap Range(q) = {} PROVE IsInjective(r)
  <2>1. \A a, b \in 1 .. Len(p) : p[a] = p[b] => a = b
    BY <1>9, SeqFacts
  <2>2. \A a, b \in 1 .. Len(q) : q[a] = q[b] => a = b
    BY <1>9, SeqFacts
  <2>3. \A a \in 1 .. Len(p), b \in 1 .. Len(q) : p[a] # q[b]
    BY <1>2, <1>3, <1>9
  <2>4. ASSUME NEW a \in 1 .. Len(r), NEW b \in 1 .. Len(r), r[a] = r[b] PROVE a = b
    <3>1. /\ a <= Len(p) => a \in 1 .. Len(p) /\ r[a] = p[a]
          /\ a > Len(p) => a - Len(p) \in 1 .. Len(q) /\ r[a] = q[a - Len(p)]
          /\ b <= Len(p) => b \in 1 .. Len(p) /\ r[b] = p[b]
          /\ b > Len(p) => b - Len(p) \in 1 .. Len(q) /\ r[b] = q[b - Len(p)]
      BY <1>0, <1>1
    <3>2. a \in Int /\ b \in Int
      BY <1>0, <1>1
    <3>3. CASE a <= Len(p) /\ b <= Len(p)
      BY <2>1, <2>4, <3>1, <3>3
    <3>4. CASE a > Len(p) /\ b > Len(p)
      <4>1. a - Len(p) = b - Len(p)
        BY <2>2, <2>4, <3>1, <3>4
      <4> QED
        BY <1>0, <3>2, <4>1
    <3>5. CASE a <= Len(p) /\ b > Len(p)
      BY <2>3, <2>4, <3>1, <3>5
    <3>6. CASE a > Len(p) /\ b <= Len(p)
      BY <2>3, <2>4, <3>1, <3>6
    <3> QED
      BY <1>0, <3>2, <3>3, <3>4, <3>5, <3>6
  <2> QED
    BY <1>1, <2>4, SeqFacts
<1> QED
  BY <1>1, <1>8, <1>9 DEF r

\* What a sequence holds with an element more.
LEMMA AppendFacts ==
    ASSUME NEW S, NEW q \in Seq(S), NEW e \in S
    PROVE  /\ Append(q, e) \in Seq(S) /\ Len(Append(q, e)) = Len(q) + 1
           /\ Append(q, e)[Len(q) + 1] = e
           /\ Range(Append(q, e)) = Range(q) \cup {e}
           /\ IsInjective(q) /\ e \notin Range(q) => IsInjective(Append(q, e))
<1> DEFINE r == Append(q, e)
<1>0. Len(q) \in Nat
  BY SeqFacts
<1>1. /\ r \in Seq(S) /\ Len(r) = Len(q) + 1 /\ r[Len(q) + 1] = e
      /\ \A i \in 1 .. Len(q) : r[i] = q[i]
  BY AppendProperties
<1> HIDE DEF r
<1>2. \A x : x \in Range(q) <=> \E j \in 1 .. Len(q) : q[j] = x
  BY SeqFacts
<1>3. \A x : x \in Range(r) <=> \E j \in 1 .. Len(r) : r[j] = x
  BY <1>1, SeqFacts
<1>4. Range(r) = Range(q) \cup {e}
  <2>1. ASSUME NEW i \in 1 .. Len(r) PROVE r[i] \in Range(q) \cup {e}
    BY <1>0, <1>1, <1>2
  <2>2. ASSUME NEW i \in 1 .. Len(q) PROVE q[i] \in Range(r)
    <3>1. i \in 1 .. Len(r) /\ r[i] = q[i]
      BY <1>0, <1>1
    <3> QED
      BY <1>3, <3>1
  <2>3. e \in Range(r)
    <3>1. Len(q) + 1 \in 1 .. Len(r)
      BY <1>0, <1>1
    <3> QED
      BY <1>1, <1>3, <3>1
  <2> QED
    BY <1>2, <1>3, <2>1, <2>2, <2>3
<1>5. ASSUME IsInjective(q), e \notin Range(q) PROVE IsInjective(r)
  <2>1. \A a, b \in 1 .. Len(q) : q[a] = q[b] => a = b
    BY <1>5, SeqFacts
  <2>2. \A a \in 1 .. Len(q) : q[a] # e
    BY <1>2, <1>5
  <2>3. \A a, b \in 1 .. Len(r) : r[a] = r[b] => a = b
    BY <1>0, <1>1, <2>1, <2>2
  <2> QED
    BY <1>1, <2>3, SeqFacts
<1> QED
  BY <1>1, <1>4, <1>5 DEF r

\* The two parts of a sequence without repetitions have nothing in common.
LEMMA CutFacts ==
    ASSUME NEW S, NEW q \in Seq(S), IsInjective(q), NEW n \in 0 .. Len(q)
    PROVE  /\ Range(SubSeq(q, 1, n)) \cup Range(SubSeq(q, n + 1, Len(q))) = Range(q)
           /\ Range(SubSeq(q, 1, n)) \cap Range(SubSeq(q, n + 1, Len(q))) = {}
<1>0. Len(q) \in Nat /\ n + 1 \in 1 .. Len(q) + 1 /\ 1 \in 1 .. Len(q) + 1 /\ Len(q) \in 0 .. Len(q)
  <2>1. Len(q) \in Nat
    BY SeqFacts
  <2> QED
    BY <2>1
<1>1. \A e : e \in Range(SubSeq(q, 1, n)) <=> \E j \in 1 .. n : q[j] = e
  BY <1>0, PartFacts
<1>2. \A e : e \in Range(SubSeq(q, n + 1, Len(q))) <=> \E j \in n + 1 .. Len(q) : q[j] = e
  BY <1>0, PartFacts
<1>3. \A e : e \in Range(q) <=> \E j \in 1 .. Len(q) : q[j] = e
  BY SeqFacts
<1>4. \A a, b \in 1 .. Len(q) : q[a] = q[b] => a = b
  BY SeqFacts
<1>5. \A j \in 1 .. Len(q) : j \in 1 .. n \/ j \in n + 1 .. Len(q)
  BY <1>0
<1>6. \A j \in 1 .. n : j \in 1 .. Len(q) /\ j \notin n + 1 .. Len(q)
  BY <1>0
<1>7. \A j \in n + 1 .. Len(q) : j \in 1 .. Len(q)
  BY <1>0
<1> QED
  BY <1>1, <1>2, <1>3, <1>4, <1>5, <1>6, <1>7

\* What a sequence without repetitions holds once one place is taken out.
LEMMA RemoveAtFacts ==
    ASSUME NEW S, NEW q \in Seq(S), IsInjective(q), NEW i \in 1 .. Len(q)
    PROVE  /\ RemoveAt(q, i) \in Seq(S) /\ IsInjective(RemoveAt(q, i))
           /\ Range(RemoveAt(q, i)) = Range(q) \ {q[i]}
           /\ Len(RemoveAt(q, i)) = Len(q) - 1
<1> DEFINE a == SubSeq(q, 1, i - 1)
           b == SubSeq(q, i + 1, Len(q))
           w == RemoveAt(q, i)
<1>1. /\ Len(q) \in Nat /\ \A e : e \in Range(q) <=> \E j \in 1 .. Len(q) : q[j] = e
      /\ \A c, d \in 1 .. Len(q) : q[c] = q[d] => c = d
  BY SeqFacts
<1>2. w = a \o b
  BY DEF RemoveAt
<1> HIDE DEF w
<1>3. /\ a \in Seq(S) /\ IsInjective(a) /\ Len(a) = i - 1
      /\ \A e : e \in Range(a) <=> \E j \in 1 .. i - 1 : q[j] = e
  <2>1. 1 \in 1 .. Len(q) + 1 /\ i - 1 \in 0 .. Len(q) /\ i - 1 - 1 + 1 = i - 1 /\ 1 <= i - 1 + 1
    BY <1>1
  <2> QED
    BY <2>1, PartFacts
<1>4. /\ b \in Seq(S) /\ IsInjective(b) /\ Len(b) = Len(q) - i
      /\ \A e : e \in Range(b) <=> \E j \in i + 1 .. Len(q) : q[j] = e
  <2>1. /\ i + 1 \in 1 .. Len(q) + 1 /\ Len(q) \in 0 .. Len(q)
        /\ i + 1 <= Len(q) + 1 /\ Len(q) - (i + 1) + 1 = Len(q) - i
    BY <1>1
  <2>2. /\ b \in Seq(S) /\ IsInjective(b) /\ Len(b) = Len(q) - (i + 1) + 1
        /\ \A e : e \in Range(b) <=> \E j \in i + 1 .. Len(q) : q[j] = e
    <3> PICK m, n : m = i + 1 /\ n = Len(q)
      OBVIOUS
    <3>1. m \in 1 .. Len(q) + 1 /\ n \in 0 .. Len(q) /\ m <= n + 1
      BY <2>1
    <3>2. /\ SubSeq(q, m, n) \in Seq(S) /\ IsInjective(SubSeq(q, m, n)) /\ Len(SubSeq(q, m, n)) = n - m + 1
          /\ \A e : e \in Range(SubSeq(q, m, n)) <=> \E j \in m .. n : q[j] = e
      BY <3>1, PartFacts
    <3> QED
      BY <3>2
  <2> HIDE DEF b
  <2> QED
    BY <2>1, <2>2
<1> HIDE DEF a, b
<1>5. \A j \in 1 .. i - 1 : j \in 1 .. Len(q) /\ j # i /\ j \notin i + 1 .. Len(q)
  BY <1>1
<1>6. \A j \in i + 1 .. Len(q) : j \in 1 .. Len(q) /\ j # i
  BY <1>1
<1>7. \A j \in 1 .. Len(q) : j = i \/ j \in 1 .. i - 1 \/ j \in i + 1 .. Len(q)
  BY <1>1
<1>8. Range(a) \cap Range(b) = {}
  BY <1>1, <1>3, <1>4, <1>5, <1>6
<1>9. Range(a) \cup Range(b) = Range(q) \ {q[i]}
  BY <1>1, <1>3, <1>4, <1>5, <1>6, <1>7, SMTT(30)
<1>10. /\ w \in Seq(S) /\ IsInjective(w) /\ Range(w) = Range(a) \cup Range(b)
       /\ Len(w) = Len(a) + Len(b)
  <2>1. a \in Seq(S) /\ b \in Seq(S) /\ IsInjective(a) /\ IsInjective(b)
    BY <1>3, <1>4
  <2> QED
    BY <1>2, <1>8, <2>1, JoinFacts
<1>11. Len(w) = Len(q) - 1
  BY <1>1, <1>3, <1>4, <1>10
<1> QED
  BY <1>9, <1>10, <1>11 DEF w

\* Without its head a sequence without repetitions holds the others.
LEMMA TailFacts ==
    ASSUME NEW S, NEW q \in Seq(S), IsInjective(q), q # <<>>
    PROVE  /\ Tail(q) \in Seq(S) /\ IsInjective(Tail(q))
           /\ Range(Tail(q)) = Range(q) \ {Head(q)} /\ Len(Tail(q)) = Len(q) - 1
<1> DEFINE t == Tail(q)
<1>1. /\ Len(q) \in Nat /\ \A e : e \in Range(q) <=> \E j \in 1 .. Len(q) : q[j] = e
      /\ \A a, b \in 1 .. Len(q) : q[a] = q[b] => a = b
  BY SeqFacts
<1>2. /\ t \in Seq(S) /\ Len(t) = Len(q) - 1 /\ \A i \in 1 .. Len(t) : t[i] = q[i + 1]
  BY HeadTailProperties
<1>3. Head(q) = q[1] /\ 1 \in 1 .. Len(q)
  BY <1>1, EmptySeq
<1> HIDE DEF t
<1>4. /\ Len(t) \in Nat /\ \A e : e \in Range(t) <=> \E j \in 1 .. Len(t) : t[j] = e
      /\ (\A a, b \in 1 .. Len(t) : t[a] = t[b] => a = b) => IsInjective(t)
  BY <1>2, SeqFacts
<1>5. \A i \in 1 .. Len(t) : i + 1 \in 1 .. Len(q) /\ i + 1 # 1
  BY <1>1, <1>2
<1>6. \A j \in 1 .. Len(q) : j = 1 \/ (j - 1 \in 1 .. Len(t) /\ j - 1 + 1 = j)
  BY <1>1, <1>2
<1>7. IsInjective(t)
  <2>1. ASSUME NEW a \in 1 .. Len(t), NEW b \in 1 .. Len(t), t[a] = t[b]
        PROVE  a = b
    <3>1. a + 1 = b + 1
      BY <1>1, <1>2, <1>5, <2>1
    <3> QED
      BY <3>1
  <2> QED
    BY <1>4, <2>1
<1>8. Range(t) = Range(q) \ {Head(q)}
  <2>1. ASSUME NEW e \in Range(t) PROVE e \in Range(q) \ {Head(q)}
    <3>1. PICK i \in 1 .. Len(t) : t[i] = e
      BY <1>4
    <3>2. e = q[i + 1]
      BY <1>2, <3>1
    <3> QED
      BY <1>1, <1>3, <1>5, <3>2
  <2>2. ASSUME NEW e \in Range(q) \ {Head(q)} PROVE e \in Range(t)
    <3>1. PICK j \in 1 .. Len(q) : q[j] = e
      BY <1>1
    <3>2. j - 1 \in 1 .. Len(t) /\ j - 1 + 1 = j
      BY <1>3, <1>6, <2>2, <3>1
    <3>3. t[j - 1] = e
      BY <1>2, <3>1, <3>2
    <3> QED
      BY <1>4, <3>2, <3>3
  <2> QED
    BY <2>1, <2>2
<1> QED
  BY <1>2, <1>7, <1>8 DEF t

\* The end of a sequence, after its first n elements.
LEMMA EndFacts ==
    ASSUME NEW S, NEW q \in Seq(S), NEW n \in 0 .. Len(q)
    PROVE  /\ SubSeq(q, n + 1, Len(q)) \in Seq(S) /\ Len(SubSeq(q, n + 1, Len(q))) = Len(q) - n
           /\ \A i \in 1 .. Len(q) - n : SubSeq(q, n + 1, Len(q))[i] = q[n + i]
<1> DEFINE m == n + 1
           l == Len(q)
<1>1. l \in Nat /\ \A i \in 1 .. l : q[i] \in S
  BY SeqFacts, ElementOfSeq
<1>2. /\ m \in Int /\ l \in Int /\ l - m + 1 = l - n
      /\ (IF m <= l THEN l - m + 1 ELSE 0) = l - n
  BY <1>1
<1>3. \A i \in m .. l : i \in 1 .. l
  BY <1>1
<1>4. \A i \in m .. l : q[i] \in S
  BY <1>1, <1>3
<1>5. \A i \in 1 .. l - n : m + i - 1 = n + i
  BY <1>1
<1> HIDE DEF m, l
<1>6. /\ SubSeq(q, m, l) \in Seq(S) /\ Len(SubSeq(q, m, l)) = IF m <= l THEN l - m + 1 ELSE 0
      /\ \A i \in 1 .. l - m + 1 : SubSeq(q, m, l)[i] = q[m + i - 1]
  BY <1>2, <1>4, SubSeqProperties
<1>7. /\ SubSeq(q, m, l) \in Seq(S) /\ Len(SubSeq(q, m, l)) = l - n
      /\ \A i \in 1 .. l - n : SubSeq(q, m, l)[i] = q[n + i]
  BY <1>2, <1>5, <1>6
<1> QED
  BY <1>7 DEF m, l

\* A function from 1 .. n is a sequence of n elements.
LEMMA FunctionIsSeq ==
    ASSUME NEW S, NEW n \in Nat, NEW f \in [1 .. n -> S]
    PROVE  f \in Seq(S) /\ Len(f) = n
<1>1. f \in Seq(S)
  BY SeqDef
<1>2. DOMAIN f = 1 .. Len(f) /\ Len(f) \in Nat
  BY <1>1, LenProperties
<1>3. DOMAIN f = 1 .. n
  OBVIOUS
<1>4. 1 .. n = 1 .. Len(f)
  BY <1>2, <1>3
<1>5. n \in 1 .. n \/ n = 0
  OBVIOUS
<1>6. Len(f) \in 1 .. Len(f) \/ Len(f) = 0
  BY <1>2
<1>7. Len(f) = n
  BY <1>2, <1>4, <1>5, <1>6
<1> QED
  BY <1>1, <1>7

\* The end of two sequences joined is the second.
LEMMA EndOfJoin ==
    ASSUME NEW S, NEW p \in Seq(S), NEW q \in Seq(S)
    PROVE  SubSeq(p \o q, Len(p) + 1, Len(p \o q)) = q
<1> DEFINE r == p \o q
           n == Len(p)
           m == Len(q)
           e == SubSeq(r, n + 1, n + m)
<1>0. n \in Nat /\ m \in Nat
  BY SeqFacts
<1>1. /\ r \in Seq(S) /\ Len(r) = n + m
      /\ \A i \in 1 .. n + m : r[i] = IF i <= n THEN p[i] ELSE q[i - n]
  BY ConcatProperties
<1> HIDE DEF r, n, m
<1>2. \A i \in n + 1 .. n + m : i \in 1 .. n + m /\ i <= Len(r) /\ ~(i <= n)
  BY <1>0, <1>1
<1>3. \A i \in n + 1 .. n + m : r[i] = q[i - n] /\ r[i] \in S
  <2>1. \A i \in n + 1 .. n + m : i \in 1 .. Len(r)
    BY <1>1, <1>2
  <2> QED
    BY <1>1, <1>2, <2>1, ElementOfSeq
<1>4. /\ e \in Seq(S) /\ Len(e) = m
      /\ \A i \in 1 .. m : e[i] = r[n + 1 + i - 1]
  <2> DEFINE a == n + 1
             b == n + m
  <2>1. a \in Int /\ b \in Int /\ b - a + 1 = m /\ (IF a <= b THEN b - a + 1 ELSE 0) = m
    BY <1>0
  <2>2. \A i \in a .. b : r[i] \in S
    BY <1>3
  <2> HIDE DEF a, b
  <2>3. /\ SubSeq(r, a, b) \in Seq(S)
        /\ Len(SubSeq(r, a, b)) = IF a <= b THEN b - a + 1 ELSE 0
        /\ \A i \in 1 .. b - a + 1 : SubSeq(r, a, b)[i] = r[a + i - 1]
    BY <2>1, <2>2, SubSeqProperties
  <2>4. e = SubSeq(r, a, b)
    BY DEF a, b
  <2> HIDE DEF e
  <2> QED
    BY <2>1, <2>3, <2>4 DEF a
<1> HIDE DEF e
<1>5. ASSUME NEW i \in 1 .. m PROVE e[i] = q[i]
  <2> DEFINE k == n + i
  <2>1. k \in n + 1 .. n + m /\ n + 1 + i - 1 = k /\ k - n = i
    BY <1>0
  <2> HIDE DEF k
  <2>2. e[i] = r[k]
    BY <1>4, <2>1
  <2>3. r[k] = q[k - n]
    BY <1>3, <2>1
  <2> QED
    BY <2>1, <2>2, <2>3
<1>6. e = q
  <2>1. \A i \in 1 .. Len(e) : e[i] = q[i]
    BY <1>4, <1>5
  <2> QED
    BY <1>4, <2>1, SeqEqual DEF m
<1> QED
  BY <1>1, <1>6 DEF e, r, n

\* The places kept, in their order: one comes first, one second, and so on.
LEMMA RanksAreMet ==
    ASSUME NEW n \in Nat, NEW at, at \subseteq 1 .. n
    PROVE  /\ Cardinality(at) \in Nat
           /\ \A k \in 1 .. Cardinality(at) : \E i \in at : Cardinality({j \in at : j <= i}) = k
           /\ \A i \in at : Cardinality({j \in at : j <= i}) \in 1 .. Cardinality(at)
           /\ \A i, k \in at : Cardinality({j \in at : j <= i}) = Cardinality({j \in at : j <= k}) => i = k
<1> DEFINE Rank == [i \in at |-> Cardinality({j \in at : j <= i})]
           size == Cardinality(at)
<1>1. IsFiniteSet(at) /\ size \in Nat /\ at \subseteq Nat
  <2>1. IsFiniteSet(1 .. n) /\ at \in SUBSET (1 .. n)
    BY FS_Interval
  <2>2. IsFiniteSet(at)
    BY <2>1, FS_Subset
  <2>3. Cardinality(at) \in Nat
    BY <2>2, FS_CardinalityType
  <2> QED
    BY <2>2, <2>3
<1>2. \A i \in at : IsFiniteSet({j \in at : j <= i}) /\ Cardinality({j \in at : j <= i}) \in 1 .. size
  <2> SUFFICES ASSUME NEW i \in at
               PROVE  IsFiniteSet({j \in at : j <= i}) /\ Cardinality({j \in at : j <= i}) \in 1 .. size
    OBVIOUS
  <2> DEFINE upTo == {j \in at : j <= i}
  <2>1. upTo \in SUBSET at /\ i \in upTo /\ upTo # {}
    BY <1>1
  <2> HIDE DEF upTo
  <2>2. IsFiniteSet(upTo) /\ Cardinality(upTo) <= size
    BY <1>1, <2>1, FS_Subset
  <2>3. Cardinality(upTo) \in Nat /\ Cardinality(upTo) # 0
    BY <2>1, <2>2, FS_CardinalityType, FS_EmptySet
  <2>4. IsFiniteSet(upTo) /\ Cardinality(upTo) \in 1 .. size
    BY <1>1, <2>2, <2>3
  <2> QED
    BY <2>4 DEF upTo
<1>3. \A i, k \in at : Cardinality({j \in at : j <= i}) = Cardinality({j \in at : j <= k}) => i = k
  <2>1. ASSUME NEW i \in at, NEW k \in at, i < k
        PROVE  Cardinality({j \in at : j <= i}) # Cardinality({j \in at : j <= k})
    <3> DEFINE fewer == {j \in at : j <= i}
               more == {j \in at : j <= k}
    <3>1. \A j \in at : j \in Nat
      BY <1>1
    <3>2. \A j : j \in fewer => j \in more
      BY <2>1, <3>1
    <3>3. k \in more /\ k \notin fewer
      BY <2>1, <3>1
    <3>4. IsFiniteSet(more)
      BY <1>2
    <3> HIDE DEF fewer, more
    <3>5. fewer \in SUBSET more
      BY <3>2
    <3>6. Cardinality(fewer) # Cardinality(more)
      BY <3>3, <3>4, <3>5, FS_Subset
    <3> QED
      BY <3>6 DEF fewer, more
  <2> QED
    BY <1>1, <2>1
<1>4. Rank \in Injection(at, 1 .. size)
  BY <1>2, <1>3 DEF Injection, IsInjective
<1>5. IsFiniteSet(1 .. size) /\ Cardinality(1 .. size) = size
  BY <1>1, FS_Interval
<1>6. \A i \in at : Rank[i] = Cardinality({j \in at : j <= i})
  OBVIOUS
<1> HIDE DEF Rank, size
<1>7. Rank \in Surjection(at, 1 .. size)
  <2>1. Cardinality(at) = Cardinality(1 .. size)
    BY <1>5 DEF size
  <2> QED
    BY <1>4, <1>5, <2>1, FS_Injection
<1>8. \A k \in 1 .. size : \E i \in at : Rank[i] = k
  BY <1>7 DEF Surjection
<1> QED
  BY <1>1, <1>2, <1>3, <1>6, <1>8 DEF size

\* A set laid out as a list.
LEMMA ListOfSet ==
    ASSUME NEW S, IsFiniteSet(S)
    PROVE  SetToSeq(S) \in Seq(S) /\ ToSet(SetToSeq(S)) = S /\ IsInjective(SetToSeq(S))
<1> PICK n : n = Cardinality(S)
  OBVIOUS
<1>1. n \in Nat /\ ExistsBijection(1 .. n, S)
  BY FS_CardinalityType
<1>2. \E f \in [1 .. n -> S] : IsInjective(f)
  BY <1>1 DEF ExistsBijection, Bijection, Injection, IsInjective
<1> PICK f : f = SetToSeq(S)
  OBVIOUS
<1>3. f \in [1 .. n -> S] /\ IsInjective(f)
  BY <1>2 DEF SetToSeq
<1>a. f \in Injection(1 .. n, S)
  BY <1>3 DEF Injection
<1>b. IsFiniteSet(1 .. n) /\ Cardinality(1 .. n) = n
  BY <1>1, FS_Interval
<1>4. f \in Injection(1 .. n, S) /\ IsFiniteSet(1 .. n) /\ Cardinality(1 .. n) = n
  BY <1>a, <1>b
<1>5. f \in Surjection(1 .. n, S)
  BY <1>4, FS_Injection
<1>6. ToSet(f) = S
  BY <1>3, <1>5 DEF ToSet, Surjection
<1> QED
  BY <1>1, <1>3, <1>6, SeqDef
=============================================================================
