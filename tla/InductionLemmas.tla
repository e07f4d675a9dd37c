--------------------------- MODULE InductionLemmas ---------------------------
(***************************************************************************)
(* Induction for the proofs about data.  The induction theorems of the      *)
(* library take an operator, which no prover here can instantiate; these    *)
(* take a set of numbers, for which a formula is given by the set of the    *)
(* numbers that satisfy it, and what is folded takes a function.  The same  *)
(* for finite sets, and for the sums over them.                             *)
(***************************************************************************)
EXTENDS Integers, SequencesExt, FiniteSetTheorems, SequenceTheorems, WellFoundedInduction, TLAPS

LEMMA LeastNumber ==
    ASSUME NEW T \in SUBSET Nat, T # {}
    PROVE  \E n \in T : \A m \in T : n <= m
<1> DEFINE R == OpToRel(<, Nat)
<1>1. R = {p \in Nat \X Nat : p[1] < p[2]}
  BY DEF OpToRel
<1>2. IsWellFoundedOn(R, Nat)
  BY NatLessThanWellFounded
<1> HIDE DEF R
<1>3. PICK n \in T : \A m \in T : <<m, n>> \notin R
  BY <1>2, WFMin
<1>4. ASSUME NEW m \in T PROVE n <= m
  <2>1. <<m, n>> \notin {p \in Nat \X Nat : p[1] < p[2]}
    BY <1>1, <1>3
  <2> QED
    BY <2>1
<1> QED
  BY <1>4

LEMMA Induction ==
    ASSUME NEW P \in SUBSET Nat, 0 \in P, \A n \in P : n + 1 \in P
    PROVE  \A n \in Nat : n \in P
<1> SUFFICES ASSUME NEW k \in Nat, k \notin P PROVE FALSE
  OBVIOUS
<1>1. PICK n \in Nat \ P : \A m \in Nat \ P : n <= m
  BY LeastNumber
<1>2. n # 0 /\ n - 1 \in Nat
  BY <1>1
<1>3. n - 1 \in P
  BY <1>1, <1>2
<1>4. (n - 1) + 1 \in P
  BY <1>3
<1> QED
  BY <1>1, <1>2, <1>4

\* The largest of the numbers a fold over a sequence has left.
LEMMA LargestNumber ==
    ASSUME NEW n \in Nat, NEW s \in SUBSET (1..n), s # {}
    PROVE  Max(s) \in s /\ \A k \in s : k <= Max(s)
<1> DEFINE T == {n - k : k \in s}
<1>1. \A k \in s : k \in Nat /\ n - k \in Nat
  OBVIOUS
<1>2. T \in SUBSET Nat /\ T # {}
  BY <1>1
<1>3. PICK m \in T : \A k \in T : m <= k
  BY <1>2, LeastNumber
<1>4. PICK x \in s : m = n - x
  BY <1>3
<1>5. \A k \in s : x >= k
  BY <1>3, <1>4
<1>6. \E y \in s : \A k \in s : y >= k
  BY <1>5
<1> QED
  BY <1>6 DEF Max

-----------------------------------------------------------------------------
(***************************************************************************)
(* FoldLeft of the community modules takes the elements of the sequence from*)
(* the last one down: what it has of the elements at s is g[s].             *)
(***************************************************************************)
LEMMA LastTaken ==
    ASSUME NEW k \in Nat
    PROVE  /\ 1..(k + 1) # {} /\ 1..(k + 1) \in SUBSET (1..(k + 1))
           /\ Max(1..(k + 1)) = k + 1
           /\ (1..(k + 1)) \ {k + 1} = 1..k
<1> DEFINE s == 1..(k + 1)
<1>1. k + 1 \in Nat /\ k + 1 \in s
  OBVIOUS
<1>2. s # {} /\ s \in SUBSET (1..(k + 1)) /\ s \ {k + 1} = 1..k
  BY <1>1
<1>3. \A m \in s : (\A j \in s : j <= m) => m = k + 1
  BY <1>1
<1> HIDE DEF s
<1>4. Max(s) \in s /\ \A j \in s : j <= Max(s)
  BY <1>1, <1>2, LargestNumber
<1>5. Max(s) = k + 1
  BY <1>3, <1>4
<1> QED
  BY <1>2, <1>5 DEF s

\* A fold stays where each of its steps does.
LEMMA FoldRange ==
    ASSUME NEW X, NEW n \in Nat, NEW g, g[{}] \in X,
           \A s \in SUBSET (1..n) : s # {} /\ g[s \ {Max(s)}] \in X => g[s] \in X
    PROVE  g[1..n] \in X
<1> DEFINE P == {k \in Nat : k <= n => g[1..k] \in X}
<1>1. 0 \in P
  <2>1. 1..0 = {}
    OBVIOUS
  <2> QED
    BY <2>1
<1>2. ASSUME NEW k \in P PROVE k + 1 \in P
  <2>1. k \in Nat /\ k + 1 \in Nat
    OBVIOUS
  <2>2. ASSUME k + 1 <= n PROVE g[1..(k + 1)] \in X
    <3>1. g[1..k] \in X /\ 1..(k + 1) \in SUBSET (1..n)
      BY <2>1, <2>2
    <3> QED
      BY <2>1, <3>1, LastTaken
  <2> QED
    BY <2>1, <2>2
<1>3. n \in P
  BY <1>1, <1>2, Induction
<1> QED
  BY <1>3

Folding(g, X, b, F, seq, n) ==
    /\ g \in [SUBSET (1..n) -> X]
    /\ \A s \in SUBSET (1..n) :
            g[s] = IF s = {} THEN b ELSE F[<<g[s \ {Max(s)}], seq[Max(s)]>>]

\* There is such a g, for any step F.
LEMMA FoldExists ==
    ASSUME NEW X, NEW E, NEW F \in [X \X E -> X], NEW b \in X,
           NEW n \in Nat, NEW seq, \A k \in 1..n : seq[k] \in E
    PROVE  \E g : Folding(g, X, b, F, seq, n)
<1> DEFINE Step(g, s) == IF s = {} THEN b ELSE F[<<g[s \ {Max(s)}], seq[Max(s)]>>]
           Folds(g, k) == g \in [SUBSET (1..k) -> X] /\ \A s \in SUBSET (1..k) : g[s] = Step(g, s)
           Possible(k) == \E g : Folds(g, k)
           P == {k \in Nat : k <= n => Possible(k)}
<1>1. 0 \in P
  <2> DEFINE g == [s \in SUBSET (1..0) |-> b]
  <2>1. \A s \in SUBSET (1..0) : s = {}
    OBVIOUS
  <2>2. Folds(g, 0)
    BY <2>1
  <2> HIDE DEF g, Folds
  <2> QED
    BY <2>2
<1>2. ASSUME NEW k \in P PROVE k + 1 \in P
  <2>1. k \in Nat /\ k + 1 \in Nat
    OBVIOUS
  <2> HIDE DEF Possible
  <2> SUFFICES ASSUME k + 1 <= n PROVE Possible(k + 1)
    BY <2>1
  <2>2. Possible(k)
    BY <2>1
  <2>3. PICK g : Folds(g, k)
    BY <2>2 DEF Possible
  <2>4. seq[k + 1] \in E
    BY <2>1
  <2> DEFINE h == [s \in SUBSET (1..(k + 1)) |->
                        IF k + 1 \in s THEN F[<<g[s \ {k + 1}], seq[k + 1]>>] ELSE g[s]]
  <2>5. ASSUME NEW s \in SUBSET (1..(k + 1)) PROVE h[s] \in X /\ h[s] = Step(h, s)
    <3>1. CASE s = {}
      BY <2>3, <3>1
    <3>2. CASE k + 1 \in s
      <4>1. s # {}
        BY <3>2
      <4>2. Max(s) \in s /\ \A j \in s : j <= Max(s)
        BY <2>1, <4>1, LargestNumber
      <4>3. \A m \in s : (\A j \in s : j <= m) => m = k + 1
        BY <2>1, <3>2
      <4>4. Max(s) = k + 1
        BY <4>2, <4>3
      <4>5. s \ {k + 1} \in SUBSET (1..k)
        BY <2>1
      <4>6. h[s \ {k + 1}] = g[s \ {k + 1}] /\ g[s \ {k + 1}] \in X
        BY <2>3, <4>5
      <4>7. h[s] = F[<<g[s \ {k + 1}], seq[k + 1]>>]
        BY <3>2
      <4> QED
        BY <2>4, <4>1, <4>4, <4>6, <4>7
    <3>3. CASE s # {} /\ k + 1 \notin s
      <4>1. Max(s) \in s
        BY <2>1, <3>3, LargestNumber
      <4>2. s \in SUBSET (1..k)
        BY <2>1, <3>3
      <4>3. s \ {Max(s)} \in SUBSET (1..(k + 1)) /\ k + 1 \notin s \ {Max(s)}
        BY <3>3
      <4>4. h[s] = g[s] /\ h[s \ {Max(s)}] = g[s \ {Max(s)}]
        BY <3>3, <4>3
      <4>5. g[s] = F[<<g[s \ {Max(s)}], seq[Max(s)]>>] /\ g[s] \in X
        BY <2>3, <3>3, <4>2
      <4> QED
        BY <3>3, <4>4, <4>5
    <3> QED
      BY <3>1, <3>2, <3>3
  <2>6. Folds(h, k + 1)
    BY <2>5
  <2> HIDE DEF h, Folds
  <2> QED
    BY <2>6 DEF Possible
<1> HIDE DEF Possible
<1>3. n \in P
  BY <1>1, <1>2, Induction
<1>4. Possible(n)
  BY <1>3
<1>5. PICK g : Folds(g, n)
  BY <1>4 DEF Possible
<1>6. Folding(g, X, b, F, seq, n)
  BY <1>5 DEF Folding
<1> QED
  BY <1>6

-----------------------------------------------------------------------------
(***************************************************************************)
(* Sums over finite sets.                                                   *)
(***************************************************************************)
\* What holds of a set if it does without each of its elements holds of every
\* part of a finite set.
LEMMA FiniteInduction ==
    ASSUME NEW S, IsFiniteSet(S), NEW P, {} \in P,
           \A T \in SUBSET S : T # {} /\ (\A x \in T : T \ {x} \in P) => T \in P
    PROVE  \A T \in SUBSET S : T \in P
<1> DEFINE N == {n \in Nat : \A T \in SUBSET S : Cardinality(T) = n => T \in P}
<1>1. \A T \in SUBSET S : IsFiniteSet(T) /\ Cardinality(T) \in Nat
  BY FS_Subset, FS_CardinalityType
<1>2. 0 \in N
  BY <1>1, FS_EmptySet
<1>3. ASSUME NEW n \in N PROVE n + 1 \in N
  <2>1. n \in Nat /\ n + 1 \in Nat /\ n + 1 # 0 /\ (n + 1) - 1 = n
    OBVIOUS
  <2>2. ASSUME NEW T \in SUBSET S, Cardinality(T) = n + 1 PROVE T \in P
    <3>1. T # {}
      BY <2>1, <2>2, FS_EmptySet
    <3>2. ASSUME NEW x \in T PROVE T \ {x} \in P
      <4>1. Cardinality(T \ {x}) = n
        BY <1>1, <2>1, <2>2, FS_RemoveElement
      <4> QED
        BY <4>1
    <3> QED
      BY <3>1, <3>2
  <2> QED
    BY <2>1, <2>2
<1>4. \A n \in Nat : n \in N
  <2> HIDE DEF N
  <2>1. N \in SUBSET Nat
    BY DEF N
  <2> QED
    BY <1>2, <1>3, <2>1, Induction
<1> QED
  BY <1>1, <1>4

Some(s) == CHOOSE x \in s : TRUE

\* g[s] is the sum of f over s, added up as the community modules do.
Summing(g, f, S) ==
    g = [s \in SUBSET S |-> IF s = {} THEN 0 ELSE f[Some(s)] + g[s \ {Some(s)}]]

LEMMA SumIsFold ==
    ASSUME NEW f, NEW S
    PROVE  SumFunctionOnSet(f, S) = (CHOOSE g : Summing(g, f, S))[S]
BY DEF SumFunctionOnSet, FoldFunctionOnSet, MapThenFoldSet, Summing, Some

LEMMA SomeIsElement ==
    ASSUME NEW s, s # {}
    PROVE  Some(s) \in s
BY DEF Some

LEMMA SummingExists ==
    ASSUME NEW S, IsFiniteSet(S), NEW f, \A x \in S : f[x] \in Int
    PROVE  \E g : Summing(g, f, S)
<1> DEFINE Step(g, s) == IF s = {} THEN 0 ELSE f[Some(s)] + g[s \ {Some(s)}]
           Sums(g, n) == /\ g \in [SUBSET S -> Int]
                         /\ \A s \in SUBSET S : Cardinality(s) <= n => g[s] = Step(g, s)
           Possible(n) == \E g : Sums(g, n)
           P == {n \in Nat : Possible(n)}
<1>1. \A s \in SUBSET S : IsFiniteSet(s) /\ Cardinality(s) \in Nat
  BY FS_Subset, FS_CardinalityType
<1>2. ASSUME NEW s \in SUBSET S, s # {}
      PROVE  /\ Some(s) \in S /\ s \ {Some(s)} \in SUBSET S
             /\ Cardinality(s \ {Some(s)}) = Cardinality(s) - 1 /\ f[Some(s)] \in Int
  BY <1>1, <1>2, SomeIsElement, FS_RemoveElement
<1>3. 0 \in P
  <2> DEFINE g == [s \in SUBSET S |-> 0]
  <2>1. \A s \in SUBSET S : Cardinality(s) <= 0 => s = {}
    BY <1>1, FS_EmptySet
  <2>2. Sums(g, 0)
    BY <2>1
  <2> HIDE DEF g, Sums
  <2> QED
    BY <2>2
<1>4. ASSUME NEW n \in P PROVE n + 1 \in P
  <2>1. n \in Nat /\ n + 1 \in Nat
    OBVIOUS
  <2>2. PICK g : Sums(g, n)
    OBVIOUS
  <2> DEFINE h == [s \in SUBSET S |-> IF Cardinality(s) = n + 1 THEN Step(g, s) ELSE g[s]]
  <2>3. ASSUME NEW s \in SUBSET S PROVE Step(g, s) \in Int /\ g[s] \in Int
    BY <1>2, <2>2
  <2>4. h \in [SUBSET S -> Int]
    BY <2>3
  <2>5. ASSUME NEW s \in SUBSET S, Cardinality(s) <= n + 1 PROVE h[s] = Step(h, s)
    <3>1. h[s] = Step(g, s)
      <4>1. CASE Cardinality(s) = n + 1
        BY <4>1
      <4>2. CASE Cardinality(s) <= n
        BY <2>1, <2>2, <4>2
      <4> QED
        BY <1>1, <2>1, <2>5, <4>1, <4>2
    <3>2. CASE s = {}
      BY <3>1, <3>2
    <3>3. CASE s # {}
      <4>1. Cardinality(s \ {Some(s)}) # n + 1
        BY <1>1, <1>2, <2>1, <2>5, <3>3
      <4>2. h[s \ {Some(s)}] = g[s \ {Some(s)}]
        BY <1>2, <3>3, <4>1
      <4> QED
        BY <3>1, <3>3, <4>2
    <3> QED
      BY <3>2, <3>3
  <2>6. Sums(h, n + 1)
    <3> HIDE DEF h
    <3> QED
      BY <2>4, <2>5
  <2> HIDE DEF h, Sums
  <2>7. Possible(n + 1)
    BY <2>6
  <2> QED
    BY <2>1, <2>7
<1>5. Possible(Cardinality(S))
  <2> HIDE DEF Possible
  <2>1. P \in SUBSET Nat /\ Cardinality(S) \in Nat
    BY <1>1
  <2> HIDE DEF P
  <2>2. Cardinality(S) \in P
    BY <1>3, <1>4, <2>1, Induction
  <2> QED
    BY <2>2 DEF P
<1>6. PICK g : Sums(g, Cardinality(S))
  BY <1>5
<1>7. \A s \in SUBSET S : Cardinality(s) <= Cardinality(S)
  BY FS_Subset
<1>8. \A s \in SUBSET S : g[s] = Step(g, s)
  BY <1>6, <1>7
<1>9. Summing(g, f, S)
  BY <1>6, <1>8 DEF Summing
<1> QED
  BY <1>9

LEMMA SumEmpty ==
    ASSUME NEW f
    PROVE  SumFunctionOnSet(f, {}) = 0
<1>1. PICK g : Summing(g, f, {})
  BY SummingExists, FS_EmptySet
<1> DEFINE h == CHOOSE i : Summing(i, f, {})
<1>2. Summing(h, f, {})
  BY <1>1
<1> HIDE DEF h
<1>3. h[{}] = 0
  BY <1>2 DEF Summing
<1> QED
  BY <1>3, SumIsFold DEF h

LEMMA SumChosen ==
    ASSUME NEW S, IsFiniteSet(S), S # {}, NEW f, \A x \in S : f[x] \in Int
    PROVE  SumFunctionOnSet(f, S) = f[Some(S)] + SumFunctionOnSet(f, S \ {Some(S)})
<1> DEFINE T == S \ {Some(S)}
           g == CHOOSE i : Summing(i, f, S)
           h == CHOOSE i : Summing(i, f, T)
           P == {s \in SUBSET T : g[s] = h[s]}
<1>1. IsFiniteSet(T) /\ T \in SUBSET S
  BY FS_Subset
<1>2. SumFunctionOnSet(f, S) = g[S] /\ SumFunctionOnSet(f, T) = h[T]
  BY SumIsFold
<1> HIDE DEF T
<1>3. Summing(g, f, S) /\ Summing(h, f, T)
  BY <1>1, SummingExists
<1> HIDE DEF g, h
<1>4. {} \in P
  BY <1>3 DEF Summing
<1>5. \A s \in SUBSET T : s # {} /\ (\A x \in s : s \ {x} \in P) => s \in P
  BY <1>1, <1>3, SomeIsElement DEF Summing
<1>6. g[T] = h[T]
  <2> HIDE DEF P
  <2>1. \A s \in SUBSET T : s \in P
    BY <1>1, <1>4, <1>5, FiniteInduction, Zenon
  <2>2. T \in P
    BY <2>1
  <2> QED
    BY <2>2 DEF P
<1>7. g[S] = f[Some(S)] + g[T]
  BY <1>3 DEF Summing, T
<1> QED
  BY <1>2, <1>6, <1>7 DEF T

LEMMA SumInt ==
    ASSUME NEW S, IsFiniteSet(S), NEW f, \A x \in S : f[x] \in Int
    PROVE  SumFunctionOnSet(f, S) \in Int
<1> DEFINE P == {T \in SUBSET S : SumFunctionOnSet(f, T) \in Int}
<1>1. {} \in P
  BY SumEmpty
<1>2. ASSUME NEW T \in SUBSET S, T # {}, \A x \in T : T \ {x} \in P PROVE T \in P
  <2>1. IsFiniteSet(T) /\ \A x \in T : f[x] \in Int
    BY FS_Subset
  <2>2. Some(T) \in T
    BY <1>2, SomeIsElement
  <2>3. SumFunctionOnSet(f, T) = f[Some(T)] + SumFunctionOnSet(f, T \ {Some(T)})
    BY <1>2, <2>1, SumChosen
  <2> QED
    BY <1>2, <2>1, <2>2, <2>3
<1>3. S \in P
  <2> HIDE DEF P
  <2>1. \A T \in SUBSET S : T \in P
    BY <1>1, <1>2, FiniteInduction, Zenon
  <2> QED
    BY <2>1
<1> QED
  BY <1>3

\* In whatever order the elements are taken, the sum is the same.
LEMMA SumRemove ==
    ASSUME NEW S, IsFiniteSet(S), NEW f, \A x \in S : f[x] \in Int
    PROVE  \A x \in S : SumFunctionOnSet(f, S) = f[x] + SumFunctionOnSet(f, S \ {x})
<1> DEFINE Sum(T) == SumFunctionOnSet(f, T)
           P == {T \in SUBSET S : \A x \in T : Sum(T) = f[x] + Sum(T \ {x})}
<1>1. {} \in P
  OBVIOUS
<1>2. ASSUME NEW T \in SUBSET S, T # {}, \A x \in T : T \ {x} \in P PROVE T \in P
  <2>1. \A Q \in SUBSET T : IsFiniteSet(Q) /\ Sum(Q) \in Int
    BY FS_Subset, SumInt
  <2>2. PICK c \in T : Sum(T) = f[c] + Sum(T \ {c})
    <3>1. Some(T) \in T
      BY <1>2, SomeIsElement
    <3>2. SumFunctionOnSet(f, T) = f[Some(T)] + SumFunctionOnSet(f, T \ {Some(T)})
      BY <1>2, <2>1, SumChosen
    <3> QED
      BY <3>1, <3>2
  <2>3. \A x \in T : \A y \in T \ {x} : Sum(T \ {x}) = f[y] + Sum((T \ {x}) \ {y})
    BY <1>2
  <2> HIDE DEF Sum, P
  <2>4. ASSUME NEW x \in T PROVE Sum(T) = f[x] + Sum(T \ {x})
    <3>1. CASE x = c
      BY <2>2, <3>1
    <3>2. CASE x # c
      <4>1. Sum(T \ {c}) = f[x] + Sum((T \ {c}) \ {x})
        BY <2>3, <3>2
      <4>2. Sum(T \ {x}) = f[c] + Sum((T \ {x}) \ {c})
        BY <2>3, <3>2
      <4>3. (T \ {c}) \ {x} = (T \ {x}) \ {c}
        OBVIOUS
      <4>4. f[x] \in Int /\ f[c] \in Int /\ Sum((T \ {x}) \ {c}) \in Int
        BY <2>1
      <4>5. \A i, j, k \in Int : i + (j + k) = j + (i + k)
        OBVIOUS
      <4>6. f[c] + (f[x] + Sum((T \ {x}) \ {c})) = f[x] + (f[c] + Sum((T \ {x}) \ {c}))
        BY <4>4, <4>5
      <4> QED
        BY <2>2, <4>1, <4>2, <4>3, <4>6
    <3> QED
      BY <3>1, <3>2
  <2> QED
    BY <2>4 DEF P
<1>3. S \in P
  <2> HIDE DEF P
  <2>1. \A T \in SUBSET S : T \in P
    BY <1>1, <1>2, FiniteInduction, Zenon
  <2> QED
    BY <2>1
<1> QED
  BY <1>3

\* What a sum is shown to satisfy by taking its elements one by one.
LEMMA SumInduction ==
    ASSUME NEW S, IsFiniteSet(S), NEW f, \A x \in S : f[x] \in Int, NEW P, {} \in P,
           \A T \in SUBSET S : \A x \in T :
                /\ T \ {x} \in P
                /\ SumFunctionOnSet(f, T) = f[x] + SumFunctionOnSet(f, T \ {x})
                /\ SumFunctionOnSet(f, T \ {x}) \in Int
                => T \in P
    PROVE  S \in P
<1>1. ASSUME NEW T \in SUBSET S, T # {}, \A x \in T : T \ {x} \in P PROVE T \in P
  <2>1. PICK x \in T : TRUE
    BY <1>1
  <2>2. IsFiniteSet(T) /\ IsFiniteSet(T \ {x})
    BY FS_Subset
  <2>3. SumFunctionOnSet(f, T) = f[x] + SumFunctionOnSet(f, T \ {x})
    BY <2>2, SumRemove
  <2>4. SumFunctionOnSet(f, T \ {x}) \in Int
    BY <2>2, SumInt
  <2> QED
    BY <1>1, <2>3, <2>4
<1>2. \A T \in SUBSET S : T \in P
  BY <1>1, FiniteInduction, Zenon
<1> QED
  BY <1>2

LEMMA SumOfNat ==
    ASSUME NEW S, IsFiniteSet(S), NEW f, \A x \in S : f[x] \in Nat
    PROVE  SumFunctionOnSet(f, S) \in Nat
<1>1. \A x \in S : f[x] \in Int
  OBVIOUS
<1>2. SumFunctionOnSet(f, S) \in Int
  BY <1>1, SumInt
<1> DEFINE P == {T \in SUBSET S : 0 <= SumFunctionOnSet(f, T)}
<1>3. {} \in P
  BY SumEmpty
<1>4. ASSUME NEW T \in SUBSET S, NEW x \in T, T \ {x} \in P,
             SumFunctionOnSet(f, T) = f[x] + SumFunctionOnSet(f, T \ {x}),
             SumFunctionOnSet(f, T \ {x}) \in Int
      PROVE  T \in P
  <2>1. f[x] \in Int /\ 0 <= f[x] /\ 0 <= SumFunctionOnSet(f, T \ {x})
    BY <1>4
  <2>2. 0 <= SumFunctionOnSet(f, T)
    BY <1>4, <2>1
  <2> QED
    BY <2>2
<1> HIDE DEF P
<1>5. S \in P
  BY <1>1, <1>3, <1>4, SumInduction
<1> QED
  BY <1>2, <1>5 DEF P

LEMMA SumSame ==
    ASSUME NEW S, IsFiniteSet(S), NEW f, \A x \in S : f[x] \in Int,
           NEW g, \A x \in S : g[x] = f[x]
    PROVE  SumFunctionOnSet(g, S) = SumFunctionOnSet(f, S)
<1> DEFINE P == {T \in SUBSET S : SumFunctionOnSet(g, T) = SumFunctionOnSet(f, T)}
<1>1. {} \in P
  BY SumEmpty
<1>2. ASSUME NEW T \in SUBSET S, NEW x \in T, T \ {x} \in P,
             SumFunctionOnSet(f, T) = f[x] + SumFunctionOnSet(f, T \ {x})
      PROVE  T \in P
  <2>1. IsFiniteSet(T) /\ \A y \in T : g[y] \in Int
    BY FS_Subset
  <2>2. SumFunctionOnSet(g, T) = g[x] + SumFunctionOnSet(g, T \ {x})
    BY <2>1, SumRemove
  <2> QED
    BY <1>2, <2>2
<1> HIDE DEF P
<1>3. S \in P
  BY <1>1, <1>2, SumInduction
<1> QED
  BY <1>3 DEF P

\* The sum of sums.
LEMMA SumPlus ==
    ASSUME NEW S, IsFiniteSet(S), NEW f, \A x \in S : f[x] \in Int,
           NEW g, \A x \in S : g[x] \in Int,
           NEW h, \A x \in S : h[x] = f[x] + g[x]
    PROVE  SumFunctionOnSet(h, S) = SumFunctionOnSet(f, S) + SumFunctionOnSet(g, S)
<1> DEFINE P == {T \in SUBSET S :
                    SumFunctionOnSet(h, T) = SumFunctionOnSet(f, T) + SumFunctionOnSet(g, T)}
<1>1. {} \in P
  BY SumEmpty
<1>2. ASSUME NEW T \in SUBSET S, NEW x \in T, T \ {x} \in P,
             SumFunctionOnSet(f, T) = f[x] + SumFunctionOnSet(f, T \ {x}),
             SumFunctionOnSet(f, T \ {x}) \in Int
      PROVE  T \in P
  <2>1. IsFiniteSet(T) /\ IsFiniteSet(T \ {x}) /\ \A y \in T : g[y] \in Int /\ h[y] \in Int
    BY FS_Subset
  <2>2. SumFunctionOnSet(g, T) = g[x] + SumFunctionOnSet(g, T \ {x})
    BY <2>1, SumRemove
  <2>3. SumFunctionOnSet(h, T) = h[x] + SumFunctionOnSet(h, T \ {x})
    BY <2>1, SumRemove
  <2>4. SumFunctionOnSet(g, T \ {x}) \in Int
    BY <2>1, SumInt
  <2>5. SumFunctionOnSet(h, T \ {x}) = SumFunctionOnSet(f, T \ {x}) + SumFunctionOnSet(g, T \ {x})
    BY <1>2
  <2>6. f[x] \in Int /\ g[x] \in Int /\ h[x] = f[x] + g[x]
    OBVIOUS
  <2> QED
    BY <1>2, <2>2, <2>3, <2>4, <2>5, <2>6
<1> HIDE DEF P
<1>3. S \in P
  BY <1>1, <1>2, SumInduction
<1> QED
  BY <1>3 DEF P

\* Elements in proportion have sums in proportion.
LEMMA SumScaled ==
    ASSUME NEW S, IsFiniteSet(S), NEW f, \A x \in S : f[x] \in Int,
           NEW g, \A x \in S : g[x] \in Int,
           NEW n \in Int, NEW d \in Int, \A x \in S : d * g[x] = n * f[x]
    PROVE  d * SumFunctionOnSet(g, S) = n * SumFunctionOnSet(f, S)
<1> DEFINE P == {T \in SUBSET S : d * SumFunctionOnSet(g, T) = n * SumFunctionOnSet(f, T)}
<1>1. {} \in P
  <2>1. d * 0 = n * 0
    OBVIOUS
  <2> QED
    BY <2>1, SumEmpty
<1>2. ASSUME NEW T \in SUBSET S, NEW x \in T, T \ {x} \in P,
             SumFunctionOnSet(f, T) = f[x] + SumFunctionOnSet(f, T \ {x}),
             SumFunctionOnSet(f, T \ {x}) \in Int
      PROVE  T \in P
  <2> DEFINE j == g[x]
             k == SumFunctionOnSet(g, T \ {x})
             l == f[x]
             m == SumFunctionOnSet(f, T \ {x})
  <2>1. IsFiniteSet(T) /\ IsFiniteSet(T \ {x}) /\ \A y \in T : g[y] \in Int
    BY FS_Subset
  <2>2. SumFunctionOnSet(g, T) = j + k
    BY <2>1, SumRemove
  <2>3. k \in Int
    BY <2>1, SumInt
  <2>4. j \in Int /\ l \in Int /\ m \in Int /\ d * j = n * l /\ d * k = n * m
    BY <1>2
  <2>5. SumFunctionOnSet(f, T) = l + m
    BY <1>2
  <2> HIDE DEF j, k, l, m
  <2>6. d * (j + k) = d * j + d * k /\ n * (l + m) = n * l + n * m
    BY <2>3, <2>4
  <2>7. d * (j + k) = n * (l + m)
    BY <2>4, <2>6
  <2> QED
    BY <2>2, <2>5, <2>7
<1> HIDE DEF P
<1>3. S \in P
  BY <1>1, <1>2, SumInduction
<1> QED
  BY <1>3 DEF P

\* Lesser elements have a lesser sum.
LEMMA SumWithin ==
    ASSUME NEW S, IsFiniteSet(S), NEW f, \A x \in S : f[x] \in Int,
           NEW g, \A x \in S : g[x] \in Int /\ f[x] <= g[x]
    PROVE  SumFunctionOnSet(f, S) <= SumFunctionOnSet(g, S)
<1> DEFINE P == {T \in SUBSET S : SumFunctionOnSet(f, T) <= SumFunctionOnSet(g, T)}
<1>1. {} \in P
  BY SumEmpty
<1>2. ASSUME NEW T \in SUBSET S, NEW x \in T, T \ {x} \in P,
             SumFunctionOnSet(f, T) = f[x] + SumFunctionOnSet(f, T \ {x}),
             SumFunctionOnSet(f, T \ {x}) \in Int
      PROVE  T \in P
  <2>1. IsFiniteSet(T) /\ IsFiniteSet(T \ {x}) /\ \A y \in T : g[y] \in Int
    BY FS_Subset
  <2>2. SumFunctionOnSet(g, T) = g[x] + SumFunctionOnSet(g, T \ {x})
    BY <2>1, SumRemove
  <2>3. SumFunctionOnSet(g, T \ {x}) \in Int
    BY <2>1, SumInt
  <2>4. SumFunctionOnSet(f, T \ {x}) <= SumFunctionOnSet(g, T \ {x})
    BY <1>2
  <2>5. f[x] \in Int /\ g[x] \in Int /\ f[x] <= g[x]
    OBVIOUS
  <2> QED
    BY <1>2, <2>2, <2>3, <2>4, <2>5
<1> HIDE DEF P
<1>3. S \in P
  BY <1>1, <1>2, SumInduction
<1> QED
  BY <1>3 DEF P

\* A sum over two parts of the set.
LEMMA SumSplit ==
    ASSUME NEW S, IsFiniteSet(S), NEW f, \A x \in S : f[x] \in Int, NEW R \in SUBSET S
    PROVE  SumFunctionOnSet(f, S) = SumFunctionOnSet(f, R) + SumFunctionOnSet(f, S \ R)
<1> DEFINE P == {T \in SUBSET R :
                    SumFunctionOnSet(f, S) = SumFunctionOnSet(f, T) + SumFunctionOnSet(f, S \ T)}
<1>1. {} \in P
  <2>1. S \ {} = S /\ SumFunctionOnSet(f, S) \in Int
    BY SumInt
  <2> QED
    BY <2>1, SumEmpty
<1>2. IsFiniteSet(R) /\ \A x \in R : f[x] \in Int
  BY FS_Subset
<1>3. ASSUME NEW T \in SUBSET R, NEW x \in T, T \ {x} \in P,
             SumFunctionOnSet(f, T) = f[x] + SumFunctionOnSet(f, T \ {x}),
             SumFunctionOnSet(f, T \ {x}) \in Int
      PROVE  T \in P
  <2> DEFINE U == S \ (T \ {x})
  <2>1. IsFiniteSet(U) /\ IsFiniteSet(S \ T) /\ x \in U /\ \A y \in U : f[y] \in Int
    BY FS_Subset
  <2>2. U \ {x} = S \ T
    OBVIOUS
  <2> HIDE DEF U
  <2>3. SumFunctionOnSet(f, U) = f[x] + SumFunctionOnSet(f, S \ T)
    BY <2>1, <2>2, SumRemove
  <2>4. SumFunctionOnSet(f, S \ T) \in Int
    <3>1. \A y \in S \ T : f[y] \in Int
      OBVIOUS
    <3> QED
      BY <2>1, <3>1, SumInt
  <2>5. SumFunctionOnSet(f, S) = SumFunctionOnSet(f, T \ {x}) + SumFunctionOnSet(f, U)
    BY <1>3 DEF U
  <2>6. f[x] \in Int
    OBVIOUS
  <2> QED
    BY <1>3, <2>3, <2>4, <2>5, <2>6
<1> HIDE DEF P
<1>4. R \in P
  BY <1>1, <1>2, <1>3, SumInduction
<1> QED
  BY <1>4 DEF P

\* A sum of as many as the set has, each between lo and hi.
LEMMA SumBounds ==
    ASSUME NEW S, IsFiniteSet(S), NEW f, \A x \in S : f[x] \in Int,
           NEW lo \in Int, NEW hi \in Int, \A x \in S : lo <= f[x] /\ f[x] <= hi
    PROVE  /\ Cardinality(S) * lo <= SumFunctionOnSet(f, S)
           /\ SumFunctionOnSet(f, S) <= Cardinality(S) * hi
<1> DEFINE Between(T) == /\ Cardinality(T) * lo <= SumFunctionOnSet(f, T)
                         /\ SumFunctionOnSet(f, T) <= Cardinality(T) * hi
           P == {T \in SUBSET S : Between(T)}
<1>1. {} \in P
  BY SumEmpty, FS_EmptySet
<1>2. ASSUME NEW T \in SUBSET S, NEW x \in T, T \ {x} \in P,
             SumFunctionOnSet(f, T) = f[x] + SumFunctionOnSet(f, T \ {x}),
             SumFunctionOnSet(f, T \ {x}) \in Int
      PROVE  T \in P
  <2> DEFINE n == Cardinality(T \ {x})
             r == SumFunctionOnSet(f, T \ {x})
  <2>1. IsFiniteSet(T) /\ IsFiniteSet(T \ {x})
    BY FS_Subset
  <2>2. n \in Nat /\ Cardinality(T) \in Nat /\ Cardinality(T) = n + 1
    BY <2>1, FS_CardinalityType, FS_RemoveElement
  <2>3. n * lo <= r /\ r <= n * hi /\ r \in Int /\ f[x] \in Int /\ lo <= f[x] /\ f[x] <= hi
    BY <1>2
  <2>4. \A m \in Int : m * lo \in Int /\ m * hi \in Int /\ (m + 1) * lo = m * lo + lo
                       /\ (m + 1) * hi = m * hi + hi
    OBVIOUS
  <2>5. SumFunctionOnSet(f, T) = f[x] + r
    BY <1>2
  <2> HIDE DEF n, r
  <2>6. (n + 1) * lo <= f[x] + r /\ f[x] + r <= (n + 1) * hi
    BY <2>2, <2>3, <2>4
  <2> QED
    BY <2>2, <2>5, <2>6
<1> HIDE DEF P
<1>3. S \in P
  BY <1>1, <1>2, SumInduction
<1> QED
  BY <1>3 DEF P

\* One of finitely many has the least value.
LEMMA FiniteLeast ==
    ASSUME NEW S, IsFiniteSet(S), S # {}, NEW f, \A x \in S : f[x] \in Int
    PROVE  \E u \in S : \A v \in S : f[u] <= f[v]
<1> DEFINE P == {T \in SUBSET S : T # {} => \E u \in T : \A v \in T : f[u] <= f[v]}
<1>1. {} \in P
  OBVIOUS
<1>2. ASSUME NEW T \in SUBSET S, T # {}, \A x \in T : T \ {x} \in P PROVE T \in P
  <2>1. PICK x \in T : TRUE
    BY <1>2
  <2>2. CASE T \ {x} = {}
    <3>1. \A v \in T : f[x] <= f[v]
      BY <2>2
    <3> QED
      BY <3>1
  <2>3. CASE T \ {x} # {}
    <3>1. PICK u \in T \ {x} : \A v \in T \ {x} : f[u] <= f[v]
      BY <1>2, <2>3
    <3>2. (\A v \in T : f[u] <= f[v]) \/ (\A v \in T : f[x] <= f[v])
      BY <3>1
    <3> QED
      BY <3>2
  <2> QED
    BY <2>2, <2>3
<1> HIDE DEF P
<1>3. \A T \in SUBSET S : T \in P
  BY <1>1, <1>2, FiniteInduction, Zenon
<1> QED
  BY <1>3 DEF P

-----------------------------------------------------------------------------
(***************************************************************************)
(* What is in a sequence.                                                   *)
(***************************************************************************)
LEMMA ToSetFacts ==
    ASSUME NEW S, NEW s \in Seq(S)
    PROVE  ToSet(s) = {s[k] : k \in 1..Len(s)} /\ ToSet(s) \in SUBSET S
<1>1. DOMAIN s = 1..Len(s) /\ \A k \in 1..Len(s) : s[k] \in S
  BY LenProperties, ElementOfSeq
<1> QED
  BY <1>1 DEF ToSet

LEMMA ToSetAppend ==
    ASSUME NEW S, NEW s \in Seq(S), NEW e \in S
    PROVE  Append(s, e) \in Seq(S) /\ ToSet(Append(s, e)) = ToSet(s) \cup {e}
<1> DEFINE t == Append(s, e)
<1>1. /\ t \in Seq(S) /\ Len(t) = Len(s) + 1 /\ Len(s) \in Nat
      /\ \A k \in 1..Len(s) : t[k] = s[k]
      /\ t[Len(s) + 1] = e
  BY AppendProperties, LenProperties
<1> HIDE DEF t
<1>2. 1..Len(t) = 1..Len(s) \cup {Len(s) + 1}
  BY <1>1
<1>3. {t[k] : k \in 1..Len(t)} = {s[k] : k \in 1..Len(s)} \cup {e}
  BY <1>1, <1>2
<1> QED
  BY <1>1, <1>3, ToSetFacts DEF t

LEMMA ToSetConcat ==
    ASSUME NEW S, NEW s \in Seq(S), NEW r \in Seq(S)
    PROVE  s \o r \in Seq(S) /\ ToSet(s \o r) = ToSet(s) \cup ToSet(r)
<1> DEFINE t == s \o r
<1>1. /\ t \in Seq(S) /\ Len(t) = Len(s) + Len(r)
      /\ \A k \in 1..(Len(s) + Len(r)) : t[k] = IF k <= Len(s) THEN s[k] ELSE r[k - Len(s)]
  BY ConcatProperties, Zenon
<1>2. Len(s) \in Nat /\ Len(r) \in Nat
  BY LenProperties
<1> HIDE DEF t
<1>3. ToSet(t) = {t[k] : k \in 1..Len(t)} /\ ToSet(s) = {s[k] : k \in 1..Len(s)}
      /\ ToSet(r) = {r[k] : k \in 1..Len(r)}
  BY <1>1, ToSetFacts
<1>4. ASSUME NEW k \in 1..Len(t) PROVE t[k] \in ToSet(s) \cup ToSet(r)
  <2>1. CASE k <= Len(s)
    <3>1. k \in 1..Len(s) /\ t[k] = s[k]
      BY <1>1, <1>2, <2>1
    <3> QED
      BY <1>3, <3>1
  <2>2. CASE ~(k <= Len(s))
    <3>1. k - Len(s) \in 1..Len(r) /\ t[k] = r[k - Len(s)]
      BY <1>1, <1>2, <2>2
    <3> QED
      BY <1>3, <3>1
  <2> QED
    BY <2>1, <2>2
<1>5. ASSUME NEW k \in 1..Len(s) PROVE s[k] \in ToSet(t)
  <2>1. k \in 1..Len(t) /\ t[k] = s[k]
    BY <1>1, <1>2
  <2> QED
    BY <1>3, <2>1
<1>6. ASSUME NEW k \in 1..Len(r) PROVE r[k] \in ToSet(t)
  <2>1. PICK j \in 1..(Len(s) + Len(r)) : ~(j <= Len(s)) /\ j - Len(s) = k
    <3>1. k + Len(s) \in 1..(Len(s) + Len(r)) /\ ~(k + Len(s) <= Len(s)) /\ (k + Len(s)) - Len(s) = k
      BY <1>2
    <3> QED
      BY <3>1
  <2>2. j \in 1..Len(t) /\ t[j] = r[k]
    BY <1>1, <2>1
  <2> QED
    BY <1>3, <2>2
<1>7. ToSet(t) = ToSet(s) \cup ToSet(r)
  BY <1>3, <1>4, <1>5, <1>6
<1> QED
  BY <1>1, <1>7 DEF t

\* Only the head of a sequence leaves it.
LEMMA ToSetTail ==
    ASSUME NEW E, NEW q \in Seq(E), q # << >>
    PROVE  /\ Head(q) \in E /\ Tail(q) \in Seq(E)
           /\ ToSet(q) \ {Head(q)} \subseteq ToSet(Tail(q)) /\ ToSet(Tail(q)) \subseteq ToSet(q)
<1>1. /\ Head(q) \in E /\ Tail(q) \in Seq(E) /\ Len(Tail(q)) = Len(q) - 1
      /\ \A i \in 1..Len(Tail(q)) : Tail(q)[i] = q[i + 1]
  BY HeadTailProperties
<1>2. Len(q) \in Nat /\ Head(q) = q[1]
  OBVIOUS
<1>3. ASSUME NEW s \in Seq(E) PROVE ToSet(s) = {s[k] : k \in 1..Len(s)}
  BY DEF ToSet
<1>4. ASSUME NEW k \in 1..Len(q), k # 1
      PROVE  q[k] \in ToSet(Tail(q))
  <2>1. k - 1 \in 1..Len(Tail(q)) /\ (k - 1) + 1 = k
    BY <1>1, <1>2, <1>4
  <2>2. Tail(q)[k - 1] = q[k]
    BY <1>1, <2>1
  <2> QED
    BY <1>1, <1>3, <2>1, <2>2
<1>5. ASSUME NEW k \in 1..Len(Tail(q))
      PROVE  Tail(q)[k] \in ToSet(q)
  <2>1. k + 1 \in 1..Len(q)
    BY <1>1, <1>2
  <2> QED
    BY <1>1, <1>3, <2>1
<1>6. ToSet(q) \ {Head(q)} \subseteq ToSet(Tail(q))
  <2> SUFFICES ASSUME NEW k \in 1..Len(q), q[k] # Head(q)
               PROVE  q[k] \in ToSet(Tail(q))
    BY <1>3
  <2> QED
    BY <1>2, <1>4
<1>7. ToSet(Tail(q)) \subseteq ToSet(q)
  <2>1. ToSet(Tail(q)) = {Tail(q)[k] : k \in 1..Len(Tail(q))}
    BY <1>1, <1>3
  <2> QED
    BY <1>5, <2>1
<1> QED
  BY <1>1, <1>6, <1>7
=============================================================================
