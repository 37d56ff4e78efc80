------------------------------- MODULE Induction -------------------------------
(***************************************************************************)
(* Induction over data, for the proofs about what folds and recursive      *)
(* functions compute.  What is proved by induction is given as the set of  *)
(* the numbers that it holds of, so that a theorem about sets is enough.   *)
(***************************************************************************)
EXTENDS Integers, Sequences, FiniteSets, FiniteSetsExt, SequencesExt,
        FiniteSetTheorems, TLAPS

(* A set with 0 and with every successor has all natural numbers: a number *)
(* left out would make the predecessor map the numbers left out below it   *)
(* one to one into themselves, but not onto.                               *)
LEMMA SetInduction ==
  ASSUME NEW S, 0 \in S, \A n \in Nat : n \in S => n + 1 \in S
  PROVE  Nat \subseteq S
<1> SUFFICES ASSUME NEW n \in Nat, n \notin S PROVE FALSE
  OBVIOUS
<1> DEFINE A == {x \in 0..n : x \notin S}
           f == [x \in A |-> x - 1]
<1>1. IsFiniteSet(A)
  <2>1. IsFiniteSet(0..n)
    BY FS_Interval
  <2> QED
    BY <2>1, FS_Subset
<1>2. ASSUME NEW x \in A PROVE x - 1 \in A
  <2>1. x \in Nat /\ x # 0 /\ x <= n
    OBVIOUS
  <2>2. x - 1 \in Nat /\ (x - 1) + 1 = x
    BY <2>1
  <2>3. x - 1 \notin S
    BY <2>2
  <2> QED
    BY <2>1, <2>2, <2>3
<1>3. f \in [A -> A] /\ \A a, b \in A : f[a] = f[b] => a = b
  BY <1>2
<1>4. n \in A /\ \A x \in A : f[x] # n
  OBVIOUS
<1> HIDE DEF A, f
<1>5. f \in Injection(A, A)
  BY <1>3 DEF Injection, IsInjective
<1>6. f \in Surjection(A, A)
  BY <1>1, <1>5, FS_Injection
<1> QED
  BY <1>4, <1>6 DEF Surjection

(* What holds of a number when it holds of all below it, holds of all.     *)
LEMMA StrongInduction ==
  ASSUME NEW S, \A n \in Nat : (\A m \in Nat : m < n => m \in S) => n \in S
  PROVE  Nat \subseteq S
<1> DEFINE T == {n \in Nat : \A m \in Nat : m <= n => m \in S}
<1>1. 0 \in T
  OBVIOUS
<1>2. \A n \in Nat : n \in T => n + 1 \in T
  <2> SUFFICES ASSUME NEW n \in Nat, n \in T PROVE n + 1 \in T
    OBVIOUS
  <2>1. \A m \in Nat : m < n + 1 => m \in S
    OBVIOUS
  <2>2. n + 1 \in S
    BY <2>1
  <2> QED
    BY <2>1, <2>2
<1> HIDE DEF T
<1>3. Nat \subseteq T
  BY <1>1, <1>2, SetInduction
<1> QED
  BY <1>3 DEF T

(* A set of natural numbers that is not empty has a least. *)
LEMMA Least ==
  ASSUME NEW S \in SUBSET Nat, S # {}
  PROVE  \E n \in S : \A m \in S : n <= m
<1> SUFFICES ASSUME \A n \in S : \E m \in S : m < n PROVE FALSE
  OBVIOUS
<1> DEFINE E == {n \in Nat : n \notin S}
<1>1. ASSUME NEW n \in Nat, \A m \in Nat : m < n => m \in E PROVE n \in E
  BY <1>1
<1> HIDE DEF E
<1>2. Nat \subseteq E
  BY <1>1, StrongInduction
<1> QED
  BY <1>2 DEF E

-----------------------------------------------------------------------------
(* Folds over finite sets: f[s] is base for the empty set, and else what F *)
(* makes of s and of the value for s without c[s].                         *)

FoldsAt(f, s, base, c, F) ==
  f[s] = IF s = {} THEN base ELSE F[<<s, f[s \ {c[s]}]>>]

(* There is a function that folds over the subsets of a finite set.        *)
LEMMA FoldExists ==
  ASSUME NEW A, IsFiniteSet(A), NEW V, NEW base \in V, NEW c, NEW F,
         \A s \in SUBSET A : s # {} => c[s] \in s,
         \A s \in SUBSET A, v \in V : s # {} => F[<<s, v>>] \in V
  PROVE  \E f \in [SUBSET A -> V] : \A s \in SUBSET A : FoldsAt(f, s, base, c, F)
<1> DEFINE D(n) == {s \in SUBSET A : Cardinality(s) <= n}
           E == {n \in Nat : \E f \in [D(n) -> V] :
                   \A s \in D(n) : FoldsAt(f, s, base, c, F)}
<1>1. \A s \in SUBSET A : IsFiniteSet(s) /\ Cardinality(s) \in Nat
  BY FS_Subset, FS_CardinalityType
<1>2. ASSUME NEW s \in SUBSET A, s # {}
      PROVE  /\ s \ {c[s]} \in SUBSET A
             /\ Cardinality(s \ {c[s]}) = Cardinality(s) - 1
  BY <1>1, <1>2, FS_RemoveElement
<1>3. 0 \in E
  <2> DEFINE f == [s \in D(0) |-> base]
  <2>1. \A s \in D(0) : s = {}
    BY <1>1, FS_EmptySet
  <2>2. f \in [D(0) -> V] /\ \A s \in D(0) : FoldsAt(f, s, base, c, F)
    BY <2>1 DEF FoldsAt
  <2> HIDE DEF f
  <2> QED
    BY <2>2
<1>4. ASSUME NEW n \in Nat, n \in E PROVE n + 1 \in E
  <2>1. PICK g \in [D(n) -> V] : \A s \in D(n) : FoldsAt(g, s, base, c, F)
    BY <1>4
  <2> DEFINE f == [s \in D(n + 1) |->
                     IF s \in D(n) THEN g[s] ELSE F[<<s, g[s \ {c[s]}]>>]]
  <2>2. {} \in D(n) /\ D(n) \subseteq D(n + 1)
    BY <1>1, FS_EmptySet
  <2>3. ASSUME NEW s \in D(n + 1), s # {} PROVE s \ {c[s]} \in D(n)
    BY <1>1, <1>2, <2>3
  <2> HIDE DEF D
  <2>4. f \in [D(n + 1) -> V]
    <3> SUFFICES ASSUME NEW s \in D(n + 1), s \notin D(n)
                 PROVE  F[<<s, g[s \ {c[s]}]>>] \in V
      OBVIOUS
    <3>1. s # {} /\ s \in SUBSET A
      BY <2>2 DEF D
    <3> QED
      BY <2>3, <3>1
  <2>5. ASSUME NEW s \in D(n + 1) PROVE FoldsAt(f, s, base, c, F)
    <3>1. CASE s = {}
      <4>1. s \in D(n) /\ f[s] = g[s]
        BY <2>2, <3>1
      <4>2. g[s] = base
        BY <2>1, <3>1, <4>1 DEF FoldsAt
      <4> QED
        BY <3>1, <4>1, <4>2 DEF FoldsAt
    <3>2. CASE s # {}
      <4>1. f[s \ {c[s]}] = g[s \ {c[s]}]
        BY <2>2, <2>3, <3>2
      <4>2. CASE s \in D(n)
        <5>1. g[s] = F[<<s, g[s \ {c[s]}]>>]
          BY <2>1, <3>2, <4>2 DEF FoldsAt
        <5> QED
          BY <2>2, <3>2, <4>1, <4>2, <5>1 DEF FoldsAt
      <4>3. CASE s \notin D(n)
        BY <3>2, <4>1, <4>3 DEF FoldsAt
      <4> QED
        BY <4>2, <4>3
    <3> QED
      BY <3>1, <3>2
  <2> HIDE DEF f
  <2> QED
    BY <2>4, <2>5
<1> HIDE DEF E
<1>5. Nat \subseteq E
  BY <1>3, <1>4, SetInduction
<1>6. D(Cardinality(A)) = SUBSET A
  BY <1>1, FS_Subset
<1> HIDE DEF D
<1>7. Cardinality(A) \in E
  BY <1>1, <1>5
<1> QED
  BY <1>6, <1>7 DEF E

-----------------------------------------------------------------------------
(* Sums of the values of h over a finite set.                              *)

(* The values of h over A are numbers. *)
Numbered(h, A) == \A x \in A : h[x] \in Int

SumOver(h, S) == MapThenSumSet(LAMBDA x : h[x], S)

AnyOf(s) == CHOOSE x \in s : TRUE

(* f sums the values over every subset of A, one after the other.          *)
Adds(f, h, A) ==
  \A s \in SUBSET A :
    f[s] = IF s = {} THEN 0 ELSE h[AnyOf(s)] + f[s \ {AnyOf(s)}]

(* There is one way of doing so. *)
LEMMA SumUnique ==
  ASSUME NEW A, IsFiniteSet(A), NEW h, NEW f, NEW g, Adds(f, h, A), Adds(g, h, A)
  PROVE  \A s \in SUBSET A : f[s] = g[s]
<1> DEFINE E == {n \in Nat : \A s \in SUBSET A : Cardinality(s) = n => f[s] = g[s]}
<1>1. \A s \in SUBSET A : IsFiniteSet(s) /\ Cardinality(s) \in Nat
  BY FS_Subset, FS_CardinalityType
<1>2. 0 \in E
  <2>1. \A s \in SUBSET A : Cardinality(s) = 0 => s = {}
    BY <1>1, FS_EmptySet
  <2>2. f[{}] = 0 /\ g[{}] = 0
    BY DEF Adds
  <2> QED
    BY <2>1, <2>2
<1>3. ASSUME NEW n \in Nat, n \in E PROVE n + 1 \in E
  <2> SUFFICES ASSUME NEW s \in SUBSET A, Cardinality(s) = n + 1
               PROVE  f[s] = g[s]
    OBVIOUS
  <2>1. s # {}
    <3>1. Cardinality({}) = 0
      BY FS_EmptySet
    <3> QED
      BY <3>1
  <2>2. s \ {AnyOf(s)} \in SUBSET A /\ Cardinality(s \ {AnyOf(s)}) = n
    <3>1. AnyOf(s) \in s /\ IsFiniteSet(s)
      BY <1>1, <2>1 DEF AnyOf
    <3>2. Cardinality(s \ {AnyOf(s)}) = Cardinality(s) - 1
      BY <3>1, FS_RemoveElement
    <3> QED
      BY <3>2
  <2>3. f[s \ {AnyOf(s)}] = g[s \ {AnyOf(s)}]
    BY <1>3, <2>2
  <2>4. /\ f[s] = h[AnyOf(s)] + f[s \ {AnyOf(s)}]
        /\ g[s] = h[AnyOf(s)] + g[s \ {AnyOf(s)}]
    BY <2>1 DEF Adds
  <2> QED
    BY <2>3, <2>4
<1> HIDE DEF E
<1>4. Nat \subseteq E
  BY <1>2, <1>3, SetInduction
<1> QED
  BY <1>1, <1>4 DEF E

(* The values are summed by a function on the subsets, in some order.      *)
LEMMA SumFold ==
  ASSUME NEW A, IsFiniteSet(A), NEW h, Numbered(h, A)
  PROVE  \E f \in [SUBSET A -> Int] :
           /\ Adds(f, h, A)
           /\ SumOver(h, A) = f[A]
<1> DEFINE c == [s \in SUBSET A |-> AnyOf(s)]
           F == [p \in (SUBSET A) \X Int |-> h[AnyOf(p[1])] + p[2]]
           Is(f) == f = [s \in SUBSET A |-> IF s = {} THEN 0
                             ELSE h[AnyOf(s)] + f[s \ {AnyOf(s)}]]
           sum == CHOOSE f : Is(f)
<1>1. \A s \in SUBSET A : s # {} => AnyOf(s) \in s /\ c[s] = AnyOf(s)
  BY DEF AnyOf
<1>2. \A s \in SUBSET A, v \in Int : s # {} => F[<<s, v>>] = h[AnyOf(s)] + v
  OBVIOUS
<1>3. \A s \in SUBSET A, v \in Int : s # {} => F[<<s, v>>] \in Int
  <2> SUFFICES ASSUME NEW s \in SUBSET A, NEW v \in Int, s # {}
               PROVE  F[<<s, v>>] \in Int
    OBVIOUS
  <2>1. h[AnyOf(s)] \in Int
    BY <1>1 DEF Numbered
  <2>2. F[<<s, v>>] = h[AnyOf(s)] + v
    BY <1>2
  <2> HIDE DEF F
  <2> QED
    BY <2>1, <2>2
<1>4. SumOver(h, A) = sum[A]
  BY DEF SumOver, MapThenSumSet, MapThenFoldSet, AnyOf
<1>5. PICK f \in [SUBSET A -> Int] : \A s \in SUBSET A : FoldsAt(f, s, 0, c, F)
  <2>1. \A s \in SUBSET A : s # {} => c[s] \in s
    BY <1>1
  <2>2. 0 \in Int
    OBVIOUS
  <2> HIDE DEF c, F
  <2> QED
    BY <1>3, <2>1, <2>2, FoldExists
<1>6. ASSUME NEW s \in SUBSET A, s # {}
      PROVE  f[s] = h[AnyOf(s)] + f[s \ {AnyOf(s)}]
  <2>1. f[s] = F[<<s, f[s \ {AnyOf(s)}]>>]
    BY <1>1, <1>5, <1>6 DEF FoldsAt
  <2>2. f[s \ {AnyOf(s)}] \in Int
    BY <1>5
  <2> HIDE DEF F
  <2> QED
    BY <1>2, <1>6, <2>1, <2>2
<1>7. f[{}] = 0
  BY <1>5 DEF FoldsAt
<1>8. Is(f)
  <2>1. f \in [SUBSET A -> Int]
    BY <1>5
  <2>2. \A s \in SUBSET A :
          f[s] = IF s = {} THEN 0 ELSE h[AnyOf(s)] + f[s \ {AnyOf(s)}]
    BY <1>6, <1>7
  <2> QED
    BY <2>1, <2>2
<1>9. Is(sum)
  <2> HIDE DEF Is
  <2> QED
    BY <1>8
<1>10. sum[A] = f[A]
  <2>1. Adds(sum, h, A) /\ Adds(f, h, A)
    <3> HIDE DEF sum
    <3> QED
      BY <1>8, <1>9 DEF Adds
  <2> HIDE DEF sum
  <2> QED
    BY <2>1, SumUnique
<1> QED
  BY <1>4, <1>8, <1>10 DEF Adds

Sums(f, h, A) == Adds(f, h, A) /\ \A s \in SUBSET A : SumOver(h, s) = f[s]

(* The sum over each subset is what that function says.                    *)
LEMMA SumFolds ==
  ASSUME NEW A, IsFiniteSet(A), NEW h, Numbered(h, A)
  PROVE  \E f \in [SUBSET A -> Int] : Sums(f, h, A)
<1>1. PICK f \in [SUBSET A -> Int] : Adds(f, h, A)
  BY SumFold
<1>2. ASSUME NEW s \in SUBSET A PROVE SumOver(h, s) = f[s]
  <2>1. IsFiniteSet(s) /\ Numbered(h, s)
    BY FS_Subset DEF Numbered
  <2>2. PICK g \in [SUBSET s -> Int] : Adds(g, h, s) /\ SumOver(h, s) = g[s]
    BY <2>1, SumFold
  <2>3. Adds(f, h, s)
    BY <1>1 DEF Adds
  <2>4. \A u \in SUBSET s : g[u] = f[u]
    BY <2>1, <2>2, <2>3, SumUnique
  <2> QED
    BY <2>2, <2>4
<1> QED
  BY <1>1, <1>2 DEF Sums

AnyOrder(f, h, A) ==
  \A s \in SUBSET A : \A x \in s : f[s] = h[x] + f[s \ {x}]

(* In which order does not matter: any element can be taken out first.     *)
LEMMA SumAnyOrder ==
  ASSUME NEW A, IsFiniteSet(A), NEW h, Numbered(h, A),
         NEW f \in [SUBSET A -> Int], Adds(f, h, A)
  PROVE  AnyOrder(f, h, A)
<1> DEFINE E == {n \in Nat : \A s \in SUBSET A : Cardinality(s) = n =>
                               \A x \in s : f[s] = h[x] + f[s \ {x}]}
<1>1. \A s \in SUBSET A : IsFiniteSet(s) /\ Cardinality(s) \in Nat
  BY FS_Subset, FS_CardinalityType
<1>2. 0 \in E
  <2>1. \A s \in SUBSET A : Cardinality(s) = 0 => s = {}
    BY <1>1, FS_EmptySet
  <2> QED
    BY <2>1
<1>3. ASSUME NEW n \in Nat, n \in E PROVE n + 1 \in E
  <2> SUFFICES ASSUME NEW s \in SUBSET A, Cardinality(s) = n + 1, NEW x \in s
               PROVE  f[s] = h[x] + f[s \ {x}]
    OBVIOUS
  <2>0. \A r \in SUBSET A : Cardinality(r) = n => \A y \in r : f[r] = h[y] + f[r \ {y}]
    BY <1>3
  <2> HIDE DEF E
  <2> DEFINE c == AnyOf(s)
  <2>1. c \in s
    BY DEF AnyOf
  <2>2. \A y \in s : s \ {y} \in SUBSET A /\ Cardinality(s \ {y}) = n
    <3> SUFFICES ASSUME NEW y \in s PROVE Cardinality(s \ {y}) = n
      OBVIOUS
    <3>1. Cardinality(s \ {y}) = Cardinality(s) - 1
      BY <1>1, FS_RemoveElement
    <3> QED
      BY <3>1
  <2>3. f[s] = h[c] + f[s \ {c}]
    BY DEF Adds
  <2>4. CASE x = c
    BY <2>3, <2>4
  <2>5. CASE x # c
    <3>1. x \in s \ {c} /\ c \in s \ {x} /\ (s \ {c}) \ {x} = (s \ {x}) \ {c}
      BY <2>1, <2>5
    <3> HIDE DEF c
    <3>2. f[s \ {c}] = h[x] + f[(s \ {x}) \ {c}]
      <4>1. s \ {c} \in SUBSET A /\ Cardinality(s \ {c}) = n
        BY <2>1, <2>2
      <4> QED
        BY <2>0, <3>1, <4>1
    <3>3. f[s \ {x}] = h[c] + f[(s \ {x}) \ {c}]
      <4>1. s \ {x} \in SUBSET A /\ Cardinality(s \ {x}) = n
        BY <2>2
      <4> QED
        BY <2>0, <3>1, <4>1
    <3>4. h[x] \in Int /\ h[c] \in Int /\ f[(s \ {x}) \ {c}] \in Int
      BY <2>1 DEF Numbered
    <3> QED
      BY <2>3, <3>2, <3>3, <3>4
  <2> QED
    BY <2>4, <2>5
<1> HIDE DEF E
<1>4. Nat \subseteq E
  BY <1>2, <1>3, SetInduction
<1> QED
  BY <1>1, <1>4 DEF E, AnyOrder

(* What a sum is when an element is taken out. *)
LEMMA SumSplit ==
  ASSUME NEW A, IsFiniteSet(A), NEW h, Numbered(h, A)
  PROVE  /\ SumOver(h, A) \in Int
         /\ A = {} => SumOver(h, A) = 0
         /\ \A x \in A : SumOver(h, A) = h[x] + SumOver(h, A \ {x})
<1>1. PICK f \in [SUBSET A -> Int] : Sums(f, h, A)
  BY SumFolds
<1>2. AnyOrder(f, h, A)
  BY <1>1, SumAnyOrder DEF Sums
<1>3. f[{}] = 0
  BY <1>1 DEF Adds, Sums
<1> QED
  BY <1>1, <1>2, <1>3 DEF Sums, AnyOrder

(* The sum depends on the values over the set only. *)
LEMMA SumSame ==
  ASSUME NEW A, IsFiniteSet(A), NEW h, NEW g,
         Numbered(h, A), \A x \in A : g[x] = h[x]
  PROVE  SumOver(g, A) = SumOver(h, A)
<1>1. PICK f \in [SUBSET A -> Int] : Adds(f, h, A) /\ SumOver(h, A) = f[A]
  BY SumFold
<1>2. PICK k \in [SUBSET A -> Int] : Adds(k, g, A) /\ SumOver(g, A) = k[A]
  <2>1. Numbered(g, A)
    BY DEF Numbered
  <2> QED
    BY <2>1, SumFold
<1>3. Adds(k, h, A)
  BY <1>2 DEF Adds, AnyOf
<1> QED
  BY <1>1, <1>2, <1>3, SumUnique

-----------------------------------------------------------------------------
(* Recursive functions of natural numbers: f[n] is base[n] for the numbers *)
(* of B, and else what F makes of n and of the value for a smaller d[n].   *)

RecursesAt(f, n, B, base, d, F) ==
  f[n] = IF n \in B THEN base[n] ELSE F[<<n, f[d[n]]>>]

Recurses(f, A, B, base, d, F) == \A n \in A : RecursesAt(f, n, B, base, d, F)

Descends(d, B) == \A n \in Nat : n \notin B => d[n] \in Nat /\ d[n] < n

(* There is one way of doing so. *)
LEMMA RecursionUnique ==
  ASSUME NEW m \in Nat, NEW B, NEW base, NEW d, NEW F, NEW f, NEW g,
         Descends(d, B), Recurses(f, 0..m, B, base, d, F), Recurses(g, 0..m, B, base, d, F)
  PROVE  f[m] = g[m]
<1> DEFINE E == {n \in Nat : n <= m => f[n] = g[n]}
<1>1. ASSUME NEW n \in Nat, \A k \in Nat : k < n => k \in E PROVE n \in E
  <2> SUFFICES ASSUME n <= m PROVE f[n] = g[n]
    OBVIOUS
  <2>1. RecursesAt(f, n, B, base, d, F) /\ RecursesAt(g, n, B, base, d, F)
    BY DEF Recurses
  <2>2. n \notin B => f[d[n]] = g[d[n]]
    <3> SUFFICES ASSUME n \notin B PROVE f[d[n]] = g[d[n]]
      OBVIOUS
    <3>1. d[n] \in Nat /\ d[n] < n /\ d[n] <= m
      BY DEF Descends
    <3> QED
      BY <1>1, <3>1
  <2> QED
    BY <2>1, <2>2 DEF RecursesAt
<1> HIDE DEF E
<1>2. Nat \subseteq E
  BY <1>1, StrongInduction
<1>3. m \in E
  BY <1>2
<1> QED
  BY <1>3 DEF E

(* There is such a function. *)
LEMMA RecursionExists ==
  ASSUME NEW V, NEW B, NEW base, NEW d, NEW F,
         \A n \in Nat : n \in B => base[n] \in V,
         Descends(d, B),
         \A n \in Nat, v \in V : n \notin B => F[<<n, v>>] \in V
  PROVE  \E f \in [Nat -> V] : Recurses(f, Nat, B, base, d, F)
<1> DEFINE Up(f, m) == f \in [0..m -> V] /\ \A n \in 0..m : RecursesAt(f, n, B, base, d, F)
           E == {m \in Nat : \E f : Up(f, m)}
<1>1. 0 \in E
  <2>1. 0 \in B
    <3> SUFFICES ASSUME 0 \notin B PROVE FALSE
      OBVIOUS
    <3>1. d[0] \in Nat /\ d[0] < 0
      BY DEF Descends
    <3> QED
      BY <3>1
  <2> DEFINE f == [n \in 0..0 |-> base[0]]
  <2>2. Up(f, 0)
    BY <2>1 DEF RecursesAt
  <2> QED
    BY <2>2
<1>2. ASSUME NEW m \in Nat, m \in E PROVE m + 1 \in E
  <2>1. PICK g : Up(g, m)
    BY <1>2
  <2> DEFINE x == IF m + 1 \in B THEN base[m + 1] ELSE F[<<m + 1, g[d[m + 1]]>>]
             f == [n \in 0..(m + 1) |-> IF n = m + 1 THEN x ELSE g[n]]
  <2>2. \A n \in 0..(m + 1) : n # m + 1 => n \in 0..m
    OBVIOUS
  <2>3. \A n \in 0..(m + 1) : n \notin B => d[n] \in 0..m
    BY DEF Descends
  <2>4. x \in V
    <3>1. m + 1 \notin B => g[d[m + 1]] \in V
      BY <2>1, <2>3
    <3> QED
      BY <3>1
  <2> HIDE DEF x
  <2>5. f \in [0..(m + 1) -> V]
    BY <2>1, <2>2, <2>4
  <2>6. ASSUME NEW n \in 0..(m + 1) PROVE RecursesAt(f, n, B, base, d, F)
    <3>1. n \notin B => d[n] \in 0..m /\ f[d[n]] = g[d[n]]
      BY <2>3
    <3>2. CASE n = m + 1
      BY <3>1, <3>2 DEF RecursesAt, x
    <3>3. CASE n # m + 1
      <4>1. n \in 0..m /\ f[n] = g[n]
        BY <2>2, <3>3
      <4> HIDE DEF f
      <4> QED
        BY <2>1, <3>1, <4>1 DEF RecursesAt
    <3> QED
      BY <3>2, <3>3
  <2> HIDE DEF f
  <2> QED
    BY <2>5, <2>6
<1> HIDE DEF E
<1>3. Nat \subseteq E
  BY <1>1, <1>2, SetInduction
<1> DEFINE g == [m \in Nat |-> CHOOSE f : Up(f, m)]
           h == [m \in Nat |-> g[m][m]]
<1>4. ASSUME NEW m \in Nat PROVE Up(g[m], m)
  <2>1. \E f : Up(f, m)
    BY <1>3 DEF E
  <2> HIDE DEF Up
  <2> QED
    BY <2>1
<1> HIDE DEF g
<1>5. h \in [Nat -> V]
  BY <1>4
<1>6. ASSUME NEW n \in Nat PROVE RecursesAt(h, n, B, base, d, F)
  <2>1. n \notin B => h[d[n]] = g[n][d[n]]
    <3> SUFFICES ASSUME n \notin B PROVE g[d[n]][d[n]] = g[n][d[n]]
      BY DEF Descends
    <3>1. d[n] \in Nat /\ d[n] <= n
      BY DEF Descends
    <3>2. Recurses(g[d[n]], 0..d[n], B, base, d, F)
      BY <1>4, <3>1 DEF Recurses
    <3>3. Recurses(g[n], 0..d[n], B, base, d, F)
      <4>1. \A k \in 0..d[n] : k \in 0..n
        BY <3>1
      <4> QED
        BY <1>4, <4>1 DEF Recurses
    <3> HIDE DEF Up
    <3> QED
      BY <3>1, <3>2, <3>3, RecursionUnique
  <2>2. RecursesAt(g[n], n, B, base, d, F)
    BY <1>4
  <2> QED
    BY <2>1, <2>2 DEF RecursesAt
<1> HIDE DEF h
<1> QED
  BY <1>5, <1>6 DEF Recurses

-----------------------------------------------------------------------------
(* Sequences, element by element.                                          *)

(* A sequence that is not empty has a last element. *)
LEMMA LastOf ==
  ASSUME NEW S, NEW s \in Seq(S), Len(s) > 0
  PROVE  \E r \in Seq(S), x \in S : s = Append(r, x) /\ Len(s) = Len(r) + 1
<1> DEFINE r == [i \in 1..(Len(s) - 1) |-> s[i]]
           x == s[Len(s)]
<1>1. Len(s) \in Nat /\ x \in S
  OBVIOUS
<1>2. r \in Seq(S) /\ Len(r) = Len(s) - 1
  BY <1>1
<1>3. s = Append(r, x) /\ Len(s) = Len(r) + 1
  BY <1>1, <1>2
<1> HIDE DEF r, x
<1> QED
  BY <1>1, <1>2, <1>3

(* An element more makes one sequence more. *)
LEMMA MappedLast ==
  ASSUME NEW S, NEW s \in Seq(S), NEW x \in S, NEW T, NEW h \in [S -> T]
  PROVE  /\ [i \in DOMAIN s |-> h[s[i]]] \in Seq(T)
         /\ Len([i \in DOMAIN s |-> h[s[i]]]) = Len(s)
         /\ [i \in DOMAIN Append(s, x) |-> h[Append(s, x)[i]]] =
              Append([i \in DOMAIN s |-> h[s[i]]], h[x])
<1> DEFINE m == [i \in DOMAIN s |-> h[s[i]]]
           a == Append(s, x)
           n == [i \in DOMAIN a |-> h[a[i]]]
           b == Append(m, h[x])
<1>1. m \in Seq(T) /\ Len(m) = Len(s) /\ Len(s) \in Nat /\ h[x] \in T
  OBVIOUS
<1>2. a \in Seq(S) /\ Len(a) = Len(s) + 1 /\ a[Len(s) + 1] = x
      /\ \A i \in 1..Len(s) : a[i] = s[i]
  OBVIOUS
<1>3. b \in Seq(T) /\ Len(b) = Len(s) + 1 /\ b[Len(s) + 1] = h[x]
      /\ \A i \in 1..Len(s) : b[i] = h[s[i]]
  BY <1>1
<1>4. n \in Seq(T) /\ Len(n) = Len(s) + 1 /\ \A i \in 1..(Len(s) + 1) : n[i] = h[a[i]]
  BY <1>2
<1>5. \A i \in 1..(Len(s) + 1) : n[i] = b[i]
  BY <1>1, <1>2, <1>3, <1>4
<1> HIDE DEF n, b, a, m
<1>6. n = b
  BY <1>3, <1>4, <1>5
<1> QED
  BY <1>1, <1>6 DEF n, b, a, m

-----------------------------------------------------------------------------
(* Sequences of sequences, put together.                                   *)

(* f puts the first ones together, one after the other.                    *)
Flattening(f, ss, n) == f[n] = IF n = 0 THEN <<>> ELSE f[n - 1] \o ss[n]

Agree(ss, tt, m) == \A n \in 1..m : ss[n] = tt[n]

Flattens(f, ss, m) == \A n \in 0..m : Flattening(f, ss, n)

(* There is one way of doing so. *)
LEMMA FlattenUnique ==
  ASSUME NEW m \in Nat, NEW ss, NEW tt, Agree(ss, tt, m),
         NEW f, NEW g, Flattens(f, ss, m), Flattens(g, tt, m)
  PROVE  f[m] = g[m]
<1> DEFINE E == {n \in Nat : n <= m => f[n] = g[n]}
<1>1. 0 \in E
  <2>1. Flattening(f, ss, 0) /\ Flattening(g, tt, 0)
    BY DEF Flattens
  <2> QED
    BY <2>1 DEF Flattening
<1>2. ASSUME NEW n \in Nat, n \in E PROVE n + 1 \in E
  <2> SUFFICES ASSUME n + 1 <= m PROVE f[n + 1] = g[n + 1]
    OBVIOUS
  <2>1. Flattening(f, ss, n + 1) /\ Flattening(g, tt, n + 1)
    BY DEF Flattens
  <2>2. n + 1 # 0 /\ (n + 1) - 1 = n /\ f[n] = g[n] /\ ss[n + 1] = tt[n + 1]
    BY <1>2 DEF Agree
  <2> QED
    BY <2>1, <2>2 DEF Flattening
<1> HIDE DEF E
<1>3. m \in E
  BY <1>1, <1>2, SetInduction
<1> QED
  BY <1>3 DEF E

LEMMA FlattenExists ==
  ASSUME NEW S, NEW ss \in Seq(Seq(S))
  PROVE  \E f \in [Nat -> Seq(S)] : Flattens(f, ss, Len(ss))
<1> DEFINE V == Seq(S)
           base == [n \in {0} |-> <<>>]
           d == [n \in Nat |-> n - 1]
           F == [q \in Nat \X V |-> IF q[1] \in DOMAIN ss THEN q[2] \o ss[q[1]] ELSE q[2]]
<1>1. \A n \in Nat : n \in {0} => base[n] \in V
  OBVIOUS
<1>2. Descends(d, {0})
  BY DEF Descends
<1>3. ASSUME NEW n \in Nat, NEW v \in V
      PROVE  F[<<n, v>>] \in V /\ (n \in DOMAIN ss => F[<<n, v>>] = v \o ss[n])
  <2>1. n \in DOMAIN ss => ss[n] \in Seq(S)
    OBVIOUS
  <2>2. n \in DOMAIN ss => v \o ss[n] \in Seq(S)
    BY <2>1
  <2> QED
    BY <2>2
<1> HIDE DEF V, F
<1>4. \A n \in Nat, v \in V : n \notin {0} => F[<<n, v>>] \in V
  BY <1>3
<1>5. PICK f \in [Nat -> V] : Recurses(f, Nat, {0}, base, d, F)
  <2> HIDE DEF base, d
  <2> QED
    BY <1>1, <1>2, <1>4, RecursionExists
<1>6. ASSUME NEW n \in 0..Len(ss) PROVE Flattening(f, ss, n)
  <2>1. RecursesAt(f, n, {0}, base, d, F)
    BY <1>5 DEF Recurses
  <2>2. CASE n = 0
    BY <2>1, <2>2 DEF RecursesAt, Flattening
  <2>3. CASE n # 0
    <3>1. n \in DOMAIN ss /\ n - 1 \in Nat /\ n \in Nat /\ d[n] = n - 1
      BY <2>3
    <3>2. f[n - 1] \in V
      BY <3>1
    <3>3. F[<<n, f[n - 1]>>] = f[n - 1] \o ss[n]
      BY <1>3, <3>1, <3>2
    <3> HIDE DEF d
    <3> QED
      BY <2>1, <2>3, <3>1, <3>3 DEF RecursesAt, Flattening
  <2> QED
    BY <2>2, <2>3
<1> QED
  BY <1>5, <1>6 DEF V, Flattens

(* FlattenSeq does so. *)
LEMMA FlattenIs ==
  ASSUME NEW S, NEW ss \in Seq(Seq(S)), NEW f, Flattens(f, ss, Len(ss))
  PROVE  FlattenSeq(ss) = f[Len(ss)]
<1>1. CASE Len(ss) = 0
  <2>1. f[0] = <<>>
    BY <1>1 DEF Flattens, Flattening
  <2>2. ss = <<>>
    BY <1>1
  <2> QED
    BY <1>1, <2>1, <2>2 DEF FlattenSeq
<1>2. CASE Len(ss) # 0
  <2> DEFINE Is(g) == g = [i \in 1..Len(ss) |-> IF i = 1 THEN ss[i] ELSE g[i - 1] \o ss[i]]
             flatten == CHOOSE g : Is(g)
             h == [i \in 1..Len(ss) |-> f[i]]
             g0 == [i \in 0..Len(ss) |-> IF i = 0 THEN <<>> ELSE flatten[i]]
  <2>0. Len(ss) \in Nat \ {0} /\ \A i \in 1..Len(ss) : <<>> \o ss[i] = ss[i]
    BY <1>2
  <2>1. FlattenSeq(ss) = flatten[Len(ss)]
    BY <1>2 DEF FlattenSeq
  <2>2. ASSUME NEW i \in 1..Len(ss)
        PROVE  f[i] = IF i = 1 THEN ss[i] ELSE f[i - 1] \o ss[i]
    <3>1. i \in 0..Len(ss) /\ i # 0
      BY <2>0
    <3>2. Flattening(f, ss, i) /\ Flattening(f, ss, 0)
      BY <2>0, <3>1 DEF Flattens
    <3>3. f[0] = <<>> /\ f[i] = f[i - 1] \o ss[i]
      BY <3>1, <3>2 DEF Flattening
    <3>4. CASE i = 1
      <4>1. i - 1 = 0
        BY <3>4
      <4> QED
        BY <2>0, <3>3, <3>4, <4>1
    <3> QED
      BY <3>3, <3>4
  <2>3. \A i \in 1..Len(ss) : i # 1 => i - 1 \in 1..Len(ss)
    BY <2>0
  <2>4. Is(h)
    BY <2>2, <2>3
  <2>5. Is(flatten)
    <3> HIDE DEF Is
    <3> QED
      BY <2>4
  <2> HIDE DEF flatten
  <2>6. ASSUME NEW i \in 0..Len(ss) PROVE Flattening(g0, ss, i)
    <3>1. CASE i = 0
      BY <3>1 DEF Flattening
    <3>2. CASE i # 0
      <4>1. i \in 1..Len(ss) /\ i - 1 \in 0..Len(ss) /\ (i - 1 = 0 <=> i = 1)
        BY <2>0, <3>2
      <4>2. flatten[i] = IF i = 1 THEN ss[i] ELSE flatten[i - 1] \o ss[i]
        BY <2>5, <4>1
      <4>3. g0[i] = flatten[i] /\ g0[i - 1] = IF i = 1 THEN <<>> ELSE flatten[i - 1]
        BY <3>2, <4>1
      <4>4. <<>> \o ss[i] = ss[i]
        BY <2>0, <4>1
      <4> HIDE DEF g0, Is
      <4> QED
        BY <3>2, <4>2, <4>3, <4>4 DEF Flattening
    <3> QED
      BY <3>1, <3>2
  <2>7. Flattens(g0, ss, Len(ss))
    BY <2>6 DEF Flattens
  <2>8. g0[Len(ss)] = flatten[Len(ss)]
    BY <2>0
  <2> HIDE DEF g0, Is
  <2>9. g0[Len(ss)] = f[Len(ss)]
    BY <2>0, <2>7, FlattenUnique DEF Agree
  <2> QED
    BY <2>1, <2>8, <2>9
<1> QED
  BY <1>1, <1>2

(* What comes of one sequence more. *)
LEMMA FlattenLast ==
  ASSUME NEW S, NEW ss \in Seq(Seq(S))
  PROVE  /\ FlattenSeq(ss) \in Seq(S)
         /\ ss = <<>> => FlattenSeq(ss) = <<>>
         /\ \A t \in Seq(S) : FlattenSeq(Append(ss, t)) = FlattenSeq(ss) \o t
<1>1. PICK f : f \in [Nat -> Seq(S)] /\ Flattens(f, ss, Len(ss))
  BY FlattenExists
<1>2. FlattenSeq(ss) = f[Len(ss)] /\ Len(ss) \in Nat
  BY <1>1, FlattenIs
<1>3. ss = <<>> => FlattenSeq(ss) = <<>>
  BY DEF FlattenSeq
<1>4. ASSUME NEW t \in Seq(S)
      PROVE  FlattenSeq(Append(ss, t)) = FlattenSeq(ss) \o t
  <2> DEFINE tt == Append(ss, t)
  <2>1. /\ tt \in Seq(Seq(S)) /\ Len(tt) = Len(ss) + 1 /\ tt[Len(ss) + 1] = t
        /\ Agree(ss, tt, Len(ss))
    BY DEF Agree
  <2> HIDE DEF tt
  <2>2. PICK g : g \in [Nat -> Seq(S)] /\ Flattens(g, tt, Len(tt))
    BY <2>1, FlattenExists
  <2>3. Flattens(g, tt, Len(ss))
    BY <1>2, <2>1, <2>2 DEF Flattens
  <2>4. f[Len(ss)] = g[Len(ss)]
    <3>1. PICK m \in Nat : m = Len(ss)
      BY <1>2
    <3>2. Agree(ss, tt, m) /\ Flattens(f, ss, m) /\ Flattens(g, tt, m)
      BY <1>1, <2>1, <2>3, <3>1
    <3>3. f[m] = g[m]
      BY <3>2, FlattenUnique
    <3> QED
      BY <3>1, <3>3
  <2>5. g[Len(ss) + 1] = g[Len(ss)] \o t
    <3>1. Flattening(g, tt, Len(ss) + 1)
      BY <1>2, <2>1, <2>2 DEF Flattens
    <3>2. Len(ss) + 1 # 0 /\ (Len(ss) + 1) - 1 = Len(ss)
      BY <1>2
    <3> QED
      BY <2>1, <3>1, <3>2 DEF Flattening
  <2>6. FlattenSeq(tt) = g[Len(tt)]
    BY <2>1, <2>2, FlattenIs
  <2> QED
    BY <1>2, <2>1, <2>4, <2>5, <2>6 DEF tt
<1> QED
  BY <1>1, <1>2, <1>3, <1>4

-----------------------------------------------------------------------------
(* What the elements of a sequence make, put together.                     *)

Mapped(h, s) == [i \in DOMAIN s |-> h[s[i]]]

FlatMap(h, s) == FlattenSeq(Mapped(h, s))

Joins(h, s, x) == FlatMap(h, Append(s, x)) = FlatMap(h, s) \o h[x]

LEMMA FlatMapLast ==
  ASSUME NEW S, NEW s \in Seq(S), NEW T, NEW h \in [S -> Seq(T)]
  PROVE  /\ FlatMap(h, s) \in Seq(T)
         /\ s = <<>> => FlatMap(h, s) = <<>>
         /\ \A x \in S : Joins(h, s, x)
<1>1. Mapped(h, s) \in Seq(Seq(T)) /\ (s = <<>> => Mapped(h, s) = <<>>)
  BY DEF Mapped
<1>2. ASSUME NEW x \in S PROVE Mapped(h, Append(s, x)) = Append(Mapped(h, s), h[x])
  BY MappedLast DEF Mapped
<1>3. ASSUME NEW x \in S PROVE h[x] \in Seq(T)
  OBVIOUS
<1>4. /\ FlattenSeq(Mapped(h, s)) \in Seq(T)
      /\ Mapped(h, s) = <<>> => FlattenSeq(Mapped(h, s)) = <<>>
      /\ \A t \in Seq(T) :
           FlattenSeq(Append(Mapped(h, s), t)) = FlattenSeq(Mapped(h, s)) \o t
  BY <1>1, FlattenLast
<1>5. ASSUME NEW x \in S PROVE Joins(h, s, x)
  BY <1>2, <1>3, <1>4 DEF FlatMap, Joins
<1> QED
  BY <1>1, <1>4, <1>5 DEF FlatMap

LEMMA FlatMapConcat ==
  ASSUME NEW S, NEW s \in Seq(S), NEW t \in Seq(S), NEW T, NEW h \in [S -> Seq(T)]
  PROVE  FlatMap(h, s \o t) = FlatMap(h, s) \o FlatMap(h, t)
<1> DEFINE Is(r) == FlatMap(h, s \o r) = FlatMap(h, s) \o FlatMap(h, r)
           E == {n \in Nat : \A r \in Seq(S) : Len(r) = n => Is(r)}
<1>1. 0 \in E
  <2> SUFFICES ASSUME NEW r \in Seq(S), Len(r) = 0 PROVE Is(r)
    OBVIOUS
  <2>1. r = <<>> /\ s \o r = s
    OBVIOUS
  <2>2. FlatMap(h, r) = <<>> /\ FlatMap(h, s) \in Seq(T)
    BY <2>1, FlatMapLast
  <2>3. FlatMap(h, s) \o <<>> = FlatMap(h, s)
    BY <2>2
  <2> QED
    BY <2>1, <2>2, <2>3
<1>2. ASSUME NEW n \in Nat, n \in E PROVE n + 1 \in E
  <2> SUFFICES ASSUME NEW r \in Seq(S), Len(r) = n + 1 PROVE Is(r)
    OBVIOUS
  <2>1. PICK u \in Seq(S), x \in S : r = Append(u, x) /\ Len(r) = Len(u) + 1
    <3>1. Len(r) > 0
      OBVIOUS
    <3> HIDE DEF E
    <3> QED
      BY <3>1, LastOf
  <2>2. Is(u)
    BY <1>2, <2>1
  <2>3. s \o r = Append(s \o u, x) /\ s \o u \in Seq(S)
    BY <2>1
  <2>4. Joins(h, u, x) /\ Joins(h, s \o u, x)
    BY <2>3, FlatMapLast
  <2>5. FlatMap(h, s) \in Seq(T) /\ FlatMap(h, u) \in Seq(T) /\ h[x] \in Seq(T)
    BY FlatMapLast
  <2>6. (FlatMap(h, s) \o FlatMap(h, u)) \o h[x] = FlatMap(h, s) \o (FlatMap(h, u) \o h[x])
    BY <2>5
  <2> QED
    BY <2>1, <2>2, <2>3, <2>4, <2>6 DEF Joins
<1> HIDE DEF E, Is
<1>3. Nat \subseteq E
  BY <1>1, <1>2, SetInduction
<1>4. Is(t)
  BY <1>3 DEF E
<1> QED
  BY <1>4 DEF Is

(* What the first k elements make. *)
UpTo(h, s, k) == FlatMap(h, SubSeq(s, 1, k))

Extends(h, s, k) == UpTo(h, s, k) = UpTo(h, s, k - 1) \o h[s[k]]

LEMMA UpToNext ==
  ASSUME NEW S, NEW s \in Seq(S), NEW T, NEW h \in [S -> Seq(T)]
  PROVE  /\ UpTo(h, s, 0) = <<>>
         /\ UpTo(h, s, Len(s)) = FlatMap(h, s)
         /\ \A k \in 0..Len(s) : UpTo(h, s, k) \in Seq(T)
         /\ \A k \in 1..Len(s) : Extends(h, s, k)
<1>1. ASSUME NEW k \in 0..Len(s) PROVE SubSeq(s, 1, k) \in Seq(S) /\ Len(SubSeq(s, 1, k)) = k
  OBVIOUS
<1>2. UpTo(h, s, 0) = <<>>
  <2>1. SubSeq(s, 1, 0) = <<>> /\ <<>> \in Seq(S)
    OBVIOUS
  <2>2. FlatMap(h, <<>>) = <<>>
    BY <2>1, FlatMapLast
  <2> QED
    BY <2>1, <2>2 DEF UpTo
<1>3. UpTo(h, s, Len(s)) = FlatMap(h, s)
  <2>1. SubSeq(s, 1, Len(s)) = s
    OBVIOUS
  <2> QED
    BY <2>1 DEF UpTo
<1>4. ASSUME NEW k \in 0..Len(s) PROVE UpTo(h, s, k) \in Seq(T)
  BY <1>1, FlatMapLast DEF UpTo
<1>5. ASSUME NEW k \in 1..Len(s) PROVE Extends(h, s, k)
  <2>1. k - 1 \in 0..Len(s) /\ s[k] \in S
    OBVIOUS
  <2>2. SubSeq(s, 1, k) = Append(SubSeq(s, 1, k - 1), s[k])
    OBVIOUS
  <2>3. Joins(h, SubSeq(s, 1, k - 1), s[k])
    BY <1>1, <2>1, FlatMapLast
  <2> QED
    BY <2>2, <2>3 DEF Joins, UpTo, Extends
<1> QED
  BY <1>2, <1>3, <1>4, <1>5

-----------------------------------------------------------------------------
(* Division.                                                               *)

LEMMA Divided ==
  ASSUME NEW x \in Int, NEW m \in Nat, m > 0
  PROVE  x % m \in 0..(m - 1) /\ x \div m \in Int /\ x = m * (x \div m) + (x % m)
  OBVIOUS

LEMMA Product ==
  ASSUME NEW m \in Nat, NEW w \in Nat
  PROVE  m * w \in Nat
  OBVIOUS

LEMMA RemainderIs ==
  ASSUME NEW m \in Nat, m > 0, NEW q \in Int, NEW r \in 0..(m - 1), NEW x \in Int, x = m * q + r
  PROVE  x % m = r /\ x \div m = q
<1>1. PICK s \in Int, d \in 0..(m - 1) : s = x \div m /\ d = x % m /\ x = m * s + d
  BY Divided
<1>2. m * (q - s) = d - r
  BY <1>1
<1>3. PICK t \in Int : t = q - s
  BY <1>1
<1>4. m * t < m /\ m * t > -m
  BY <1>1, <1>2, <1>3
<1>5. t < 1
  <2> SUFFICES ASSUME t >= 1 PROVE FALSE
    BY <1>3
  <2>1. m * t >= m
    BY <1>3
  <2> QED
    BY <1>4, <2>1
<1>6. t > -1
  <2> SUFFICES ASSUME t <= -1 PROVE FALSE
    BY <1>3
  <2>1. m * t <= -m
    BY <1>3
  <2> QED
    BY <1>4, <2>1
<1>7. t = 0
  BY <1>3, <1>5, <1>6
<1>8. q = s /\ d = r
  BY <1>1, <1>2, <1>3, <1>7
<1> QED
  BY <1>1, <1>8

(* x and y leave the same remainder. *)
Congruent(x, y, m) == \E t \in Int : x = y + m * t

LEMMA Congruence ==
  ASSUME NEW x \in Int, NEW y \in Int, NEW m \in Nat, m > 0
  PROVE  /\ Congruent(x, y, m) => (x - y) % m = 0 /\ x % m = y % m
         /\ Congruent(x, x % m, m) /\ Congruent(x % m, x, m)
         /\ Congruent(x, y, m) => Congruent(y, x, m)
<1>1. ASSUME NEW t \in Int, x = y + m * t PROVE (x - y) % m = 0 /\ x % m = y % m /\ Congruent(y, x, m)
  <2>1. x - y \in Int /\ 0 \in 0..(m - 1) /\ x - y = m * t + 0
    BY <1>1
  <2>2. (x - y) % m = 0
    BY <2>1, RemainderIs
  <2>3. PICK q \in Int, r \in 0..(m - 1) : r = y % m /\ y = m * q + r
    BY Divided
  <2>4. x = m * (q + t) + r /\ q + t \in Int
    BY <1>1, <2>3
  <2>5. x % m = r
    BY <2>4, RemainderIs
  <2>6. y = x + m * (-t) /\ -t \in Int
    BY <1>1
  <2> QED
    BY <2>2, <2>3, <2>5, <2>6 DEF Congruent
<1>2. Congruent(x, x % m, m) /\ Congruent(x % m, x, m)
  <2>1. PICK q \in Int, r \in 0..(m - 1) : r = x % m /\ x = m * q + r
    BY Divided
  <2>2. x = r + m * q /\ r = x + m * (-q) /\ -q \in Int
    BY <2>1
  <2> QED
    BY <2>1, <2>2 DEF Congruent
<1> QED
  BY <1>1, <1>2 DEF Congruent

-----------------------------------------------------------------------------
(* Numbers written digit by digit, the lowest first.                       *)

(* What the digits say, to the base m, with v above them. *)
Positions(m, s, v) == FoldRight(LAMBDA digit, high : (digit % m) + m * high, s, v)

(* h[k] is what the digits from the k-th on say.                           *)
Says(h, m, s, v) ==
  /\ h \in [1..(Len(s) + 1) -> Nat]
  /\ h[Len(s) + 1] = v
  /\ \A k \in 1..Len(s) : h[k] = (s[k] % m) + m * h[k + 1]

LEMMA SaysExists ==
  ASSUME NEW m \in Nat, m > 0, NEW s \in Seq(Nat), NEW v \in Nat
  PROVE  \E h : Says(h, m, s, v)
<1> DEFINE E == {n \in Nat : \A t \in Seq(Nat) : \A w \in Nat :
                   Len(t) = n => \E h : Says(h, m, t, w)}
<1>1. 0 \in E
  <2> SUFFICES ASSUME NEW t \in Seq(Nat), NEW w \in Nat, Len(t) = 0
               PROVE  \E h : Says(h, m, t, w)
    OBVIOUS
  <2>1. Says([k \in 1..1 |-> w], m, t, w)
    BY DEF Says
  <2> QED
    BY <2>1
<1>2. ASSUME NEW n \in Nat, n \in E PROVE n + 1 \in E
  <2> SUFFICES ASSUME NEW t \in Seq(Nat), NEW w \in Nat, Len(t) = n + 1
               PROVE  \E h : Says(h, m, t, w)
    OBVIOUS
  <2>1. PICK u \in Seq(Nat), x \in Nat : t = Append(u, x) /\ Len(t) = Len(u) + 1
    <3>1. Len(t) > 0
      OBVIOUS
    <3> HIDE DEF E
    <3> QED
      BY <3>1, LastOf
  <2>2. PICK d \in Nat : d = x % m
    <3> HIDE DEF E
    <3> QED
      BY Divided
  <2>3. PICK y \in Nat : y = d + m * w
    <3> HIDE DEF E
    <3>1. m * w \in Nat
      BY Product
    <3>2. \A z \in Nat : d + z \in Nat
      OBVIOUS
    <3> QED
      BY <3>1, <3>2
  <2>4. PICK h : Says(h, m, u, y)
    <3>1. Len(u) = n
      <4> HIDE DEF E
      <4>1. Len(u) \in Nat
        OBVIOUS
      <4> QED
        BY <2>1, <4>1
    <3> QED
      BY <1>2, <3>1
  <2> HIDE DEF E
  <2> DEFINE g == [k \in 1..(n + 2) |-> IF k = n + 2 THEN w ELSE h[k]]
  <2>5. Says(g, m, t, w)
    <3>1. Len(u) = n /\ h \in [1..(n + 1) -> Nat] /\ h[n + 1] = y
      <4>1. Len(u) \in Nat
        OBVIOUS
      <4>2. Len(u) = n
        BY <2>1, <4>1
      <4> QED
        BY <2>4, <4>2 DEF Says
    <3>2. g \in [1..(n + 2) -> Nat] /\ g[n + 2] = w
      BY <3>1
    <3>3. ASSUME NEW k \in 1..(n + 1) PROVE g[k] = (t[k] % m) + m * g[k + 1]
      <4>1. CASE k = n + 1
        <5>1. t[k] = x /\ g[k] = y /\ g[k + 1] = w
          BY <2>1, <3>1, <4>1
        <5> HIDE DEF g
        <5> QED
          BY <2>2, <2>3, <5>1
      <4>2. CASE k # n + 1
        <5>1. k \in 1..n /\ k + 1 \in 1..(n + 1) /\ k + 1 # n + 2
          BY <4>2
        <5>2. t[k] = u[k] /\ g[k] = h[k] /\ g[k + 1] = h[k + 1]
          BY <2>1, <3>1, <5>1
        <5>3. h[k] = (u[k] % m) + m * h[k + 1]
          BY <2>4, <3>1, <5>1 DEF Says
        <5> HIDE DEF g
        <5> QED
          BY <5>2, <5>3
      <4> QED
        BY <4>1, <4>2
    <3>4. Len(t) = n + 1 /\ Len(t) + 1 = n + 2
      OBVIOUS
    <3> HIDE DEF g
    <3> QED
      BY <3>2, <3>3, <3>4 DEF Says
  <2> QED
    BY <2>5
<1> HIDE DEF E
<1>3. Nat \subseteq E
  BY <1>1, <1>2, SetInduction
<1>4. Len(s) \in Nat
  OBVIOUS
<1> QED
  BY <1>3, <1>4 DEF E

LeastOf(S) == CHOOSE k \in S : \A j \in S : k <= j

(* The fold says the same. *)
LEMMA PositionsAre ==
  ASSUME NEW m \in Nat, m > 0, NEW s \in Seq(Nat), NEW v \in Nat, NEW h, Says(h, m, s, v)
  PROVE  Positions(m, s, v) = h[1]
<1> DEFINE A == 1..Len(s)
           c == [S \in SUBSET A |-> LeastOf(S)]
           F == [p \in (SUBSET A) \X Nat |-> (s[LeastOf(p[1])] % m) + m * p[2]]
           Is(g) == g = [S \in SUBSET A |-> IF S = {} THEN v
                           ELSE (s[LeastOf(S)] % m) + m * g[S \ {LeastOf(S)}]]
           fold == CHOOSE g : Is(g)
<1>1. ASSUME NEW S \in SUBSET A, S # {}
      PROVE  LeastOf(S) \in S /\ \A j \in S : LeastOf(S) <= j
  <2>1. S \in SUBSET Nat
    OBVIOUS
  <2>2. \E k \in S : \A j \in S : k <= j
    BY <1>1, <2>1, Least
  <2> QED
    BY <2>2 DEF LeastOf
<1>2. IsFiniteSet(A) /\ A = DOMAIN s /\ Len(s) \in Nat
  BY FS_Interval
<1>3. ASSUME NEW S \in SUBSET A, S # {}, NEW w \in Nat
      PROVE  /\ F[<<S, w>>] \in Nat
             /\ F[<<S, w>>] = (s[LeastOf(S)] % m) + m * w
  <2>1. PICK x \in Nat : x = s[LeastOf(S)]
    <3>1. LeastOf(S) \in 1..Len(s)
      BY <1>1, <1>3
    <3> QED
      BY <3>1
  <2>2. x % m \in Nat /\ m * w \in Nat
    BY Divided
  <2>3. F[<<S, w>>] = (s[LeastOf(S)] % m) + m * w
    BY <1>3
  <2> HIDE DEF F
  <2> QED
    BY <2>1, <2>2, <2>3
<1>4. Positions(m, s, v) = fold[A]
  BY <1>2 DEF Positions, FoldRight, MapThenFoldSet, Min, LeastOf
<1>5. PICK f \in [SUBSET A -> Nat] : \A S \in SUBSET A : FoldsAt(f, S, v, c, F)
  <2>1. \A S \in SUBSET A : S # {} => c[S] \in S
    BY <1>1
  <2>2. \A S \in SUBSET A, w \in Nat : S # {} => F[<<S, w>>] \in Nat
    BY <1>3
  <2>3. IsFiniteSet(A)
    BY <1>2
  <2>4. PICK V : V = Nat
    OBVIOUS
  <2>5. v \in V /\ \A S \in SUBSET A, w \in V : S # {} => F[<<S, w>>] \in V
    BY <2>2, <2>4
  <2> HIDE DEF A, c, F
  <2>6. \E f \in [SUBSET A -> V] : \A S \in SUBSET A : FoldsAt(f, S, v, c, F)
    BY <2>1, <2>3, <2>5, FoldExists
  <2> QED
    BY <2>4, <2>6
<1>6. Is(f)
  <2>1. ASSUME NEW S \in SUBSET A
        PROVE  f[S] = IF S = {} THEN v ELSE (s[LeastOf(S)] % m) + m * f[S \ {LeastOf(S)}]
    <3>1. FoldsAt(f, S, v, c, F)
      BY <1>5
    <3>2. S # {} => f[S \ {LeastOf(S)}] \in Nat
      BY <1>5
    <3>3. S # {} => f[S] = F[<<S, f[S \ {LeastOf(S)}]>>]
      BY <3>1 DEF FoldsAt
    <3>4. S = {} => f[S] = v
      BY <3>1 DEF FoldsAt
    <3> HIDE DEF F
    <3> QED
      BY <1>3, <3>2, <3>3, <3>4
  <2> QED
    BY <1>5, <2>1
<1>7. Is(fold)
  <2> HIDE DEF Is
  <2> QED
    BY <1>6
<1> DEFINE E == {n \in Nat : n <= Len(s) =>
                   fold[(Len(s) + 1 - n)..Len(s)] = h[Len(s) + 1 - n]}
<1>8. ASSUME NEW S \in SUBSET A
      PROVE  fold[S] = IF S = {} THEN v ELSE (s[LeastOf(S)] % m) + m * fold[S \ {LeastOf(S)}]
  <2> HIDE DEF fold
  <2> QED
    BY <1>7
<1> HIDE DEF fold, Is, F, c
<1>9. 0 \in E
  <2>1. (Len(s) + 1)..Len(s) = {} /\ Len(s) + 1 - 0 = Len(s) + 1
    BY <1>2
  <2>2. fold[{}] = v
    BY <1>8
  <2> QED
    BY <2>1, <2>2 DEF Says
<1>10. ASSUME NEW n \in Nat, n \in E PROVE n + 1 \in E
  <2> SUFFICES ASSUME n + 1 <= Len(s)
               PROVE  fold[(Len(s) - n)..Len(s)] = h[Len(s) - n]
    <3>1. Len(s) + 1 - (n + 1) = Len(s) - n
      BY <1>2
    <3> QED
      BY <3>1
  <2>1. PICK k \in 1..Len(s) : k = Len(s) - n /\ k + 1 = Len(s) + 1 - n
    <3>1. Len(s) - n \in 1..Len(s) /\ (Len(s) - n) + 1 = Len(s) + 1 - n
      BY <1>2
    <3> QED
      BY <3>1
  <2> DEFINE S == k..Len(s)
  <2>2. S \in SUBSET A /\ k \in S
    <3>1. k \in S
      BY <1>2
    <3>2. S \in SUBSET A
      BY <1>2
    <3> QED
      BY <3>1, <3>2
  <2>3. LeastOf(S) = k
    <3> HIDE DEF S
    <3>1. LeastOf(S) \in S /\ LeastOf(S) <= k
      BY <1>1, <2>2
    <3>2. LeastOf(S) \in k..Len(s)
      BY <3>1 DEF S
    <3> QED
      BY <3>1, <3>2
  <2>4. S \ {k} = (k + 1)..Len(s)
    BY <1>2
  <2>5. fold[S] = (s[k] % m) + m * fold[(k + 1)..Len(s)]
    <3> HIDE DEF S
    <3> QED
      BY <1>8, <2>2, <2>3, <2>4
  <2>6. fold[(k + 1)..Len(s)] = h[k + 1]
    BY <1>10, <2>1
  <2>7. h[k] = (s[k] % m) + m * h[k + 1]
    BY DEF Says
  <2> QED
    BY <2>1, <2>5, <2>6, <2>7
<1> HIDE DEF E
<1>11. Len(s) \in E
  BY <1>2, <1>9, <1>10, SetInduction
<1>12. fold[(Len(s) + 1 - Len(s))..Len(s)] = h[Len(s) + 1 - Len(s)]
  BY <1>2, <1>11 DEF E
<1>13. Len(s) + 1 - Len(s) = 1
  BY <1>2
<1> QED
  BY <1>4, <1>12, <1>13

Raised(m, s, x, v) == Positions(m, Append(s, x), v) = Positions(m, s, (x % m) + m * v)

(* No digits say what is above them, and the highest digit comes next.     *)
LEMMA PositionsLast ==
  ASSUME NEW m \in Nat, m > 0, NEW s \in Seq(Nat), NEW v \in Nat
  PROVE  /\ Positions(m, s, v) \in Nat
         /\ s = <<>> => Positions(m, s, v) = v
         /\ \A x \in Nat : Raised(m, s, x, v)
<1>1. PICK h : Says(h, m, s, v)
  BY SaysExists
<1>2. Positions(m, s, v) = h[1] /\ h \in [1..(Len(s) + 1) -> Nat] /\ h[Len(s) + 1] = v
      /\ Len(s) \in Nat
  <2>1. Positions(m, s, v) = h[1]
    BY <1>1, PositionsAre
  <2> QED
    BY <1>1, <2>1 DEF Says
<1>3. s = <<>> => Positions(m, s, v) = v
  BY <1>2
<1>4. ASSUME NEW x \in Nat PROVE Raised(m, s, x, v)
  <2>1. PICK y \in Nat : y = (x % m) + m * v
    <3>1. x % m \in Nat /\ m * v \in Nat
      BY Divided
    <3> QED
      BY <3>1
  <2>2. PICK g : Says(g, m, s, y)
    BY SaysExists
  <2> DEFINE n == Len(s)
             t == Append(s, x)
             f == [k \in 1..(n + 2) |-> IF k = n + 2 THEN v ELSE g[k]]
  <2>3. t \in Seq(Nat) /\ Len(t) = n + 1 /\ t[n + 1] = x /\ \A k \in 1..n : t[k] = s[k]
    OBVIOUS
  <2>4. /\ n \in Nat /\ g \in [1..(n + 1) -> Nat] /\ g[n + 1] = y
        /\ \A k \in 1..n : g[k] = (s[k] % m) + m * g[k + 1]
    BY <2>2 DEF Says
  <2> HIDE DEF t, n
  <2>5. f \in [1..(n + 2) -> Nat] /\ f[n + 2] = v /\ f[1] = g[1]
    BY <2>4
  <2>6. ASSUME NEW k \in 1..(n + 1) PROVE f[k] = (t[k] % m) + m * f[k + 1]
    <3>1. CASE k = n + 1
      <4>1. t[k] = x /\ f[k] = y /\ f[k + 1] = v
        BY <2>3, <2>4, <3>1
      <4> HIDE DEF f
      <4> QED
        BY <2>1, <4>1
    <3>2. CASE k # n + 1
      <4>1. k \in 1..n /\ k + 1 \in 1..(n + 1) /\ k + 1 # n + 2
        BY <2>4, <3>2
      <4>2. t[k] = s[k] /\ f[k] = g[k] /\ f[k + 1] = g[k + 1]
        <5>1. t[k] = s[k]
          BY <2>3, <4>1
        <5>2. k \in 1..(n + 2) /\ k # n + 2 /\ k + 1 \in 1..(n + 2)
          BY <2>4, <4>1
        <5> QED
          BY <4>1, <5>1, <5>2
      <4>3. g[k] = (s[k] % m) + m * g[k + 1]
        BY <2>4, <4>1
      <4> HIDE DEF f
      <4> QED
        BY <4>2, <4>3
    <3> QED
      BY <3>1, <3>2
  <2> HIDE DEF f
  <2>7. Says(f, m, t, v)
    <3>1. Len(t) + 1 = n + 2
      BY <2>3, <2>4
    <3> QED
      BY <2>3, <2>5, <2>6, <3>1 DEF Says
  <2>8. Positions(m, t, v) = f[1] /\ Positions(m, s, y) = g[1]
    BY <2>2, <2>3, <2>7, PositionsAre
  <2> QED
    BY <2>1, <2>5, <2>8 DEF Raised, t
<1> QED
  BY <1>2, <1>3, <1>4

-----------------------------------------------------------------------------
(* Where the sequences are that are put together.                          *)

LaidAt(ss, t, off, k) ==
  /\ off[k] = off[k - 1] + Len(ss[k]) /\ off[k] <= Len(t)
  /\ \A m \in 1..Len(ss[k]) : t[off[k - 1] + m] = ss[k][m]

(* The k-th ends at off[k]. *)
Laid(ss, t, off) ==
  /\ off \in [0..Len(ss) -> Nat] /\ off[0] = 0 /\ off[Len(ss)] = Len(t)
  /\ \A k \in 1..Len(ss) : LaidAt(ss, t, off, k)

LEMMA FlattenLaid ==
  ASSUME NEW S, NEW ss \in Seq(Seq(S))
  PROVE  /\ FlattenSeq(ss) \in Seq(S)
         /\ \E off : Laid(ss, FlattenSeq(ss), off)
<1> DEFINE E == {n \in Nat : \A tt \in Seq(Seq(S)) :
                   Len(tt) = n => \E off : Laid(tt, FlattenSeq(tt), off)}
<1>1. 0 \in E
  <2> SUFFICES ASSUME NEW tt \in Seq(Seq(S)), Len(tt) = 0
               PROVE  \E off : Laid(tt, FlattenSeq(tt), off)
    OBVIOUS
  <2>1. tt = <<>>
    OBVIOUS
  <2>2. FlattenSeq(tt) = <<>>
    BY <2>1, FlattenLast
  <2>3. Laid(tt, <<>>, [k \in 0..0 |-> 0])
    BY DEF Laid
  <2> QED
    BY <2>2, <2>3
<1>2. ASSUME NEW n \in Nat, n \in E PROVE n + 1 \in E
  <2> SUFFICES ASSUME NEW tt \in Seq(Seq(S)), Len(tt) = n + 1
               PROVE  \E off : Laid(tt, FlattenSeq(tt), off)
    OBVIOUS
  <2>1. PICK u \in Seq(Seq(S)), x \in Seq(S) : tt = Append(u, x) /\ Len(tt) = Len(u) + 1
    <3>1. Len(tt) > 0
      OBVIOUS
    <3> HIDE DEF E
    <3> QED
      BY <3>1, LastOf
  <2>2. Len(u) \in Nat /\ Len(u) = n
    <3>1. Len(u) \in Nat
      OBVIOUS
    <3> HIDE DEF E
    <3> QED
      BY <2>1, <3>1
  <2>3. PICK f : Laid(u, FlattenSeq(u), f)
    BY <1>2, <2>2
  <2> HIDE DEF E
  <2>4. FlattenSeq(tt) = FlattenSeq(u) \o x /\ FlattenSeq(u) \in Seq(S)
    BY <2>1, FlattenLast
  <2>5. PICK s \in Seq(S), l \in Nat, c \in Nat : s = FlattenSeq(u) /\ l = Len(s) /\ c = Len(x)
    BY <2>4
  <2>6. f \in [0..n -> Nat] /\ f[0] = 0 /\ f[n] = l /\ \A k \in 1..n : LaidAt(u, s, f, k)
    BY <2>2, <2>3, <2>5 DEF Laid
  <2> DEFINE g == [k \in 0..(n + 1) |-> IF k = n + 1 THEN l + c ELSE f[k]]
             t == s \o x
  <2>7. Len(t) = l + c /\ (\A m \in 1..l : t[m] = s[m]) /\ \A m \in 1..c : t[l + m] = x[m]
    BY <2>5
  <2>8. tt[n + 1] = x /\ \A k \in 1..n : tt[k] = u[k]
    BY <2>1, <2>2
  <2> HIDE DEF t
  <2>9. ASSUME NEW k \in 1..(n + 1) PROVE LaidAt(tt, t, g, k)
    <3>1. CASE k = n + 1
      <4>1. g[k] = l + c /\ g[k - 1] = l /\ Len(tt[k]) = c /\ tt[k] = x
        BY <2>5, <2>6, <2>8, <3>1
      <4> HIDE DEF g
      <4> QED
        BY <2>7, <4>1 DEF LaidAt
    <3>2. CASE k # n + 1
      <4>1. k \in 1..n /\ k - 1 \in 0..n /\ k - 1 # n + 1
        BY <3>2
      <4>2. g[k] = f[k] /\ g[k - 1] = f[k - 1] /\ tt[k] = u[k]
        BY <2>8, <4>1
      <4>3. LaidAt(u, s, f, k)
        BY <2>6, <4>1
      <4>4. f[k] = f[k - 1] + Len(u[k]) /\ f[k] <= l /\ f[k] \in Nat /\ f[k - 1] \in Nat
        BY <2>5, <2>6, <4>1, <4>3 DEF LaidAt
      <4>5. \A m \in 1..Len(u[k]) : f[k - 1] + m \in 1..l
        <5>1. PICK w \in Nat, a \in Nat : w = Len(u[k]) /\ a = f[k - 1]
          BY <2>2, <4>1, <4>4
        <5>2. a + w <= l
          BY <4>4, <5>1
        <5>3. \A m \in 1..w : a + m \in 1..l
          BY <2>5, <5>2
        <5> QED
          BY <5>1, <5>3
      <4>6. \A m \in 1..Len(u[k]) : t[f[k - 1] + m] = u[k][m]
        BY <2>7, <4>3, <4>5 DEF LaidAt
      <4>7. f[k] <= Len(t)
        BY <2>5, <2>7, <4>4
      <4> HIDE DEF g
      <4> QED
        BY <4>2, <4>4, <4>6, <4>7 DEF LaidAt
    <3> QED
      BY <3>1, <3>2
  <2>10. g \in [0..(n + 1) -> Nat] /\ g[0] = 0 /\ g[n + 1] = Len(t)
    BY <2>5, <2>6, <2>7
  <2> HIDE DEF g
  <2>11. Laid(tt, t, g)
    BY <2>9, <2>10 DEF Laid
  <2>12. FlattenSeq(tt) = t
    BY <2>4, <2>5 DEF t
  <2> QED
    BY <2>11, <2>12
<1> HIDE DEF E
<1>3. Nat \subseteq E
  BY <1>1, <1>2, SetInduction
<1>4. Len(ss) \in Nat
  OBVIOUS
<1> QED
  BY <1>3, <1>4, FlattenLast DEF E

Lowered(m, x, s, v) == Positions(m, <<x>> \o s, v) = (x % m) + m * Positions(m, s, v)

(* The lowest digit comes first.                                           *)
LEMMA PositionsFirst ==
  ASSUME NEW m \in Nat, m > 0, NEW s \in Seq(Nat), NEW v \in Nat, NEW x \in Nat
  PROVE  Lowered(m, x, s, v)
<1>1. PICK h : Says(h, m, s, v)
  BY SaysExists
<1> DEFINE t == <<x>> \o s
<1>2. PICK n \in Nat : n = Len(s)
  OBVIOUS
<1>3. /\ Positions(m, s, v) = h[1] /\ h \in [1..(n + 1) -> Nat] /\ h[n + 1] = v
      /\ \A k \in 1..n : h[k] = (s[k] % m) + m * h[k + 1]
  <2>1. Positions(m, s, v) = h[1]
    BY <1>1, PositionsAre
  <2> QED
    BY <1>1, <1>2, <2>1 DEF Says
<1>4. t \in Seq(Nat) /\ Len(t) = n + 1 /\ t[1] = x /\ \A k \in 1..n : t[k + 1] = s[k]
  BY <1>2
<1> HIDE DEF t
<1>5. PICK y \in Nat : y = (x % m) + m * h[1]
  <2>1. PICK w \in Nat : w = h[1]
    BY <1>2, <1>3
  <2>2. x % m \in Nat /\ m * w \in Nat
    BY Divided
  <2> QED
    BY <2>1, <2>2
<1> DEFINE f == [k \in 1..(n + 2) |-> IF k = 1 THEN y ELSE h[k - 1]]
<1>6. f \in [1..(n + 2) -> Nat] /\ f[n + 2] = v /\ f[1] = y
  <2>1. (n + 2) - 1 = n + 1 /\ n + 2 # 1 /\ 1 \in 1..(n + 2) /\ n + 2 \in 1..(n + 2)
    BY <1>2
  <2>2. \A k \in 1..(n + 2) : k # 1 => k - 1 \in 1..(n + 1)
    BY <1>2
  <2> QED
    BY <1>3, <2>1, <2>2
<1>7. ASSUME NEW k \in 1..(n + 1) PROVE f[k] = (t[k] % m) + m * f[k + 1]
  <2>1. CASE k = 1
    <3>1. f[k] = y /\ f[k + 1] = h[1] /\ t[k] = x
      BY <1>4, <2>1
    <3> HIDE DEF f
    <3> QED
      BY <1>5, <3>1
  <2>2. CASE k # 1
    <3>1. k - 1 \in 1..n /\ (k - 1) + 1 = k /\ (k + 1) - 1 = k /\ k + 1 \in 1..(n + 2) /\ k + 1 # 1
      BY <2>2
    <3>2. f[k] = h[k - 1] /\ f[k + 1] = h[k] /\ t[k] = s[k - 1]
      <4>1. f[k + 1] = h[k]
        BY <3>1
      <4>2. t[(k - 1) + 1] = s[k - 1]
        BY <1>4, <3>1
      <4>3. f[k] = h[k - 1]
        BY <2>2
      <4> QED
        BY <3>1, <4>1, <4>2, <4>3
    <3>3. h[k - 1] = (s[k - 1] % m) + m * h[k]
      BY <1>3, <3>1
    <3> HIDE DEF f
    <3> QED
      BY <3>2, <3>3
  <2> QED
    BY <2>1, <2>2
<1> HIDE DEF f
<1>8. Says(f, m, t, v)
  <2>1. Len(t) + 1 = n + 2
    BY <1>4
  <2> QED
    BY <1>4, <1>6, <1>7, <2>1 DEF Says
<1>9. Positions(m, t, v) = f[1]
  BY <1>4, <1>8, PositionsAre
<1> QED
  BY <1>3, <1>5, <1>6, <1>9 DEF Lowered, t
=============================================================================
