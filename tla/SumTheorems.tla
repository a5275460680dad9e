---------------------------- MODULE SumTheorems ----------------------------
(***************************************************************************)
(* Sums of a function over a finite set.  The value of a fold is what a    *)
(* CHOOSE of a recursive function gives, so first such a function is shown *)
(* to exist, by the least size of a set without one, and then the sums of  *)
(* nested sets to agree.                                                   *)
(***************************************************************************)
EXTENDS Integers, FiniteSetsExt, FiniteSetTheorems, WellFoundedInduction, TLAPS

(* What a fold over S is: a function on the subsets of S that takes one    *)
(* element after the other.                                                *)
Some(s) == CHOOSE x \in s : TRUE
IsSum(iter, f, S) ==
  iter = [s \in SUBSET S |-> IF s = {} THEN 0 ELSE f[Some(s)] + iter[s \ {Some(s)}]]

LessThan == {ss \in Nat \X Nat : ss[1] < ss[2]}

LEMMA LeastElement ==
  ASSUME NEW T, T \subseteq Nat, T # {}
  PROVE  \E n \in T : \A m \in T : n <= m
<1>1. IsWellFoundedOn(LessThan, Nat)
  BY NatLessThanWellFounded, Zenon DEF OpToRel, LessThan
<1>2. PICK n \in T : \A m \in T : ~(<<m, n>> \in LessThan)
  BY <1>1, WFMin, Zenon
<1>3. \A m \in Nat : m < n => <<m, n>> \in LessThan
  BY DEF LessThan
<1>4. ASSUME NEW m \in T  PROVE n <= m
  <2>1. m \in Nat /\ n \in Nat /\ ~(m < n)
    BY <1>2, <1>3
  <2>2. QED  BY <2>1
<1>5. QED  BY <1>4

LEMMA SumUnfold ==
  ASSUME NEW f, NEW S
  PROVE  SumFunctionOnSet(f, S) = (CHOOSE iter : IsSum(iter, f, S))[S]
  BY DEF SumFunctionOnSet, FoldFunctionOnSet, MapThenFoldSet, IsSum, Some

(* IsSum on the subsets up to a size, which exist for every size.           *)
SmallSubsets(S, n) == {s \in SUBSET S : Cardinality(s) <= n}
IsPartialSum(g, f, S, n) ==
  g = [s \in SmallSubsets(S, n) |-> IF s = {} THEN 0 ELSE f[Some(s)] + g[s \ {Some(s)}]]

LEMMA PartialSumsExist ==
  ASSUME NEW f, NEW S, IsFiniteSet(S), NEW n \in Nat
  PROVE  \E g : IsPartialSum(g, f, S, n)
<1> DEFINE Without == {k \in Nat : ~ \E g : IsPartialSum(g, f, S, k)}
<1>1. 0 \notin Without
  <2> DEFINE g == [s \in SmallSubsets(S, 0) |-> 0]
  <2>1. \A s \in SmallSubsets(S, 0) : s = {}
    BY FS_Subset, FS_EmptySet, FS_CardinalityType DEF SmallSubsets
  <2>2. g = [s \in SmallSubsets(S, 0) |-> IF s = {} THEN 0 ELSE f[Some(s)] + g[s \ {Some(s)}]]
    BY <2>1
  <2>3. QED  BY <2>2 DEF IsPartialSum
<1>2. ASSUME NEW k \in Nat, k \notin Without  PROVE k + 1 \notin Without
  <2>1. PICK g : IsPartialSum(g, f, S, k)
    BY <1>2
  <2> DEFINE h == [s \in SmallSubsets(S, k + 1) |->
                     IF s = {} THEN 0 ELSE f[Some(s)] + g[s \ {Some(s)}]]
  <2>2. ASSUME NEW s \in SmallSubsets(S, k + 1), s # {}
        PROVE  /\ s \ {Some(s)} \in SmallSubsets(S, k)
               /\ s \ {Some(s)} \in SmallSubsets(S, k + 1)
    <3>1. Some(s) \in s
      BY <2>2 DEF Some
    <3>2. IsFiniteSet(s) /\ Cardinality(s) \in Nat
      BY FS_Subset, FS_CardinalityType DEF SmallSubsets
    <3>3. Cardinality(s \ {Some(s)}) = Cardinality(s) - 1
      BY <3>1, <3>2, FS_RemoveElement
    <3>4. QED  BY <3>2, <3>3 DEF SmallSubsets
  <2>3. ASSUME NEW s \in SmallSubsets(S, k)  PROVE h[s] = g[s]
    <3>1. s \in SmallSubsets(S, k + 1)
      BY FS_Subset, FS_CardinalityType DEF SmallSubsets
    <3>2. g[s] = IF s = {} THEN 0 ELSE f[Some(s)] + g[s \ {Some(s)}]
      BY <2>1 DEF IsPartialSum
    <3>3. QED  BY <3>1, <3>2
  <2>4. h = [s \in SmallSubsets(S, k + 1) |->
               IF s = {} THEN 0 ELSE f[Some(s)] + h[s \ {Some(s)}]]
    BY <2>2, <2>3
  <2>5. QED  BY <2>4 DEF IsPartialSum
<1>3. Without = {}
  <2>1. SUFFICES ASSUME Without # {}  PROVE FALSE
    OBVIOUS
  <2>2. PICK k \in Without : \A m \in Without : k <= m
    BY <2>1, LeastElement
  <2>3. k - 1 \in Nat /\ k - 1 \notin Without
    BY <1>1, <2>2
  <2>4. (k - 1) + 1 \notin Without
    BY <1>2, <2>3
  <2>5. QED  BY <2>2, <2>4
<1>4. QED  BY <1>3

LEMMA SumsExist ==
  ASSUME NEW f, NEW S, IsFiniteSet(S)
  PROVE  \E iter : IsSum(iter, f, S)
<1>1. Cardinality(S) \in Nat
  BY FS_CardinalityType
<1>2. SmallSubsets(S, Cardinality(S)) = SUBSET S
  BY FS_Subset DEF SmallSubsets
<1>3. PICK g : IsPartialSum(g, f, S, Cardinality(S))
  BY <1>1, PartialSumsExist
<1>4. IsSum(g, f, S)
  BY <1>2, <1>3 DEF IsPartialSum, IsSum
<1>5. QED  BY <1>4

LEMMA SumIsSums ==
  ASSUME NEW f, NEW S, IsFiniteSet(S)
  PROVE  \E iter : IsSum(iter, f, S) /\ SumFunctionOnSet(f, S) = iter[S]
  BY SumsExist, SumUnfold

(* What holds of a subset whenever it holds of all smaller ones holds of   *)
(* the whole set.                                                          *)
LEMMA SubsetInduction ==
  ASSUME NEW S, IsFiniteSet(S), NEW G,
         \A s \in SUBSET S : (\A t \in SUBSET s : t # s => t \in G) => s \in G
  PROVE  S \in G
<1> DEFINE Sizes == {n \in Nat : \E s \in SUBSET S : s \notin G /\ Cardinality(s) = n}
<1>1. SUFFICES ASSUME S \notin G  PROVE FALSE
  OBVIOUS
<1>2. Cardinality(S) \in Sizes
  BY <1>1, FS_CardinalityType
<1>3. PICK n \in Sizes : \A m \in Sizes : n <= m
  BY <1>2, LeastElement
<1>4. PICK s \in SUBSET S : s \notin G /\ Cardinality(s) = n
  BY <1>3
<1>5. ASSUME NEW t \in SUBSET s, t # s  PROVE t \in G
  <2>1. IsFiniteSet(s) /\ IsFiniteSet(t) /\ Cardinality(t) \in Nat
    BY FS_Subset, FS_CardinalityType
  <2>2. Cardinality(t) < n
    BY <1>4, <1>5, <2>1, FS_Subset
  <2>3. QED  BY <1>3, <2>1, <2>2
<1>6. QED  BY <1>4, <1>5

(* The same, one element at a time.                                        *)
LEMMA ElementInduction ==
  ASSUME NEW S, IsFiniteSet(S), NEW G, {} \in G,
         \A s \in SUBSET S : \A x \in S \ s : s \in G => s \union {x} \in G
  PROVE  S \in G
<1>1. ASSUME NEW s \in SUBSET S, \A t \in SUBSET s : t # s => t \in G
      PROVE  s \in G
  <2>1. CASE s = {}
    BY <2>1
  <2>2. CASE s # {}
    <3>1. PICK x \in s : TRUE
      BY <2>2
    <3>2. s \ {x} \in SUBSET s /\ s \ {x} # s /\ (s \ {x}) \union {x} = s
      BY <3>1
    <3>3. s \ {x} \in G
      BY <1>1, <3>2
    <3>4. s \ {x} \in SUBSET S /\ x \in S \ (s \ {x})
      BY <3>1
    <3>5. (s \ {x}) \union {x} \in G
      BY <3>3, <3>4
    <3>6. QED  BY <3>2, <3>5
  <2>3. QED  BY <2>1, <2>2
<1>2. QED  BY <1>1, SubsetInduction

(* A sum of a set does not depend on the set it is computed within.        *)
LEMMA SumsAgree ==
  ASSUME NEW f, NEW S, NEW T, IsFiniteSet(S), T \subseteq S, NEW i, NEW j,
         IsSum(i, f, S), IsSum(j, f, T)
  PROVE  i[T] = j[T]
<1> DEFINE G == {s \in SUBSET T : i[s] = j[s]}
<1>1. IsFiniteSet(T)
  BY FS_Subset
<1>2. ASSUME NEW s \in SUBSET T, \A t \in SUBSET s : t # s => t \in G
      PROVE  s \in G
  <2>1. s # {} => Some(s) \in s
    BY DEF Some
  <2>2. s # {} => s \ {Some(s)} \in G
    BY <1>2, <2>1
  <2>3. i[s] = IF s = {} THEN 0 ELSE f[Some(s)] + i[s \ {Some(s)}]
    BY DEF IsSum
  <2>4. j[s] = IF s = {} THEN 0 ELSE f[Some(s)] + j[s \ {Some(s)}]
    BY DEF IsSum
  <2>5. QED  BY <2>2, <2>3, <2>4
<1>3. \A s \in SUBSET T : (\A t \in SUBSET s : t # s => t \in G) => s \in G
  BY <1>2
<1> HIDE DEF G
<1>4. T \in G
  BY <1>1, <1>3, SubsetInduction
<1>5. QED  BY <1>4 DEF G

LEMMA SumEmpty == ASSUME NEW f  PROVE SumFunctionOnSet(f, {}) = 0
<1>1. PICK i : IsSum(i, f, {}) /\ SumFunctionOnSet(f, {}) = i[{}]
  BY SumIsSums, FS_EmptySet
<1>2. QED  BY <1>1 DEF IsSum

LEMMA SumSome ==
  ASSUME NEW f, NEW S, IsFiniteSet(S), S # {}
  PROVE  SumFunctionOnSet(f, S) = f[Some(S)] + SumFunctionOnSet(f, S \ {Some(S)})
<1> DEFINE T == S \ {Some(S)}
<1>1. IsFiniteSet(T)
  BY FS_Subset
<1>2. PICK i : IsSum(i, f, S) /\ SumFunctionOnSet(f, S) = i[S]
  BY SumIsSums
<1>3. PICK j : IsSum(j, f, T) /\ SumFunctionOnSet(f, T) = j[T]
  BY <1>1, SumIsSums
<1>4. i[T] = j[T]
  BY <1>2, <1>3, SumsAgree
<1>5. i[S] = f[Some(S)] + i[T]
  BY <1>2 DEF IsSum
<1>6. QED  BY <1>2, <1>3, <1>4, <1>5

LEMMA SumType ==
  ASSUME NEW S, IsFiniteSet(S), NEW f, \A x \in S : f[x] \in Int
  PROVE  SumFunctionOnSet(f, S) \in Int
<1> DEFINE G == {s \in SUBSET S : SumFunctionOnSet(f, s) \in Int}
<1>1. ASSUME NEW s \in SUBSET S, \A t \in SUBSET s : t # s => t \in G
      PROVE  s \in G
  <2>1. CASE s = {}
    BY <2>1, SumEmpty
  <2>2. CASE s # {}
    <3>1. IsFiniteSet(s) /\ Some(s) \in s
      BY <2>2, FS_Subset DEF Some
    <3>2. SumFunctionOnSet(f, s \ {Some(s)}) \in Int
      BY <1>1, <3>1
    <3>3. QED  BY <2>2, <3>1, <3>2, SumSome
  <2>3. QED  BY <2>1, <2>2
<1>2. \A s \in SUBSET S : (\A t \in SUBSET s : t # s => t \in G) => s \in G
  BY <1>1
<1> HIDE DEF G
<1>3. S \in G
  BY <1>2, SubsetInduction
<1>4. QED  BY <1>3 DEF G

(* The sum of a set with one element more.                                 *)
LEMMA SumAdd ==
  ASSUME NEW S, IsFiniteSet(S), NEW x, x \notin S,
         NEW f, \A y \in S \union {x} : f[y] \in Int
  PROVE  SumFunctionOnSet(f, S \union {x}) = f[x] + SumFunctionOnSet(f, S)
<1> DEFINE Sum(s) == SumFunctionOnSet(f, s)
           Adds(s) == \A y \in (S \union {x}) \ s : Sum(s \union {y}) = f[y] + Sum(s)
           G == {s \in SUBSET S : Adds(s)}
<1>1. ASSUME NEW s \in SUBSET S, \A t \in SUBSET s : t # s => t \in G,
             NEW y \in (S \union {x}) \ s
      PROVE  Sum(s \union {y}) = f[y] + Sum(s)
  <2> DEFINE c == Some(s \union {y})
             r == s \ {c}
  <2>1. IsFiniteSet(s \union {y}) /\ IsFiniteSet(r) /\ c \in s \union {y}
    BY FS_Subset, FS_AddElement DEF Some
  <2>2. Sum(s \union {y}) = f[c] + Sum((s \union {y}) \ {c})
    BY <2>1, SumSome
  <2>3. CASE c = y
    <3>1. (s \union {y}) \ {c} = s
      BY <2>3
    <3>2. QED  BY <2>2, <2>3, <3>1
  <2>4. CASE c # y
    <3>1. /\ (s \union {y}) \ {c} = r \union {y}
          /\ s = r \union {c} /\ c \in s /\ r # s
      BY <2>1, <2>4
    <3>2. Adds(r)
      BY <1>1, <3>1
    <3>3. Sum(r \union {y}) = f[y] + Sum(r) /\ Sum(r \union {c}) = f[c] + Sum(r)
      BY <3>1, <3>2
    <3>4. f[y] \in Int /\ f[c] \in Int /\ Sum(r) \in Int
      BY <2>1, <3>1, SumType
    <3>5. Sum(s) = f[c] + Sum(r) /\ Sum(s \union {y}) = f[c] + Sum(r \union {y})
      BY <2>2, <3>1, <3>3
    <3> HIDE DEF Sum, c, r
    <3>6. QED  BY <3>3, <3>4, <3>5
  <2>5. QED  BY <2>3, <2>4
<1>2. \A s \in SUBSET S : (\A t \in SUBSET s : t # s => t \in G) => s \in G
  BY <1>1
<1> HIDE DEF G
<1>3. S \in G
  BY <1>2, SubsetInduction
<1>4. QED  BY <1>3 DEF G

LEMMA SumRemove ==
  ASSUME NEW S, IsFiniteSet(S), NEW x \in S, NEW f, \A y \in S : f[y] \in Int
  PROVE  SumFunctionOnSet(f, S \ {x}) = SumFunctionOnSet(f, S) - f[x]
<1> DEFINE T == S \ {x}
<1>1. T \union {x} = S /\ IsFiniteSet(T) /\ x \notin T
  BY FS_Subset
<1>2. SumFunctionOnSet(f, T) \in Int
  BY <1>1, SumType
<1>3. SumFunctionOnSet(f, S) = f[x] + SumFunctionOnSet(f, T)
  BY <1>1, SumAdd
<1>4. QED  BY <1>2, <1>3

(* Only what a function gives on the set counts.                           *)
LEMMA SumSame ==
  ASSUME NEW S, IsFiniteSet(S), NEW f, NEW g, \A x \in S : f[x] = g[x]
  PROVE  SumFunctionOnSet(f, S) = SumFunctionOnSet(g, S)
<1> DEFINE G == {s \in SUBSET S : SumFunctionOnSet(f, s) = SumFunctionOnSet(g, s)}
<1>1. ASSUME NEW s \in SUBSET S, \A t \in SUBSET s : t # s => t \in G
      PROVE  s \in G
  <2>1. CASE s = {}
    BY <2>1, SumEmpty
  <2>2. CASE s # {}
    <3>1. IsFiniteSet(s) /\ Some(s) \in s
      BY <2>2, FS_Subset DEF Some
    <3>2. SumFunctionOnSet(f, s \ {Some(s)}) = SumFunctionOnSet(g, s \ {Some(s)})
      BY <1>1, <3>1
    <3>3. QED  BY <2>2, <3>1, <3>2, SumSome
  <2>3. QED  BY <2>1, <2>2
<1>2. \A s \in SUBSET S : (\A t \in SUBSET s : t # s => t \in G) => s \in G
  BY <1>1
<1> HIDE DEF G
<1>3. S \in G
  BY <1>2, SubsetInduction
<1>4. QED  BY <1>3 DEF G

LEMMA SumNat ==
  ASSUME NEW S, IsFiniteSet(S), NEW f, \A x \in S : f[x] \in Nat
  PROVE  SumFunctionOnSet(f, S) \in Nat
<1> DEFINE G == {s \in SUBSET S : SumFunctionOnSet(f, s) \in Nat}
<1>1. ASSUME NEW s \in SUBSET S, \A t \in SUBSET s : t # s => t \in G
      PROVE  s \in G
  <2>1. CASE s = {}
    BY <2>1, SumEmpty
  <2>2. CASE s # {}
    <3>1. IsFiniteSet(s) /\ Some(s) \in s
      BY <2>2, FS_Subset DEF Some
    <3>2. SumFunctionOnSet(f, s \ {Some(s)}) \in Nat
      BY <1>1, <3>1
    <3>3. QED  BY <2>2, <3>1, <3>2, SumSome
  <2>3. QED  BY <2>1, <2>2
<1>2. \A s \in SUBSET S : (\A t \in SUBSET s : t # s => t \in G) => s \in G
  BY <1>1
<1> HIDE DEF G
<1>3. S \in G
  BY <1>2, SubsetInduction
<1>4. QED  BY <1>3 DEF G

(* A part of a sum is no more than the whole, if no term is negative.      *)
LEMMA SumSubset ==
  ASSUME NEW S, IsFiniteSet(S), NEW T \in SUBSET S, NEW f,
         \A x \in S : f[x] \in Nat
  PROVE  SumFunctionOnSet(f, T) <= SumFunctionOnSet(f, S)
<1> DEFINE Sum(s) == SumFunctionOnSet(f, s)
           G == {s \in SUBSET S : \A t \in SUBSET s : Sum(t) <= Sum(s)}
<1>1. ASSUME NEW s \in SUBSET S, \A t \in SUBSET s : t # s => t \in G,
             NEW t \in SUBSET s
      PROVE  Sum(t) <= Sum(s)
  <2>1. IsFiniteSet(s) /\ IsFiniteSet(t)
    BY FS_Subset
  <2>2. Sum(s) \in Nat /\ Sum(t) \in Nat
    BY <2>1, SumNat
  <2>3. CASE t = s
    BY <2>2, <2>3
  <2>4. CASE t # s
    <3>1. PICK x \in s : x \notin t
      BY <2>4
    <3>2. Sum(s \ {x}) = Sum(s) - f[x]
      BY <2>1, SumRemove
    <3>3. Sum(t) <= Sum(s \ {x})
      BY <1>1, <3>1
    <3>4. f[x] \in Nat
      OBVIOUS
    <3> HIDE DEF Sum
    <3>5. QED  BY <2>2, <3>2, <3>3, <3>4
  <2>5. QED  BY <2>3, <2>4
<1>2. \A s \in SUBSET S : (\A t \in SUBSET s : t # s => t \in G) => s \in G
  BY <1>1
<1> HIDE DEF G
<1>3. S \in G
  BY <1>2, SubsetInduction
<1>4. QED  BY <1>3 DEF G

(* The sum of a function that was changed at one element.                  *)
LEMMA SumUpdate ==
  ASSUME NEW S, IsFiniteSet(S), NEW x \in S, NEW f, NEW g,
         \A y \in S : f[y] \in Int /\ g[y] \in Int,
         \A y \in S \ {x} : g[y] = f[y]
  PROVE  SumFunctionOnSet(g, S) = SumFunctionOnSet(f, S) - f[x] + g[x]
<1> DEFINE T == S \ {x}
<1>1. IsFiniteSet(T)
  BY FS_Subset
<1>2. /\ SumFunctionOnSet(f, T) = SumFunctionOnSet(f, S) - f[x]
      /\ SumFunctionOnSet(g, T) = SumFunctionOnSet(g, S) - g[x]
  BY SumRemove
<1>3. SumFunctionOnSet(f, T) = SumFunctionOnSet(g, T)
  BY <1>1, SumSame
<1>4. SumFunctionOnSet(f, S) \in Int /\ SumFunctionOnSet(g, S) \in Int
  BY SumType
<1>5. QED  BY <1>2, <1>3, <1>4

(* A finite set of numbers has a largest one.                              *)
LEMMA LargestElement ==
  ASSUME NEW S \in SUBSET Nat, IsFiniteSet(S), S # {}
  PROVE  \E n \in S : \A m \in S : m <= n
<1> DEFINE Largest(s) == \E n \in s : \A m \in s : m <= n
           G == {s \in SUBSET S : s # {} => Largest(s)}
<1>1. ASSUME NEW s \in SUBSET S, \A t \in SUBSET s : t # s => t \in G, s # {}
      PROVE  Largest(s)
  <2>1. PICK x \in s : TRUE
    BY <1>1
  <2>2. x \in Nat /\ s \subseteq Nat
    OBVIOUS
  <2>3. CASE s \ {x} = {}
    BY <2>2, <2>3
  <2>4. CASE s \ {x} # {}
    <3>1. PICK n \in s \ {x} : \A m \in s \ {x} : m <= n
      <4>1. s \ {x} \in SUBSET s /\ s \ {x} # s
        OBVIOUS
      <4>2. s \ {x} \in G
        BY <1>1, <4>1
      <4>3. QED  BY <2>4, <4>2
    <3>2. n \in Nat /\ n \in s
      BY <2>2
    <3>3. CASE x <= n
      <4>1. \A m \in s : m <= n
        BY <3>1, <3>3
      <4>2. QED  BY <3>2, <4>1
    <3>4. CASE ~(x <= n)
      <4>1. ASSUME NEW m \in s  PROVE m <= x
        <5>1. m \in Nat /\ (m # x => m <= n)
          BY <2>2, <3>1
        <5>2. QED  BY <2>2, <3>2, <3>4, <5>1
      <4>2. QED  BY <4>1
    <3>5. QED  BY <3>3, <3>4
  <2>5. QED  BY <2>3, <2>4
<1>2. \A s \in SUBSET S : (\A t \in SUBSET s : t # s => t \in G) => s \in G
  BY <1>1
<1> HIDE DEF G
<1>3. S \in G
  BY <1>2, SubsetInduction
<1>4. QED  BY <1>3 DEF G

LEMMA SumZero ==
  ASSUME NEW S, IsFiniteSet(S), NEW f, \A x \in S : f[x] = 0
  PROVE  SumFunctionOnSet(f, S) = 0
<1> DEFINE G == {s \in SUBSET S : SumFunctionOnSet(f, s) = 0}
<1>1. {} \in G
  BY SumEmpty
<1>2. ASSUME NEW s \in SUBSET S, NEW x \in S \ s, s \in G  PROVE s \union {x} \in G
  <2>1. IsFiniteSet(s) /\ \A y \in s \union {x} : f[y] \in Int
    BY FS_Subset
  <2>2. SumFunctionOnSet(f, s \union {x}) = f[x] + SumFunctionOnSet(f, s)
    BY <2>1, SumAdd
  <2>3. QED  BY <1>2, <2>2
<1> HIDE DEF G
<1>3. S \in G
  BY <1>1, <1>2, ElementInduction
<1>4. QED  BY <1>3 DEF G

LEMMA SumSingleton ==
  ASSUME NEW x, NEW f, f[x] \in Int
  PROVE  SumFunctionOnSet(f, {x}) = f[x]
<1>1. SumFunctionOnSet(f, {} \union {x}) = f[x] + SumFunctionOnSet(f, {})
  BY SumAdd, FS_EmptySet
<1>2. {} \union {x} = {x}
  OBVIOUS
<1>3. QED  BY <1>1, <1>2, SumEmpty

(* The sum of two sets without a common element.                           *)
LEMMA SumUnion ==
  ASSUME NEW S, NEW T, IsFiniteSet(S), IsFiniteSet(T), S \cap T = {},
         NEW f, \A x \in S \union T : f[x] \in Int
  PROVE  SumFunctionOnSet(f, S \union T) = SumFunctionOnSet(f, S) + SumFunctionOnSet(f, T)
<1> DEFINE Sum(s) == SumFunctionOnSet(f, s)
           G == {t \in SUBSET T : Sum(S \union t) = Sum(S) + Sum(t)}
<1>1. {} \in G
  <2>1. Sum({}) = 0 /\ Sum(S) \in Int /\ S \union {} = S
    BY SumEmpty, SumType
  <2> HIDE DEF Sum
  <2>2. QED  BY <2>1
<1>2. ASSUME NEW t \in SUBSET T, NEW x \in T \ t, t \in G  PROVE t \union {x} \in G
  <2>1. IsFiniteSet(t) /\ IsFiniteSet(S \union t) /\ x \notin S \union t
    BY FS_Subset, FS_Union
  <2>2. Sum(t \union {x}) = f[x] + Sum(t) /\ Sum((S \union t) \union {x}) = f[x] + Sum(S \union t)
    BY <2>1, SumAdd
  <2>3. Sum(t) \in Int /\ Sum(S) \in Int /\ f[x] \in Int
    BY <2>1, SumType
  <2>4. S \union (t \union {x}) = (S \union t) \union {x} /\ Sum(S \union t) = Sum(S) + Sum(t)
    BY <1>2
  <2>5. Sum(S \union (t \union {x})) = f[x] + Sum(S \union t)
    BY <2>2, <2>4
  <2> HIDE DEF Sum
  <2>6. Sum(S \union (t \union {x})) = Sum(S) + Sum(t \union {x})
    BY <2>2, <2>3, <2>4, <2>5
  <2>7. QED  BY <2>6
<1>3. T \in G
  <2> HIDE DEF G
  <2>1. QED  BY <1>1, <1>2, ElementInduction
<1>4. QED  BY <1>3

LEMMA ImageFinite ==
  ASSUME NEW S, IsFiniteSet(S), NEW h
  PROVE  IsFiniteSet({h[x] : x \in S})
<1>1. [x \in S |-> h[x]] \in Surjection(S, {h[x] : x \in S})
  BY DEF Surjection
<1>2. QED  BY <1>1, FS_Surjection

(* The sum over what a function makes of a set, one by one.                *)
LEMMA SumImage ==
  ASSUME NEW S, IsFiniteSet(S), NEW h, \A x, y \in S : h[x] = h[y] => x = y,
         NEW f, NEW g, \A x \in S : f[x] \in Int /\ g[h[x]] = f[x]
  PROVE  /\ IsFiniteSet({h[x] : x \in S})
         /\ SumFunctionOnSet(g, {h[x] : x \in S}) = SumFunctionOnSet(f, S)
<1> DEFINE I(s) == {h[x] : x \in s}
           G == {s \in SUBSET S : /\ IsFiniteSet(I(s))
                                  /\ SumFunctionOnSet(g, I(s)) = SumFunctionOnSet(f, s)}
<1>1. {} \in G
  <2>1. I({}) = {}
    OBVIOUS
  <2>2. QED  BY <2>1, SumEmpty, FS_EmptySet
<1>2. ASSUME NEW s \in SUBSET S, NEW x \in S \ s, s \in G  PROVE s \union {x} \in G
  <2>1. /\ I(s \union {x}) = I(s) \union {h[x]} /\ h[x] \notin I(s)
        /\ \A y \in I(s) \union {h[x]} : g[y] \in Int
    OBVIOUS
  <2>2. IsFiniteSet(s) /\ IsFiniteSet(I(s))
    BY <1>2, FS_Subset
  <2>3. SumFunctionOnSet(g, I(s) \union {h[x]}) = g[h[x]] + SumFunctionOnSet(g, I(s))
    BY <2>1, <2>2, SumAdd
  <2>4. SumFunctionOnSet(f, s \union {x}) = f[x] + SumFunctionOnSet(f, s)
    BY <2>2, SumAdd
  <2>5. IsFiniteSet(I(s) \union {h[x]})
    BY <2>2, FS_AddElement
  <2>6. SumFunctionOnSet(g, I(s)) = SumFunctionOnSet(f, s)
    BY <1>2
  <2> HIDE DEF I
  <2>7. QED  BY <2>1, <2>3, <2>4, <2>5, <2>6
<1>3. S \in G
  <2> HIDE DEF G
  <2>1. QED  BY <1>1, <1>2, ElementInduction
<1>4. QED  BY <1>3

LEMMA SumNegate ==
  ASSUME NEW S, IsFiniteSet(S), NEW f, NEW g, \A x \in S : f[x] \in Int /\ g[x] = -f[x]
  PROVE  SumFunctionOnSet(g, S) = -SumFunctionOnSet(f, S)
<1> DEFINE G == {s \in SUBSET S : SumFunctionOnSet(g, s) = -SumFunctionOnSet(f, s)}
<1>1. {} \in G
  BY SumEmpty
<1>2. ASSUME NEW s \in SUBSET S, NEW x \in S \ s, s \in G  PROVE s \union {x} \in G
  <2>1. IsFiniteSet(s) /\ \A y \in S : f[y] \in Int /\ g[y] \in Int
    BY FS_Subset
  <2>2. /\ SumFunctionOnSet(f, s \union {x}) = f[x] + SumFunctionOnSet(f, s)
        /\ SumFunctionOnSet(g, s \union {x}) = g[x] + SumFunctionOnSet(g, s)
    BY <2>1, SumAdd
  <2>3. SumFunctionOnSet(f, s) \in Int /\ SumFunctionOnSet(g, s) = -SumFunctionOnSet(f, s)
    BY <1>2, <2>1, SumType
  <2>4. f[x] \in Int /\ g[x] = -f[x]
    OBVIOUS
  <2>5. SumFunctionOnSet(g, s \union {x}) = -SumFunctionOnSet(f, s \union {x})
    BY <2>2, <2>3, <2>4
  <2>6. QED  BY <2>5
<1>3. S \in G
  <2> HIDE DEF G
  <2>1. QED  BY <1>1, <1>2, ElementInduction
<1>4. QED  BY <1>3
=============================================================================
