------------------------------ MODULE SumFacts -------------------------------
(***************************************************************************)
(* Sums over finite sets, SumFunctionOnSet of module Functions: they can   *)
(* be taken in any order. The library defines them by a recursive function *)
(* over subsets; that it exists and is unique is proved here by induction  *)
(* on the size of the set. The induction theorems of the library take the  *)
(* predicate as a parameter; here it is the set of numbers that satisfy it.*)
(***************************************************************************)
EXTENDS Functions, Integers, FiniteSetTheorems, WellFoundedInduction, TLAPS

LEMMA LeastNumber ==
  ASSUME NEW T \in SUBSET Nat, T # {}
  PROVE  \E m \in T : \A n \in T : m <= n
<1>1. PICK m \in T : \A n \in T : ~(<<n, m>> \in OpToRel(<, Nat))
  BY NatLessThanWellFounded, WFMin
<1>2. ASSUME NEW n \in T PROVE m <= n
  <2>1. n \in Nat /\ m \in Nat
    OBVIOUS
  <2>2. ~(n < m)
    BY <1>1, <2>1 DEF OpToRel
  <2> QED BY <2>1, <2>2
<1> QED BY <1>2

LEMMA NumberInduction ==
  ASSUME NEW T \in SUBSET Nat, 0 \in T, \A n \in T : n + 1 \in T
  PROVE  \A n \in Nat : n \in T
<1> SUFFICES ASSUME NEW k \in Nat \ T PROVE FALSE
  OBVIOUS
<1>1. PICK m \in Nat \ T : \A n \in Nat \ T : m <= n
  BY LeastNumber
<1>2. m # 0 /\ m \in Nat
  BY <1>1
<1>3. m - 1 \in Nat /\ ~(m <= m - 1) /\ (m - 1) + 1 = m
  BY <1>2
<1>4. m - 1 \in T
  BY <1>1, <1>3
<1> QED BY <1>1, <1>3, <1>4

-----------------------------------------------------------------------------
\* The recursion. The element that is taken out of a set is the library's.
AnyOf(s) == CHOOSE x \in s : TRUE
RestOf(s) == s \ {AnyOf(s)}
SumStep(f, g, s) == IF s = {} THEN 0 ELSE f[AnyOf(s)] + g[RestOf(s)]
Sums(f, S) == CHOOSE g : g = [s \in SUBSET S |-> SumStep(f, g, s)]

LEMMA SumIs ==
  ASSUME NEW f, NEW S
  PROVE  SumFunctionOnSet(f, S) = Sums(f, S)[S]
BY DEF SumFunctionOnSet, FoldFunctionOnSet, MapThenFoldSet, Sums, SumStep, AnyOf, RestOf

LEMMA RestFacts ==
  ASSUME NEW s, IsFiniteSet(s), s # {}
  PROVE  /\ AnyOf(s) \in s /\ IsFiniteSet(RestOf(s)) /\ RestOf(s) \subseteq s
         /\ Cardinality(s) \in Nat \ {0} /\ Cardinality(RestOf(s)) \in Nat
         /\ Cardinality(RestOf(s)) + 1 = Cardinality(s)
<1>1. AnyOf(s) \in s
  BY DEF AnyOf
<1>2. Cardinality(s) \in Nat /\ Cardinality(s) # 0
  BY FS_CardinalityType, FS_EmptySet
<1>3. IsFiniteSet(RestOf(s)) /\ Cardinality(RestOf(s)) = Cardinality(s) - 1
  BY <1>1, FS_RemoveElement DEF RestOf
<1> QED BY <1>1, <1>2, <1>3 DEF RestOf

\* A function that obeys the recursion on the sets of at most n elements.
Obeys(f, g, S, n) ==
  /\ g \in [SUBSET S -> Int]
  /\ \A s \in SUBSET S : Cardinality(s) <= n => g[s] = SumStep(f, g, s)

LEMMA SumsExist ==
  ASSUME NEW S, IsFiniteSet(S), NEW f, \A x \in S : f[x] \in Int, NEW n \in Nat
  PROVE  \E g : Obeys(f, g, S, n)
<1> DEFINE T == {k \in Nat : \E g : Obeys(f, g, S, k)}
<1>0. ASSUME NEW s \in SUBSET S
      PROVE  /\ IsFiniteSet(s) /\ Cardinality(s) \in Nat
             /\ s # {} => /\ AnyOf(s) \in S /\ RestOf(s) \in SUBSET S
                          /\ Cardinality(RestOf(s)) \in Nat
                          /\ Cardinality(RestOf(s)) + 1 = Cardinality(s)
             /\ Cardinality(s) <= 0 => s = {}
  <2>1. IsFiniteSet(s) /\ Cardinality(s) \in Nat
    BY FS_Subset, FS_CardinalityType
  <2>2. Cardinality(s) <= 0 => s = {}
    BY <2>1, FS_EmptySet
  <2> QED BY <2>1, <2>2, RestFacts
<1>1. 0 \in T
  <2> DEFINE g == [s \in SUBSET S |-> 0]
  <2>1. Obeys(f, g, S, 0)
    BY <1>0 DEF Obeys, SumStep
  <2> QED BY <2>1
<1>2. ASSUME NEW k \in T PROVE k + 1 \in T
  <2>1. PICK g : Obeys(f, g, S, k)
    OBVIOUS
  <2> DEFINE h == [s \in SUBSET S |-> SumStep(f, g, s)]
  <2>2. \A s \in SUBSET S : SumStep(f, g, s) \in Int
    BY <1>0, <2>1 DEF Obeys, SumStep
  <2>3. h \in [SUBSET S -> Int]
    BY <2>2
  <2>4. \A s \in SUBSET S : Cardinality(s) <= k => h[s] = g[s]
    BY <2>1 DEF Obeys
  <2>h. \A s \in SUBSET S : h[s] = SumStep(f, g, s)
    OBVIOUS
  <2> HIDE DEF h
  <2>5. ASSUME NEW s \in SUBSET S, Cardinality(s) <= k + 1
        PROVE  h[s] = SumStep(f, h, s)
    <3>1. CASE s = {}
      BY <2>h, <3>1 DEF SumStep
    <3>2. CASE s # {}
      <4>1. RestOf(s) \in SUBSET S /\ Cardinality(RestOf(s)) <= k
        BY <1>0, <2>5, <3>2
      <4>2. h[RestOf(s)] = g[RestOf(s)]
        BY <2>4, <4>1
      <4> QED BY <2>h, <3>2, <4>2 DEF SumStep
    <3> QED BY <3>1, <3>2
  <2>6. Obeys(f, h, S, k + 1)
    BY <2>3, <2>5 DEF Obeys
  <2> QED BY <2>6
<1> HIDE DEF T
<1>3. n \in T
  BY <1>1, <1>2, NumberInduction DEF T
<1> QED BY <1>3 DEF T

\* Two functions that obey the recursion agree where both do.
Recursion(f, g, S) == g = [s \in SUBSET S |-> SumStep(f, g, s)]

LEMMA SumsAgree ==
  ASSUME NEW S, NEW U, NEW f, NEW e, NEW g, NEW h,
         Recursion(f, g, S), Recursion(e, h, U),
         NEW s, IsFiniteSet(s), s \subseteq S, s \subseteq U, \A x \in s : f[x] = e[x]
  PROVE  g[s] = h[s]
<1> DEFINE T == {k \in Nat : \A r \in SUBSET s : Cardinality(r) <= k => g[r] = h[r]}
<1>0. \A r \in SUBSET s : IsFiniteSet(r) /\ Cardinality(r) \in Nat
  BY FS_Subset, FS_CardinalityType
<1>g. \A r \in SUBSET s : g[r] = SumStep(f, g, r) /\ h[r] = SumStep(e, h, r)
  BY DEF Recursion
<1>1. 0 \in T
  <2>1. ASSUME NEW r \in SUBSET s, Cardinality(r) <= 0 PROVE g[r] = h[r]
    <3>1. r = {}
      BY <1>0, <2>1, FS_EmptySet
    <3> QED BY <1>g, <3>1 DEF SumStep
  <2> QED BY <2>1
<1>2. ASSUME NEW k \in T PROVE k + 1 \in T
  <2>1. ASSUME NEW r \in SUBSET s, Cardinality(r) <= k + 1 PROVE g[r] = h[r]
    <3>1. CASE r = {}
      BY <1>g, <3>1 DEF SumStep
    <3>2. CASE r # {}
      <4>1. RestOf(r) \in SUBSET s /\ Cardinality(RestOf(r)) <= k /\ AnyOf(r) \in s
        BY <1>0, <2>1, <3>2, RestFacts
      <4>2. g[RestOf(r)] = h[RestOf(r)]
        BY <4>1
      <4>3. f[AnyOf(r)] = e[AnyOf(r)]
        BY <4>1
      <4> QED BY <1>g, <3>2, <4>2, <4>3 DEF SumStep
    <3> QED BY <3>1, <3>2
  <2> QED BY <2>1
<1> HIDE DEF T
<1>3. Cardinality(s) \in Nat /\ Cardinality(s) \in T
  BY <1>0, <1>1, <1>2, NumberInduction DEF T
<1>4. s \in SUBSET s /\ Cardinality(s) <= Cardinality(s)
  BY <1>3
<1> QED BY <1>3, <1>4 DEF T

LEMMA SumsRecursion ==
  ASSUME NEW S, IsFiniteSet(S), NEW f, \A x \in S : f[x] \in Int
  PROVE  /\ Recursion(f, Sums(f, S), S)
         /\ Sums(f, S)[S] \in Int
<1>1. Cardinality(S) \in Nat
  BY FS_CardinalityType
<1>2. PICK g : Obeys(f, g, S, Cardinality(S))
  BY <1>1, SumsExist
<1>3. \A s \in SUBSET S : Cardinality(s) <= Cardinality(S)
  BY FS_Subset
<1>4. \A s \in SUBSET S : g[s] = SumStep(f, g, s)
  BY <1>2, <1>3 DEF Obeys
<1>5. g = [s \in SUBSET S |-> SumStep(f, g, s)]
  BY <1>2, <1>4 DEF Obeys
<1>6. Recursion(f, Sums(f, S), S)
  <2> HIDE <1>4
  <2>1. Sums(f, S) = [s \in SUBSET S |-> SumStep(f, Sums(f, S), s)]
    BY <1>5 DEF Sums
  <2> QED BY <2>1 DEF Recursion
<1>7. Recursion(f, g, S)
  BY <1>5 DEF Recursion
<1>8. Sums(f, S)[S] = g[S]
  BY <1>6, <1>7, SumsAgree
<1>9. g[S] \in Int
  BY <1>2 DEF Obeys
<1> QED BY <1>6, <1>8, <1>9

-----------------------------------------------------------------------------
\* Sums.

LEMMA SumOfNone ==
  ASSUME NEW f
  PROVE  SumFunctionOnSet(f, {}) = 0
<1>1. IsFiniteSet({}) /\ \A x \in {} : f[x] \in Int
  BY FS_EmptySet
<1>2. Recursion(f, Sums(f, {}), {})
  BY <1>1, SumsRecursion
<1>3. Sums(f, {})[{}] = SumStep(f, Sums(f, {}), {})
  BY <1>2 DEF Recursion
<1> QED BY <1>3, SumIs DEF SumStep

LEMMA SumType ==
  ASSUME NEW f, NEW S, IsFiniteSet(S), \A x \in S : f[x] \in Int
  PROVE  SumFunctionOnSet(f, S) \in Int
BY SumIs, SumsRecursion

\* The sum depends on the values only.
LEMMA SumOfSame ==
  ASSUME NEW f, NEW e, NEW S, IsFiniteSet(S),
         \A x \in S : f[x] \in Int /\ f[x] = e[x]
  PROVE  SumFunctionOnSet(f, S) = SumFunctionOnSet(e, S)
<1>1. Recursion(f, Sums(f, S), S) /\ Recursion(e, Sums(e, S), S)
  BY SumsRecursion
<1>2. Sums(f, S)[S] = Sums(e, S)[S]
  BY <1>1, SumsAgree
<1> QED BY <1>2, SumIs

LEMMA SumTakesAny ==
  ASSUME NEW f, NEW S, IsFiniteSet(S), S # {}, \A x \in S : f[x] \in Int
  PROVE  SumFunctionOnSet(f, S) = f[AnyOf(S)] + SumFunctionOnSet(f, RestOf(S))
<1>1. IsFiniteSet(RestOf(S)) /\ RestOf(S) \subseteq S
  BY RestFacts
<1>2. Recursion(f, Sums(f, S), S) /\ Recursion(f, Sums(f, RestOf(S)), RestOf(S))
  BY <1>1, SumsRecursion
<1>3. Sums(f, S)[RestOf(S)] = Sums(f, RestOf(S))[RestOf(S)]
  BY <1>1, <1>2, SumsAgree
<1>4. Sums(f, S)[S] = SumStep(f, Sums(f, S), S)
  BY <1>2 DEF Recursion
<1> QED BY <1>3, <1>4, SumIs DEF SumStep

\* Any element can be taken out first.
LEMMA SumRemove ==
  ASSUME NEW f, NEW S, IsFiniteSet(S), \A x \in S : f[x] \in Int, NEW x \in S
  PROVE  SumFunctionOnSet(f, S) = f[x] + SumFunctionOnSet(f, S \ {x})
<1> DEFINE Takes(s) ==
             \A y \in s : SumFunctionOnSet(f, s) = f[y] + SumFunctionOnSet(f, s \ {y})
           T == {k \in Nat : \A s \in SUBSET S : Cardinality(s) <= k => Takes(s)}
<1>0. \A s \in SUBSET S : /\ IsFiniteSet(s) /\ Cardinality(s) \in Nat
                          /\ SumFunctionOnSet(f, s) \in Int
  BY FS_Subset, FS_CardinalityType, SumType
<1>1. 0 \in T
  <2>1. \A s \in SUBSET S : Cardinality(s) <= 0 => s = {}
    BY <1>0, FS_EmptySet
  <2> QED BY <2>1
<1>2. ASSUME NEW k \in T PROVE k + 1 \in T
  <2>1. ASSUME NEW s \in SUBSET S, Cardinality(s) <= k + 1, NEW y \in s
        PROVE  SumFunctionOnSet(f, s) = f[y] + SumFunctionOnSet(f, s \ {y})
    <3> DEFINE a == AnyOf(s)
               r == s \ {a}
    <3>1. /\ a \in s /\ r = RestOf(s) /\ Cardinality(r) <= k
          /\ SumFunctionOnSet(f, s) = f[a] + SumFunctionOnSet(f, r)
      BY <1>0, <2>1, RestFacts, SumTakesAny DEF RestOf
    <3> HIDE DEF a
    <3>2. CASE y = a
      BY <3>1, <3>2
    <3>3. CASE y # a
      <4> DEFINE u == s \ {y}
                 both == s \ {a, y}
      <4>1. /\ r \in SUBSET S /\ u \in SUBSET S /\ both \in SUBSET S
            /\ y \in r /\ a \in u /\ r \ {y} = both /\ u \ {a} = both
        BY <3>1, <3>3
      <4>2. Cardinality(u) <= k
        <5>1. Cardinality(u) = Cardinality(s) - 1
          BY <1>0, FS_RemoveElement
        <5> QED BY <1>0, <2>1, <5>1
      <4> HIDE DEF u, both
      <4>3. SumFunctionOnSet(f, r) = f[y] + SumFunctionOnSet(f, both)
        <5>1. Takes(r)
          BY <3>1, <4>1
        <5> QED BY <4>1, <5>1
      <4>4. SumFunctionOnSet(f, u) = f[a] + SumFunctionOnSet(f, both)
        <5>1. Takes(u)
          BY <4>1, <4>2
        <5> QED BY <4>1, <5>1
      <4>5. SumFunctionOnSet(f, s) = f[y] + SumFunctionOnSet(f, u)
        <5>1. f[a] \in Int /\ f[y] \in Int /\ SumFunctionOnSet(f, both) \in Int
          BY <1>0, <3>1, <4>1
        <5> HIDE DEF r
        <5> QED BY <3>1, <4>3, <4>4, <5>1
      <4> QED BY <4>5 DEF u
    <3> QED BY <3>2, <3>3
  <2> QED BY <2>1
<1> HIDE DEF T
<1>3. Cardinality(S) \in Nat /\ Cardinality(S) \in T
  BY FS_CardinalityType, <1>1, <1>2, NumberInduction DEF T
<1>4. S \in SUBSET S /\ Cardinality(S) <= Cardinality(S)
  BY <1>3
<1>5. Takes(S)
  BY <1>3, <1>4 DEF T
<1> QED BY <1>5

LEMMA SumAdd ==
  ASSUME NEW f, NEW S, IsFiniteSet(S), NEW x, x \notin S,
         \A y \in S \cup {x} : f[y] \in Int
  PROVE  SumFunctionOnSet(f, S \cup {x}) = f[x] + SumFunctionOnSet(f, S)
<1>1. IsFiniteSet(S \cup {x}) /\ (S \cup {x}) \ {x} = S
  BY FS_AddElement
<1> QED BY <1>1, SumRemove

LEMMA SumUnion ==
  ASSUME NEW f, NEW S, NEW U, IsFiniteSet(S), IsFiniteSet(U), S \cap U = {},
         \A x \in S \cup U : f[x] \in Int
  PROVE  SumFunctionOnSet(f, S \cup U) = SumFunctionOnSet(f, S) + SumFunctionOnSet(f, U)
<1> DEFINE Adds(u) == SumFunctionOnSet(f, S \cup u)
                        = SumFunctionOnSet(f, S) + SumFunctionOnSet(f, u)
           T == {k \in Nat : \A u \in SUBSET U : Cardinality(u) <= k => Adds(u)}
<1>0. ASSUME NEW u \in SUBSET U
      PROVE  /\ IsFiniteSet(u) /\ Cardinality(u) \in Nat
             /\ IsFiniteSet(S \cup u)
             /\ SumFunctionOnSet(f, u) \in Int /\ SumFunctionOnSet(f, S) \in Int
             /\ SumFunctionOnSet(f, S \cup u) \in Int
  <2>1. IsFiniteSet(u) /\ Cardinality(u) \in Nat
    BY FS_Subset, FS_CardinalityType
  <2>2. IsFiniteSet(S \cup u)
    BY <2>1, FS_Union
  <2> QED BY <2>1, <2>2, SumType
<1>1. 0 \in T
  <2>1. ASSUME NEW u \in SUBSET U, Cardinality(u) <= 0 PROVE Adds(u)
    <3>1. IsFiniteSet(u) /\ Cardinality(u) \in Nat /\ SumFunctionOnSet(f, S) \in Int
      BY <1>0
    <3>2. u = {} /\ S \cup u = S
      BY <2>1, <3>1, FS_EmptySet
    <3> QED BY <3>1, <3>2, SumOfNone
  <2> QED BY <2>1
<1>2. ASSUME NEW k \in T PROVE k + 1 \in T
  <2>1. ASSUME NEW u \in SUBSET U, Cardinality(u) <= k + 1 PROVE Adds(u)
    <3>1. CASE u = {}
      <4>1. S \cup u = S
        BY <3>1
      <4> QED BY <1>0, <3>1, <4>1, SumOfNone
    <3>2. CASE u # {}
      <4> DEFINE a == AnyOf(u)
                 r == RestOf(u)
      <4>0. IsFiniteSet(u) /\ Cardinality(u) \in Nat /\ IsFiniteSet(S \cup u)
        BY <1>0
      <4>1. /\ a \in u /\ r \subseteq u /\ Cardinality(r) \in Nat
            /\ Cardinality(r) + 1 = Cardinality(u) /\ r = u \ {a}
        BY <3>2, <4>0, RestFacts DEF RestOf
      <4> HIDE DEF a, r
      <4>a. Cardinality(r) <= k /\ r \in SUBSET U
        BY <2>1, <4>0, <4>1
      <4>b. a \in S \cup u /\ (S \cup u) \ {a} = S \cup r
        BY <4>1
      <4>2. SumFunctionOnSet(f, S \cup r) = SumFunctionOnSet(f, S) + SumFunctionOnSet(f, r)
        BY <4>a
      <4>3. SumFunctionOnSet(f, u) = f[a] + SumFunctionOnSet(f, r)
        BY <4>0, <4>1, SumRemove
      <4>4. SumFunctionOnSet(f, S \cup u) = f[a] + SumFunctionOnSet(f, S \cup r)
        BY <4>0, <4>b, SumRemove
      <4>5. f[a] \in Int /\ SumFunctionOnSet(f, r) \in Int /\ SumFunctionOnSet(f, S) \in Int
        BY <1>0, <4>1, <4>a
      <4> QED BY <4>2, <4>3, <4>4, <4>5
    <3> QED BY <3>1, <3>2
  <2> QED BY <2>1
<1> HIDE DEF T
<1>3. Cardinality(U) \in Nat /\ Cardinality(U) \in T
  BY FS_CardinalityType, <1>1, <1>2, NumberInduction DEF T
<1>4. U \in SUBSET U /\ Cardinality(U) <= Cardinality(U)
  BY <1>3
<1> QED BY <1>3, <1>4 DEF T

LEMMA SumIsNat ==
  ASSUME NEW f, NEW S, IsFiniteSet(S), \A x \in S : f[x] \in Nat
  PROVE  SumFunctionOnSet(f, S) \in Nat
<1> DEFINE T == {k \in Nat : \A s \in SUBSET S :
                   Cardinality(s) <= k => SumFunctionOnSet(f, s) \in Nat}
<1>0. \A s \in SUBSET S : IsFiniteSet(s) /\ Cardinality(s) \in Nat
  BY FS_Subset, FS_CardinalityType
<1>1. 0 \in T
  <2>1. \A s \in SUBSET S : Cardinality(s) <= 0 => s = {}
    BY <1>0, FS_EmptySet
  <2> QED BY <2>1, SumOfNone
<1>2. ASSUME NEW k \in T PROVE k + 1 \in T
  <2>1. ASSUME NEW s \in SUBSET S, Cardinality(s) <= k + 1, s # {}
        PROVE  SumFunctionOnSet(f, s) \in Nat
    <3>1. /\ AnyOf(s) \in S /\ RestOf(s) \in SUBSET S /\ Cardinality(RestOf(s)) <= k
          /\ SumFunctionOnSet(f, s) = f[AnyOf(s)] + SumFunctionOnSet(f, RestOf(s))
      BY <1>0, <2>1, RestFacts, SumTakesAny
    <3>2. SumFunctionOnSet(f, RestOf(s)) \in Nat
      BY <3>1
    <3> QED BY <3>1, <3>2
  <2>2. SumFunctionOnSet(f, {}) \in Nat
    BY SumOfNone
  <2>3. \A s \in SUBSET S : Cardinality(s) <= k + 1 => SumFunctionOnSet(f, s) \in Nat
    BY <2>1, <2>2
  <2> QED BY <2>3
<1> HIDE DEF T
<1>3. Cardinality(S) \in Nat /\ Cardinality(S) \in T
  BY FS_CardinalityType, <1>1, <1>2, NumberInduction DEF T
<1>4. S \in SUBSET S /\ Cardinality(S) <= Cardinality(S)
  BY <1>3
<1> QED BY <1>3, <1>4 DEF T

\* The sums of disjoint sets make up the sum of their union.
LEMMA SumOfSums ==
  ASSUME NEW f, NEW g, NEW W, NEW n \in Nat,
         \A k \in 1 .. n : /\ IsFiniteSet(W[k]) /\ g[k] = SumFunctionOnSet(f, W[k])
                           /\ \A x \in W[k] : f[x] \in Int,
         \A j, k \in 1 .. n : j # k => W[j] \cap W[k] = {}
  PROVE  SumFunctionOnSet(g, 1 .. n) = SumFunctionOnSet(f, UNION {W[k] : k \in 1 .. n})
<1> DEFINE U(j) == UNION {W[k] : k \in 1 .. j}
           Sums1(j) == /\ IsFiniteSet(U(j))
                       /\ SumFunctionOnSet(g, 1 .. j) = SumFunctionOnSet(f, U(j))
           T == {j \in Nat : j <= n => Sums1(j)}
<1>1. 0 \in T
  <2>1. 1 .. 0 = {}
    OBVIOUS
  <2>2. U(0) = {}
    BY <2>1
  <2> HIDE DEF U
  <2>3. Sums1(0)
    BY <2>1, <2>2, SumOfNone, FS_EmptySet
  <2> QED BY <2>3
<1>2. ASSUME NEW j \in T PROVE j + 1 \in T
  <2>0. SUFFICES ASSUME j + 1 <= n PROVE Sums1(j + 1)
    OBVIOUS
  <2> DEFINE k == j + 1
  <2>1. /\ j \in Nat /\ k \in 1 .. n /\ k \notin 1 .. j
        /\ 1 .. k = (1 .. j) \cup {k} /\ 1 .. j \subseteq 1 .. n
    BY <2>0
  <2> HIDE DEF k
  <2>2. Sums1(j)
    BY <2>0
  <2>3. U(k) = U(j) \cup W[k]
    BY <2>1
  <2>s. \A x \in U(k) : \E i \in 1 .. n : x \in W[i]
    BY <2>1
  <2>t. U(j) \cap W[k] = {}
    BY <2>1
  <2>u. \A x \in U(k) : f[x] \in Int
    BY <2>s
  <2> DEFINE A == U(j)
             B == U(k)
  <2>v. /\ B = A \cup W[k] /\ A \cap W[k] = {} /\ \A x \in B : f[x] \in Int
        /\ IsFiniteSet(A) /\ SumFunctionOnSet(g, 1 .. j) = SumFunctionOnSet(f, A)
    BY <2>2, <2>3, <2>t, <2>u
  <2> HIDE DEF A, B, U
  <2>4. IsFiniteSet(W[k]) /\ g[k] = SumFunctionOnSet(f, W[k])
    BY <2>1
  <2>5. SumFunctionOnSet(f, B) = SumFunctionOnSet(f, A) + SumFunctionOnSet(f, W[k])
    BY <2>4, <2>v, SumUnion
  <2>6. IsFiniteSet(B)
    BY <2>4, <2>v, FS_Union
  <2>7. IsFiniteSet(1 .. j)
    BY <2>1, FS_Interval
  <2>8. \A i \in (1 .. j) \cup {k} : g[i] \in Int
    BY <2>1, SumType
  <2>9. SumFunctionOnSet(g, 1 .. k) = g[k] + SumFunctionOnSet(g, 1 .. j)
    <3> DEFINE M == 1 .. j
    <3>1. /\ IsFiniteSet(M) /\ k \notin M /\ 1 .. k = M \cup {k}
          /\ \A i \in M \cup {k} : g[i] \in Int
      BY <2>1, <2>7, <2>8
    <3> HIDE DEF M
    <3>2. SumFunctionOnSet(g, M \cup {k}) = g[k] + SumFunctionOnSet(g, M)
      BY <3>1, SumAdd
    <3>3. SumFunctionOnSet(g, 1 .. k) = SumFunctionOnSet(g, M \cup {k})
      BY <3>1
    <3> QED BY <3>2, <3>3 DEF M
  <2>10. SumFunctionOnSet(g, 1 .. j) \in Int /\ g[k] \in Int
    BY <2>7, <2>8, SumType
  <2>11. IsFiniteSet(B) /\ SumFunctionOnSet(g, 1 .. k) = SumFunctionOnSet(f, B)
    BY <2>4, <2>5, <2>6, <2>9, <2>10, <2>v
  <2> QED BY <2>11 DEF k, B, U
<1> HIDE DEF T
<1>3. n \in T
  BY <1>1, <1>2, NumberInduction DEF T
<1> QED BY <1>3 DEF T
=============================================================================
