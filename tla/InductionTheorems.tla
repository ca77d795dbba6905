-------------------------- MODULE InductionTheorems --------------------------
(***************************************************************************)
(* Induction over the naturals, and what SumFunctionOnSet computes.        *)
(***************************************************************************)
EXTENDS Functions, FiniteSetTheorems, TLAPS

\* Induction over the naturals, for a set of them.
LEMMA NatSetInduction ==
  ASSUME NEW T \in SUBSET Nat, 0 \in T, \A n \in T : n + 1 \in T
  PROVE  T = Nat
<1> SUFFICES ASSUME Nat \ T # {} PROVE FALSE
  OBVIOUS
<1>1. PICK n \in Nat \ T : \A m \in Nat \ T : ~(<< m, n >> \in OpToRel(<, Nat))
  BY NatLessThanWellFounded, WFMin
<1>2. \A m \in Nat \ T : ~(m < n)
  BY <1>1 DEF OpToRel
<1>3. n # 0 /\ n - 1 \in Nat /\ n - 1 < n
  OBVIOUS
<1>4. n - 1 \in T
  BY <1>2, <1>3
<1>5. (n - 1) + 1 \in T
  BY <1>4
<1>6. QED
  BY <1>5

\* The element that a sum takes next, and the equation that its function satisfies.
Pick(s) == CHOOSE x \in s : TRUE
Body(f, h, s) == IF s = {} THEN 0 ELSE f[Pick(s)] + h[s \ {Pick(s)}]
Sums(f, S, h) == h = [s \in SUBSET S |-> Body(f, h, s)]

\* An element is taken from a set that is not empty, and leaves it smaller.
LEMMA PickSmaller ==
  ASSUME NEW S, IsFiniteSet(S), NEW s \in SUBSET S, s # {}
  PROVE  /\ Pick(s) \in s /\ s \ {Pick(s)} \in SUBSET S
         /\ Cardinality(s) \in Nat \ {0}
         /\ Cardinality(s \ {Pick(s)}) = Cardinality(s) - 1
<1>1. Pick(s) \in s
  BY DEF Pick
<1>2. IsFiniteSet(s) /\ Cardinality(s) \in Nat
  BY FS_Subset, FS_CardinalityType
<1>3. Cardinality(s \ {Pick(s)}) = Cardinality(s) - 1
  BY <1>1, <1>2, FS_RemoveElement
<1>4. Cardinality(s) # 0
  BY <1>2, FS_EmptySet
<1>5. QED
  BY <1>1, <1>2, <1>3, <1>4

\* Only the empty set has no elements.
LEMMA NoElements ==
  ASSUME NEW S, IsFiniteSet(S), NEW s \in SUBSET S, Cardinality(s) <= 0
  PROVE  s = {}
<1> SUFFICES ASSUME s # {} PROVE FALSE
  OBVIOUS
<1>1. Cardinality(s) \in Nat \ {0}
  BY PickSmaller
<1>2. QED
  BY <1>1

\* Induction over the subsets of a finite set: what holds of none of its elements, and
\* of one more, holds of all.
LEMMA SubsetInduction ==
  ASSUME NEW S, IsFiniteSet(S), NEW F \in SUBSET SUBSET S, {} \in F,
         \A s \in F : \A x \in S \ s : s \cup {x} \in F
  PROVE  F = SUBSET S
<1> DEFINE T == {n \in Nat : \A s \in SUBSET S : Cardinality(s) <= n => s \in F}
<1>1. 0 \in T
  BY NoElements
<1>2. ASSUME NEW n \in T PROVE n + 1 \in T
  <2> SUFFICES ASSUME NEW s \in SUBSET S, Cardinality(s) <= n + 1 PROVE s \in F
    BY <1>2
  <2>1. CASE s = {}
    BY <2>1
  <2>2. CASE s # {}
    <3>1. /\ Pick(s) \in s /\ s \ {Pick(s)} \in SUBSET S /\ Cardinality(s) \in Nat
          /\ Cardinality(s \ {Pick(s)}) = Cardinality(s) - 1
      BY <2>2, PickSmaller
    <3>2. s \ {Pick(s)} \in F
      BY <1>2, <3>1
    <3>3. s = (s \ {Pick(s)}) \cup {Pick(s)} /\ Pick(s) \in S \ (s \ {Pick(s)})
      BY <3>1
    <3> QED
      BY <3>2, <3>3
  <2> QED
    BY <2>1, <2>2
<1> HIDE DEF T
<1>3. T = Nat
  BY <1>1, <1>2, NatSetInduction DEF T
<1>4. ASSUME NEW s \in SUBSET S PROVE s \in F
  <2>1. Cardinality(s) \in T
    BY <1>3, FS_Subset, FS_CardinalityType
  <2> QED
    BY <2>1 DEF T
<1> QED
  BY <1>4

\* The equation has a solution over the subsets of a finite set.
LEMMA SumsExist ==
  ASSUME NEW S, IsFiniteSet(S), NEW f
  PROVE  \E h : Sums(f, S, h)
<1> DEFINE UpTo(h, n) ==
             \A s \in SUBSET S : Cardinality(s) <= n => h[s] = Body(f, h, s)
           T == {n \in Nat : \E h : UpTo(h, n)}
<1>1. 0 \in T
  <2> DEFINE h == [s \in SUBSET S |-> 0]
  <2>1. \A s \in SUBSET S : Cardinality(s) <= 0 => s = {}
    BY NoElements
  <2>2. UpTo(h, 0)
    BY <2>1 DEF Body
  <2>3. QED
    BY <2>2
<1>2. ASSUME NEW n \in T PROVE n + 1 \in T
  <2>1. PICK g : UpTo(g, n)
    OBVIOUS
  <2> DEFINE h == [s \in SUBSET S |-> Body(f, g, s)]
  <2>2. ASSUME NEW s \in SUBSET S, Cardinality(s) <= n + 1
        PROVE  h[s] = Body(f, h, s)
    <3>1. CASE s = {}
      BY <3>1 DEF Body
    <3>2. CASE s # {}
      <4> DEFINE r == s \ {Pick(s)}
      <4>1. r \in SUBSET S /\ Cardinality(r) <= n
        BY <2>2, <3>2, PickSmaller
      <4>2. h[r] = g[r]
        BY <2>1, <4>1
      <4>3. QED
        BY <3>2, <4>2 DEF Body
    <3>3. QED
      BY <3>1, <3>2
  <2>3. UpTo(h, n + 1)
    BY <2>2
  <2> HIDE DEF UpTo, h
  <2>4. n \in Nat
    OBVIOUS
  <2>5. QED
    BY <2>3, <2>4
<1>3. T = Nat
  <2> HIDE DEF T
  <2>1. T \in SUBSET Nat
    BY DEF T
  <2>2. QED
    BY <1>1, <1>2, <2>1, NatSetInduction
<1>4. Cardinality(S) \in Nat /\ \A s \in SUBSET S : Cardinality(s) <= Cardinality(S)
  BY FS_CardinalityType, FS_Subset
<1>5. PICK g : UpTo(g, Cardinality(S))
  BY <1>3, <1>4
<1> DEFINE h == [s \in SUBSET S |-> g[s]]
<1>6. \A s \in SUBSET S : h[s] = Body(f, h, s)
  <2> TAKE s \in SUBSET S
  <2>1. g[s] = Body(f, g, s)
    BY <1>4, <1>5
  <2>2. s # {} => s \ {Pick(s)} \in SUBSET S
    OBVIOUS
  <2>3. QED
    BY <2>1, <2>2 DEF Body
<1>7. Sums(f, S, h)
  BY <1>6 DEF Sums
<1>8. QED
  BY <1>7

\* A sum is the value of a solution.
LEMMA SumIsSolution ==
  ASSUME NEW S, IsFiniteSet(S), NEW f
  PROVE  \E h : Sums(f, S, h) /\ SumFunctionOnSet(f, S) = h[S]
<1>1. SumFunctionOnSet(f, S) = (CHOOSE h : Sums(f, S, h))[S]
  BY DEF SumFunctionOnSet, FoldFunctionOnSet, MapThenFoldSet, Sums, Body, Pick
<1>2. Sums(f, S, CHOOSE h : Sums(f, S, h))
  BY SumsExist
<1>3. QED
  BY <1>1, <1>2

\* Solutions agree on the sets where the functions that they sum agree.
LEMMA SolutionsAgree ==
  ASSUME NEW S, IsFiniteSet(S), NEW R \in SUBSET S, NEW f, NEW g, NEW h, NEW k,
         Sums(f, S, h), Sums(g, R, k), \A x \in R : f[x] = g[x]
  PROVE  h[R] = k[R]
<1>0. IsFiniteSet(R)
  BY FS_Subset
<1> DEFINE T == {n \in Nat : \A s \in SUBSET R : Cardinality(s) <= n => h[s] = k[s]}
<1>1. \A s \in SUBSET R : h[s] = Body(f, h, s) /\ k[s] = Body(g, k, s)
  BY DEF Sums
<1>2. 0 \in T
  <2>1. ASSUME NEW s \in SUBSET R, Cardinality(s) <= 0
        PROVE  h[s] = k[s]
    <3>1. s = {}
      BY <1>0, <2>1, NoElements
    <3>2. QED
      BY <1>1, <3>1 DEF Body
  <2>2. QED
    BY <2>1
<1>3. ASSUME NEW n \in T PROVE n + 1 \in T
  <2>0. n \in Nat /\ \A s \in SUBSET R : Cardinality(s) <= n => h[s] = k[s]
    OBVIOUS
  <2>1. ASSUME NEW s \in SUBSET R, Cardinality(s) <= n + 1
        PROVE  h[s] = k[s]
    <3>1. CASE s = {}
      BY <1>1, <3>1 DEF Body
    <3>2. CASE s # {}
      <4>1. /\ s \ {Pick(s)} \in SUBSET R /\ Cardinality(s \ {Pick(s)}) <= n
            /\ Pick(s) \in R
        BY <1>0, <2>0, <2>1, <3>2, PickSmaller
      <4>2. h[s \ {Pick(s)}] = k[s \ {Pick(s)}]
        BY <2>0, <4>1
      <4>3. QED
        BY <1>1, <3>2, <4>1, <4>2 DEF Body
    <3>3. QED
      BY <3>1, <3>2
  <2>2. QED
    BY <2>0, <2>1
<1>4. T = Nat
  <2> HIDE DEF T
  <2>1. T \in SUBSET Nat
    BY DEF T
  <2>2. QED
    BY <1>2, <1>3, <2>1, NatSetInduction
<1>5. Cardinality(R) \in Nat
  BY <1>0, FS_CardinalityType
<1>6. QED
  BY <1>4, <1>5

\* A solution for integers takes the elements of a set in any order.
LEMMA SolutionTakesAny ==
  ASSUME NEW S, IsFiniteSet(S), NEW f, \A x \in S : f[x] \in Int, NEW h, Sums(f, S, h),
         NEW s \in SUBSET S
  PROVE  h[s] \in Int /\ \A x \in s : h[s] = f[x] + h[s \ {x}]
<1> DEFINE Any(r) == h[r] \in Int /\ \A x \in r : h[r] = f[x] + h[r \ {x}]
           T == {n \in Nat : \A r \in SUBSET S : Cardinality(r) <= n => Any(r)}
<1>1. \A r \in SUBSET S : h[r] = Body(f, h, r)
  BY DEF Sums
<1>2. Any({})
  <2>1. {} \in SUBSET S
    OBVIOUS
  <2>2. h[{}] = 0
    BY <1>1, <2>1 DEF Body
  <2>3. QED
    BY <2>2
<1>3. 0 \in T
  <2>1. \A r \in SUBSET S : Cardinality(r) <= 0 => r = {}
    BY NoElements
  <2> HIDE DEF Any
  <2>2. QED
    BY <1>2, <2>1
<1>4. ASSUME NEW n \in T PROVE n + 1 \in T
  <2>0. n \in Nat /\ \A r \in SUBSET S : Cardinality(r) <= n => Any(r)
    OBVIOUS
  <2> HIDE DEF T
  <2>1. ASSUME NEW r \in SUBSET S, Cardinality(r) <= n + 1, r # {}
        PROVE  Any(r)
    <3> DEFINE y == Pick(r)
    <3>1. /\ y \in r /\ r \ {y} \in SUBSET S /\ Cardinality(r) \in Nat
          /\ Cardinality(r \ {y}) <= n
      BY <2>0, <2>1, PickSmaller
    <3>2. h[r] = f[y] + h[r \ {y}]
      BY <1>1, <2>1 DEF Body
    <3>3. Any(r \ {y})
      BY <2>0, <3>1
    <3> HIDE DEF y
    <3>4. h[r] \in Int
      BY <3>1, <3>2, <3>3
    <3>5. ASSUME NEW x \in r, x # y
          PROVE  h[r] = f[x] + h[r \ {x}]
      <4> DEFINE q == (r \ {x}) \ {y}
      <4>1. q = (r \ {y}) \ {x} /\ x \in r \ {y} /\ y \in r \ {x} /\ q \in SUBSET S
        BY <3>1, <3>5
      <4>2. h[r \ {y}] = f[x] + h[q]
        BY <3>3, <4>1
      <4>3. Cardinality(r \ {x}) <= n /\ r \ {x} \in SUBSET S
        <5>1. IsFiniteSet(r)
          BY FS_Subset
        <5>2. Cardinality(r \ {x}) = Cardinality(r) - 1
          BY <5>1, FS_RemoveElement
        <5>3. QED
          BY <2>0, <2>1, <3>1, <5>2
      <4>4. Any(r \ {x})
        BY <2>0, <4>3
      <4>5. h[r \ {x}] = f[y] + h[q] /\ h[r \ {x}] \in Int
        BY <4>1, <4>4
      <4>6. h[q] \in Int
        <5>1. Cardinality(q) <= n
          <6>1. IsFiniteSet(r \ {x})
            BY <4>3, FS_Subset
          <6>2. Cardinality(q) <= Cardinality(r \ {x}) /\ Cardinality(r \ {x}) \in Nat
            BY <6>1, FS_Subset, FS_CardinalityType
          <6>3. Cardinality(q) \in Nat
            BY <4>1, FS_Subset, FS_CardinalityType
          <6>4. QED
            BY <2>0, <4>3, <6>2, <6>3
        <5>2. QED
          BY <2>0, <4>1, <5>1
      <4>7. f[x] \in Int /\ f[y] \in Int
        BY <3>1
      <4> HIDE DEF q
      <4>8. QED
        BY <3>2, <4>2, <4>5, <4>6, <4>7
    <3>6. QED
      BY <3>2, <3>4, <3>5
  <2> HIDE DEF Any
  <2>2. \A r \in SUBSET S : Cardinality(r) <= n + 1 => Any(r)
    BY <1>2, <2>1
  <2>3. QED
    BY <2>0, <2>2 DEF T
<1>5. T = Nat
  <2> HIDE DEF T
  <2>1. T \in SUBSET Nat
    BY DEF T
  <2>2. QED
    BY <1>3, <1>4, <2>1, NatSetInduction
<1>6. Cardinality(s) \in Nat
  BY FS_Subset, FS_CardinalityType
<1>7. QED
  BY <1>5, <1>6
-----------------------------------------------------------------------------
\* The sum over no elements.
LEMMA SumEmpty ==
  ASSUME NEW f
  PROVE  SumFunctionOnSet(f, {}) = 0
<1>1. IsFiniteSet({})
  BY FS_EmptySet
<1>2. PICK h : Sums(f, {}, h) /\ SumFunctionOnSet(f, {}) = h[{}]
  BY <1>1, SumIsSolution
<1>3. QED
  BY <1>2 DEF Sums, Body

\* The sum of integers is an integer.
LEMMA SumType ==
  ASSUME NEW S, IsFiniteSet(S), NEW f, \A x \in S : f[x] \in Int
  PROVE  SumFunctionOnSet(f, S) \in Int
<1>1. PICK h : Sums(f, S, h) /\ SumFunctionOnSet(f, S) = h[S]
  BY SumIsSolution
<1>2. QED
  BY <1>1, SolutionTakesAny

\* One more element adds its value.
LEMMA SumAdd ==
  ASSUME NEW S, IsFiniteSet(S), NEW x, x \notin S, NEW f,
         \A y \in S \cup {x} : f[y] \in Int
  PROVE  SumFunctionOnSet(f, S \cup {x}) = f[x] + SumFunctionOnSet(f, S)
<1> DEFINE R == S \cup {x}
<1>0. IsFiniteSet(R) /\ R \ {x} = S /\ S \in SUBSET R
  BY FS_AddElement
<1> HIDE DEF R
<1>1. PICK h : Sums(f, R, h) /\ SumFunctionOnSet(f, R) = h[R]
  BY <1>0, SumIsSolution
<1>2. PICK k : Sums(f, S, k) /\ SumFunctionOnSet(f, S) = k[S]
  BY SumIsSolution
<1>3. h[S] = k[S]
  BY <1>0, <1>1, <1>2, SolutionsAgree
<1>4. h[R] = f[x] + h[R \ {x}]
  <2>1. R \in SUBSET R /\ x \in R /\ \A y \in R : f[y] \in Int
    BY DEF R
  <2>2. QED
    BY <1>0, <1>1, <2>1, SolutionTakesAny
<1>5. SumFunctionOnSet(f, R) = f[x] + SumFunctionOnSet(f, S)
  BY <1>0, <1>1, <1>2, <1>3, <1>4
<1>6. QED
  BY <1>5 DEF R

\* One element less takes its value away.
LEMMA SumRemove ==
  ASSUME NEW S, IsFiniteSet(S), NEW x \in S, NEW f, \A y \in S : f[y] \in Int
  PROVE  SumFunctionOnSet(f, S) = f[x] + SumFunctionOnSet(f, S \ {x})
<1> DEFINE R == S \ {x}
<1>1. IsFiniteSet(R) /\ x \notin R /\ R \cup {x} = S
  BY FS_RemoveElement
<1>2. \A y \in R \cup {x} : f[y] \in Int
  BY <1>1
<1> HIDE DEF R
<1>3. SumFunctionOnSet(f, R \cup {x}) = f[x] + SumFunctionOnSet(f, R)
  BY <1>1, <1>2, SumAdd
<1>4. QED
  BY <1>1, <1>3 DEF R

\* Functions with the same values have the same sum.
LEMMA SumSame ==
  ASSUME NEW S, IsFiniteSet(S), NEW f, NEW g, \A x \in S : f[x] = g[x]
  PROVE  SumFunctionOnSet(f, S) = SumFunctionOnSet(g, S)
<1>1. PICK h : Sums(f, S, h) /\ SumFunctionOnSet(f, S) = h[S]
  BY SumIsSolution
<1>2. PICK k : Sums(g, S, k) /\ SumFunctionOnSet(g, S) = k[S]
  BY SumIsSolution
<1>3. h[S] = k[S]
  BY <1>1, <1>2, SolutionsAgree
<1>4. QED
  BY <1>1, <1>2, <1>3

\* Fewer summands, a smaller sum.
LEMMA SumMonotone ==
  ASSUME NEW S, IsFiniteSet(S), NEW f, \A x \in S : f[x] \in Nat, NEW s \in SUBSET S
  PROVE  /\ SumFunctionOnSet(f, s) \in Nat
         /\ SumFunctionOnSet(f, s) <= SumFunctionOnSet(f, S)
<1> DEFINE sum(r) == SumFunctionOnSet(f, r)
           F == {r \in SUBSET S : sum(r) \in Nat}
           G == {r \in SUBSET (S \ s) : sum(s) <= sum(s \cup r)}
<1>1. \A r \in SUBSET S : IsFiniteSet(r)
  BY FS_Subset
<1>2. ASSUME NEW r \in SUBSET S PROVE sum(r) \in Int
  <2>1. IsFiniteSet(r) /\ \A x \in r : f[x] \in Int
    BY <1>1
  <2> QED
    BY <2>1, SumType
<1>3. ASSUME NEW r \in SUBSET S, NEW x \in S \ r PROVE sum(r \cup {x}) = f[x] + sum(r)
  <2>1. IsFiniteSet(r) /\ x \notin r /\ \A y \in r \cup {x} : f[y] \in Int
    BY <1>1
  <2> QED
    BY <2>1, SumAdd
<1>4. sum({}) = 0
  BY SumEmpty
<1> HIDE DEF sum
<1>5. F = SUBSET S
  <2>1. {} \in F /\ F \in SUBSET SUBSET S
    BY <1>4
  <2>2. ASSUME NEW r \in F, NEW x \in S \ r PROVE r \cup {x} \in F
    <3>1. sum(r \cup {x}) = f[x] + sum(r) /\ f[x] \in Nat /\ sum(r) \in Nat
      BY <1>3
    <3> QED
      BY <3>1
  <2> HIDE DEF F
  <2> QED
    BY <2>1, <2>2, SubsetInduction
<1>6. G = SUBSET (S \ s)
  <2>1. {} \in G /\ G \in SUBSET SUBSET (S \ s)
    BY <1>2
  <2>2. ASSUME NEW r \in G, NEW x \in (S \ s) \ r PROVE r \cup {x} \in G
    <3>1. s \cup r \in SUBSET S /\ x \in S \ (s \cup r) /\ s \cup (r \cup {x}) = (s \cup r) \cup {x}
      OBVIOUS
    <3>2. sum(s \cup (r \cup {x})) = f[x] + sum(s \cup r) /\ f[x] \in Nat
      BY <1>3, <3>1
    <3>3. sum(s) <= sum(s \cup r) /\ sum(s \cup r) \in Int /\ sum(s) \in Int
      BY <1>2, <3>1
    <3> QED
      BY <3>2, <3>3
  <2>3. IsFiniteSet(S \ s)
    BY <1>1
  <2> HIDE DEF G
  <2> QED
    BY <2>1, <2>2, <2>3, SubsetInduction
<1>7. S \ s \in G /\ s \in F /\ s \cup (S \ s) = S
  BY <1>5, <1>6
<1> QED
  BY <1>7 DEF sum

\* Products are added up factor by factor.
LEMMA Distribute ==
  ASSUME NEW a \in Int, NEW b \in Int, NEW c \in Int
  PROVE  a * (b + c) = a * b + a * c
OBVIOUS

\* A bound on each summand, up to a factor and a rest, is one on the sum.
LEMMA SumScaled ==
  ASSUME NEW S, IsFiniteSet(S), NEW f, NEW m, NEW L \in Nat, NEW c \in Nat,
         NEW e \in Nat,
         \A x \in S : f[x] \in Nat /\ m[x] \in Nat /\ L * f[x] <= c * m[x] + e
  PROVE  L * SumFunctionOnSet(f, S) <= c * SumFunctionOnSet(m, S) + e * Cardinality(S)
<1> DEFINE F == {r \in SUBSET S :
                   L * SumFunctionOnSet(f, r) <= c * SumFunctionOnSet(m, r) + e * Cardinality(r)}
<1>1. {} \in F /\ F \in SUBSET SUBSET S
  BY SumEmpty, FS_EmptySet
<1>2. ASSUME NEW r \in F, NEW x \in S \ r PROVE r \cup {x} \in F
  <2>1. /\ IsFiniteSet(r) /\ r \in SUBSET S
        /\ \A y \in r \cup {x} : f[y] \in Int /\ m[y] \in Int
    BY FS_Subset
  <2>2. SumFunctionOnSet(f, r) \in Int /\ SumFunctionOnSet(m, r) \in Int
    BY <2>1, SumType
  <2>3. PICK a \in Int, b \in Int, n \in Nat :
          a = SumFunctionOnSet(f, r) /\ b = SumFunctionOnSet(m, r) /\ n = Cardinality(r)
    BY <2>1, <2>2, FS_CardinalityType
  <2>4. /\ SumFunctionOnSet(f, r \cup {x}) = f[x] + SumFunctionOnSet(f, r)
        /\ SumFunctionOnSet(m, r \cup {x}) = m[x] + SumFunctionOnSet(m, r)
    BY <2>1, SumAdd
  <2>5. /\ SumFunctionOnSet(f, r \cup {x}) = f[x] + a
        /\ SumFunctionOnSet(m, r \cup {x}) = m[x] + b
        /\ Cardinality(r \cup {x}) = n + 1
    BY <2>1, <2>3, <2>4, FS_AddElement
  <2>6. L * a <= c * b + e * n
    BY <2>3
  <2>7. PICK u \in Nat, v \in Nat : u = f[x] /\ v = m[x]
    OBVIOUS
  <2>8. /\ L * (u + a) = L * u + L * a /\ c * (v + b) = c * v + c * b
        /\ e * (n + 1) = e * n + e * 1
    BY Distribute
  <2>9. L * u <= c * v + e /\ e * 1 = e
    BY <2>7
  <2>10. L * (u + a) <= c * (v + b) + e * (n + 1)
    <3>1. \A lu, la, cv, cb, en \in Int :
            la <= cb + en /\ lu <= cv + e => lu + la <= (cv + cb) + (en + e)
      OBVIOUS
    <3>2. L * u \in Int /\ L * a \in Int /\ c * v \in Int /\ c * b \in Int /\ e * n \in Int
      OBVIOUS
    <3>3. L * u + L * a <= (c * v + c * b) + (e * n + e)
      BY <2>6, <2>9, <3>1, <3>2
    <3> QED
      BY <2>8, <2>9, <3>3
  <2> QED
    BY <2>1, <2>5, <2>7, <2>10
<1> HIDE DEF F
<1>3. F = SUBSET S
  BY <1>1, <1>2, SubsetInduction
<1> QED
  BY <1>3 DEF F
===============================================================================
