--------------------------- MODULE ExchangeLemmas ---------------------------
(***************************************************************************)
(* Facts about the operators of DomainExchange: sums over ranks and keys,  *)
(* the stable sort, the assignment of key ranges and the send ranges, for  *)
(* any number of ranks, keys and particles.                                *)
(***************************************************************************)
EXTENDS ExchangeInvariant, NumberLemmas

\* Zenon first: in a context as large as this one it is the faster of the two provers.
USE ZenonT(10), SMTT(30)

-----------------------------------------------------------------------------
(* Sums *)
\* one step of the fold behind SumFunctionOnSet
SumStep(f, g, s) ==
    IF s = {} THEN 0 ELSE f[CHOOSE x \in s : TRUE] + g[s \ {CHOOSE x \in s : TRUE}]

\* The recursion of a sum over a finite set has a solution.
LEMMA SumRecursion ==
    ASSUME NEW S, IsFiniteSet(S), NEW f
    PROVE  \E g : g = [s \in SUBSET S |-> SumStep(f, g, s)]
<1> DEFINE Dom(n) == {s \in SUBSET S : Cardinality(s) <= n}
           Solves(g, n) == g = [s \in Dom(n) |-> SumStep(f, g, s)]
           I == {n \in Nat : \E g : Solves(g, n)}
<1>1. \A s \in SUBSET S : IsFiniteSet(s) /\ Cardinality(s) \in Nat
  BY FS_Subset, FS_CardinalityType
<1>2. ASSUME NEW n \in Nat, NEW s \in Dom(n + 1), s # {}
      PROVE  s \ {CHOOSE x \in s : TRUE} \in Dom(n)
  <2> DEFINE x == CHOOSE y \in s : TRUE
  <2>1. x \in s
    BY <1>2
  <2> HIDE DEF x
  <2>2. Cardinality(s \ {x}) = Cardinality(s) - 1
    BY <1>1, <2>1, FS_RemoveElement
  <2>3. Cardinality(s) <= n + 1 /\ Cardinality(s) \in Nat /\ s \in SUBSET S
    BY <1>1
  <2>4. Cardinality(s \ {x}) <= n
    BY <2>2, <2>3
  <2> QED
    BY <2>3, <2>4 DEF x
<1>3. 0 \in I
  <2> DEFINE g == [s \in Dom(0) |-> 0]
  <2>1. \A s \in Dom(0) : s = {}
    BY <1>1, FS_EmptySet
  <2>2. \A s \in Dom(0) : SumStep(f, g, s) = 0
    BY <2>1 DEF SumStep
  <2>3. Solves(g, 0)
    BY <2>2
  <2> QED
    BY <2>3
<1>4. ASSUME NEW n \in Nat, n \in I PROVE n + 1 \in I
  <2>1. PICK g : Solves(g, n)
    BY <1>4
  <2> DEFINE h == [s \in Dom(n + 1) |-> SumStep(f, g, s)]
  <2>2. \A s \in Dom(n) : s \in Dom(n + 1)
    BY <1>1
  <2>3. \A s \in Dom(n) : h[s] = g[s]
    <3> HIDE DEF Dom
    <3>1. \A s \in Dom(n) : g[s] = SumStep(f, g, s)
      BY <2>1
    <3> QED
      BY <2>2, <3>1
  <2> HIDE DEF Dom, h
  <2>4. ASSUME NEW s \in Dom(n + 1) PROVE SumStep(f, g, s) = SumStep(f, h, s)
    <3>1. CASE s = {}
      BY <3>1 DEF SumStep
    <3>2. CASE s # {}
      <4> DEFINE x == CHOOSE y \in s : TRUE
      <4>1. s \ {x} \in Dom(n)
        BY <1>2, <3>2
      <4>2. SumStep(f, g, s) = f[x] + g[s \ {x}] /\ SumStep(f, h, s) = f[x] + h[s \ {x}]
        BY <3>2 DEF SumStep
      <4> HIDE DEF x
      <4>3. h[s \ {x}] = g[s \ {x}]
        BY <2>3, <4>1
      <4> QED
        BY <4>2, <4>3
    <3> QED
      BY <3>1, <3>2
  <2>5. h = [s \in Dom(n + 1) |-> SumStep(f, h, s)]
    BY <2>4 DEF h
  <2> QED
    BY <2>5
<1>5. Nat \subseteq I
  <2> HIDE DEF I
  <2> QED
    BY <1>3, <1>4, InductionOverNat
<1>6. Cardinality(S) \in Nat /\ Dom(Cardinality(S)) = SUBSET S
  BY <1>1, FS_Subset, FS_CardinalityType
<1>7. \E g : Solves(g, Cardinality(S))
  BY <1>5, <1>6
<1> HIDE DEF Dom
<1> QED
  BY <1>6, <1>7

\* the pairs of an x in S and an element of T[x]
Family(S, T) == UNION {{x} \X T[x] : x \in S}

\* A sum of sizes is the size of the family.
LEMMA SumOfSizes ==
    ASSUME NEW S, IsFiniteSet(S), NEW f, NEW T,
           \A x \in S : IsFiniteSet(T[x]) /\ f[x] = Cardinality(T[x])
    PROVE  IsFiniteSet(Family(S, T)) /\ SumFunctionOnSet(f, S) = Cardinality(Family(S, T))
<1> DEFINE G(g) == g = [s \in SUBSET S |-> SumStep(f, g, s)]
           h == CHOOSE g : G(g)
           Counts(s) == IsFiniteSet(Family(s, T)) /\ h[s] = Cardinality(Family(s, T))
           I == {n \in Nat : \A s \in SUBSET S : Cardinality(s) = n => Counts(s)}
<1>1. G(h)
  BY SumRecursion
<1>2. SumFunctionOnSet(f, S) = h[S]
  BY Zenon DEF SumFunctionOnSet, FoldFunctionOnSet, MapThenFoldSet, SumStep
<1> HIDE DEF h
<1>3. \A s \in SUBSET S : h[s] = SumStep(f, h, s)
  BY <1>1
<1>4. \A s \in SUBSET S : IsFiniteSet(s) /\ Cardinality(s) \in Nat
  BY FS_Subset, FS_CardinalityType
<1>5. 0 \in I
  <2> SUFFICES ASSUME NEW s \in SUBSET S, Cardinality(s) = 0 PROVE Counts(s)
    OBVIOUS
  <2>1. s = {}
    BY <1>4, FS_EmptySet
  <2>2. Family(s, T) = {} /\ h[s] = 0
    BY <1>3, <2>1 DEF Family, SumStep
  <2> QED
    BY <2>2, FS_EmptySet
<1>6. ASSUME NEW n \in Nat, n \in I PROVE n + 1 \in I
  <2> SUFFICES ASSUME NEW s \in SUBSET S, Cardinality(s) = n + 1 PROVE Counts(s)
    OBVIOUS
  <2> DEFINE x == CHOOSE y \in s : TRUE
             t == s \ {x}
  <2>1. s # {}
    BY FS_EmptySet
  <2>2. x \in s
    BY <2>1
  <2>3. h[s] = f[x] + h[t]
    BY <1>3, <2>1 DEF SumStep
  <2> HIDE DEF x
  <2>4. t \in SUBSET S /\ Cardinality(t) = n
    <3>1. IsFiniteSet(s)
      BY <1>4
    <3>2. Cardinality(t) = Cardinality(s) - 1
      BY <2>2, <3>1, FS_RemoveElement
    <3> QED
      BY <3>2
  <2>5. Counts(t)
    BY <1>6, <2>4
  <2> DEFINE A == Family(t, T)
             B == {x} \X T[x]
  <2>6. Family(s, T) = A \cup B /\ A \cap B = {}
    BY <2>2 DEF Family
  <2>7. IsFiniteSet(T[x]) /\ f[x] = Cardinality(T[x]) /\ Cardinality(T[x]) \in Nat
    BY <2>2, FS_CardinalityType
  <2>8. IsFiniteSet(B) /\ Cardinality(B) = f[x]
    <3> DEFINE X == {x}
               U == T[x]
    <3>1. IsFiniteSet(X) /\ Cardinality(X) = 1
      BY FS_Singleton
    <3>2. IsFiniteSet(U) /\ Cardinality(U) \in Nat /\ f[x] = Cardinality(U)
      BY <2>7
    <3> HIDE DEF X, U
    <3>3. IsFiniteSet(X \X U) /\ Cardinality(X \X U) = Cardinality(X) * Cardinality(U)
      BY <3>1, <3>2, FS_Product
    <3>4. Cardinality(X \X U) = f[x]
      BY <3>1, <3>2, <3>3
    <3> QED
      BY <3>3, <3>4 DEF X, U
  <2>9. IsFiniteSet(A) /\ Cardinality(A) = h[t] /\ Cardinality(A) \in Nat
    BY <2>5, FS_CardinalityType
  <2> HIDE DEF A, B, t
  <2>10. IsFiniteSet(A \cup B) /\ Cardinality(A \cup B) = Cardinality(A) + Cardinality(B)
    <3>1. Cardinality(A \cap B) = 0
      BY <2>6, FS_EmptySet
    <3>2. /\ IsFiniteSet(A \cup B)
          /\ Cardinality(A \cup B) = Cardinality(A) + Cardinality(B) - Cardinality(A \cap B)
      BY <2>8, <2>9, FS_Union
    <3> QED
      BY <2>7, <2>8, <2>9, <3>1, <3>2
  <2> QED
    BY <2>3, <2>6, <2>7, <2>8, <2>9, <2>10
<1>7. Nat \subseteq I
  <2> HIDE DEF I
  <2> QED
    BY <1>5, <1>6, InductionOverNat
<1>8. Cardinality(S) \in I /\ S \in SUBSET S
  BY <1>4, <1>7
<1>9. Counts(S)
  BY <1>8
<1> QED
  BY <1>2, <1>9

\* The numbers from 1 to n are n.
LEMMA UpTo ==
    ASSUME NEW n \in Nat
    PROVE  IsFiniteSet(1 .. n) /\ Cardinality(1 .. n) = n
BY FS_Interval

\* as many pairs as the sum of f over S
Units(f, S) == Family(S, [x \in S |-> 1 .. f[x]])

\* A sum of natural numbers is one.
LEMMA SumOfUnits ==
    ASSUME NEW S, IsFiniteSet(S), NEW f, \A x \in S : f[x] \in Nat
    PROVE  /\ IsFiniteSet(Units(f, S)) /\ SumFunctionOnSet(f, S) = Cardinality(Units(f, S))
           /\ SumFunctionOnSet(f, S) \in Nat
           /\ Units(f, S) = {p \in S \X Nat : p[2] \in 1 .. f[p[1]]}
<1> DEFINE T == [x \in S |-> 1 .. f[x]]
<1>1. \A x \in S : IsFiniteSet(T[x]) /\ f[x] = Cardinality(T[x])
  <2> SUFFICES ASSUME NEW x \in S PROVE IsFiniteSet(T[x]) /\ f[x] = Cardinality(T[x])
    OBVIOUS
  <2>1. f[x] \in Nat
    OBVIOUS
  <2>2. IsFiniteSet(1 .. f[x]) /\ Cardinality(1 .. f[x]) = f[x]
    BY <2>1, UpTo
  <2> QED
    BY <2>2
<1>2. Units(f, S) = {p \in S \X Nat : p[2] \in 1 .. f[p[1]]}
  <2>1. ASSUME NEW p \in Units(f, S) PROVE p \in S \X Nat /\ p[2] \in 1 .. f[p[1]]
    <3>1. PICK x \in S : p \in {x} \X (1 .. f[x])
      BY DEF Units, Family
    <3> QED
      BY <3>1
  <2>2. ASSUME NEW p \in S \X Nat, p[2] \in 1 .. f[p[1]] PROVE p \in Units(f, S)
    <3>1. p[1] \in S /\ p \in {p[1]} \X (1 .. f[p[1]])
      BY <2>2
    <3> QED
      BY <3>1 DEF Units, Family
  <2> QED
    BY <2>1, <2>2
<1> HIDE DEF T
<1>3. IsFiniteSet(Family(S, T)) /\ SumFunctionOnSet(f, S) = Cardinality(Family(S, T))
  BY <1>1, SumOfSizes
<1>4. Cardinality(Family(S, T)) \in Nat
  BY <1>3, FS_CardinalityType
<1> QED
  BY <1>2, <1>3, <1>4 DEF Units, T

\* Functions with the same values have the same sum.
LEMMA SumSame ==
    ASSUME NEW S, IsFiniteSet(S), NEW f, NEW g, \A x \in S : f[x] \in Nat /\ g[x] = f[x]
    PROVE  SumFunctionOnSet(f, S) = SumFunctionOnSet(g, S)
<1>1. Units(f, S) = Units(g, S)
  <2>1. [x \in S |-> 1 .. f[x]] = [x \in S |-> 1 .. g[x]]
    OBVIOUS
  <2> QED
    BY <2>1, Zenon DEF Units
<1>2. \A x \in S : f[x] \in Nat /\ g[x] \in Nat
  OBVIOUS
<1> QED
  BY <1>1, <1>2, SumOfUnits

\* The sum over two disjoint sets is the sum of both.
LEMMA SumDisjoint ==
    ASSUME NEW S, IsFiniteSet(S), NEW T, IsFiniteSet(T), S \cap T = {}, NEW f,
           \A x \in S \cup T : f[x] \in Nat
    PROVE  SumFunctionOnSet(f, S \cup T) = SumFunctionOnSet(f, S) + SumFunctionOnSet(f, T)
<1> DEFINE A == Units(f, S)
           B == Units(f, T)
           C == Units(f, S \cup T)
<1>1. IsFiniteSet(S \cup T)
  BY FS_Union
<1>2. /\ IsFiniteSet(A) /\ SumFunctionOnSet(f, S) = Cardinality(A)
      /\ A = {p \in S \X Nat : p[2] \in 1 .. f[p[1]]}
  BY SumOfUnits
<1>3. /\ IsFiniteSet(B) /\ SumFunctionOnSet(f, T) = Cardinality(B)
      /\ B = {p \in T \X Nat : p[2] \in 1 .. f[p[1]]}
  BY SumOfUnits
<1>4. /\ SumFunctionOnSet(f, S \cup T) = Cardinality(C)
      /\ C = {p \in (S \cup T) \X Nat : p[2] \in 1 .. f[p[1]]}
  BY <1>1, SumOfUnits, ZenonT(30)
<1>5. C = A \cup B /\ A \cap B = {}
  BY <1>2, <1>3, <1>4
<1> HIDE DEF A, B, C
<1>6. Cardinality(A \cap B) = 0
  BY <1>5, FS_EmptySet
<1>7. Cardinality(A \cup B) = Cardinality(A) + Cardinality(B) - Cardinality(A \cap B)
  BY <1>2, <1>3, FS_Union
<1>8. Cardinality(A) \in Nat /\ Cardinality(B) \in Nat
  BY <1>2, <1>3, FS_CardinalityType
<1>9. Cardinality(C) = Cardinality(A) + Cardinality(B)
  <2>1. Cardinality(C) = Cardinality(A \cup B)
    BY <1>5
  <2> QED
    BY <1>6, <1>7, <1>8, <2>1
<1> QED
  BY <1>2, <1>3, <1>4, <1>9, Zenon

\* A sum has each of its terms once.
LEMMA SumTerm ==
    ASSUME NEW S, IsFiniteSet(S), NEW f, \A x \in S : f[x] \in Nat, NEW x \in S
    PROVE  /\ SumFunctionOnSet(f, S) = f[x] + SumFunctionOnSet(f, S \ {x})
           /\ SumFunctionOnSet(f, S \ {x}) \in Nat
<1> DEFINE R == S \ {x}
           X == {x}
<1>1. IsFiniteSet(R) /\ IsFiniteSet(X) /\ R \cap X = {} /\ R \cup X = S
  <2>1. IsFiniteSet(R)
    BY FS_RemoveElement
  <2>2. IsFiniteSet(X)
    BY FS_Singleton
  <2> QED
    BY <2>1, <2>2
<1>2. SumFunctionOnSet(f, S) = SumFunctionOnSet(f, R) + SumFunctionOnSet(f, X)
  <2>1. \A y \in R \cup X : f[y] \in Nat
    OBVIOUS
  <2> HIDE DEF R, X
  <2> QED
    BY <1>1, <2>1, SumDisjoint
<1>3. SumFunctionOnSet(f, X) = f[x]
  <2> DEFINE T == [y \in X |-> 1 .. f[x]]
  <2>1. f[x] \in Nat /\ IsFiniteSet(1 .. f[x]) /\ Cardinality(1 .. f[x]) = f[x]
    BY UpTo
  <2>2. \A y \in X : IsFiniteSet(T[y]) /\ f[y] = Cardinality(T[y])
    BY <2>1
  <2>3. Family(X, T) = {x} \X (1 .. f[x])
    BY DEF Family
  <2>4. SumFunctionOnSet(f, X) = Cardinality(Family(X, T))
    <3> HIDE DEF X, T
    <3> QED
      BY <1>1, <2>2, SumOfSizes
  <2>5. Cardinality({x} \X (1 .. f[x])) = 1 * f[x]
    <3> DEFINE U == 1 .. f[x]
    <3>1. IsFiniteSet(U) /\ Cardinality(U) = f[x] /\ Cardinality(X) = 1
      BY <2>1, FS_Singleton
    <3> HIDE DEF U, X
    <3>2. Cardinality(X \X U) = Cardinality(X) * Cardinality(U)
      BY <1>1, <3>1, FS_Product
    <3> QED
      BY <3>1, <3>2 DEF U, X
  <2>6. SumFunctionOnSet(f, X) = 1 * f[x]
    BY <2>3, <2>4, <2>5, Zenon
  <2> QED
    BY <2>1, <2>6
<1>4. SumFunctionOnSet(f, R) \in Nat
  <2>1. \A y \in R : f[y] \in Nat
    OBVIOUS
  <2> QED
    BY <1>1, <2>1, SumOfUnits
<1> QED
  BY <1>2, <1>3, <1>4

\* Changing one term changes the sum by as much.
LEMMA SumChange ==
    ASSUME NEW S, IsFiniteSet(S), NEW f, NEW g, NEW x \in S,
           \A y \in S : f[y] \in Nat /\ g[y] \in Nat,
           \A y \in S \ {x} : f[y] = g[y]
    PROVE  SumFunctionOnSet(g, S) = SumFunctionOnSet(f, S) - f[x] + g[x]
<1> DEFINE R == S \ {x}
<1>1. IsFiniteSet(R)
  BY FS_RemoveElement
<1>2. \A y \in R : f[y] \in Nat /\ g[y] = f[y]
  OBVIOUS
<1>3. SumFunctionOnSet(f, R) = SumFunctionOnSet(g, R)
  <2> HIDE DEF R
  <2> QED
    BY <1>1, <1>2, SumSame
<1>4. /\ SumFunctionOnSet(f, S) = f[x] + SumFunctionOnSet(f, R)
      /\ SumFunctionOnSet(f, R) \in Nat
  BY SumTerm
<1>5. SumFunctionOnSet(g, S) = g[x] + SumFunctionOnSet(g, R)
  BY SumTerm
<1>6. f[x] \in Nat /\ g[x] \in Nat
  OBVIOUS
<1> QED
  BY <1>3, <1>4, <1>5, <1>6

-----------------------------------------------------------------------------
(* Sorting *)
\* sort_by_key: the order is a permutation of the range, and sorts the keys.
LEMMA SortOrderFacts ==
    ASSUME NEW lo \in Nat, NEW hi \in Nat, NEW ks, \A i \in lo .. hi - 1 : ks[i] \in Int
    PROVE  PermutesRange(SortOrder(ks, lo, hi), lo, hi) /\ SortsRange(SortOrder(ks, lo, hi), ks, lo, hi)
<1> DEFINE o == SortOrder(ks, lo, hi)
           D == lo .. hi - 1
           n == Cardinality(D)
           Before(p, q) == ks[p] < ks[q] \/ (ks[p] = ks[q] /\ p < q)
           before == [q \in D |-> {p \in D : Before(p, q)}]
           Place(p) == lo + Cardinality({q \in D : Before(q, p)})
<1>1. IsFiniteSet(D) /\ n \in Nat /\ \A i : i \in D <=> i \in Int /\ lo <= i /\ i < lo + n
  <2>1. lo \in Int /\ hi - 1 \in Int
    OBVIOUS
  <2>2. IsFiniteSet(D) /\ n = IF lo > hi - 1 THEN 0 ELSE hi - 1 - lo + 1
    BY <2>1, FS_Interval
  <2> HIDE DEF n
  <2> QED
    BY <2>2
<1>2. before \in [D -> SUBSET D] /\ \A p, q \in D : p \in before[q] <=> Before(p, q)
  OBVIOUS
<1>3. /\ \A p \in D : p \notin before[p]
      /\ \A p, q \in D : p # q => p \in before[q] \/ q \in before[p]
      /\ \A p, q, l \in D : p \in before[q] /\ q \in before[l] => p \in before[l]
  <2>1. \A p \in D : ks[p] \in Int /\ p \in Int
    OBVIOUS
  <2>2. /\ \A p \in D : ~Before(p, p)
        /\ \A p, q \in D : p # q => Before(p, q) \/ Before(q, p)
        /\ \A p, q, l \in D : Before(p, q) /\ Before(q, l) => Before(p, l)
    <3> HIDE DEF D
    <3> QED
      BY <2>1
  <2> HIDE DEF D, before, Before
  <2> QED
    BY <1>2, <2>2
<1>4. /\ \A p \in D : Cardinality(before[p]) \in 0 .. n - 1
      /\ \A p, q \in D : p \in before[q] => Cardinality(before[p]) < Cardinality(before[q])
      /\ \A i \in 0 .. n - 1 : \E p \in D : Cardinality(before[p]) = i
  <2> HIDE DEF D, before
  <2> QED
    BY <1>1, <1>2, <1>3, OrderPlaces
<1>5. \A p \in D : Place(p) = lo + Cardinality(before[p])
  OBVIOUS
<1>6. o = [i \in D |-> CHOOSE p \in D : Place(p) = i]
  BY DEF SortOrder
<1> HIDE DEF before, Place, o, Before, n
<1>7. ASSUME NEW i \in D PROVE o[i] \in D /\ Cardinality(before[o[i]]) = i - lo
  <2>1. i - lo \in 0 .. n - 1 /\ i \in Int
    BY <1>1
  <2>2. PICK p \in D : Cardinality(before[p]) = i - lo
    BY <1>4, <2>1
  <2>3. Place(p) = i
    BY <1>5, <2>1, <2>2
  <2>4. o[i] = CHOOSE pp \in D : Place(pp) = i
    BY <1>6
  <2>5. o[i] \in D /\ Place(o[i]) = i
    <3> HIDE DEF D
    <3> QED
      BY <2>3, <2>4
  <2> DEFINE c == Cardinality(before[o[i]])
  <2>6. c \in 0 .. n - 1 /\ i = lo + c
    BY <1>4, <1>5, <2>5, Zenon
  <2> HIDE DEF c
  <2>7. c = i - lo
    BY <2>6, <1>1
  <2> QED
    BY <2>5, <2>7, Zenon DEF c
<1> HIDE DEF D
<1>8. o \in [D -> D]
  BY <1>6, <1>7
<1>9. ASSUME NEW i \in D, NEW j \in D, o[i] = o[j] PROVE i = j
  <2>1. i - lo = j - lo
    BY <1>7, <1>9, Zenon
  <2> QED
    BY <1>1, <2>1
<1>10. \A k \in D : \E i \in D : o[i] = k
  BY <1>1, <1>8, <1>9, InjectionReachesAll
<1>11. ASSUME NEW i \in D, NEW j \in D, i <= j PROVE ks[o[i]] <= ks[o[j]]
  <2>1. o[i] \in D /\ o[j] \in D
    BY <1>7
  <2>2. ~(Cardinality(before[o[j]]) < Cardinality(before[o[i]]))
    BY <1>1, <1>7, <1>11
  <2>3. ~Before(o[j], o[i])
    BY <1>2, <1>4, <2>1, <2>2
  <2> DEFINE x == ks[o[i]]
             y == ks[o[j]]
  <2>4. x \in Int /\ y \in Int /\ ~(y < x)
    BY <2>1, <2>3, Zenon DEF Before, D
  <2> HIDE DEF x, y
  <2>5. x <= y
    BY <2>4
  <2> QED
    BY <2>5 DEF x, y
<1> QED
  BY <1>8, <1>9, <1>10, <1>11, Zenon DEF o, D, PermutesRange, SortsRange

\* A permutation keeps the number of indices with a property.
LEMMA PermutedCount ==
    ASSUME NEW D, IsFiniteSet(D), NEW o \in [D -> D],
           \A i, j \in D : o[i] = o[j] => i = j,
           \A k \in D : \E i \in D : o[i] = k,
           NEW A \in SUBSET D, NEW B \in SUBSET D, \A i \in D : i \in A <=> o[i] \in B
    PROVE  Cardinality(A) = Cardinality(B)
<1> DEFINE f == [i \in A |-> o[i]]
<1>1. IsFiniteSet(A) /\ IsFiniteSet(B)
  BY FS_Subset
<1>2. f \in [A -> B] /\ \A i, j \in A : f[i] = f[j] => i = j
  OBVIOUS
<1>3. \A k \in B : \E i \in A : f[i] = k
  <2> SUFFICES ASSUME NEW k \in B PROVE \E i \in A : f[i] = k
    OBVIOUS
  <2>1. PICK i \in D : o[i] = k
    OBVIOUS
  <2>2. i \in A
    BY <2>1
  <2> QED
    BY <2>1, <2>2
<1> HIDE DEF f
<1>4. f \in Bijection(A, B)
  BY <1>2, <1>3 DEF Bijection, Injection, Surjection, IsInjective
<1>5. ExistsBijection(A, B)
  BY <1>4 DEF ExistsBijection
<1> QED
  BY <1>1, <1>5, FS_Bijection

-----------------------------------------------------------------------------
(* Send ranges *)
\* The assigned range of a buffer is as long as its description says.
LEMMA RangeSize ==
    ASSUME NEW d \in Descriptions
    PROVE  /\ d.start \in Nat /\ d.end \in Nat /\ d.size \in Nat /\ d.start <= d.end /\ d.end <= d.size
           /\ IsFiniteSet(Range01(d)) /\ Cardinality(Range01(d)) = d.end - d.start
           /\ Range01(d) \subseteq Nat
<1>1. d.start \in Nat /\ d.end \in Nat /\ d.size \in Nat /\ d.start <= d.end /\ d.end <= d.size
  BY DEF Descriptions
<1>2. d.start \in Int /\ d.end - 1 \in Int
  BY <1>1
<1>3. /\ IsFiniteSet(d.start .. d.end - 1)
      /\ Cardinality(d.start .. d.end - 1) = IF d.start > d.end - 1 THEN 0 ELSE d.end - 1 - d.start + 1
  BY <1>2, FS_Interval
<1> QED
  BY <1>1, <1>3 DEF Range01

\* The number of smaller keys does not depend on their order.
LEMMA LowerBoundFacts ==
    ASSUME NEW d \in Descriptions, NEW ks, KeysOf(ks, d),
           NEW o, PermutesRange(o, d.start, d.end), NEW v \in Int
    PROVE  /\ LowerBound(Permuted(ks, o), d.start, d.end, v) = LowerBound(ks, d.start, d.end, v)
           /\ LowerBound(ks, d.start, d.end, v) \in 0 .. d.end - d.start
<1> DEFINE D == Range01(d)
           A == {i \in D : Permuted(ks, o)[i] < v}
           B == {i \in D : ks[i] < v}
<1>1. IsFiniteSet(D) /\ Cardinality(D) = d.end - d.start /\ d.end - d.start \in Nat
  BY RangeSize
<1>2. /\ o \in [D -> D] /\ \A i, j \in D : o[i] = o[j] => i = j
      /\ \A k \in D : \E i \in D : o[i] = k
  BY DEF PermutesRange, Range01
<1>3. \A i \in D : Permuted(ks, o)[i] = ks[o[i]]
  BY <1>2 DEF Permuted, KeysOf
<1>4. A \in SUBSET D /\ B \in SUBSET D /\ \A i \in D : i \in A <=> o[i] \in B
  BY <1>2, <1>3
<1>5. /\ LowerBound(Permuted(ks, o), d.start, d.end, v) = Cardinality(A)
      /\ LowerBound(ks, d.start, d.end, v) = Cardinality(B)
  BY DEF LowerBound, Range01
<1> HIDE DEF A, B, D
<1>6. Cardinality(A) = Cardinality(B)
  BY <1>1, <1>2, <1>4, PermutedCount
<1>7. Cardinality(B) \in Nat /\ Cardinality(B) <= Cardinality(D)
  BY <1>1, <1>4, FS_Subset, FS_CardinalityType
<1> QED
  BY <1>1, <1>5, <1>6, <1>7

\* Between two lower bounds are the keys in between.
LEMMA LowerBounds ==
    ASSUME NEW d \in Descriptions, NEW ks, KeysOf(ks, d), NEW a \in Int, NEW b \in Int, a <= b
    PROVE  /\ IsFiniteSet(Between(ks, d, a, b)) /\ Cardinality(Between(ks, d, a, b)) \in Nat
           /\ LowerBound(ks, d.start, d.end, b) = LowerBound(ks, d.start, d.end, a) + Cardinality(Between(ks, d, a, b))
<1> DEFINE D == Range01(d)
           A == {i \in D : ks[i] < a}
           B == {i \in D : ks[i] < b}
           C == Between(ks, d, a, b)
<1>1. IsFiniteSet(D)
  BY RangeSize
<1>2. IsFiniteSet(A) /\ IsFiniteSet(C)
  <2>1. A \in SUBSET D /\ C \in SUBSET D
    BY DEF Between
  <2> HIDE DEF A, C, D
  <2> QED
    BY <1>1, <2>1, FS_Subset
<1>3. Cardinality(A) \in Nat /\ Cardinality(C) \in Nat
  BY <1>2, FS_CardinalityType
<1>4. B = A \cup C /\ A \cap C = {}
  BY DEF Between, KeysOf
<1>5. /\ LowerBound(ks, d.start, d.end, a) = Cardinality(A)
      /\ LowerBound(ks, d.start, d.end, b) = Cardinality(B)
  BY DEF LowerBound, Range01
<1> HIDE DEF A, B, C
<1>6. Cardinality(A \cup C) = Cardinality(A) + Cardinality(C) - Cardinality(A \cap C)
  BY <1>2, FS_Union
<1>7. Cardinality(A \cap C) = 0
  BY <1>4, FS_EmptySet
<1>8. Cardinality(B) = Cardinality(A) + Cardinality(C)
  BY <1>3, <1>4, <1>6, <1>7
<1> QED
  BY <1>2, <1>3, <1>5, <1>8, Zenon DEF C

\* createSendRanges: a rank sends every particle to the rank that its key belongs to.
LEMMA SendRangesFacts ==
    ASSUME NEW d \in Descriptions, NEW ks, KeysOf(ks, d),
           NEW o, PermutesRange(o, d.start, d.end), NEW a, Boundaries(a.bound)
    PROVE  /\ SendRanges(CreateSendRanges(a, Permuted(ks, o), d), d.end - d.start)
           /\ \A q \in Rank : /\ SendCount(CreateSendRanges(a, Permuted(ks, o), d), q)
                                   = Cardinality(Between(ks, d, a.bound[q], a.bound[q + 1]))
                              /\ IsFiniteSet(Between(ks, d, a.bound[q], a.bound[q + 1]))
<1> DEFINE s == CreateSendRanges(a, Permuted(ks, o), d)
           Lower(q) == LowerBound(ks, d.start, d.end, a.bound[q])
<1>1. NumRanks \in Nat /\ NumKeys \in Nat
  BY ExchangeAssumption
<1>2. \A q \in 0 .. NumRanks : a.bound[q] \in Int
  BY <1>1 DEF Boundaries
<1>3. ASSUME NEW q \in 0 .. NumRanks
      PROVE  s[q] = Lower(q) /\ Lower(q) \in 0 .. d.end - d.start
  <2>1. s[q] = LowerBound(Permuted(ks, o), d.start, d.end, a.bound[q])
    BY DEF CreateSendRanges
  <2> QED
    BY <1>2, <2>1, LowerBoundFacts
<1>4. s \in [0 .. NumRanks -> 0 .. d.end - d.start]
  BY <1>3 DEF CreateSendRanges
<1>5. ASSUME NEW p \in 0 .. NumRanks, NEW q \in 0 .. NumRanks, p <= q
      PROVE  /\ s[q] = s[p] + Cardinality(Between(ks, d, a.bound[p], a.bound[q]))
             /\ Cardinality(Between(ks, d, a.bound[p], a.bound[q])) \in Nat
             /\ IsFiniteSet(Between(ks, d, a.bound[p], a.bound[q]))
             /\ s[p] \in Nat /\ s[q] \in Nat
  <2>1. a.bound[p] <= a.bound[q]
    BY <1>5 DEF Boundaries
  <2>2. /\ Lower(q) = Lower(p) + Cardinality(Between(ks, d, a.bound[p], a.bound[q]))
        /\ Cardinality(Between(ks, d, a.bound[p], a.bound[q])) \in Nat
        /\ IsFiniteSet(Between(ks, d, a.bound[p], a.bound[q]))
    BY <1>2, <2>1, LowerBounds
  <2> HIDE DEF s, Lower
  <2> QED
    BY <1>3, <2>2
<1>6. SendRanges(s, d.end - d.start)
  <2>1. ASSUME NEW p \in 0 .. NumRanks, NEW q \in 0 .. NumRanks, p <= q PROVE s[p] <= s[q]
    <3> HIDE DEF s
    <3> QED
      BY <1>5, <2>1
  <2> HIDE DEF s
  <2> QED
    BY <1>4, <2>1 DEF SendRanges
<1>7. ASSUME NEW q \in Rank
      PROVE  /\ SendCount(s, q) = Cardinality(Between(ks, d, a.bound[q], a.bound[q + 1]))
             /\ IsFiniteSet(Between(ks, d, a.bound[q], a.bound[q + 1]))
  <2>1. q \in 0 .. NumRanks /\ q + 1 \in 0 .. NumRanks /\ q <= q + 1
    BY <1>1 DEF Rank
  <2> DEFINE c == Cardinality(Between(ks, d, a.bound[q], a.bound[q + 1]))
  <2>2. s[q + 1] = s[q] + c /\ c \in Nat /\ s[q] \in Nat /\ IsFiniteSet(Between(ks, d, a.bound[q], a.bound[q + 1]))
    BY <1>5, <2>1
  <2> HIDE DEF s, c
  <2>3. SendCount(s, q) = c
    BY <2>2 DEF SendCount
  <2> QED
    BY <2>2, <2>3 DEF c
<1> QED
  BY <1>6, <1>7

-----------------------------------------------------------------------------
(* The assignment of keys to ranks *)
\* Division keeps the order.
LEMMA QuotientMonotone ==
    ASSUME NEW n \in Nat \ {0}, NEW x \in Nat, NEW y \in Nat, x <= y
    PROVE  x \div n \in Nat /\ y \div n \in Nat /\ x \div n <= y \div n
<1> DEFINE p == x \div n
           q == y \div n
<1>1. p \in Nat /\ x % n \in 0 .. n - 1 /\ x = n * p + (x % n)
  BY DivMod
<1>2. q \in Nat /\ y % n \in 0 .. n - 1 /\ y = n * q + (y % n)
  BY DivMod
<1> HIDE DEF p, q
<1>3. ASSUME q + 1 <= p PROVE FALSE
  <2>1. n * (q + 1) <= n * p
    BY <1>1, <1>2, <1>3, ProductMonotone
  <2>2. n * (q + 1) = n * q + n
    BY <1>2
  <2> QED
    BY <1>1, <1>2, <2>1, <2>2
<1> QED
  BY <1>1, <1>2, <1>3 DEF p, q

\* A multiple of a quotient's divisor.
LEMMA QuotientOfProduct ==
    ASSUME NEW n \in Nat \ {0}, NEW x \in Nat
    PROVE  (n * x) \div n = x
<1> DEFINE q == (n * x) \div n
           m == (n * x) % n
<1>1. n * x \in Nat
  OBVIOUS
<1>2. q \in Nat /\ m \in 0 .. n - 1 /\ n * x = n * q + m
  BY <1>1, DivMod
<1>3. (n * x + 0) % n = 0
  BY ModUnique
<1>4. m = 0
  BY <1>1, <1>3
<1> HIDE DEF q, m
<1>5. n * x = n * q
  BY <1>2, <1>4
<1>6. q = x
  BY <1>2, <1>5
<1> QED
  BY <1>6 DEF q

\* The target of the b-th boundary: b times the number of particles, divided by the number
\* of ranks.
LEMMA TargetFacts ==
    ASSUME NEW n \in Nat \ {0}, NEW t \in Nat, NEW b \in 0 .. n, NEW c \in 0 .. n, b <= c
    PROVE  /\ (b * t) \div n \in Nat /\ (c * t) \div n \in Nat
           /\ (b * t) \div n <= (c * t) \div n /\ (c * t) \div n <= t
<1>1. b * t \in Nat /\ c * t \in Nat /\ n * t \in Nat /\ b * t <= c * t /\ c * t <= n * t
  <2>1. t * b <= t * c /\ t * c <= t * n
    BY ProductMonotone
  <2>2. b * t \in Nat /\ c * t \in Nat /\ n * t \in Nat /\ t * b = b * t /\ t * c = c * t /\ t * n = n * t
    OBVIOUS
  <2> QED
    BY <2>1, <2>2
<1> DEFINE x == b * t
           y == c * t
           z == n * t
<1>2. z \div n = t
  BY QuotientOfProduct
<1>3. x \in Nat /\ y \in Nat /\ z \in Nat /\ x <= y /\ y <= z
  BY <1>1
<1> HIDE DEF x, y, z
<1>4. x \div n \in Nat /\ y \div n \in Nat /\ x \div n <= y \div n /\ y \div n <= z \div n
  BY <1>3, QuotientMonotone
<1> QED
  BY <1>2, <1>4 DEF x, y, z

\* The smallest number of a non-empty set of natural numbers.
LEMMA MinFacts ==
    ASSUME NEW S \in SUBSET Nat, S # {}
    PROVE  Min(S) \in S /\ \A k \in S : Min(S) <= k
<1>1. \E m \in S : \A k \in S : m <= k
  BY LeastElement
<1> QED
  BY <1>1 DEF Min

\* makeSfcAssignment: the ranges of the ranks divide the keys, and the number of particles of
\* a rank is that of the keys in its range, for any number of particles per key.
LEMMA AssignmentFacts ==
    ASSUME NEW counts \in [Key -> Nat]
    PROVE  Assigns(MakeSfcAssignment(counts), counts)
<1> DEFINE n == NumKeys
           scan == [i \in 0 .. n |-> SumFunctionOnSet(counts, 0 .. i - 1)]
           Target(b) == (b * scan[n]) \div NumRanks
           Enough(b) == {i \in 0 .. n : scan[i] >= Target(b)}
           bins == [b \in 0 .. NumRanks |->
                      IF b = 0 THEN 0 ELSE IF b = NumRanks THEN n ELSE Min(Enough(b))]
           a == MakeSfcAssignment(counts)
<1>1. NumRanks \in Nat \ {0} /\ n \in Nat \ {0}
  BY ExchangeAssumption
<1>2. Cardinality(DOMAIN counts) = n
  <2>1. DOMAIN counts = 0 .. n - 1
    BY DEF Key
  <2>2. 0 \in Int /\ n - 1 \in Int
    BY <1>1
  <2>3. Cardinality(0 .. n - 1) = IF 0 > n - 1 THEN 0 ELSE n - 1 - 0 + 1
    BY <2>2, FS_Interval
  <2> QED
    BY <1>1, <2>1, <2>3
<1>3. a.bound = bins /\ a.count = [b \in Rank |-> scan[bins[b + 1]] - scan[bins[b]]]
  <2> DEFINE cnt == [b \in Rank |-> scan[bins[b + 1]] - scan[bins[b]]]
             Sums(m) == [i \in 0 .. m |-> SumFunctionOnSet(counts, 0 .. i - 1)]
             Bins(m) == [b \in 0 .. NumRanks |->
                           IF b = 0 THEN 0 ELSE IF b = NumRanks THEN m
                           ELSE Min({i \in 0 .. m : Sums(m)[i] >= (b * Sums(m)[m]) \div NumRanks})]
             Result(m) == [bins |-> Bins(m),
                           counts |-> [b \in Rank |-> Sums(m)[Bins(m)[b + 1]] - Sums(m)[Bins(m)[b]]]]
  <2>0. UniformBins(counts) = Result(Cardinality(DOMAIN counts))
    BY DEF UniformBins
  <2>1. UniformBins(counts) = [bins |-> bins, counts |-> cnt]
    <3>1. Result(n) = [bins |-> bins, counts |-> cnt]
      OBVIOUS
    <3> HIDE DEF Result, bins, cnt, n
    <3> QED
      BY <1>2, <2>0, <3>1
  <2> HIDE DEF bins, cnt
  <2>2. a = [bound |-> bins, count |-> cnt]
    BY <2>1 DEF MakeSfcAssignment
  <2>3. a.bound = bins /\ a.count = cnt
    BY <2>2
  <2> QED
    BY <2>3 DEF cnt
<1>4. ASSUME NEW i \in 0 .. n, NEW j \in 0 .. n, i <= j
      PROVE  /\ scan[j] = scan[i] + SumFunctionOnSet(counts, i .. j - 1)
             /\ scan[i] \in Nat /\ SumFunctionOnSet(counts, i .. j - 1) \in Nat
  <2> DEFINE S == 0 .. i - 1
             T == i .. j - 1
  <2>1. i \in Int /\ j \in Int /\ i - 1 \in Int /\ j - 1 \in Int /\ 0 \in Int
    BY <1>1
  <2>2. IsFiniteSet(S) /\ IsFiniteSet(T)
    BY <2>1, FS_Interval
  <2>3. S \cap T = {} /\ S \cup T = 0 .. j - 1 /\ \A k \in S \cup T : k \in Key
    BY <1>1, <1>4, <2>1 DEF Key
  <2>4. \A k \in S \cup T : counts[k] \in Nat
    BY <2>3
  <2>5. scan[i] = SumFunctionOnSet(counts, S) /\ scan[j] = SumFunctionOnSet(counts, S \cup T)
    BY <2>3
  <2> HIDE DEF S, T
  <2>6. SumFunctionOnSet(counts, S \cup T) = SumFunctionOnSet(counts, S) + SumFunctionOnSet(counts, T)
    BY <2>2, <2>3, <2>4, SumDisjoint
  <2>7. SumFunctionOnSet(counts, S) \in Nat /\ SumFunctionOnSet(counts, T) \in Nat
    BY <2>2, <2>4, SumOfUnits
  <2> QED
    BY <2>5, <2>6, <2>7, Zenon DEF T
<1>5. \A i \in 0 .. n : scan[i] \in Nat
  BY <1>1, <1>4
<1> DEFINE t == scan[n]
<1>6. t \in Nat /\ n \in 0 .. n
  BY <1>1, <1>5
<1>7. ASSUME NEW b \in 0 .. NumRanks
      PROVE  Target(b) \in Nat /\ Target(b) <= t /\ n \in Enough(b)
  <2>1. Target(b) \in Nat /\ Target(b) <= t
    <3> HIDE DEF t, scan
    <3> QED
      BY <1>1, <1>6, TargetFacts DEF t
  <2> HIDE DEF Target
  <2> QED
    BY <1>6, <2>1
<1>8. ASSUME NEW b \in 0 .. NumRanks, NEW c \in 0 .. NumRanks, b <= c
      PROVE  Enough(c) \subseteq Enough(b)
  <2>1. Target(b) <= Target(c) /\ Target(b) \in Nat /\ Target(c) \in Nat
    <3> HIDE DEF t, scan
    <3> QED
      BY <1>1, <1>6, <1>8, TargetFacts DEF t
  <2> HIDE DEF Target, scan
  <2> QED
    BY <1>5, <2>1
<1>9. \A b \in 0 .. NumRanks : /\ Enough(b) \in SUBSET Nat /\ Enough(b) \subseteq 0 .. n
                               /\ Min(Enough(b)) \in Enough(b) /\ \A k \in Enough(b) : Min(Enough(b)) <= k
  <2>1. \A b \in 0 .. NumRanks : Enough(b) \in SUBSET Nat /\ Enough(b) \subseteq 0 .. n /\ Enough(b) # {}
    <3> SUFFICES ASSUME NEW b \in 0 .. NumRanks
                 PROVE  Enough(b) \in SUBSET Nat /\ Enough(b) \subseteq 0 .. n /\ Enough(b) # {}
      OBVIOUS
    <3>1. n \in Enough(b)
      BY <1>7
    <3> HIDE DEF Target, scan
    <3>2. Enough(b) \subseteq 0 .. n
      OBVIOUS
    <3> HIDE DEF Enough
    <3> QED
      BY <1>1, <3>1, <3>2
  <2> HIDE DEF Enough
  <2> QED
    BY <2>1, MinFacts
<1> HIDE DEF Enough, scan, a
<1>10. \A b \in 0 .. NumRanks : bins[b] \in 0 .. n
  BY <1>1, <1>9
<1>11. ASSUME NEW b \in 0 .. NumRanks, NEW c \in 0 .. NumRanks, b <= c
       PROVE  bins[b] <= bins[c]
  <2>1. CASE b = 0 \/ c = NumRanks
    BY <1>1, <1>10, <2>1
  <2>2. CASE b # 0 /\ c # NumRanks
    <3>1. b # NumRanks /\ c # 0
      BY <1>1, <1>11, <2>2
    <3>2. bins[b] = Min(Enough(b)) /\ bins[c] = Min(Enough(c))
      BY <2>2, <3>1
    <3>3. Min(Enough(c)) \in Enough(b)
      BY <1>8, <1>9, <1>11
    <3> QED
      BY <1>9, <3>2, <3>3
  <2> QED
    BY <2>1, <2>2
<1>12. Boundaries(bins)
  <2>1. bins \in [0 .. NumRanks -> 0 .. NumKeys]
    BY <1>10
  <2>2. bins[0] = 0 /\ bins[NumRanks] = NumKeys
    BY <1>1
  <2> QED
    BY <1>11, <2>1, <2>2 DEF Boundaries
<1>13. ASSUME NEW q \in Rank
       PROVE  a.count[q] = SumFunctionOnSet(counts, bins[q] .. bins[q + 1] - 1)
  <2>1. q \in 0 .. NumRanks /\ q + 1 \in 0 .. NumRanks /\ q <= q + 1
    BY <1>1 DEF Rank
  <2> DEFINE i == bins[q]
             j == bins[q + 1]
  <2>2. i \in 0 .. n /\ j \in 0 .. n /\ i <= j
    BY <1>10, <1>11, <2>1
  <2>3. a.count[q] = scan[j] - scan[i]
    BY <1>3
  <2> HIDE DEF i, j, bins
  <2>4. scan[j] = scan[i] + SumFunctionOnSet(counts, i .. j - 1) /\ scan[i] \in Nat /\ SumFunctionOnSet(counts, i .. j - 1) \in Nat
    BY <1>4, <2>2
  <2> DEFINE u == SumFunctionOnSet(counts, i .. j - 1)
  <2>5. a.count[q] = u
    <3>1. scan[j] = scan[i] + u /\ scan[i] \in Nat /\ u \in Nat
      BY <2>4
    <3> HIDE DEF u
    <3> QED
      BY <2>3, <3>1
  <2> QED
    BY <2>5 DEF i, j
<1> HIDE DEF bins
<1> QED
  BY <1>3, <1>12, <1>13 DEF a, Assigns

\* The particles with keys in a range, counted leaf by leaf or rank by rank.
LEMMA CountsAgree ==
    ASSUME NEW ks, NEW d, \A r \in Rank : d[r] \in Descriptions /\ KeysOf(ks[r], d[r])
    PROVE  /\ LeafCounts(ks, d) \in [Key -> Nat]
           /\ \A a, b \in 0 .. NumKeys :
                SumFunctionOnSet(LeafCounts(ks, d), a .. b - 1) = SumFunctionOnSet(CountsBetween(ks, d, a, b), Rank)
<1> DEFINE counts == LeafCounts(ks, d)
           In(k) == [r \in Rank |-> {i \in Range01(d[r]) : ks[r][i] = k}]
           T == [k \in Key |-> Family(Rank, In(k))]
<1>1. IsFiniteSet(Rank) /\ NumKeys \in Nat
  <2>1. 0 \in Int /\ NumRanks - 1 \in Int
    BY ExchangeAssumption
  <2> QED
    BY <2>1, FS_Interval, ExchangeAssumption DEF Rank
<1>2. \A r \in Rank : IsFiniteSet(Range01(d[r]))
  BY RangeSize
<1>3. ASSUME NEW k \in Key PROVE IsFiniteSet(T[k]) /\ counts[k] = Cardinality(T[k])
  <2> DEFINE f == [r \in Rank |-> Cardinality({i \in Range01(d[r]) : ks[r][i] = k})]
             I == In(k)
  <2>1. \A r \in Rank : IsFiniteSet(I[r]) /\ f[r] = Cardinality(I[r])
    <3> SUFFICES ASSUME NEW r \in Rank PROVE IsFiniteSet(I[r]) /\ f[r] = Cardinality(I[r])
      OBVIOUS
    <3>1. I[r] \in SUBSET Range01(d[r])
      OBVIOUS
    <3>2. IsFiniteSet(I[r])
      BY <1>2, <3>1, FS_Subset
    <3> QED
      BY <3>2
  <2>2. counts[k] = SumFunctionOnSet(f, Rank)
    BY DEF LeafCounts, SumFunction
  <2>3. T[k] = Family(Rank, I)
    OBVIOUS
  <2> HIDE DEF f, I
  <2> QED
    BY <1>1, <2>1, <2>2, <2>3, SumOfSizes
<1>4. counts \in [Key -> Nat]
  <2>1. \A k \in Key : counts[k] \in Nat
    BY <1>3, FS_CardinalityType
  <2> QED
    BY <2>1 DEF LeafCounts
<1>5. ASSUME NEW a \in 0 .. NumKeys, NEW b \in 0 .. NumKeys
      PROVE  SumFunctionOnSet(counts, a .. b - 1) = SumFunctionOnSet(CountsBetween(ks, d, a, b), Rank)
  <2> DEFINE K == a .. b - 1
             W == [r \in Rank |-> Between(ks[r], d[r], a, b)]
             X == Family(K, T)
             Y == Family(Rank, W)
             g == [x \in X |-> x[2]]
  <2>1. IsFiniteSet(K) /\ \A k \in K : k \in Key /\ k \in Int /\ a <= k /\ k < b
    <3>1. a \in Int /\ b - 1 \in Int /\ b <= NumKeys
      BY <1>1
    <3>2. IsFiniteSet(K)
      BY <3>1, FS_Interval
    <3> QED
      BY <1>1, <3>1, <3>2 DEF Key
  <2>2. IsFiniteSet(X) /\ SumFunctionOnSet(counts, K) = Cardinality(X)
    <3>1. \A k \in K : IsFiniteSet(T[k]) /\ counts[k] = Cardinality(T[k])
      BY <1>3, <2>1
    <3> HIDE DEF K, T, counts
    <3> QED
      BY <2>1, <3>1, SumOfSizes
  <2>3. IsFiniteSet(Y) /\ SumFunctionOnSet(CountsBetween(ks, d, a, b), Rank) = Cardinality(Y)
    <3> DEFINE f == CountsBetween(ks, d, a, b)
    <3>1. \A r \in Rank : IsFiniteSet(W[r]) /\ f[r] = Cardinality(W[r])
      <4> SUFFICES ASSUME NEW r \in Rank PROVE IsFiniteSet(W[r]) /\ f[r] = Cardinality(W[r])
        OBVIOUS
      <4>1. W[r] \in SUBSET Range01(d[r])
        BY DEF Between
      <4>2. IsFiniteSet(W[r])
        BY <1>2, <4>1, FS_Subset
      <4> QED
        BY <4>2 DEF CountsBetween
    <3> HIDE DEF W, f
    <3>2. IsFiniteSet(Family(Rank, W)) /\ SumFunctionOnSet(f, Rank) = Cardinality(Family(Rank, W))
      BY <1>1, <3>1, SumOfSizes
    <3> QED
      BY <3>2 DEF f
  <2>4. ASSUME NEW x
        PROVE  x \in X <=> \E r \in Rank : \E i \in Range01(d[r]) : ks[r][i] \in K /\ x = <<ks[r][i], <<r, i>>>>
    <3>1. ASSUME x \in X PROVE \E r \in Rank : \E i \in Range01(d[r]) : ks[r][i] \in K /\ x = <<ks[r][i], <<r, i>>>>
      <4>1. PICK k \in K : x \in {k} \X T[k]
        BY <3>1 DEF Family
      <4>2. T[k] = Family(Rank, In(k))
        BY <2>1
      <4>3. PICK y \in T[k] : x = <<k, y>>
        <5> HIDE DEF T
        <5> QED
          BY <4>1
      <4>4. PICK r \in Rank : y \in {r} \X {i \in Range01(d[r]) : ks[r][i] = k}
        BY <4>2, <4>3 DEF Family
      <4>5. PICK i \in Range01(d[r]) : ks[r][i] = k /\ y = <<r, i>>
        BY <4>4
      <4> QED
        BY <4>3, <4>5
    <3>2. ASSUME NEW r \in Rank, NEW i \in Range01(d[r]), ks[r][i] \in K, x = <<ks[r][i], <<r, i>>>>
          PROVE  x \in X
      <4> DEFINE k == ks[r][i]
      <4>1. T[k] = Family(Rank, In(k))
        BY <2>1, <3>2
      <4>2. <<r, i>> \in {r} \X In(k)[r]
        OBVIOUS
      <4>3. <<r, i>> \in Family(Rank, In(k))
        BY <4>2 DEF Family
      <4>4. x \in {k} \X T[k]
        BY <3>2, <4>1, <4>3
      <4> QED
        BY <3>2, <4>4 DEF Family
    <3> QED
      BY <3>1, <3>2
  <2>5. ASSUME NEW y
        PROVE  y \in Y <=> \E r \in Rank : \E i \in Range01(d[r]) : ks[r][i] \in K /\ y = <<r, i>>
    <3>1. \A r \in Rank : W[r] = {i \in Range01(d[r]) : ks[r][i] \in K}
      <4> SUFFICES ASSUME NEW r \in Rank PROVE W[r] = {i \in Range01(d[r]) : ks[r][i] \in K}
        OBVIOUS
      <4>1. \A i \in Range01(d[r]) : ks[r][i] \in Int
        BY DEF KeysOf
      <4>2. \A v \in Int : v \in K <=> a <= v /\ v < b
        BY <1>1
      <4> HIDE DEF K
      <4> QED
        BY <4>1, <4>2 DEF Between
    <3> HIDE DEF W, K
    <3>2. ASSUME y \in Y PROVE \E r \in Rank : \E i \in Range01(d[r]) : ks[r][i] \in K /\ y = <<r, i>>
      <4>1. PICK r \in Rank : y \in {r} \X W[r]
        BY <3>2 DEF Family
      <4>2. PICK i \in W[r] : y = <<r, i>>
        BY <4>1
      <4> QED
        BY <3>1, <4>2
    <3>3. ASSUME NEW r \in Rank, NEW i \in Range01(d[r]), ks[r][i] \in K, y = <<r, i>> PROVE y \in Y
      <4>1. i \in W[r]
        BY <3>1, <3>3
      <4>2. y \in {r} \X W[r]
        BY <3>3, <4>1
      <4> QED
        BY <4>2 DEF Family
    <3> QED
      BY <3>2, <3>3
  <2> HIDE DEF X, Y, T, W, K
  <2>6. ASSUME NEW x \in X PROVE g[x] \in Y /\ \E r \in Rank : \E i \in Range01(d[r]) : x = <<ks[r][i], <<r, i>>>> /\ g[x] = <<r, i>>
    <3>0. PICK r \in Rank : \E i \in Range01(d[r]) : ks[r][i] \in K /\ x = <<ks[r][i], <<r, i>>>>
      BY <2>4
    <3>1. PICK i \in Range01(d[r]) : ks[r][i] \in K /\ x = <<ks[r][i], <<r, i>>>>
      BY <3>0
    <3>2. g[x] = <<r, i>>
      BY <3>1
    <3> QED
      BY <2>5, <3>1, <3>2
  <2>7. ASSUME NEW x \in X, NEW y \in X, g[x] = g[y] PROVE x = y
    BY <2>6, <2>7
  <2>8. ASSUME NEW y \in Y PROVE \E x \in X : g[x] = y
    <3>0. PICK r \in Rank : \E i \in Range01(d[r]) : ks[r][i] \in K /\ y = <<r, i>>
      BY <2>5
    <3>1. PICK i \in Range01(d[r]) : ks[r][i] \in K /\ y = <<r, i>>
      BY <3>0
    <3> DEFINE x == <<ks[r][i], <<r, i>>>>
    <3>2. x \in X
      BY <2>4, <3>1
    <3>3. g[x] = y
      BY <3>1, <3>2
    <3> QED
      BY <3>2, <3>3
  <2>9. g \in [X -> Y]
    BY <2>6
  <2> HIDE DEF g
  <2>10. g \in Bijection(X, Y)
    BY <2>7, <2>8, <2>9 DEF Bijection, Injection, Surjection, IsInjective
  <2>11. Cardinality(X) = Cardinality(Y)
    <3>1. ExistsBijection(X, Y)
      BY <2>10 DEF ExistsBijection
    <3> QED
      BY <2>2, <3>1, FS_Bijection
  <2> QED
    BY <2>2, <2>3, <2>11 DEF K
<1> QED
  BY <1>4, <1>5

-----------------------------------------------------------------------------
(* The inductive invariant behind NoStrayMessages *)
-----------------------------------------------------------------------------
(* Ranges and messages *)
\* The ranks are a finite set of numbers.
LEMMA RankFacts ==
    /\ IsFiniteSet(Rank) /\ NumRanks \in Nat \ {0} /\ NumKeys \in Nat \ {0}
    /\ \A q \in Rank : q \in 0 .. NumRanks /\ q + 1 \in 0 .. NumRanks /\ q \in Nat
<1>1. NumRanks \in Nat \ {0} /\ NumKeys \in Nat \ {0}
  BY ExchangeAssumption
<1>2. 0 \in Int /\ NumRanks - 1 \in Int
  BY <1>1
<1>3. IsFiniteSet(0 .. NumRanks - 1)
  BY <1>2, FS_Interval
<1> QED
  BY <1>1, <1>3 DEF Rank

\* A sum of zeros is zero, and a sum of natural numbers is zero only then.
LEMMA SumZero ==
    ASSUME NEW S, IsFiniteSet(S), NEW f, \A x \in S : f[x] \in Nat
    PROVE  SumFunctionOnSet(f, S) = 0 <=> \A x \in S : f[x] = 0
<1>1. ASSUME SumFunctionOnSet(f, S) = 0, NEW x \in S PROVE f[x] = 0
  <2>1. SumFunctionOnSet(f, S) = f[x] + SumFunctionOnSet(f, S \ {x}) /\ SumFunctionOnSet(f, S \ {x}) \in Nat
    BY SumTerm
  <2>2. f[x] \in Nat
    OBVIOUS
  <2> QED
    BY <1>1, <2>1, <2>2
<1>2. ASSUME \A x \in S : f[x] = 0 PROVE SumFunctionOnSet(f, S) = 0
  <2>1. /\ SumFunctionOnSet(f, S) = Cardinality(Units(f, S))
        /\ Units(f, S) = {p \in S \X Nat : p[2] \in 1 .. f[p[1]]}
    BY SumOfUnits
  <2>2. Units(f, S) = {}
    BY <1>2, <2>1
  <2> QED
    BY <2>1, <2>2, FS_EmptySet
<1> QED
  BY <1>1, <1>2

\* What a rank sends to rank q.
LEMMA SendCountFacts ==
    ASSUME NEW n \in Nat, NEW s, SendRanges(s, n), NEW q \in Rank
    PROVE  /\ SendCount(s, q) \in Nat /\ s[q] \in Nat /\ s[q + 1] \in Nat
           /\ s[q + 1] = s[q] + SendCount(s, q) /\ s[q + 1] <= n
<1>1. q \in 0 .. NumRanks /\ q + 1 \in 0 .. NumRanks /\ q <= q + 1
  BY RankFacts
<1> DEFINE x == s[q]
           y == s[q + 1]
<1>2. x \in 0 .. n /\ y \in 0 .. n /\ x <= y
  BY <1>1 DEF SendRanges
<1>3. SendCount(s, q) = IF y >= x THEN y - x ELSE 0
  BY DEF SendCount
<1> HIDE DEF x, y
<1>4. SendCount(s, q) \in Nat /\ x \in Nat /\ y \in Nat /\ y = x + SendCount(s, q) /\ y <= n
  BY <1>2, <1>3
<1> QED
  BY <1>4 DEF x, y

\* redoExchange sends as much to every other rank as the exchange it repeats.
LEMMA ShiftFacts ==
    ASSUME NEW n \in Nat, NEW s, SendRanges(s, n), NEW k \in Nat, NEW r \in Rank, NEW q \in Rank, q # r
    PROVE  /\ SendCount(ShiftSendRanges(s, r, k), q) = SendCount(s, q)
           /\ ShiftSendRanges(s, r, k)[q] = IF q > r THEN s[q] + k ELSE s[q]
<1>1. q \in 0 .. NumRanks /\ q + 1 \in 0 .. NumRanks /\ q \in Nat /\ r \in Nat
  BY RankFacts
<1> DEFINE t == ShiftSendRanges(s, r, k)
           x == s[q]
           y == s[q + 1]
<1>2. x \in Nat /\ y \in Nat
  BY SendCountFacts
<1>3. t[q] = (IF q > r THEN x + k ELSE x) /\ t[q + 1] = IF q + 1 > r THEN y + k ELSE y
  BY <1>1 DEF ShiftSendRanges
<1>4. t[q + 1] = IF q > r THEN y + k ELSE y
  BY <1>1, <1>3
<1>5. /\ SendCount(t, q) = IF t[q + 1] >= t[q] THEN t[q + 1] - t[q] ELSE 0
      /\ SendCount(s, q) = IF y >= x THEN y - x ELSE 0
  BY DEF SendCount
<1> HIDE DEF t, x, y
<1>6. CASE q > r
  <2>1. t[q] = x + k /\ t[q + 1] = y + k
    BY <1>3, <1>4, <1>6
  <2>2. SendCount(t, q) = SendCount(s, q)
    BY <1>2, <1>5, <2>1
  <2> QED
    BY <1>3, <2>2 DEF t, x
<1>7. CASE ~(q > r)
  <2>1. t[q] = x /\ t[q + 1] = y
    BY <1>3, <1>4, <1>7
  <2>2. SendCount(t, q) = SendCount(s, q)
    BY <1>5, <2>1
  <2> QED
    BY <1>3, <2>2 DEF t, x
<1> QED
  BY <1>6, <1>7

\* Splitting n elements into messages: all but the last one are full.
LEMMA ChunkFacts ==
    ASSUME NEW n \in Nat, NEW fit \in Nat \ {0}
    PROVE  /\ NumChunks(n, fit) \in Nat /\ (NumChunks(n, fit) = 0 <=> n = 0)
           /\ \A c \in 1 .. NumChunks(n, fit) :
                /\ (c - 1) * fit \in Nat /\ (c - 1) * fit < n
                /\ ChunkSize(n, fit, c) \in 1 .. fit
                /\ c < NumChunks(n, fit) => ChunkSize(n, fit, c) = fit
                /\ c = NumChunks(n, fit) => ChunkSize(n, fit, c) = n - (c - 1) * fit
<1> DEFINE C == NumChunks(n, fit)
           x == n + fit - 1
<1>1. x \in Nat
  OBVIOUS
<1>2. C \in Nat /\ x % fit \in 0 .. fit - 1 /\ x = fit * C + (x % fit)
  BY <1>1, DivMod DEF NumChunks
<1> HIDE DEF C
<1>3. fit * C \in Nat /\ n <= fit * C /\ fit * C <= n + fit - 1
  BY <1>2
<1>4. C = 0 <=> n = 0
  <2>1. ASSUME C = 0 PROVE n = 0
    <3>1. fit * C = 0
      BY <2>1
    <3> QED
      BY <1>3, <3>1
  <2>2. ASSUME n = 0, C # 0 PROVE FALSE
    <3>1. fit * 1 <= fit * C
      BY <1>2, <2>2, ProductMonotone
    <3> QED
      BY <1>3, <2>2, <3>1
  <2> QED
    BY <2>1, <2>2
<1>5. ASSUME NEW c \in 1 .. C
      PROVE  /\ (c - 1) * fit \in Nat /\ (c - 1) * fit < n
             /\ ChunkSize(n, fit, c) \in 1 .. fit
             /\ c < C => ChunkSize(n, fit, c) = fit
             /\ c = C => ChunkSize(n, fit, c) = n - (c - 1) * fit
  <2> DEFINE y == (c - 1) * fit
             z == c * fit
             m == Min({z, n})
  <2>1. y \in Nat /\ z \in Nat /\ z = y + fit
    <3>1. c \in Nat /\ c - 1 \in Nat
      BY <1>2
    <3> QED
      BY <3>1
  <2>2. z <= fit * C
    <3>1. fit * c <= fit * C
      BY <1>2, ProductMonotone
    <3> QED
      BY <1>2, <3>1
  <2>3. ASSUME c < C PROVE z <= n
    <3>1. c + 1 <= C /\ c \in Int /\ C \in Int
      BY <1>2, <2>3
    <3>2. fit * (c + 1) <= fit * C
      BY <3>1, ProductMonotone
    <3>3. fit * (c + 1) = z + fit
      BY <3>1
    <3> HIDE DEF z, y
    <3> QED
      BY <1>3, <2>1, <3>2, <3>3
  <2>4. y < n
    <3> HIDE DEF z, y
    <3> QED
      BY <1>3, <2>1, <2>2
  <2>5. ASSUME c = C PROVE n <= z
    BY <1>2, <1>3, <2>5
  <2>6. m = IF z <= n THEN z ELSE n
    <3> DEFINE S == {z, n}
    <3>1. S \in SUBSET Nat /\ S # {}
      BY <2>1
    <3>2. Min(S) \in S /\ \A k \in S : Min(S) <= k
      BY <3>1, MinFacts
    <3> HIDE DEF z
    <3> QED
      BY <2>1, <3>2
  <2>7. ChunkSize(n, fit, c) = m - y
    BY DEF ChunkSize
  <2> HIDE DEF m, y, z
  <2>8. /\ ChunkSize(n, fit, c) \in 1 .. fit
        /\ c < C => ChunkSize(n, fit, c) = fit
        /\ c = C => ChunkSize(n, fit, c) = n - y
    BY <2>1, <2>3, <2>4, <2>5, <2>6, <2>7
  <2> QED
    BY <2>1, <2>4, <2>8 DEF y
<1> QED
  BY <1>2, <1>4, <1>5 DEF C

\* The number of elements in flight is a natural number, and messages are not empty.
LEMMA LeftoverFacts ==
    ASSUME NEW n \in Nat, NEW fit \in Nat \ {0}, NEW m, Leftover(m, n, fit)
    PROVE  /\ Len(m) \in Nat /\ LeftoverSize(Len(m), n, fit) \in Nat
           /\ LeftoverSize(Len(m), n, fit) = 0 => m = << >>
           /\ m # << >> => /\ Head(m) \in Seq(Slot) /\ Len(Head(m)) \in 1 .. fit
                           /\ Leftover(Tail(m), n, fit)
                           /\ LeftoverSize(Len(Tail(m)), n, fit) = LeftoverSize(Len(m), n, fit) - Len(Head(m))
<1> DEFINE C == NumChunks(n, fit)
           L == Len(m)
<1>1. m \in Seq(Seq(Slot)) /\ L \in Nat /\ L <= C /\ \A c \in 1 .. L : Len(m[c]) = ChunkSize(n, fit, C - L + c)
  BY DEF Leftover
<1>2. C \in Nat
  BY ChunkFacts
<1>3. ASSUME L # 0
      PROVE  /\ C - L + 1 \in 1 .. C /\ (C - L + 1) - 1 = C - L
             /\ (C - L) * fit \in Nat /\ (C - L) * fit < n
  <2> HIDE DEF C, L
  <2>1. C - L + 1 \in 1 .. C /\ (C - L + 1) - 1 = C - L
    BY <1>1, <1>2, <1>3
  <2>2. ((C - L + 1) - 1) * fit \in Nat /\ ((C - L + 1) - 1) * fit < n
    BY <2>1, ChunkFacts, ZenonT(30) DEF C
  <2> QED
    BY <2>1, <2>2
<1>4. LeftoverSize(L, n, fit) = IF L = 0 THEN 0 ELSE n - (C - L) * fit
  BY DEF LeftoverSize
<1> HIDE DEF C, L
<1>5. LeftoverSize(L, n, fit) \in Nat /\ (LeftoverSize(L, n, fit) = 0 => L = 0)
  BY <1>3, <1>4
<1>6. L = 0 <=> m = << >>
  BY <1>1 DEF L
<1>7. ASSUME m # << >>
      PROVE  /\ Head(m) \in Seq(Slot) /\ Len(Head(m)) \in 1 .. fit
             /\ Leftover(Tail(m), n, fit)
             /\ LeftoverSize(Len(Tail(m)), n, fit) = LeftoverSize(L, n, fit) - Len(Head(m))
  <2>1. Head(m) = m[1] /\ Head(m) \in Seq(Slot) /\ 1 \in 1 .. L
    BY <1>1, <1>6, <1>7 DEF L
  <2>2. Len(Head(m)) = ChunkSize(n, fit, C - L + 1)
    BY <1>1, <2>1
  <2>3. Tail(m) \in Seq(Seq(Slot)) /\ Len(Tail(m)) = L - 1 /\ \A c \in 1 .. L - 1 : Tail(m)[c] = m[c + 1]
    BY <1>1, <1>6, <1>7 DEF L
  <2>4. L # 0
    BY <1>6, <1>7
  <2> DEFINE k == C - L + 1
             s == ChunkSize(n, fit, k)
  <2>k. k \in 1 .. C
    BY <1>3, <2>4
  <2>5. k \in 1 .. C /\ s \in 1 .. fit /\ (k < C => s = fit) /\ (k = C => s = n - (k - 1) * fit)
    <3> HIDE DEF k
    <3> QED
      BY <2>k, ChunkFacts DEF C
  <2>6. Leftover(Tail(m), n, fit)
    <3>1. ASSUME NEW c \in 1 .. L - 1 PROVE Len(Tail(m)[c]) = ChunkSize(n, fit, C - (L - 1) + c)
      <4>1. c + 1 \in 1 .. L /\ C - L + (c + 1) = C - (L - 1) + c
        BY <1>1, <1>2
      <4> QED
        BY <1>1, <2>3, <4>1
    <3> QED
      BY <1>1, <1>2, <2>3, <3>1 DEF Leftover, C
  <2>7. LeftoverSize(L - 1, n, fit) = LeftoverSize(L, n, fit) - s
    <3>1. LeftoverSize(L - 1, n, fit) = IF L - 1 = 0 THEN 0 ELSE n - (C - (L - 1)) * fit
      BY DEF LeftoverSize, C
    <3>2. LeftoverSize(L, n, fit) = n - (C - L) * fit
      BY <1>4, <2>4
    <3>3. CASE L = 1
      <4>1. k = C /\ k - 1 = C - L
        BY <1>2, <3>3
      <4>2. s = n - (C - L) * fit
        BY <2>5, <4>1
      <4> QED
        BY <1>3, <2>4, <3>1, <3>2, <3>3, <4>2
    <3>4. CASE L # 1
      <4>1. k < C
        BY <1>1, <1>2, <2>4, <3>4
      <4>2. s = fit
        BY <2>5, <4>1
      <4> DEFINE y == C - L
      <4>3. C - (L - 1) = y + 1 /\ y \in Nat
        BY <1>1, <1>2
      <4> HIDE DEF y, s
      <4>4. (y + 1) * fit = y * fit + fit /\ y * fit \in Nat
        BY <4>3
      <4> QED
        BY <1>1, <2>4, <3>1, <3>2, <3>4, <4>2, <4>3, <4>4 DEF y
    <3> QED
      BY <3>3, <3>4
  <2> QED
    BY <2>1, <2>2, <2>3, <2>5, <2>6, <2>7
<1> QED
  BY <1>1, <1>5, <1>6, <1>7 DEF L

\* The messages to a rank have all the elements that it is sent.
LEMMA MessagesFacts ==
    ASSUME NEW e \in {0, 1}, NEW arr, NEW o, NEW base \in Nat, NEW s, NEW q, Sendable(arr, o, base, s, q)
    PROVE  /\ AllMessages(Messages(e, arr, o, base, s, q), SendCount(s, q), NumFit[e])
           /\ Carries(Messages(e, arr, o, base, s, q), arr, o, base + s[q], SendCount(s, q), NumFit[e])
<1> USE DEF Sendable
<1> DEFINE n == SendCount(s, q)
           fit == NumFit[e]
           C == NumChunks(n, fit)
           elems == [j \in 1 .. n |-> arr[o[base + s[q] + j - 1]]]
           M == Messages(e, arr, o, base, s, q)
           Part(c) == SubSeq(elems, (c - 1) * fit + 1, Min({c * fit, n}))
<1>1. fit \in Nat \ {0} /\ n \in Nat
  BY ExchangeAssumption
<1>2. M = [c \in 1 .. C |-> Part(c)]
  BY DEF Messages, NumChunks
<1>3. elems \in Seq(Slot) /\ Len(elems) = n
  <2>1. elems \in [1 .. n -> Slot]
    OBVIOUS
  <2> HIDE DEF elems, n
  <2> QED
    BY <1>1, <2>1
<1>4. \A j \in 1 .. n : elems[j] = arr[o[base + s[q] + j - 1]]
  OBVIOUS
<1>5. C \in Nat
  BY <1>1, ChunkFacts
<1> HIDE DEF elems, n, fit, M
<1>6. ASSUME NEW c \in 1 .. C
      PROVE  /\ Part(c) \in Seq(Slot) /\ Len(Part(c)) = ChunkSize(n, fit, c)
             /\ \A j \in 1 .. ChunkSize(n, fit, c) : Part(c)[j] = elems[(c - 1) * fit + j] /\ (c - 1) * fit + j \in 1 .. n
  <2> DEFINE y == (c - 1) * fit
             z == Min({c * fit, n})
  <2>1. y \in Nat /\ ChunkSize(n, fit, c) \in 1 .. fit /\ ChunkSize(n, fit, c) = z - y
    BY <1>1, ChunkFacts DEF ChunkSize
  <2>2. z \in Nat /\ z <= n
    <3>1. c * fit \in Nat
      BY <1>1, <1>5
    <3> DEFINE S == {c * fit, n}
    <3>2. S \in SUBSET Nat /\ S # {} /\ n \in S
      BY <1>1, <3>1
    <3> HIDE DEF S
    <3>3. Min(S) \in S /\ \A k \in S : Min(S) <= k
      BY <3>2, MinFacts
    <3> QED
      BY <3>2, <3>3 DEF S
  <2>3. Part(c) = SubSeq(elems, y + 1, z)
    OBVIOUS
  <2> HIDE DEF y, z, Part
  <2>4. y + 1 \in 1 .. n + 1 /\ z \in y .. n
    BY <1>1, <2>1, <2>2
  <2>5. SubSeq(elems, y + 1, z) \in Seq(Slot) /\ Len(SubSeq(elems, y + 1, z)) = z - y
    BY <1>1, <1>3, <2>1, <2>2, <2>4
  <2>6. \A j \in 1 .. z - y : SubSeq(elems, y + 1, z)[j] = elems[y + j] /\ y + j \in 1 .. n
    BY <1>1, <1>3, <2>1, <2>2, <2>4
  <2> QED
    BY <2>1, <2>3, <2>5, <2>6 DEF y
<1> HIDE DEF Part, C
<1>7. M \in Seq(Seq(Slot)) /\ Len(M) = C /\ \A c \in 1 .. C : M[c] = Part(c)
  <2>1. M \in [1 .. C -> Seq(Slot)]
    BY <1>2, <1>6
  <2> QED
    BY <1>2, <1>5, <2>1
<1>8. Leftover(M, n, fit)
  <2>1. ASSUME NEW c \in 1 .. C PROVE Len(M[c]) = ChunkSize(n, fit, C - C + c)
    <3>1. C - C + c = c
      BY <1>5
    <3> QED
      BY <1>6, <1>7, <3>1
  <2> QED
    BY <1>5, <1>7, <2>1 DEF Leftover, C
<1>9. LeftoverSize(Len(M), n, fit) = n
  <2>1. LeftoverSize(C, n, fit) = IF C = 0 THEN 0 ELSE n - (C - C) * fit
    BY DEF LeftoverSize, C
  <2>2. C = 0 <=> n = 0
    BY <1>1, ChunkFacts DEF C
  <2>3. (C - C) * fit = 0
    BY <1>1, <1>5
  <2> QED
    BY <1>1, <1>7, <2>1, <2>2, <2>3
<1>10. Carries(M, arr, o, base + s[q], n, fit)
  <2> SUFFICES ASSUME NEW c \in 1 .. C, NEW j \in 1 .. ChunkSize(n, fit, c)
               PROVE  M[c][j] = arr[o[base + s[q] + (c - 1) * fit + j - 1]]
    BY DEF Carries, C
  <2>1. M[c][j] = elems[(c - 1) * fit + j] /\ (c - 1) * fit + j \in 1 .. n
    BY <1>6, <1>7
  <2> DEFINE y == (c - 1) * fit
             b == base + s[q]
  <2>2. y \in Nat /\ j \in Nat
    BY <1>1, ChunkFacts DEF C
  <2>3. elems[y + j] = arr[o[b + (y + j) - 1]]
    BY <1>4, <2>1
  <2>4. b \in Nat
    OBVIOUS
  <2> HIDE DEF y, b
  <2>5. b + (y + j) - 1 = b + y + j - 1
    BY <2>2, <2>4
  <2> QED
    BY <2>1, <2>3, <2>5 DEF y, b
<1> QED
  BY <1>8, <1>9, <1>10 DEF M, n, fit, AllMessages

-----------------------------------------------------------------------------
(* Buffers *)
\* The particles that start on a rank fill its buffer.
LEMMA InitialBuffer ==
    ASSUME NEW D \in SUBSET Particle
    PROVE  /\ Cardinality(D) \in Nat
           /\ [i \in 0 .. Cardinality(D) - 1 |-> CHOOSE p \in D : Cardinality({q \in D : q < p}) = i]
                \in [0 .. Cardinality(D) - 1 -> D]
<1> DEFINE before == [p \in D |-> {q \in D : q < p}]
<1>1. NumParticles \in Nat /\ 1 \in Int /\ NumParticles \in Int
  BY ExchangeAssumption
<1>2. IsFiniteSet(Particle)
  BY <1>1, FS_Interval DEF Particle
<1>3. IsFiniteSet(D) /\ Cardinality(D) \in Nat
  BY <1>2, FS_Subset, FS_CardinalityType
<1>4. before \in [D -> SUBSET D] /\ \A p, q \in D : q \in before[p] <=> q < p
  OBVIOUS
<1>5. \A p \in D : p \in Int
  BY DEF Particle
<1>6. \A p \in D : before[p] = {q \in D : q < p}
  OBVIOUS
<1> HIDE DEF before
<1>7. /\ \A x \in D : x \notin before[x]
      /\ \A x, y \in D : x # y => x \in before[y] \/ y \in before[x]
      /\ \A x, y, z \in D : x \in before[y] /\ y \in before[z] => x \in before[z]
  BY <1>4, <1>5
<1>8. ASSUME NEW i \in 0 .. Cardinality(D) - 1
      PROVE  (CHOOSE p \in D : Cardinality({q \in D : q < p}) = i) \in D
  <2>1. \E p \in D : Cardinality(before[p]) = i
    BY <1>3, <1>4, <1>7, OrderPlaces
  <2>2. \E p \in D : Cardinality({q \in D : q < p}) = i
    BY <1>6, <2>1
  <2> QED
    BY <2>2
<1> QED
  BY <1>3, <1>8

\* The halos of a rank are a sequence of particles.
LEMMA HaloFacts ==
    ASSUME NEW H \in SUBSET Particle, pos \in [Particle -> Key]
    PROVE  InSfcOrder(H) \in Seq(Particle) /\ Len(InSfcOrder(H)) \in Nat
<1> DEFINE Before(p, q) == pos[p] < pos[q] \/ (pos[p] = pos[q] /\ p < q)
           before == [p \in H |-> {q \in H : Before(q, p)}]
           n == Cardinality(H)
<1>1. NumParticles \in Nat /\ 1 \in Int /\ NumParticles \in Int /\ NumKeys \in Nat
  BY ExchangeAssumption
<1>2. IsFiniteSet(Particle)
  BY <1>1, FS_Interval DEF Particle
<1>3. IsFiniteSet(H) /\ n \in Nat
  BY <1>2, FS_Subset, FS_CardinalityType
<1>4. before \in [H -> SUBSET H] /\ \A p, q \in H : q \in before[p] <=> Before(q, p)
  OBVIOUS
<1>5. \A p \in H : p \in Int /\ pos[p] \in Int
  BY <1>1 DEF Particle, Key
<1>6. \A p \in H : before[p] = {q \in H : Before(q, p)}
  OBVIOUS
<1>7. InSfcOrder(H) = [i \in 1 .. n |-> CHOOSE p \in H : Cardinality({q \in H : Before(q, p)}) = i - 1]
  BY DEF InSfcOrder
<1> HIDE DEF before, n
<1>8. /\ \A x \in H : x \notin before[x]
      /\ \A x, y \in H : x # y => x \in before[y] \/ y \in before[x]
      /\ \A x, y, z \in H : x \in before[y] /\ y \in before[z] => x \in before[z]
  BY <1>4, <1>5
<1>9. ASSUME NEW i \in 1 .. n
      PROVE  (CHOOSE p \in H : Cardinality({q \in H : Before(q, p)}) = i - 1) \in H
  <2>1. i - 1 \in 0 .. n - 1
    BY <1>3
  <2>2. \E p \in H : Cardinality(before[p]) = i - 1
    BY <1>3, <1>4, <1>8, <2>1, OrderPlaces DEF n
  <2>3. \E p \in H : Cardinality({q \in H : Before(q, p)}) = i - 1
    BY <1>6, <2>2
  <2> QED
    BY <2>3
<1>10. InSfcOrder(H) \in [1 .. n -> Particle]
  BY <1>7, <1>9
<1> QED
  BY <1>3, <1>10

\* The received particles lie beside the assigned ones in the enlarged buffer: see
\* ReceivedBesideAssigned for the same in terms of index sets.
LEMMA EnvelopeFacts ==
    ASSUME NEW d \in Descriptions, NEW n \in Nat
    PROVE  /\ ExchangeBufferSize(d, n) \in Nat /\ d.size <= ExchangeBufferSize(d, n)
           /\ AssignedEnvelope(d, n).start \in Nat /\ AssignedEnvelope(d, n).end \in Nat
           /\ AssignedEnvelope(d, n).start <= d.start /\ d.end <= AssignedEnvelope(d, n).end
           /\ AssignedEnvelope(d, n).end <= ExchangeBufferSize(d, n)
           /\ AssignedEnvelope(d, n).end - AssignedEnvelope(d, n).start = d.end - d.start + n
           /\ ReceiveStart(d, n) \in Nat
           /\ \/ /\ AssignedEnvelope(d, n).start = ReceiveStart(d, n) /\ AssignedEnvelope(d, n).end = d.end
                 /\ ReceiveStart(d, n) + n = d.start
              \/ /\ AssignedEnvelope(d, n).start = d.start /\ ReceiveStart(d, n) = d.end
                 /\ AssignedEnvelope(d, n).end = d.end + n
<1>1. d.start \in Nat /\ d.end \in Nat /\ d.size \in Nat /\ d.start <= d.end /\ d.end <= d.size
  BY DEF Descriptions
<1>2. CASE d.start >= n
  <2>1. ExchangeBufferSize(d, n) = d.size /\ ReceiveStart(d, n) = d.start - n
    BY <1>2 DEF ExchangeBufferSize, ReceiveStart
  <2>2. AssignedEnvelope(d, n).start = d.start - n /\ AssignedEnvelope(d, n).end = d.end
    BY <1>2 DEF AssignedEnvelope
  <2> QED
    BY <1>1, <1>2, <2>1, <2>2
<1>3. CASE ~(d.start >= n)
  <2>1. ReceiveStart(d, n) = d.end
    BY <1>3 DEF ReceiveStart
  <2>2. ExchangeBufferSize(d, n) = IF d.size - d.end >= n THEN d.size ELSE d.end + n
    BY <1>3 DEF ExchangeBufferSize
  <2>3. AssignedEnvelope(d, n).start = d.start /\ AssignedEnvelope(d, n).end = d.end + n
    BY <1>3 DEF AssignedEnvelope
  <2> QED
    BY <1>1, <1>3, <2>1, <2>2, <2>3
<1> QED
  BY <1>2, <1>3

\* Resizing, permuting, receiving and computing keys keep the type of a buffer.
LEMMA BufferTypes ==
    ASSUME NEW D, NEW T, NEW a \in [D -> T]
    PROVE  /\ \A n \in Int, v \in T : Resized(a, n, v) \in [0 .. n - 1 -> T]
           /\ \A o : o \in [DOMAIN o -> D] => Permuted(a, o) \in [D -> T]
           /\ \A m \in Seq(T) : \A l : Scattered(a, m, l) \in [D -> T]
<1>1. ASSUME NEW n \in Int, NEW v \in T PROVE Resized(a, n, v) \in [0 .. n - 1 -> T]
  BY DEF Resized
<1>2. ASSUME NEW o, o \in [DOMAIN o -> D] PROVE Permuted(a, o) \in [D -> T]
  BY <1>2 DEF Permuted
<1>3. ASSUME NEW m \in Seq(T), NEW l PROVE Scattered(a, m, l) \in [D -> T]
  <2>1. \A i : i \in DOMAIN m => m[i] \in T
    OBVIOUS
  <2> QED
    BY <2>1 DEF Scattered
<1> QED
  BY <1>1, <1>2, <1>3

\* computeSfcKeys yields keys, or keeps the mark for removal.
LEMMA KeyTypes ==
    ASSUME NEW D, NEW ks \in [D -> 0 .. NumKeys], NEW I, NEW dat, \A i \in D \cap I : dat[i] \in Slot,
           pos \in [Particle -> Key]
    PROVE  ComputeSfcKeys(ks, dat, I, pos) \in [D -> 0 .. NumKeys]
<1>1. NumKeys \in Nat
  BY ExchangeAssumption
<1>2. \A p \in Particle : pos[p] \in 0 .. NumKeys
  BY <1>1 DEF Key
<1>3. ASSUME NEW i \in D, i \in I, dat[i] # NoParticle PROVE pos[dat[i]] \in 0 .. NumKeys
  <2>1. dat[i] \in Particle
    BY <1>3 DEF Slot
  <2> QED
    BY <1>2, <2>1
<1> QED
  BY <1>3 DEF ComputeSfcKeys
=============================================================================
