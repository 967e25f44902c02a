---------------------------- MODULE NumberLemmas ----------------------------
(***************************************************************************)
(* Facts about natural numbers, division and finite sets that the proofs   *)
(* of several components need.  Induction is replaced by the least         *)
(* element of the set of counterexamples.                                  *)
(***************************************************************************)
EXTENDS Integers, FiniteSetTheorems, WellFoundedInduction, TLAPS

\* A nonempty set of natural numbers has a least element.
LEMMA LeastElement ==
    ASSUME NEW S \in SUBSET Nat, S # {}
    PROVE  \E m \in S : \A k \in S : m <= k
<1> DEFINE R == OpToRel(<, Nat)
<1>1. IsWellFoundedOn(R, Nat)
  BY NatLessThanWellFounded
<1>2. \A x, y \in Nat : x < y => <<x, y>> \in R
  BY DEF OpToRel
<1> HIDE DEF R
<1>3. PICK x \in S : \A y \in S : ~(<<y, x>> \in R)
  BY <1>1, WFMin
<1>4. \A y \in S : ~(y < x)
  BY <1>2, <1>3
<1> QED
  BY <1>4

\* Induction over the natural numbers, for the set of numbers that have a property.
LEMMA InductionOverNat ==
    ASSUME NEW S, 0 \in S, \A n \in Nat : n \in S => n + 1 \in S
    PROVE  Nat \subseteq S
<1> SUFFICES ASSUME Nat \ S # {} PROVE FALSE
  OBVIOUS
<1>1. PICK m \in Nat \ S : \A k \in Nat \ S : m <= k
  BY LeastElement
<1>2. m # 0 /\ m - 1 \in Nat
  BY <1>1
<1>3. m - 1 \in S
  BY <1>1, <1>2
<1> QED
  BY <1>1, <1>2, <1>3

\* Products grow with their factors.
LEMMA ProductMonotone ==
    ASSUME NEW a \in Nat, NEW x \in Int, NEW y \in Int, x <= y
    PROVE  a * x <= a * y
OBVIOUS

\* Division with remainder.
LEMMA DivMod ==
    ASSUME NEW a \in Nat \ {0}, NEW n \in Nat
    PROVE  /\ n \div a \in Nat /\ n % a \in 0 .. a - 1
           /\ n = a * (n \div a) + (n % a)
OBVIOUS

\* The remainder is determined by its range.
LEMMA ModUnique ==
    ASSUME NEW a \in Nat \ {0}, NEW q \in Nat, NEW r \in 0 .. a - 1
    PROVE  (a * q + r) % a = r
OBVIOUS

\* An injection of a finite set into itself reaches every element.
LEMMA InjectionReachesAll ==
    ASSUME NEW S, IsFiniteSet(S), NEW T, IsFiniteSet(T), Cardinality(S) = Cardinality(T),
           NEW f \in [S -> T], \A x, y \in S : f[x] = f[y] => x = y
    PROVE  \A t \in T : \E x \in S : f[x] = t
<1>1. f \in Injection(S, T)
  BY DEF Injection, IsInjective
<1>2. f \in Surjection(S, T)
  BY <1>1, FS_Injection
<1> QED
  BY <1>2 DEF Surjection

\* A set of indices that has with every index all smaller ones is a prefix of the range.
LEMMA DownClosed ==
    ASSUME NEW lo \in Int, NEW hi \in Int, NEW A \in SUBSET (lo .. hi - 1),
           \A i, j \in lo .. hi - 1 : i <= j /\ j \in A => i \in A
    PROVE  Cardinality(A) \in Nat /\ \A i \in lo .. hi - 1 : i \in A <=> i < lo + Cardinality(A)
<1> DEFINE c == Cardinality(A)
<1>1. IsFiniteSet(lo .. hi - 1)
  <2>1. hi - 1 \in Int
    OBVIOUS
  <2> QED
    BY <2>1, FS_Interval
<1>2. IsFiniteSet(A) /\ c \in Nat
  BY <1>1, FS_Subset, FS_CardinalityType
<1>3. ASSUME NEW i \in lo .. hi - 1, i \in A PROVE i < lo + c
  <2> DEFINE B == lo .. i
  <2>1. i \in Int /\ lo <= i
    OBVIOUS
  <2>2. Cardinality(B) = IF lo > i THEN 0 ELSE i - lo + 1
    BY <2>1, FS_Interval
  <2>3. B \in SUBSET A
    BY <1>3
  <2> HIDE DEF B
  <2>4. Cardinality(B) <= c
    BY <1>2, <2>3, FS_Subset
  <2> HIDE DEF c
  <2> QED
    BY <1>2, <2>1, <2>2, <2>4
<1>4. ASSUME NEW i \in lo .. hi - 1, i \notin A PROVE ~(i < lo + c)
  <2> DEFINE B == lo .. i - 1
  <2>1. i \in Int /\ i - 1 \in Int /\ lo <= i
    OBVIOUS
  <2>2. IsFiniteSet(B) /\ Cardinality(B) = IF lo > i - 1 THEN 0 ELSE i - 1 - lo + 1
    BY <2>1, FS_Interval
  <2>3. A \in SUBSET B
    <3> SUFFICES ASSUME NEW k \in A PROVE k \in B
      OBVIOUS
    <3>1. k \in lo .. hi - 1 /\ ~(i <= k)
      BY <1>4
    <3> QED
      BY <2>1, <3>1
  <2> HIDE DEF B
  <2>4. c <= Cardinality(B)
    BY <2>2, <2>3, FS_Subset
  <2> HIDE DEF c
  <2> QED
    BY <1>2, <2>1, <2>2, <2>4
<1> QED
  BY <1>2, <1>3, <1>4

\* In a finite set with a strict total order, the number of elements before an element is its
\* place: a number below the size of the set, increasing with the order, and every number is
\* the place of an element.
LEMMA OrderPlaces ==
    ASSUME NEW D, IsFiniteSet(D), NEW before \in [D -> SUBSET D],
           \A x \in D : x \notin before[x],
           \A x, y \in D : x # y => x \in before[y] \/ y \in before[x],
           \A x, y, z \in D : x \in before[y] /\ y \in before[z] => x \in before[z]
    PROVE  /\ Cardinality(D) \in Nat
           /\ \A x \in D : Cardinality(before[x]) \in 0 .. Cardinality(D) - 1
           /\ \A x, y \in D : x \in before[y] => Cardinality(before[x]) < Cardinality(before[y])
           /\ \A i \in 0 .. Cardinality(D) - 1 : \E x \in D : Cardinality(before[x]) = i
<1> DEFINE n == Cardinality(D)
           place == [x \in D |-> Cardinality(before[x])]
<1>1. n \in Nat
  BY FS_CardinalityType
<1>2. \A x \in D : before[x] \in SUBSET D /\ IsFiniteSet(before[x]) /\ Cardinality(before[x]) \in Nat
  BY FS_Subset, FS_CardinalityType
<1>3. ASSUME NEW x \in D PROVE Cardinality(before[x]) \in 0 .. n - 1
  <2>1. Cardinality(before[x]) <= n /\ (n = Cardinality(before[x]) => D = before[x])
    BY <1>2, FS_Subset
  <2> QED
    BY <1>1, <1>2, <2>1
<1>4. ASSUME NEW x \in D, NEW y \in D, x \in before[y]
      PROVE  Cardinality(before[x]) < Cardinality(before[y])
  <2>1. before[x] \in SUBSET before[y] /\ before[x] # before[y]
    BY <1>2, <1>4
  <2>2. /\ Cardinality(before[x]) <= Cardinality(before[y])
        /\ Cardinality(before[y]) = Cardinality(before[x]) => before[y] = before[x]
    BY <1>2, <2>1, FS_Subset
  <2> QED
    BY <1>2, <2>1, <2>2
<1>5. \A x, y \in D : place[x] = place[y] => x = y
  BY <1>2, <1>4
<1>6. place \in [D -> 0 .. n - 1]
  BY <1>3
<1>7. IsFiniteSet(0 .. n - 1) /\ Cardinality(0 .. n - 1) = n
  BY <1>1, FS_Interval
<1>8. \A i \in 0 .. n - 1 : \E x \in D : place[x] = i
  <2> DEFINE N == 0 .. n - 1
  <2>1. IsFiniteSet(N) /\ Cardinality(D) = Cardinality(N) /\ place \in [D -> N]
    BY <1>6, <1>7
  <2> HIDE DEF N, place
  <2>2. \A t \in N : \E x \in D : place[x] = t
    BY <1>5, <2>1, InjectionReachesAll
  <2> QED
    BY <2>2 DEF N
<1> QED
  BY <1>1, <1>3, <1>4, <1>8

\* A set of positions that contains all positions before each of its own is a prefix.
LEMMA PrefixSet ==
    ASSUME NEW n \in Nat, NEW S \in SUBSET (1 .. n),
           \A k \in S : \A j \in 1 .. k : j \in S
    PROVE  /\ IsFiniteSet(S) /\ Cardinality(S) \in 0 .. n
           /\ S = 1 .. Cardinality(S)
<1> DEFINE c == Cardinality(S)
<1>1. IsFiniteSet(1 .. n) /\ Cardinality(1 .. n) = n
  BY FS_Interval
<1>2. IsFiniteSet(S) /\ c <= n
  <2>1. IsFiniteSet(S) /\ Cardinality(S) <= Cardinality(1 .. n)
    BY <1>1, FS_Subset, Zenon
  <2> QED
    BY <1>1, <2>1
<1>3. c \in Nat /\ \A k \in 1 .. n : k \in S <=> k < 1 + c
  <2>1. S \in SUBSET (1 .. (n + 1) - 1) /\ 1 \in Int /\ n + 1 \in Int
    OBVIOUS
  <2>2. \A i, j \in 1 .. (n + 1) - 1 : i <= j /\ j \in S => i \in S
    OBVIOUS
  <2>3. c \in Nat /\ \A k \in 1 .. (n + 1) - 1 : k \in S <=> k < 1 + c
    BY <2>1, <2>2, DownClosed
  <2> HIDE DEF c
  <2> QED
    BY <2>3
<1> HIDE DEF c
<1>4. S = 1 .. c
  <2>1. \A k \in S : k \in 1 .. c
    BY <1>3
  <2>2. \A k \in 1 .. c : k \in S
    BY <1>2, <1>3
  <2> QED
    BY <2>1, <2>2, Zenon
<1>5. c \in 0 .. n
  BY <1>2, <1>3
<1> QED
  BY <1>2, <1>4, <1>5 DEF c

\* A finite nonempty set of natural numbers has a greatest element.
LEMMA GreatestElement ==
    ASSUME NEW S \in SUBSET Nat, IsFiniteSet(S), S # {}
    PROVE  \E m \in S : \A k \in S : k <= m
<1> DEFINE HasGreatest(T) == \E m \in T : \A k \in T : k <= m
           C == {c \in Nat : \A T \in SUBSET S : Cardinality(T) = c + 1 => HasGreatest(T)}
<1>1. \A T \in SUBSET S : IsFiniteSet(T) /\ Cardinality(T) \in Nat
  BY FS_Subset, FS_CardinalityType
<1>2. 0 \in C
  <2> SUFFICES ASSUME NEW T \in SUBSET S, Cardinality(T) = 1 PROVE HasGreatest(T)
    OBVIOUS
  <2>1. PICK x : T = {x}
    BY <1>1, FS_Singleton
  <2> QED
    BY <2>1
<1>3. ASSUME NEW c \in Nat, c \in C PROVE c + 1 \in C
  <2> SUFFICES ASSUME NEW T \in SUBSET S, Cardinality(T) = (c + 1) + 1 PROVE HasGreatest(T)
    OBVIOUS
  <2>1. T # {}
    BY FS_EmptySet
  <2>2. PICK x \in T : TRUE
    BY <2>1
  <2>3. Cardinality(T \ {x}) = c + 1
    BY <1>1, <2>2, FS_RemoveElement
  <2>4. HasGreatest(T \ {x})
    BY <1>3, <2>3
  <2>5. PICK m \in T \ {x} : \A k \in T \ {x} : k <= m
    BY <2>4
  <2>6. CASE x <= m
    BY <2>5, <2>6
  <2>7. CASE ~(x <= m)
    BY <2>2, <2>5, <2>7
  <2> QED
    BY <2>6, <2>7
<1>4. Nat \subseteq C
  <2> HIDE DEF C
  <2> QED
    BY <1>2, <1>3, InductionOverNat
<1>5. Cardinality(S) \in Nat /\ Cardinality(S) # 0
  BY FS_EmptySet, FS_CardinalityType
<1>6. Cardinality(S) - 1 \in C /\ Cardinality(S) = (Cardinality(S) - 1) + 1
  <2> HIDE DEF C
  <2> QED
    BY <1>4, <1>5
<1> QED
  BY <1>6

\* The subsets of 1..n are counted by 2^n, and n + 1 doubles them.
LEMMA PowerOfTwo ==
    \A n \in Nat : 2 ^ n \in Nat \ {0} /\ 2 ^ (n + 1) = 2 * 2 ^ n
<1> SUFFICES ASSUME NEW n \in Nat PROVE 2 ^ n \in Nat \ {0} /\ 2 ^ (n + 1) = 2 * 2 ^ n
  OBVIOUS
<1> DEFINE A == SUBSET (1 .. n)
           B == {T \in SUBSET (1 .. n + 1) : n + 1 \in T}
           f == [T \in A |-> T \cup {n + 1}]
<1>1. IsFiniteSet(A) /\ Cardinality(A) = 2 ^ n
  <2>1. IsFiniteSet(1 .. n) /\ Cardinality(1 .. n) = n
    BY FS_Interval
  <2> QED
    BY <2>1, FS_SUBSET, Zenon
<1>2. Cardinality(SUBSET (1 .. n + 1)) = 2 ^ (n + 1)
  <2>1. IsFiniteSet(1 .. n + 1) /\ Cardinality(1 .. n + 1) = n + 1
    BY FS_Interval
  <2> QED
    BY <2>1, FS_SUBSET, Zenon
<1>3. f \in Bijection(A, B)
  <2>1. f \in [A -> B]
    BY SMTT(30)
  <2>2. \A S, T \in A : f[S] = f[T] => S = T
    <3> SUFFICES ASSUME NEW S \in A, NEW T \in A, S \cup {n + 1} = T \cup {n + 1} PROVE S = T
      OBVIOUS
    <3>1. n + 1 \notin S /\ n + 1 \notin T
      OBVIOUS
    <3> QED
      BY <3>1
  <2>3. \A T \in B : \E S \in A : f[S] = T
    <3> SUFFICES ASSUME NEW T \in B PROVE \E S \in A : f[S] = T
      OBVIOUS
    <3>1. T \ {n + 1} \in A
      OBVIOUS
    <3>2. f[T \ {n + 1}] = T
      BY <3>1
    <3> QED
      BY <3>1, <3>2
  <2> QED
    BY <2>1, <2>2, <2>3 DEF Bijection, Injection, Surjection, IsInjective
<1>4. IsFiniteSet(B) /\ Cardinality(B) = 2 ^ n
  BY <1>1, <1>3, FS_Bijection DEF ExistsBijection
<1>5. SUBSET (1 .. n + 1) = A \cup B /\ A \cap B = {}
  BY SMTT(30)
<1>6. Cardinality({}) = 0 /\ Cardinality(A) \in Nat
  BY <1>1, FS_EmptySet, FS_CardinalityType
<1>7. 2 ^ (n + 1) = 2 ^ n + 2 ^ n
  <2> HIDE DEF A, B
  <2>1. Cardinality(A \cup B) = Cardinality(A) + Cardinality(B) - Cardinality(A \cap B)
    BY <1>1, <1>4, FS_Union
  <2>2. Cardinality(A \cup B) = 2 ^ (n + 1) /\ Cardinality(A \cap B) = 0
    BY <1>2, <1>5, <1>6
  <2> QED
    BY <1>1, <1>4, <1>6, <2>1, <2>2
<1>8. A # {}
  OBVIOUS
<1>9. 2 ^ n \in Nat /\ 2 ^ n # 0
  BY <1>1, <1>6, <1>8, FS_EmptySet
<1> QED
  BY <1>7, <1>9

\* Powers of two grow.
LEMMA PowerMonotone ==
    ASSUME NEW i \in Nat, NEW j \in Nat, i <= j
    PROVE  2 ^ i <= 2 ^ j
<1> DEFINE S == {k \in Nat : 2 ^ i <= 2 ^ (i + k)}
<1>1. 0 \in S
  BY PowerOfTwo
<1>2. ASSUME NEW k \in Nat, k \in S PROVE k + 1 \in S
  <2>1. i + k \in Nat /\ (i + k) + 1 = i + (k + 1)
    OBVIOUS
  <2>2. 2 ^ (i + (k + 1)) = 2 * 2 ^ (i + k) /\ 2 ^ (i + k) \in Nat /\ 2 ^ i \in Nat
    BY <2>1, PowerOfTwo
  <2> QED
    BY <1>2, <2>2
<1> HIDE DEF S
<1>3. j - i \in S
  BY <1>1, <1>2, InductionOverNat
<1>4. i + (j - i) = j
  OBVIOUS
<1> QED
  BY <1>3, <1>4 DEF S

\* 2^n is beyond n.
LEMMA PowerBeyond == \A n \in Nat : n < 2 ^ n
<1> DEFINE S == {n \in Nat : n < 2 ^ n}
<1>1. 0 \in S
  BY PowerOfTwo
<1>2. ASSUME NEW n \in Nat, n \in S PROVE n + 1 \in S
  BY <1>2, PowerOfTwo
<1> HIDE DEF S
<1>3. Nat \subseteq S
  BY <1>1, <1>2, InductionOverNat
<1> QED
  BY <1>3 DEF S

\* The remainder of the next number.
LEMMA ModNext ==
    ASSUME NEW a \in Nat \ {0}, NEW s \in Nat, (s + 1) % a # 0
    PROVE  (s + 1) % a = (s % a) + 1
<1> DEFINE q == s \div a
           m == s % a
<1>1. q \in Nat /\ m \in 0 .. a - 1 /\ s = a * q + m
  BY DivMod
<1> HIDE DEF q, m
<1>2. CASE m + 1 = a
  <2>1. s + 1 = a * (q + 1) + 0
    BY <1>1, <1>2
  <2>2. q + 1 \in Nat /\ 0 \in 0 .. a - 1
    BY <1>1
  <2>3. (a * (q + 1) + 0) % a = 0
    BY <2>2, ModUnique
  <2> QED
    BY <2>1, <2>3
<1>3. CASE m + 1 # a
  <2>1. s + 1 = a * q + (m + 1) /\ m + 1 \in 0 .. a - 1
    BY <1>1, <1>3
  <2>2. (a * q + (m + 1)) % a = m + 1
    BY <1>1, <2>1, ModUnique
  <2> QED
    BY <2>1, <2>2 DEF m
<1> QED
  BY <1>2, <1>3

\* A quotient is an integer.
LEMMA Quotient ==
    ASSUME NEW a \in Int, NEW b \in Nat \ {0}
    PROVE  a \div b \in Int
OBVIOUS

\* What 2^j divides is divided by every smaller power of two.
LEMMA PowerDivides ==
    ASSUME NEW n \in Nat, NEW i \in Nat, NEW j \in Nat, i <= j, n % (2 ^ j) = 0
    PROVE  n % (2 ^ i) = 0
<1> DEFINE S == {k \in Nat : k <= j => n % (2 ^ (j - k)) = 0}
<1>1. 0 \in S
  OBVIOUS
<1>2. ASSUME NEW k \in Nat, k \in S PROVE k + 1 \in S
  <2> SUFFICES ASSUME k + 1 <= j PROVE n % (2 ^ (j - (k + 1))) = 0
    OBVIOUS
  <2> DEFINE a == 2 ^ (j - (k + 1))
  <2>1. j - (k + 1) \in Nat /\ (j - (k + 1)) + 1 = j - k
    OBVIOUS
  <2>2. a \in Nat \ {0} /\ 2 ^ (j - k) = 2 * a
    BY <2>1, PowerOfTwo
  <2>3. n % (2 * a) = 0
    BY <1>2, <2>2
  <2> HIDE DEF a
  <2>4. PICK q \in Nat : n = (2 * a) * q
    <3>1. 2 * a \in Nat \ {0}
      BY <2>2
    <3>2. n \div (2 * a) \in Nat /\ n = (2 * a) * (n \div (2 * a)) + (n % (2 * a))
      BY <3>1, DivMod, Zenon
    <3> QED
      BY <2>3, <3>1, <3>2
  <2>5. n = a * (2 * q) + 0
    BY <2>2, <2>4
  <2>6. n % a = 0
    BY <2>2, <2>5, ModUnique
  <2> QED
    BY <2>6 DEF a
<1> HIDE DEF S
<1>3. j - i \in S
  BY <1>1, <1>2, InductionOverNat
<1>4. j - (j - i) = i /\ j - i <= j
  OBVIOUS
<1> QED
  BY <1>3, <1>4 DEF S

\* The first power of two that does not divide n tells which ones do.
LEMMA PowersDividing ==
    ASSUME NEW n \in Nat \ {0}, NEW b,
           b = CHOOSE i \in 1 .. n + 1 : n % (2 ^ (i - 1)) = 0 /\ n % (2 ^ i) # 0
    PROVE  /\ b \in Nat \ {0}
           /\ \A i \in Nat : i < b <=> n % (2 ^ i) = 0
<1> DEFINE S == {i \in Nat : n % (2 ^ i) # 0}
           Ends(i) == n % (2 ^ (i - 1)) = 0 /\ n % (2 ^ i) # 0
<1>1. n \in S
  <2>1. 2 ^ n \in Nat \ {0} /\ n < 2 ^ n
    BY PowerOfTwo, PowerBeyond
  <2>2. n % (2 ^ n) = n
    BY <2>1
  <2> QED
    BY <2>2
<1>2. PICK m \in S : \A k \in S : m <= k
  BY <1>1, LeastElement, Zenon
<1>3. m # 0
  <2>1. n % (2 ^ 0) = 0
    OBVIOUS
  <2> QED
    BY <1>2, <2>1, Zenon
<1>4. m \in 1 .. n + 1 /\ Ends(m)
  <2>1. m \in Nat /\ m <= n
    BY <1>1, <1>2
  <2>2. m - 1 \in Nat /\ m - 1 \notin S
    BY <1>2, <1>3, <2>1
  <2> QED
    BY <1>2, <1>3, <2>1, <2>2
<1>5. b = CHOOSE i \in 1 .. n + 1 : Ends(i)
  OBVIOUS
<1>6. b \in 1 .. n + 1 /\ Ends(b)
  BY <1>4, <1>5, Zenon
<1>7. b \in Nat \ {0} /\ b - 1 \in Nat
  BY <1>6
<1>8. ASSUME NEW i \in Nat, i < b PROVE n % (2 ^ i) = 0
  BY <1>6, <1>7, <1>8, PowerDivides
<1>9. ASSUME NEW i \in Nat, ~(i < b) PROVE n % (2 ^ i) # 0
  BY <1>6, <1>7, <1>9, PowerDivides
<1> QED
  BY <1>7, <1>8, <1>9
=============================================================================
