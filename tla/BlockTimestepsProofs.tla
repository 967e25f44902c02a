------------------------ MODULE BlockTimestepsProofs ------------------------
(***************************************************************************)
(* Proofs for BlockTimesteps and MainLoop, for any number of ranks,        *)
(* groups, rungs, iterations and restarts and any time-step limits.  The   *)
(* facts about the operators (the schedule of the rungs, the sorting of    *)
(* the groups and the ranges of the rungs) lead to the inductive invariant *)
(* of the block time-steps, which holds for as long as the main loop runs. *)
(* It implies that all particles are at the same time in every force       *)
(* computation, that no step is longer than the limit of its particle, and *)
(* that a hierarchy starts with the lengths of the last steps.  The loop   *)
(* ends with the hierarchy of its last iteration and never with an output  *)
(* pending.                                                                *)
(***************************************************************************)
EXTENDS MainLoop, NumberLemmas

\* Zenon first: in a context as large as this one it is the faster of the two provers.
USE ZenonT(5), SMTT(30)

-----------------------------------------------------------------------------
(* The inductive invariant *)

\* the groups of rank r
Own(r) == {Groups[r][k] : k \in 1 .. NumGroups(r)}

\* a list with every group of rank r once
Permutes(list, r) ==
    /\ list \in [1 .. NumGroups(r) -> Own(r)]
    /\ \A j, k \in 1 .. NumGroups(r) : list[j] = list[k] => j = k
    /\ \A p \in Own(r) : \E k \in 1 .. NumGroups(r) : list[k] = p

Timesteps ==
    [nextDt : Int, elapsedDt : Int, totDt : Int, numRungs : 1 .. MaxNumRungs, substep : Nat,
     rungRanges : [Rank -> [0 .. MaxNumRungs -> Nat]], dt_m1 : [Rungs -> Int], dt_drift : [Rungs -> Int]]

StepTypeOK ==
    /\ phase \in {"forces", "loop", "rungs", "integrate", "done", "stuck"}
    /\ ts \in Timesteps
    /\ \A r \in Rank : groupDt[r] \in [1 .. NumGroups(r) -> Nat]
    /\ \A r \in Rank : Permutes(groups[r], r) /\ Permutes(tsGroups[r], r)
    /\ rung \in [Particle -> Rungs] /\ limit \in [Particle -> Nat]
    /\ drifted \in [Particle -> Int] /\ last \in [Particle -> Int] /\ lag \in [Particle -> Int]

\* the ranges of the rungs are in use
InHierarchy == phase = "integrate" \/ (phase \in {"forces", "loop", "rungs"} /\ ts.substep # 0)

SubstepInHierarchy ==
    /\ phase \in {"forces", "loop", "rungs"} => ts.substep <= 2 ^ (ts.numRungs - 1)
    /\ phase = "integrate" => ts.substep < 2 ^ (ts.numRungs - 1)

\* the ranges of the rungs divide the groups of a rank among the rungs of the hierarchy
RangesDivide ==
    InHierarchy => \A r \in Rank :
        /\ ts.rungRanges[r][0] = 0
        /\ \A i, j \in 0 .. MaxNumRungs : i <= j => ts.rungRanges[r][i] <= ts.rungRanges[r][j]
        /\ \A i \in ts.numRungs .. MaxNumRungs : ts.rungRanges[r][i] = NumGroups(r)

\* rung i takes part in the sub-step that comes next
StepStarts(i) == ts.substep % (2 ^ i) = 0

\* the particles of a rung have drifted as far as dt_drift says, and not at all when their
\* step starts
DriftKnown ==
    /\ InHierarchy => \A i \in 0 .. ts.numRungs - 1 :
           /\ StepStarts(i) => ts.dt_drift[i] = 0
           /\ \A r \in Rank : \A p \in InRung(r, i) :
                  drifted[p] = ts.dt_drift[i] /\ lag[p] = ts.dt_drift[i]
    /\ phase \in {"forces", "loop", "rungs"} /\ ts.substep = 0 =>
           \A p \in Particle : drifted[p] = 0 /\ lag[p] = 0

\* between two hierarchies, the array of the last time-steps has the last step of every particle
LastStepsStored ==
    phase \in {"forces", "loop", "rungs"} /\ IsSynced =>
        \A p \in Particle : ts.dt_m1[rung[p]] = last[p]

\* the sub-steps that are left of the step of rung i
Left(i) == 2 ^ i - (ts.substep % (2 ^ i))

\* The rest of the step of p fits into its limit: the next sub-steps are not longer than the
\* first time-step of any rank.
FitsLimit(i, p) == \E r \in Rank : ts.dt_drift[i] + Left(i) * groupDt[r][1] <= limit[p]

LimitsHold ==
    /\ InHierarchy => \A i \in 0 .. ts.numRungs - 1 :
           phase = "integrate" \/ ~StepStarts(i) =>
               \A r \in Rank : \A p \in InRung(r, i) : FitsLimit(i, p)
    /\ phase = "integrate" => \A r \in Rank : ts.nextDt <= groupDt[r][1]
    /\ phase \in {"loop", "rungs"} => \A r \in Rank : \A k \in 1 .. NumGroups(r) :
           k <= NumActive(r) => groupDt[r][k] <= limit[ActiveList(r)[k]]
    /\ phase \in {"loop", "rungs"} /\ IsSynced => groups = Groups

\* the inductive invariant of the block time-steps
StepInv ==
    /\ StepTypeOK
    /\ SubstepInHierarchy
    /\ RangesDivide
    /\ DriftKnown
    /\ LastStepsStored
    /\ LimitsHold

-----------------------------------------------------------------------------
(* The schedule of the rungs *)

\* The list of groups of a rank is nonempty and has each of them once.
LEMMA GroupsFacts ==
    ASSUME NEW r \in Rank
    PROVE  /\ NumGroups(r) \in Nat \ {0}
           /\ DOMAIN Groups[r] = 1 .. NumGroups(r)
           /\ Permutes(Groups[r], r)
<1>1. Groups[r] \in Seq(Particle) /\ Groups[r] # <<>>
  BY BlockAssumption
<1>2. NumGroups(r) \in Nat \ {0} /\ DOMAIN Groups[r] = 1 .. NumGroups(r)
  BY <1>1 DEF NumGroups
<1>3. \A j, k \in 1 .. NumGroups(r) : Groups[r][j] = Groups[r][k] => j = k
  BY <1>2, BlockAssumption
<1>4. Groups[r] \in [1 .. NumGroups(r) -> Own(r)]
  BY <1>1, <1>2 DEF Own, NumGroups
<1> QED
  BY <1>2, <1>3, <1>4 DEF Permutes, Own

\* A particle is in a group of one rank.
LEMMA OwnFacts ==
    /\ \A r \in Rank : Own(r) \subseteq Particle
    /\ \A p \in Particle : \E r \in Rank : p \in Own(r)
    /\ \A q, r \in Rank : \A p : p \in Own(q) /\ p \in Own(r) => q = r
<1>1. \A r \in Rank : DOMAIN Groups[r] = 1 .. NumGroups(r)
  BY GroupsFacts
<1>2. ASSUME NEW r \in Rank PROVE Own(r) \subseteq Particle
  <2> SUFFICES ASSUME NEW k \in 1 .. NumGroups(r) PROVE Groups[r][k] \in Particle
    BY Zenon DEF Own
  <2>1. k \in DOMAIN Groups[r]
    BY <1>1, Zenon
  <2>2. Groups[r][k] \in {Groups[r][j] : j \in DOMAIN Groups[r]}
    BY <2>1, Zenon
  <2> QED
    BY <2>2, Zenon DEF Particle
<1>3. ASSUME NEW p \in Particle PROVE \E r \in Rank : p \in Own(r)
  <2>1. PICK r \in Rank : \E k \in DOMAIN Groups[r] : p = Groups[r][k]
    BY Zenon DEF Particle
  <2>2. PICK k \in DOMAIN Groups[r] : p = Groups[r][k]
    BY <2>1, Zenon
  <2> QED
    BY <1>1, <2>2, Zenon DEF Own
<1>4. \A q, r \in Rank : \A p : p \in Own(q) /\ p \in Own(r) => q = r
  <2> SUFFICES ASSUME NEW q \in Rank, NEW r \in Rank, NEW p, p \in Own(q), p \in Own(r) PROVE q = r
    OBVIOUS
  <2>1. PICK j \in 1 .. NumGroups(q) : p = Groups[q][j]
    BY DEF Own
  <2>2. PICK k \in 1 .. NumGroups(r) : p = Groups[r][k]
    BY DEF Own
  <2>3. j \in DOMAIN Groups[q] /\ k \in DOMAIN Groups[r] /\ Groups[q][j] = Groups[r][k]
    BY <1>1, <2>1, <2>2, Zenon
  <2> QED
    BY <2>3, BlockAssumption, Zenon
<1> QED
  BY <1>2, <1>3, <1>4

\* The largest float is a number.
LEMMA FloatMaxType == FloatMax \in Nat
BY SMT DEF FloatMax

\* The minimum of a set of natural numbers.
LEMMA MinOfFacts ==
    ASSUME NEW S \in SUBSET Nat, S # {}
    PROVE  MinOf(S) \in S /\ \A n \in S : MinOf(S) <= n
BY LeastElement, Zenon DEF MinOf

\* The minimum of two integers.
LEMMA MinOfPair ==
    ASSUME NEW a \in Int, NEW b \in Int
    PROVE  MinOf({a, b}) \in {a, b} /\ MinOf({a, b}) <= a /\ MinOf({a, b}) <= b
<1>1. \E m \in {a, b} : \A n \in {a, b} : m <= n
  <2>1. CASE a <= b
    BY <2>1
  <2>2. CASE ~(a <= b)
    BY <2>2
  <2> QED
    BY <2>1, <2>2
<1> QED
  BY <1>1 DEF MinOf

\* the first time-steps of the ranks
FirstOf(dts) == {dts[r][1] : r \in Rank}

\* The smallest first time-step of the ranks.
LEMMA LowestFirst ==
    ASSUME NEW dts, \A r \in Rank : dts[r][1] \in Nat
    PROVE  /\ MinOf(FirstOf(dts)) \in Nat /\ \A r \in Rank : MinOf(FirstOf(dts)) <= dts[r][1]
           /\ \E r \in Rank : MinOf(FirstOf(dts)) = dts[r][1]
<1> DEFINE S == FirstOf(dts)
<1>1. S \in SUBSET Nat /\ S # {}
  BY BlockAssumption DEF FirstOf
<1> HIDE DEF S
<1>2. MinOf(S) \in S /\ \A n \in S : MinOf(S) <= n
  BY <1>1, MinOfFacts
<1> QED
  <2>1. MinOf(S) \in Nat /\ \A r \in Rank : dts[r][1] \in S
    BY <1>1, <1>2 DEF S, FirstOf
  <2>2. \E r \in Rank : MinOf(S) = dts[r][1]
    BY <1>2, Zenon DEF S, FirstOf
  <2> QED
    BY <1>2, <2>1, <2>2, Zenon DEF S

\* butterfly(n) is the number of powers of two that divide n.
LEMMA ButterflyDivides ==
    ASSUME NEW n \in Nat \ {0}
    PROVE  /\ Butterfly(n) \in Nat \ {0}
           /\ \A i \in Nat : i < Butterfly(n) <=> n % (2 ^ i) = 0
<1>1. Butterfly(n) = CHOOSE i \in 1 .. n + 1 : n % (2 ^ (i - 1)) = 0 /\ n % (2 ^ i) # 0
  BY DEF Butterfly
<1> QED
  BY <1>1, PowersDividing, Zenon

\* At least one sub-step is left of every step.
LEMMA LeftPositive ==
    ASSUME NEW s \in Nat, NEW i \in Nat
    PROVE  2 ^ i \in Nat \ {0} /\ s % (2 ^ i) \in 0 .. 2 ^ i - 1 /\ 2 ^ i - (s % (2 ^ i)) \in Nat \ {0}
<1>1. 2 ^ i \in Nat \ {0}
  BY PowerOfTwo
<1>2. s % (2 ^ i) \in 0 .. 2 ^ i - 1
  BY <1>1, DivMod
<1> QED
  BY <1>1, <1>2

\* The rungs that integrate advances are those whose step starts with the next sub-step.
LEMMA AdvancesStarts ==
    ASSUME NEW i \in Nat, ts.substep \in Nat
    PROVE  /\ Advances(i) <=> (ts.substep + 1) % (2 ^ i) = 0
           /\ ~Advances(i) => 2 ^ i - ((ts.substep + 1) % (2 ^ i)) = Left(i) - 1
           /\ Advances(i) => Left(i) = 1
<1> DEFINE s == ts.substep
           a == 2 ^ i
<1>1. s \in Nat /\ s + 1 \in Nat \ {0} /\ a \in Nat \ {0}
  BY PowerOfTwo
<1>2. Advances(i) <=> (s + 1) % a = 0
  BY <1>1, ButterflyDivides DEF Advances
<1>3. s % a \in 0 .. a - 1 /\ (s + 1) % a \in 0 .. a - 1
  BY <1>1, DivMod, Zenon
<1>4. Left(i) = a - (s % a)
  BY DEF Left
<1> HIDE DEF s, a
<1>5. ASSUME ~Advances(i) PROVE a - ((s + 1) % a) = Left(i) - 1
  <2>1. (s + 1) % a = (s % a) + 1
    BY <1>1, <1>2, <1>5, ModNext, Zenon
  <2> QED
    BY <1>1, <1>3, <1>4, <2>1
<1>6. ASSUME Advances(i) PROVE Left(i) = 1
  <2> DEFINE q == s \div a
             m == s % a
  <2>1. q \in Nat /\ m \in 0 .. a - 1 /\ s = a * q + m
    BY <1>1, DivMod, Zenon
  <2> HIDE DEF q, m
  <2>2. CASE m + 1 = a
    BY <1>1, <1>4, <2>1, <2>2 DEF m
  <2>3. CASE m + 1 # a
    <3>1. s + 1 = a * q + (m + 1) /\ m + 1 \in 0 .. a - 1 /\ m + 1 # 0
      BY <1>1, <2>1, <2>3
    <3>2. (a * q + (m + 1)) % a = m + 1
      BY <1>1, <2>1, <3>1, ModUnique
    <3> QED
      BY <1>2, <1>6, <3>1, <3>2
  <2> QED
    BY <2>2, <2>3
<1> QED
  BY <1>2, <1>5, <1>6 DEF s, a

\* The number of rungs of a new hierarchy is within the limit.
LEMMA NumRungsBounded ==
    ASSUME NEW lo, NEW hi
    PROVE  NumRungs(lo, hi) \in 1 .. MaxNumRungs
<1> DEFINE K == 1 .. MaxNumRungs - 1
           S == {k \in K : 2 ^ k * lo <= hi}
<1>1. IsFiniteSet(K) /\ Cardinality(K) = MaxNumRungs - 1
  BY FS_Interval, BlockAssumption
<1>2. Cardinality(S) \in Nat /\ Cardinality(S) <= Cardinality(K)
  BY <1>1, FS_Subset, FS_CardinalityType
<1> QED
  BY <1>1, <1>2, BlockAssumption DEF NumRungs

\* Particles that are not synchronised are in the middle of a hierarchy.
LEMMA Unsynced ==
    ASSUME ~IsSynced
    PROVE  ts.substep # 0 /\ ~(ts.substep >= 2 ^ (ts.numRungs - 1))
BY DEF IsSynced, ActiveRung

\* The length of a hierarchy is a positive number.
LEMMA HierarchyLength ==
    ASSUME NEW n \in 1 .. MaxNumRungs
    PROVE  2 ^ (n - 1) \in Nat \ {0}
BY PowerOfTwo, BlockAssumption

\* At the end of a hierarchy the step of every rung starts.
LEMMA AllStart ==
    ASSUME NEW n \in 1 .. MaxNumRungs, NEW i \in 0 .. n - 1
    PROVE  (2 ^ (n - 1)) % (2 ^ i) = 0
<1>1. 2 ^ (n - 1) \in Nat \ {0} /\ n - 1 \in Nat /\ i \in Nat /\ i <= n - 1
  BY HierarchyLength, BlockAssumption
<1>2. (2 ^ (n - 1)) % (2 ^ (n - 1)) = 0
  BY <1>1
<1> QED
  BY <1>1, <1>2, PowerDivides

\* activeRung: it is 0 at the beginning and at the end of a hierarchy, and otherwise says
\* which steps start.
LEMMA ActiveRungFacts ==
    ASSUME NEW s \in Nat, NEW n \in 1 .. MaxNumRungs
    PROVE  /\ 2 ^ (n - 1) \in Nat \ {0}
           /\ ActiveRung(s, n) = 0 <=> s = 0 \/ s >= 2 ^ (n - 1)
           /\ ActiveRung(s, n) # 0 => /\ ActiveRung(s, n) = Butterfly(s)
                                      /\ Butterfly(s) \in 1 .. n - 1
                                      /\ \A i \in Nat : i < Butterfly(s) <=> s % (2 ^ i) = 0
<1>1. 2 ^ (n - 1) \in Nat \ {0}
  BY PowerOfTwo, BlockAssumption
<1>2. CASE s = 0 \/ s >= 2 ^ (n - 1)
  BY <1>1, <1>2 DEF ActiveRung
<1>3. CASE ~(s = 0 \/ s >= 2 ^ (n - 1))
  <2> DEFINE b == Butterfly(s)
  <2>1. b \in Nat \ {0} /\ \A i \in Nat : i < b <=> s % (2 ^ i) = 0
    BY <1>3, ButterflyDivides
  <2>2. ActiveRung(s, n) = b
    BY <1>3 DEF ActiveRung
  <2> HIDE DEF b
  <2>3. b <= n - 1
    <3> SUFFICES ASSUME ~(b <= n - 1) PROVE FALSE
      OBVIOUS
    <3>1. n - 1 \in Nat /\ n - 1 < b
      BY <2>1, BlockAssumption
    <3>2. s % (2 ^ (n - 1)) = 0
      BY <2>1, <3>1
    <3>3. s \in 0 .. 2 ^ (n - 1) - 1
      BY <1>1, <1>3
    <3>4. s % (2 ^ (n - 1)) = s
      BY <1>1, <3>3
    <3> QED
      BY <1>3, <3>2, <3>4
  <2> QED
    BY <1>1, <1>3, <2>1, <2>2, <2>3 DEF b
<1> QED
  BY <1>2, <1>3

-----------------------------------------------------------------------------
(* Sorting the groups into rungs *)

\* idx is a permutation of 1 .. N that leaves everything beyond n in place
Permutation(idx, n, N) ==
    /\ idx \in [1 .. N -> 1 .. N]
    /\ \A i \in 1 .. n : idx[i] \in 1 .. n
    /\ \A i \in 1 .. N : i > n => idx[i] = i
    /\ \A i, j \in 1 .. N : idx[i] = idx[j] => i = j
    /\ \A k \in 1 .. N : \E i \in 1 .. N : idx[i] = k

\* idx sorts the first n of dts
Sorts(idx, dts, n) == \A i, j \in 1 .. n : i <= j => dts[idx[i]] <= dts[idx[j]]

\* sortGroupDt: the order of the first n time-steps is a permutation of their indices that
\* sorts them, and it leaves the others in place.
LEMMA SortFacts ==
    ASSUME NEW N \in Nat, NEW n \in 0 .. N, NEW dts \in [1 .. N -> Nat]
    PROVE  Permutation(SortedIndices(dts, n), n, N) /\ Sorts(SortedIndices(dts, n), dts, n)
<1> DEFINE idx == SortedIndices(dts, n)
           D == 1 .. n
           Before(j, k) == dts[j] < dts[k] \/ (dts[j] = dts[k] /\ j < k)
           before == [k \in D |-> {j \in D : Before(j, k)}]
           Place(k) == 1 + Cardinality({j \in 1 .. n : Before(j, k)})
<1>1. IsFiniteSet(D) /\ Cardinality(D) = n
  BY FS_Interval
<1>2. before \in [D -> SUBSET D] /\ \A j, k \in D : j \in before[k] <=> Before(j, k)
  OBVIOUS
<1>3. /\ \A k \in D : k \notin before[k]
      /\ \A j, k \in D : j # k => j \in before[k] \/ k \in before[j]
      /\ \A j, k, l \in D : j \in before[k] /\ k \in before[l] => j \in before[l]
  <2>1. \A k \in D : dts[k] \in Nat
    OBVIOUS
  <2>2. /\ \A k \in D : ~Before(k, k)
        /\ \A j, k \in D : j # k => Before(j, k) \/ Before(k, j)
        /\ \A j, k, l \in D : Before(j, k) /\ Before(k, l) => Before(j, l)
    BY <2>1
  <2> HIDE DEF D, before, Before
  <2> QED
    BY <1>2, <2>2
<1>4. /\ \A k \in D : Cardinality(before[k]) \in 0 .. n - 1
      /\ \A j, k \in D : j \in before[k] => Cardinality(before[j]) < Cardinality(before[k])
      /\ \A i \in 0 .. n - 1 : \E k \in D : Cardinality(before[k]) = i
  <2> HIDE DEF D, before
  <2> QED
    BY <1>1, <1>2, <1>3, OrderPlaces
<1>5. \A k \in D : Place(k) = 1 + Cardinality(before[k])
  OBVIOUS
<1>6. idx = [i \in 1 .. N |-> IF i <= n THEN CHOOSE k \in 1 .. n : Place(k) = i ELSE i]
  BY DEF SortedIndices
<1> HIDE DEF before, Place, idx
<1>7. ASSUME NEW i \in 1 .. n PROVE idx[i] \in 1 .. n /\ Cardinality(before[idx[i]]) = i - 1
  <2>1. i - 1 \in 0 .. n - 1 /\ i \in 1 .. N
    OBVIOUS
  <2>2. PICK k \in D : Cardinality(before[k]) = i - 1
    BY <1>4, <2>1
  <2>3. Place(k) = i
    BY <1>5, <2>2
  <2>4. idx[i] = CHOOSE kk \in 1 .. n : Place(kk) = i
    BY <1>6, <2>1
  <2>5. idx[i] \in 1 .. n /\ Place(idx[i]) = i
    BY <2>3, <2>4
  <2>6. Cardinality(before[idx[i]]) \in 0 .. n - 1 /\ i = 1 + Cardinality(before[idx[i]])
    BY <1>4, <1>5, <2>5, Zenon
  <2> DEFINE c == Cardinality(before[idx[i]])
  <2>7. c = i - 1
    <3> HIDE DEF c
    <3>1. c \in 0 .. n - 1 /\ i = 1 + c
      BY <2>6, Zenon DEF c
    <3> QED
      BY <3>1
  <2> QED
    BY <2>5, <2>7, Zenon
<1>8. \A i \in 1 .. N : i > n => idx[i] = i
  BY <1>6
<1>9. idx \in [1 .. N -> 1 .. N]
  <2>1. \A i \in 1 .. N : idx[i] \in 1 .. N
    BY <1>7, <1>8
  <2> QED
    BY <1>6, <2>1
<1>10. ASSUME NEW i \in 1 .. N, NEW j \in 1 .. N, idx[i] = idx[j] PROVE i = j
  <2>1. ASSUME NEW k \in 1 .. N PROVE k <= n <=> idx[k] <= n
    BY <1>7, <1>8
  <2>2. CASE i <= n
    <3>1. i \in 1 .. n /\ j \in 1 .. n
      BY <1>10, <2>1, <2>2
    <3>2. i - 1 = j - 1
      BY <1>7, <1>10, <3>1, Zenon
    <3> QED
      BY <3>2
  <2>3. CASE ~(i <= n)
    BY <1>8, <1>10, <2>1, <2>3
  <2> QED
    BY <2>2, <2>3
<1>11. \A k \in 1 .. N : \E i \in 1 .. N : idx[i] = k
  <2> DEFINE A == 1 .. N
  <2>1. IsFiniteSet(A) /\ idx \in [A -> A] /\ \A i, j \in A : idx[i] = idx[j] => i = j
    <3>1. IsFiniteSet(A)
      BY FS_Interval
    <3> QED
      BY <1>9, <1>10, <3>1
  <2> HIDE DEF A
  <2>2. \A k \in A : \E i \in A : idx[i] = k
    BY <2>1, InjectionReachesAll
  <2> QED
    BY <2>2, Zenon DEF A
<1>12. ASSUME NEW i \in 1 .. n, NEW j \in 1 .. n, i <= j PROVE dts[idx[i]] <= dts[idx[j]]
  <2>1. idx[i] \in D /\ idx[j] \in D
    BY <1>7
  <2>2. ~(Cardinality(before[idx[j]]) < Cardinality(before[idx[i]]))
    BY <1>7, <1>12
  <2>3. ~Before(idx[j], idx[i])
    <3> HIDE DEF Before, D
    <3> QED
      BY <1>2, <1>4, <2>1, <2>2
  <2>4. idx[i] \in 1 .. N /\ idx[j] \in 1 .. N
    BY <2>1
  <2> DEFINE x == dts[idx[i]]
             y == dts[idx[j]]
  <2>5. x \in Nat /\ y \in Nat /\ ~(y < x)
    BY <2>3, <2>4, Zenon
  <2> HIDE DEF x, y
  <2>6. x <= y
    BY <2>5
  <2> QED
    BY <2>6 DEF x, y
<1> QED
  BY <1>7, <1>8, <1>9, <1>10, <1>11, <1>12, Zenon DEF idx, Permutation, Sorts

\* A permutation of the list of groups of a rank is one.
LEMMA GatheredPermutes ==
    ASSUME NEW r \in Rank, NEW list, Permutes(list, r),
           NEW n, NEW idx, Permutation(idx, n, NumGroups(r))
    PROVE  /\ Permutes(Gathered(list, idx), r)
           /\ \A i \in 1 .. NumGroups(r) : Gathered(list, idx)[i] = list[idx[i]]
<1> DEFINE N == 1 .. NumGroups(r)
           g == Gathered(list, idx)
<1>0. /\ idx \in [N -> N] /\ \A i, j \in N : idx[i] = idx[j] => i = j
      /\ \A k \in N : \E i \in N : idx[i] = k
  BY DEF Permutation
<1>1. list \in [N -> Own(r)] /\ \A j, k \in N : list[j] = list[k] => j = k
  BY DEF Permutes
<1>2. g = [i \in N |-> list[idx[i]]]
  BY <1>1 DEF Gathered
<1>3. g \in [N -> Own(r)] /\ \A j, k \in N : g[j] = g[k] => j = k
  <2>1. \A i \in N : idx[i] \in N /\ g[i] = list[idx[i]] /\ g[i] \in Own(r)
    BY <1>0, <1>1, <1>2
  <2> HIDE DEF N, g
  <2>2. \A j, k \in N : g[j] = g[k] => j = k
    BY <1>0, <1>1, <2>1 DEF N
  <2> QED
    BY <1>2, <2>1, <2>2
<1>4. \A p \in Own(r) : \E k \in N : g[k] = p
  BY <1>0, <1>2 DEF Permutes
<1> QED
  BY <1>2, <1>3, <1>4 DEF Permutes

Increasing(dts, n) == \A j, k \in 1 .. n : j <= k => dts[j] <= dts[k]

\* the time-steps of a rank and a list of its groups in the order idx
GroupsSorted(r, dts, n, idx, list) ==
    /\ Gathered(dts, idx) \in [1 .. NumGroups(r) -> Nat]
    /\ \A k \in 1 .. NumGroups(r) :
           idx[k] \in 1 .. NumGroups(r) /\ Gathered(dts, idx)[k] = dts[idx[k]]
    /\ \A k \in 1 .. n : idx[k] \in 1 .. n
    /\ \A k \in 1 .. NumGroups(r) : k > n => idx[k] = k
    /\ Increasing(Gathered(dts, idx), n)
    /\ Gathered(dts, idx)[1] <= dts[1]
    /\ \A k \in 1 .. n : Gathered(dts, idx)[1] <= dts[k]
    /\ Permutes(Gathered(list, idx), r)
    /\ \A k \in 1 .. NumGroups(r) : Gathered(list, idx)[k] = list[idx[k]]

\* What sortGroupDt does to the time-steps of a rank, and the same order of the groups.
LEMMA SortedRank ==
    ASSUME NEW r \in Rank, NEW dts \in [1 .. NumGroups(r) -> Nat], NEW n \in 0 .. NumGroups(r),
           NEW list, Permutes(list, r)
    PROVE  GroupsSorted(r, dts, n, SortedIndices(dts, n), list)
<1> DEFINE N == NumGroups(r)
           idx == SortedIndices(dts, n)
           g == Gathered(dts, idx)
<1>1. N \in Nat \ {0} /\ N \in Nat
  BY GroupsFacts
<1>2. Permutation(idx, n, N) /\ Sorts(idx, dts, n)
  BY <1>1, SortFacts
<1> HIDE DEF idx
<1>3. g = [k \in 1 .. N |-> dts[idx[k]]]
  BY DEF Gathered
<1>4. Permutes(Gathered(list, idx), r) /\ \A k \in 1 .. N : Gathered(list, idx)[k] = list[idx[k]]
  BY <1>2, GatheredPermutes
<1> HIDE DEF N, g
<1>5. g \in [1 .. N -> Nat] /\ \A k \in 1 .. N : idx[k] \in 1 .. N /\ g[k] = dts[idx[k]]
  <2>1. \A k \in 1 .. N : idx[k] \in 1 .. N
    BY <1>2 DEF Permutation
  <2>2. dts \in [1 .. N -> Nat]
    BY DEF N
  <2> QED
    BY <1>3, <2>1, <2>2
<1>6. n \in Nat /\ n <= N
  BY <1>1 DEF N
<1>7. ASSUME NEW j \in 1 .. n, NEW k \in 1 .. n, j <= k PROVE g[j] <= g[k]
  <2>1. j \in 1 .. N /\ k \in 1 .. N
    BY <1>1, <1>6
  <2> QED
    BY <1>2, <1>5, <1>7, <2>1 DEF Sorts
<1>8. ASSUME NEW k \in 1 .. n PROVE g[1] <= dts[k]
  <2>1. k \in 1 .. N
    BY <1>1, <1>6
  <2>2. PICK i \in 1 .. N : idx[i] = k
    BY <1>2, <2>1 DEF Permutation
  <2>3. i \in 1 .. n
    BY <1>2, <1>6, <2>2 DEF Permutation
  <2>4. 1 \in 1 .. n /\ 1 <= i
    BY <1>6, <2>3
  <2> QED
    BY <1>5, <1>7, <2>2, <2>3, <2>4
<1>9. g[1] <= dts[1]
  <2>1. CASE n = 0
    <3>1. 1 \in 1 .. N /\ 1 > n
      BY <1>1, <2>1
    <3>2. g[1] = dts[1] /\ dts[1] \in Nat
      BY <1>2, <1>5, <3>1 DEF N, Permutation
    <3> QED
      BY <3>2
  <2>2. CASE n # 0
    BY <1>6, <1>8, <2>2
  <2> QED
    BY <2>1, <2>2
<1> QED
  BY <1>2, <1>4, <1>5, <1>7, <1>8, <1>9, Zenon DEF N, g, idx, Permutation, Increasing, GroupsSorted

\* rr divides 1 .. n into m rungs
Ranges(rr, n, m) ==
    /\ rr \in [0 .. MaxNumRungs -> 0 .. n]
    /\ rr[0] = 0
    /\ \A i, j \in 0 .. MaxNumRungs : i <= j => rr[i] <= rr[j]
    /\ \A i \in m .. MaxNumRungs : rr[i] = n

\* a time-step behind the start of rung i is at least 2^i times minDt
Separates(rr, minDt, dts, n, m) ==
    \A i \in 1 .. m - 1 : \A k \in 1 .. n : k > rr[i] => dts[k] >= 2 ^ i * minDt

\* findRungRanges: the ranges divide the first n sorted time-steps among the rungs, and a
\* time-step behind the start of rung i is at least 2^i times the smallest one.
LEMMA RangesFacts ==
    ASSUME NEW N \in Nat, NEW n \in 0 .. N, NEW dts \in [1 .. N -> Nat],
           Increasing(dts, n),
           NEW minDt \in Nat, NEW m \in 1 .. MaxNumRungs
    PROVE  /\ Ranges(FindRungRanges(minDt, dts, n, m), n, m)
           /\ Separates(FindRungRanges(minDt, dts, n, m), minDt, dts, n, m)
<1> DEFINE rr == FindRungRanges(minDt, dts, n, m)
           I == 0 .. MaxNumRungs
           Short(i) == {k \in 1 .. n : dts[k] < 2 ^ i * minDt}
<1>m. MaxNumRungs \in Nat
  BY BlockAssumption
<1>1. rr = [i \in I |-> IF i = 0 THEN 0 ELSE IF i < m THEN Cardinality(Short(i)) ELSE n]
  BY DEF FindRungRanges
<1> HIDE DEF rr
<1>2. ASSUME NEW i \in I
      PROVE  /\ IsFiniteSet(Short(i)) /\ Cardinality(Short(i)) \in 0 .. n
             /\ Short(i) = 1 .. Cardinality(Short(i))
  <2>1. 2 ^ i * minDt \in Nat
    BY PowerOfTwo
  <2>2. Short(i) \in SUBSET (1 .. n)
    OBVIOUS
  <2>3. \A k \in Short(i) : \A j \in 1 .. k : j \in Short(i)
    <3> DEFINE x == 2 ^ i * minDt
    <3> HIDE DEF x
    <3>1. x \in Nat
      BY <2>1 DEF x
    <3>2. \A k \in {l \in 1 .. n : dts[l] < x} : \A j \in 1 .. k : j \in {l \in 1 .. n : dts[l] < x}
      BY <3>1 DEF Increasing
    <3> QED
      BY <3>2 DEF x
  <2> HIDE DEF Short
  <2> QED
    BY <2>2, <2>3, PrefixSet
<1>3. ASSUME NEW i \in I, NEW j \in I, i <= j PROVE Cardinality(Short(i)) <= Cardinality(Short(j))
  <2>1. 2 ^ i \in Nat /\ 2 ^ j \in Nat /\ 2 ^ i <= 2 ^ j
    BY <1>3, PowerOfTwo, PowerMonotone
  <2>2. 2 ^ i * minDt <= 2 ^ j * minDt /\ 2 ^ i * minDt \in Nat /\ 2 ^ j * minDt \in Nat
    BY <2>1
  <2>3. Short(i) \in SUBSET Short(j)
    <3> DEFINE x == 2 ^ i * minDt
               y == 2 ^ j * minDt
    <3>1. x <= y /\ x \in Nat /\ y \in Nat
      BY <2>2
    <3> HIDE DEF x, y
    <3>2. {k \in 1 .. n : dts[k] < x} \in SUBSET {k \in 1 .. n : dts[k] < y}
      BY <3>1
    <3> QED
      BY <3>2 DEF x, y
  <2> HIDE DEF Short
  <2> QED
    BY <1>2, <2>3, FS_Subset
<1>4. ASSUME NEW i \in 1 .. m - 1, NEW k \in 1 .. n, k > rr[i] PROVE dts[k] >= 2 ^ i * minDt
  <2>1. i \in I /\ rr[i] = Cardinality(Short(i))
    BY <1>1, <1>m
  <2>2. k \notin 1 .. Cardinality(Short(i))
    <3>1. Cardinality(Short(i)) \in 0 .. n /\ k > Cardinality(Short(i))
      BY <1>2, <1>4, <2>1, Zenon
    <3> HIDE DEF Short
    <3> QED
      BY <3>1
  <2>3. k \notin Short(i)
    <3>1. Short(i) = 1 .. Cardinality(Short(i))
      BY <1>2, <2>1, Zenon
    <3> HIDE DEF Short
    <3> QED
      BY <2>2, <3>1, Zenon
  <2>4. 2 ^ i * minDt \in Nat /\ dts[k] \in Nat
    BY PowerOfTwo
  <2> QED
    BY <2>3, <2>4
<1> HIDE DEF Short
<1>5. rr \in [I -> 0 .. n]
  BY <1>1, <1>2
<1>6. rr[0] = 0 /\ \A i \in m .. MaxNumRungs : rr[i] = n
  BY <1>1, <1>m
<1>7. ASSUME NEW i \in I, NEW j \in I, i <= j PROVE rr[i] <= rr[j]
  <2>1. Cardinality(Short(i)) <= Cardinality(Short(j))
    BY <1>3, <1>7, Zenon
  <2>2. Cardinality(Short(i)) \in 0 .. n /\ Cardinality(Short(j)) \in 0 .. n
    BY <1>2, Zenon
  <2>3. /\ rr[i] = IF i = 0 THEN 0 ELSE IF i < m THEN Cardinality(Short(i)) ELSE n
        /\ rr[j] = IF j = 0 THEN 0 ELSE IF j < m THEN Cardinality(Short(j)) ELSE n
    BY <1>1
  <2>4. i \in Nat /\ j \in Nat /\ m \in Nat /\ n \in Nat
    BY <1>m
  <2> QED
    BY <1>7, <2>1, <2>2, <2>3, <2>4
<1> QED
  BY <1>4, <1>5, <1>6, <1>7 DEF rr, Ranges, Separates

\* Every position is in the range of one rung.
LEMMA RungOfPosition ==
    ASSUME NEW N \in Nat, NEW n \in 1 .. MaxNumRungs, NEW rr \in [0 .. MaxNumRungs -> Nat],
           rr[0] = 0, rr[n] = N, \A i, j \in 0 .. MaxNumRungs : i <= j => rr[i] <= rr[j],
           NEW k \in 1 .. N
    PROVE  /\ \E i \in 0 .. n - 1 : k \in rr[i] + 1 .. rr[i + 1]
           /\ \A i, j \in 0 .. n - 1 : k \in rr[i] + 1 .. rr[i + 1] /\ k \in rr[j] + 1 .. rr[j + 1] => i = j
<1> DEFINE S == {i \in 0 .. n : k <= rr[i]}
<1>m. MaxNumRungs \in Nat
  BY BlockAssumption
<1>1. n \in S /\ S \in SUBSET Nat
  OBVIOUS
<1>2. PICK m \in S : \A i \in S : m <= i
  BY <1>1, LeastElement, Zenon
<1>3. m \in 1 .. n /\ m - 1 \in 0 .. n - 1 /\ (m - 1) + 1 = m /\ k <= rr[m]
  BY <1>2
<1>4. m - 1 \notin S
  BY <1>2, <1>3
<1>5. ~(k <= rr[m - 1]) /\ rr[m - 1] \in Nat /\ rr[m] \in Nat
  BY <1>3, <1>4, <1>m
<1>6. k \in rr[m - 1] + 1 .. rr[(m - 1) + 1]
  BY <1>3, <1>5
<1>7. ASSUME NEW i \in 0 .. n - 1, NEW j \in 0 .. n - 1,
             k \in rr[i] + 1 .. rr[i + 1], k \in rr[j] + 1 .. rr[j + 1], i < j
      PROVE  FALSE
  <2>1. rr[i + 1] <= rr[j] /\ rr[i + 1] \in Nat /\ rr[j] \in Nat /\ rr[i] \in Nat /\ rr[j + 1] \in Nat
    BY <1>7, <1>m
  <2> QED
    BY <1>7, <2>1
<1>8. \A i, j \in 0 .. n - 1 : k \in rr[i] + 1 .. rr[i + 1] /\ k \in rr[j] + 1 .. rr[j + 1] => i = j
  <2>1. \A i, j \in 0 .. n - 1 : i < j \/ j < i \/ i = j
    OBVIOUS
  <2> QED
    BY <1>7, <2>1, Zenon
<1> QED
  BY <1>3, <1>6, <1>8

-----------------------------------------------------------------------------
(* Consequences of the invariant *)

\* The fields of timestep_ have their types.
LEMMA TimestepTypes ==
    ASSUME ts \in Timesteps
    PROVE  /\ ts.nextDt \in Int /\ ts.elapsedDt \in Int /\ ts.totDt \in Int
           /\ ts.numRungs \in 1 .. MaxNumRungs /\ ts.numRungs \in Nat /\ ts.substep \in Nat
           /\ \A r \in Rank : ts.rungRanges[r] \in [0 .. MaxNumRungs -> Nat]
           /\ ts.dt_m1 \in [Rungs -> Int] /\ ts.dt_drift \in [Rungs -> Int]
           /\ 0 .. ts.numRungs - 1 \subseteq Rungs
           /\ \A i \in 0 .. ts.numRungs - 1 : i \in Nat /\ i \in 0 .. MaxNumRungs /\ i + 1 \in 0 .. MaxNumRungs
           /\ MaxNumRungs \in Nat
<1>1. /\ ts.nextDt \in Int /\ ts.elapsedDt \in Int /\ ts.totDt \in Int
      /\ ts.numRungs \in 1 .. MaxNumRungs /\ ts.substep \in Nat
      /\ ts.rungRanges \in [Rank -> [0 .. MaxNumRungs -> Nat]]
      /\ ts.dt_m1 \in [Rungs -> Int] /\ ts.dt_drift \in [Rungs -> Int]
  BY DEF Timesteps
<1>2. \A r \in Rank : ts.rungRanges[r] \in [0 .. MaxNumRungs -> Nat]
  BY <1>1
<1>3. MaxNumRungs \in Nat
  BY BlockAssumption
<1>4. /\ ts.numRungs \in Nat
      /\ 0 .. ts.numRungs - 1 \subseteq Rungs
      /\ \A i \in 0 .. ts.numRungs - 1 : i \in Nat /\ i \in 0 .. MaxNumRungs /\ i + 1 \in 0 .. MaxNumRungs
  <2> DEFINE n == ts.numRungs
  <2>1. n \in 1 .. MaxNumRungs
    BY <1>1, Zenon
  <2> HIDE DEF n
  <2>2. n \in Nat /\ n <= MaxNumRungs
    BY <1>3, <2>1
  <2>3. ASSUME NEW i \in 0 .. n - 1
        PROVE  i \in Nat /\ i \in 0 .. MaxNumRungs /\ i + 1 \in 0 .. MaxNumRungs /\ i \in Rungs
    BY <1>3, <2>2 DEF Rungs
  <2> QED
    BY <2>2, <2>3, Zenon DEF n
<1> QED
  BY <1>1, <1>2, <1>3, <1>4, Zenon

\* A timestep_ as constructed has the types of a timestep.
LEMMA NewTimestepType ==
    ASSUME NEW n \in 1 .. MaxNumRungs, NEW d \in [Rungs -> Int]
    PROVE  NewTimestep(n, d) \in Timesteps
BY DEF NewTimestep, Timesteps

\* In a hierarchy every particle is in one rung.
LEMMA RungCover ==
    ASSUME StepTypeOK, RangesDivide, InHierarchy
    PROVE  /\ \A p \in Particle : \E r \in Rank : \E i \in 0 .. ts.numRungs - 1 : p \in InRung(r, i)
           /\ \A q, r \in Rank : \A i, j \in 0 .. ts.numRungs - 1 : \A p :
                  p \in InRung(q, i) /\ p \in InRung(r, j) => q = r /\ i = j
           /\ \A r \in Rank : \A i \in 0 .. ts.numRungs - 1 : InRung(r, i) \subseteq Particle
<1> DEFINE n == ts.numRungs
           rr(r) == ts.rungRanges[r]
<1>1. ASSUME NEW r \in Rank
      PROVE  /\ NumGroups(r) \in Nat /\ n \in 1 .. MaxNumRungs /\ MaxNumRungs \in Nat
             /\ rr(r) \in [0 .. MaxNumRungs -> Nat] /\ rr(r)[0] = 0 /\ rr(r)[n] = NumGroups(r)
             /\ \A i, j \in 0 .. MaxNumRungs : i <= j => rr(r)[i] <= rr(r)[j]
             /\ Permutes(tsGroups[r], r)
  <2>1. n \in 1 .. MaxNumRungs /\ MaxNumRungs \in Nat /\ rr(r) \in [0 .. MaxNumRungs -> Nat]
    BY TimestepTypes DEF StepTypeOK
  <2>2. n \in n .. MaxNumRungs
    BY <2>1
  <2> QED
    BY <2>1, <2>2, GroupsFacts DEF RangesDivide, StepTypeOK
<1> HIDE DEF n, rr
<1>2. ASSUME NEW r \in Rank, NEW i \in 0 .. n - 1, NEW k \in rr(r)[i] + 1 .. rr(r)[i + 1]
      PROVE  k \in 1 .. NumGroups(r)
  <2>1. i \in 0 .. MaxNumRungs /\ i + 1 \in 0 .. MaxNumRungs /\ n \in 0 .. MaxNumRungs /\ i + 1 <= n
    BY <1>1
  <2>2. rr(r)[i] \in Nat /\ rr(r)[i + 1] \in Nat /\ rr(r)[i + 1] <= rr(r)[n]
    BY <1>1, <2>1, Zenon
  <2>3. NumGroups(r) \in Nat /\ rr(r)[n] = NumGroups(r)
    BY <1>1, Zenon
  <2> QED
    BY <2>2, <2>3
<1>3. ASSUME NEW r \in Rank, NEW i \in 0 .. n - 1, NEW p
      PROVE  p \in InRung(r, i) <=> \E k \in rr(r)[i] + 1 .. rr(r)[i + 1] : p = tsGroups[r][k]
  BY DEF InRung, rr
<1>4. ASSUME NEW p \in Particle PROVE \E r \in Rank : \E i \in 0 .. n - 1 : p \in InRung(r, i)
  <2>1. PICK r \in Rank : p \in Own(r)
    BY OwnFacts
  <2>2. PICK k \in 1 .. NumGroups(r) : tsGroups[r][k] = p
    BY <1>1, <2>1 DEF Permutes
  <2>3. PICK i \in 0 .. n - 1 : k \in rr(r)[i] + 1 .. rr(r)[i + 1]
    BY <1>1, <2>2, RungOfPosition, Zenon
  <2> QED
    BY <1>3, <2>2, <2>3
<1>5. ASSUME NEW r \in Rank, NEW i \in 0 .. n - 1, NEW p \in InRung(r, i) PROVE p \in Own(r)
  <2>1. PICK k \in rr(r)[i] + 1 .. rr(r)[i + 1] : p = tsGroups[r][k]
    BY <1>3
  <2>2. k \in 1 .. NumGroups(r)
    BY <1>2
  <2>3. tsGroups[r] \in [1 .. NumGroups(r) -> Own(r)]
    BY <1>1 DEF Permutes
  <2> QED
    BY <2>1, <2>2, <2>3, Zenon
<1>6. ASSUME NEW q \in Rank, NEW r \in Rank, NEW i \in 0 .. n - 1, NEW j \in 0 .. n - 1, NEW p,
             p \in InRung(q, i), p \in InRung(r, j)
      PROVE  q = r /\ i = j
  <2>1. q = r
    BY <1>5, <1>6, OwnFacts
  <2>2. PICK k \in rr(r)[i] + 1 .. rr(r)[i + 1] : p = tsGroups[r][k]
    BY <1>3, <1>6, <2>1
  <2>3. PICK l \in rr(r)[j] + 1 .. rr(r)[j + 1] : p = tsGroups[r][l]
    BY <1>3, <1>6
  <2>4. k = l /\ k \in 1 .. NumGroups(r)
    <3>1. k \in 1 .. NumGroups(r) /\ l \in 1 .. NumGroups(r)
      BY <1>2
    <3>2. \A x, y \in 1 .. NumGroups(r) : tsGroups[r][x] = tsGroups[r][y] => x = y
      BY <1>1 DEF Permutes
    <3> QED
      BY <2>2, <2>3, <3>1, <3>2, Zenon
  <2>5. i = j
    <3>1. k \in rr(r)[i] + 1 .. rr(r)[i + 1] /\ k \in rr(r)[j] + 1 .. rr(r)[j + 1]
      BY <2>2, <2>3, <2>4
    <3>2. \A x, y \in 0 .. n - 1 :
            k \in rr(r)[x] + 1 .. rr(r)[x + 1] /\ k \in rr(r)[y] + 1 .. rr(r)[y + 1] => x = y
      <4>1. /\ NumGroups(r) \in Nat /\ n \in 1 .. MaxNumRungs /\ rr(r) \in [0 .. MaxNumRungs -> Nat]
            /\ rr(r)[0] = 0 /\ rr(r)[n] = NumGroups(r)
            /\ \A x, y \in 0 .. MaxNumRungs : x <= y => rr(r)[x] <= rr(r)[y]
        BY <1>1, Zenon
      <4> QED
        BY <2>4, <4>1, RungOfPosition, Zenon
    <3> QED
      BY <3>1, <3>2, Zenon
  <2> QED
    BY <2>1, <2>5
<1>7. \A r \in Rank : \A i \in 0 .. n - 1 : InRung(r, i) \subseteq Particle
  BY <1>5, OwnFacts
<1> QED
  BY <1>4, <1>6, <1>7 DEF n

\* A position in the range of a rung is a position of the list, behind the rungs before.
LEMMA PositionFacts ==
    ASSUME StepTypeOK, RangesDivide, InHierarchy, NEW r \in Rank, NEW i \in 0 .. ts.numRungs - 1,
           NEW k \in ts.rungRanges[r][i] + 1 .. ts.rungRanges[r][i + 1]
    PROVE  /\ k \in 1 .. NumGroups(r)
           /\ \A b \in 0 .. i : k > ts.rungRanges[r][b]
           /\ \A b \in i + 1 .. MaxNumRungs : k <= ts.rungRanges[r][b]
<1> DEFINE rr == ts.rungRanges[r]
           n == ts.numRungs
<1>1. rr \in [0 .. MaxNumRungs -> Nat] /\ n \in 1 .. MaxNumRungs /\ MaxNumRungs \in Nat
  BY TimestepTypes DEF StepTypeOK
<1>2. n \in n .. MaxNumRungs
  BY <1>1
<1>3. rr[n] = NumGroups(r) /\ \A j, l \in 0 .. MaxNumRungs : j <= l => rr[j] <= rr[l]
  BY <1>2 DEF RangesDivide
<1>4. NumGroups(r) \in Nat
  BY GroupsFacts
<1> HIDE DEF rr, n
<1>5. i \in 0 .. MaxNumRungs /\ i + 1 \in 0 .. MaxNumRungs /\ i + 1 <= n /\ n \in 0 .. MaxNumRungs
  <2>1. i \in 0 .. n - 1 /\ n \in 1 .. MaxNumRungs /\ MaxNumRungs \in Nat
    BY <1>1 DEF n
  <2> QED
    BY <2>1
<1>6. k \in Nat /\ rr[i] < k /\ k <= rr[i + 1] /\ rr[i] \in Nat /\ rr[i + 1] \in Nat
  <2>1. rr[i] \in Nat /\ rr[i + 1] \in Nat
    BY <1>1, <1>5
  <2>2. k \in rr[i] + 1 .. rr[i + 1]
    BY DEF rr
  <2> QED
    BY <2>1, <2>2
<1>7. k \in 1 .. NumGroups(r)
  BY <1>3, <1>4, <1>5, <1>6
<1>8. ASSUME NEW b \in 0 .. i PROVE k > rr[b]
  <2>1. b \in 0 .. MaxNumRungs /\ b <= i /\ rr[b] \in Nat
    BY <1>1, <1>5
  <2> QED
    BY <1>3, <1>5, <1>6, <2>1
<1>9. ASSUME NEW b \in i + 1 .. MaxNumRungs PROVE k <= rr[b]
  <2>1. b \in 0 .. MaxNumRungs /\ i + 1 <= b /\ rr[b] \in Nat
    BY <1>1, <1>5
  <2> QED
    BY <1>3, <1>5, <1>6, <2>1
<1> QED
  BY <1>7, <1>8, <1>9 DEF rr

\* No group is twice in the lists of the ranks.
LEMMA ListsDisjoint ==
    ASSUME StepTypeOK, NEW q \in Rank, NEW r \in Rank,
           NEW j \in 1 .. NumGroups(q), NEW k \in 1 .. NumGroups(r), tsGroups[q][j] = tsGroups[r][k]
    PROVE  q = r /\ j = k
<1>1. Permutes(tsGroups[q], q) /\ Permutes(tsGroups[r], r)
  BY DEF StepTypeOK
<1>2. tsGroups[q][j] \in Own(q) /\ tsGroups[r][k] \in Own(r)
  BY <1>1, Zenon DEF Permutes
<1>3. q = r
  BY <1>2, OwnFacts
<1>4. j \in 1 .. NumGroups(r) /\ tsGroups[r][j] = tsGroups[r][k]
  BY <1>3
<1> QED
  BY <1>1, <1>3, <1>4 DEF Permutes

\* Between the sub-steps of a hierarchy: which rungs are active.
LEMMA SyncFacts ==
    ASSUME StepInv, phase \in {"forces", "loop", "rungs"}
    PROVE  /\ IsSynced => \A i \in 0 .. ts.numRungs - 1 : ts.substep # 0 => StepStarts(i)
           /\ ts.substep = 0 => IsSynced
           /\ ~IsSynced => /\ InHierarchy
                           /\ ActiveRung(ts.substep, ts.numRungs) = Butterfly(ts.substep)
                           /\ Butterfly(ts.substep) \in 1 .. ts.numRungs - 1
                           /\ \A i \in Nat : i < Butterfly(ts.substep) <=> StepStarts(i)
<1> DEFINE s == ts.substep
           n == ts.numRungs
<1>1. s \in Nat /\ n \in 1 .. MaxNumRungs
  BY TimestepTypes DEF StepInv, StepTypeOK
<1>2. s <= 2 ^ (n - 1) /\ 2 ^ (n - 1) \in Nat
  BY <1>1, HierarchyLength DEF StepInv, SubstepInHierarchy
<1>3. IsSynced <=> s = 0 \/ s >= 2 ^ (n - 1)
  BY <1>1, ActiveRungFacts DEF IsSynced
<1>4. ASSUME IsSynced, NEW i \in 0 .. n - 1, s # 0 PROVE StepStarts(i)
  <2>1. s = 2 ^ (n - 1)
    BY <1>1, <1>2, <1>3, <1>4
  <2> QED
    BY <1>1, <2>1, AllStart DEF StepStarts
<1>5. ASSUME ~IsSynced
      PROVE  /\ InHierarchy
             /\ ActiveRung(s, n) = Butterfly(s)
             /\ Butterfly(s) \in 1 .. n - 1
             /\ \A i \in Nat : i < Butterfly(s) <=> StepStarts(i)
  <2>1. InHierarchy
    BY <1>3, <1>5 DEF InHierarchy
  <2>2. ActiveRung(s, n) # 0
    BY <1>5 DEF IsSynced
  <2> QED
    BY <1>1, <2>1, <2>2, ActiveRungFacts DEF StepStarts
<1> QED
  BY <1>3, <1>4, <1>5

\* The active groups are the first ones of a list with every group of the rank.
LEMMA ActiveFacts ==
    ASSUME StepInv, phase \in {"forces", "loop", "rungs"}, NEW r \in Rank
    PROVE  /\ NumActive(r) \in 0 .. NumGroups(r)
           /\ Permutes(ActiveList(r), r)
           /\ ~IsSynced => NumActive(r) = ts.rungRanges[r][Butterfly(ts.substep)] /\ ActiveList(r) = tsGroups[r]
<1>1. NumGroups(r) \in Nat /\ Permutes(Groups[r], r)
  BY GroupsFacts
<1>2. CASE IsSynced
  BY <1>1, <1>2 DEF NumActive, ActiveList
<1>3. CASE ~IsSynced
  <2> DEFINE b == Butterfly(ts.substep)
  <2>1. InHierarchy /\ b \in 1 .. ts.numRungs - 1
    BY <1>3, SyncFacts
  <2> HIDE DEF b
  <2>2. /\ ts.rungRanges[r] \in [0 .. MaxNumRungs -> Nat]
        /\ b \in 0 .. MaxNumRungs /\ ts.numRungs \in 0 .. MaxNumRungs /\ b <= ts.numRungs
        /\ ts.numRungs \in ts.numRungs .. MaxNumRungs
    <3> DEFINE n == ts.numRungs
    <3>1. ts.rungRanges[r] \in [0 .. MaxNumRungs -> Nat] /\ n \in 1 .. MaxNumRungs /\ MaxNumRungs \in Nat
      BY TimestepTypes, Zenon DEF StepInv, StepTypeOK
    <3>2. b \in 1 .. n - 1
      BY <2>1
    <3> HIDE DEF n
    <3>3. b \in 0 .. MaxNumRungs /\ n \in 0 .. MaxNumRungs /\ b <= n /\ n \in n .. MaxNumRungs
      BY <3>1, <3>2
    <3> QED
      BY <3>1, <3>3, Zenon DEF n
  <2>3. ts.rungRanges[r][b] <= ts.rungRanges[r][ts.numRungs] /\ ts.rungRanges[r][ts.numRungs] = NumGroups(r)
    BY <2>1, <2>2 DEF StepInv, RangesDivide
  <2>4. NumActive(r) = ts.rungRanges[r][b] /\ ActiveList(r) = tsGroups[r]
    BY <1>3 DEF NumActive, ActiveList, b
  <2>5. NumActive(r) \in 0 .. NumGroups(r)
    <3>1. ts.rungRanges[r][b] \in Nat
      BY <2>2, Zenon
    <3> QED
      BY <1>1, <2>3, <2>4, <3>1
  <2>6. Permutes(tsGroups[r], r)
    BY DEF StepInv, StepTypeOK
  <2> QED
    BY <2>4, <2>5, <2>6 DEF b
<1> QED
  BY <1>2, <1>3

\* At a synchronised state nothing is drifted.
LEMMA SyncedNoDrift ==
    ASSUME StepInv, phase \in {"forces", "loop", "rungs"}, IsSynced, NEW p \in Particle
    PROVE  drifted[p] = 0 /\ lag[p] = 0
<1>1. CASE ts.substep = 0
  BY <1>1 DEF StepInv, DriftKnown
<1>2. CASE ts.substep # 0
  <2>1. InHierarchy
    BY <1>2 DEF InHierarchy
  <2>2. PICK r \in Rank, i \in 0 .. ts.numRungs - 1 : p \in InRung(r, i)
    BY <2>1, RungCover DEF StepInv
  <2>3. StepStarts(i)
    BY <1>2, SyncFacts
  <2> QED
    BY <2>1, <2>2, <2>3 DEF StepInv, DriftKnown
<1> QED
  BY <1>1, <1>2

\* The kernels give every active particle a natural number as its limit.
LEMMA KernelLimitsType ==
    ASSUME NEW lim \in KernelLimits
    PROVE  DOMAIN lim = Active /\ \A p \in Active : lim[p] \in Nat
<1> DEFINE largest == CHOOSE m \in Limits : \A l \in Limits : l <= m
<1>1. \E m \in Limits : \A l \in Limits : l <= m
  BY BlockAssumption, GreatestElement
<1>2. largest \in Limits /\ Limits \subseteq Nat
  BY <1>1, BlockAssumption, Zenon
<1> HIDE DEF largest
<1>3. PICK l \in [Active \cap Varying -> Limits] :
        lim = [p \in Active |-> IF p \in Varying THEN l[p] ELSE largest]
  BY DEF KernelLimits, largest
<1> QED
  BY <1>2, <1>3, Zenon
-----------------------------------------------------------------------------
(* The phases keep the invariant *)

\* a start from initial conditions or from a snapshot
FreshState ==
    /\ phase = "forces"
    /\ \E n \in 1 .. MaxNumRungs, d \in [Rungs -> Int] :
           ts = NewTimestep(n, d) /\ \A p \in Particle : d[rung[p]] = last[p]
    /\ groupDt = [r \in Rank |-> [k \in 1 .. NumGroups(r) |-> FloatMax]]
    /\ groups = Groups /\ tsGroups = Groups /\ limit = [p \in Particle |-> FloatMax]
    /\ rung \in [Particle -> Rungs] /\ last \in [Particle -> Int]
    /\ drifted \in [Particle -> Int] /\ lag \in [Particle -> Int]
    /\ \A p \in Particle : drifted[p] = 0 /\ lag[p] = 0

\* A start, with nothing drifted, satisfies the invariant.
LEMMA FreshStart == FreshState => StepInv
<1> SUFFICES ASSUME FreshState PROVE StepInv
  OBVIOUS
<1>p. PICK n \in 1 .. MaxNumRungs, d \in [Rungs -> Int] :
        ts = NewTimestep(n, d) /\ \A p \in Particle : d[rung[p]] = last[p]
  BY DEF FreshState
<1>1. ts \in Timesteps
  BY <1>p, NewTimestepType
<1>2. ts.substep = 0 /\ ts.dt_m1 = d /\ ts.numRungs = n /\ phase = "forces"
  BY <1>p DEF NewTimestep, FreshState
<1>3. StepTypeOK
  BY <1>1, FloatMaxType, GroupsFacts DEF StepTypeOK, FreshState
<1>4. SubstepInHierarchy
  <2>1. 2 ^ (n - 1) \in Nat
    BY <1>p, HierarchyLength
  <2> QED
    BY <1>2, <2>1 DEF SubstepInHierarchy
<1>5. ~InHierarchy
  BY <1>2 DEF InHierarchy
<1> QED
  BY <1>p, <1>2, <1>3, <1>4, <1>5
  DEF StepInv, RangesDivide, DriftKnown, LastStepsStored, LimitsHold, FreshState

\* Computing the forces keeps the invariant: the time-steps of the active groups are within
\* their new limits, those of the others do not change, nor do their limits.
LEMMA ForcesStepInv ==
    ASSUME StepInv, NEW lim \in KernelLimits, ComputeForces(lim)
    PROVE  StepInv'
<1> DEFINE old(r, k) == IF IsSynced THEN FloatMax ELSE groupDt[r][k]
<1>2. /\ phase = "forces" /\ phase' = "loop"
      /\ limit' = [p \in Particle |-> IF p \in DOMAIN lim THEN lim[p] ELSE limit[p]]
      /\ groups' = IF IsSynced THEN Groups ELSE groups
      /\ groupDt' = [r \in Rank |-> [k \in 1 .. NumGroups(r) |->
               IF k <= NumActive(r) THEN MinOf({old(r, k), lim[ActiveList(r)[k]]}) ELSE old(r, k)]]
      /\ UNCHANGED <<ts, prevDt, tsGroups, rung, drifted, last, lag>>
  BY DEF ComputeForces
<1>3. /\ IsSynced' = IsSynced
      /\ \A r \in Rank : NumActive(r)' = NumActive(r) /\ ActiveList(r)' = ActiveList(r)
      /\ \A r, i : InRung(r, i)' = InRung(r, i)
      /\ \A i : StepStarts(i)' = StepStarts(i) /\ Left(i)' = Left(i)
      /\ InHierarchy' = InHierarchy
  BY <1>2 DEF IsSynced, NumActive, ActiveList, InRung, StepStarts, Left, InHierarchy
<1>4. DOMAIN lim = Active /\ \A p \in Active : lim[p] \in Nat
  BY KernelLimitsType
<1>5. ASSUME NEW r \in Rank, NEW k \in 1 .. NumGroups(r)
      PROVE  old(r, k) \in Nat
  <2>1. groupDt[r] \in [1 .. NumGroups(r) -> Nat]
    BY DEF StepInv, StepTypeOK
  <2> QED
    BY <2>1, FloatMaxType, Zenon
<1>6. ASSUME NEW r \in Rank, NEW k \in 1 .. NumGroups(r), k <= NumActive(r)
      PROVE  ActiveList(r)[k] \in Active /\ ActiveList(r)[k] \in Particle
  <2>1. NumActive(r) \in 0 .. NumGroups(r) /\ Permutes(ActiveList(r), r)
    BY <1>2, ActiveFacts
  <2>2. k \in 1 .. NumActive(r)
    BY <1>6, <2>1
  <2>3. ActiveList(r)[k] \in Own(r)
    BY <2>1 DEF Permutes
  <2> QED
    BY <2>2, <2>3, OwnFacts DEF Active
<1>7. ASSUME NEW r \in Rank, NEW k \in 1 .. NumGroups(r)
      PROVE  /\ groupDt'[r][k] \in Nat /\ groupDt'[r][k] <= old(r, k)
             /\ k <= NumActive(r) => groupDt'[r][k] <= lim[ActiveList(r)[k]]
  <2>1. CASE k <= NumActive(r)
    <3>1. groupDt'[r][k] = MinOf({old(r, k), lim[ActiveList(r)[k]]})
      BY <1>2, <2>1
    <3>2. old(r, k) \in Nat /\ lim[ActiveList(r)[k]] \in Nat
      BY <1>4, <1>5, <1>6, <2>1
    <3> DEFINE a == old(r, k)
               c == lim[ActiveList(r)[k]]
    <3>3. a \in Nat /\ c \in Nat /\ groupDt'[r][k] = MinOf({a, c})
      BY <3>1, <3>2
    <3> HIDE DEF a, c
    <3>4. MinOf({a, c}) \in {a, c} /\ MinOf({a, c}) <= a /\ MinOf({a, c}) <= c
      <4>1. a \in Int /\ c \in Int
        BY <3>3
      <4> QED
        BY <4>1, MinOfPair, Zenon
    <3>5. groupDt'[r][k] \in Nat /\ groupDt'[r][k] <= a /\ groupDt'[r][k] <= c
      BY <3>3, <3>4
    <3> QED
      BY <3>5 DEF a, c
  <2>2. CASE ~(k <= NumActive(r))
    <3>1. groupDt'[r][k] = old(r, k)
      BY <1>2, <2>2
    <3> HIDE DEF old
    <3> QED
      BY <1>5, <2>2, <3>1
  <2> QED
    BY <2>1, <2>2
<1>8. StepTypeOK'
  <2>1. limit' \in [Particle -> Nat]
    BY <1>2, <1>4 DEF StepInv, StepTypeOK
  <2>2. ASSUME NEW r \in Rank PROVE groupDt'[r] \in [1 .. NumGroups(r) -> Nat]
    BY <1>2, <1>7, Zenon
  <2>3. \A r \in Rank : Permutes(groups'[r], r) /\ Permutes(tsGroups'[r], r)
    BY <1>2, GroupsFacts DEF StepInv, StepTypeOK
  <2> QED
    BY <1>2, <2>1, <2>2, <2>3, Zenon DEF StepInv, StepTypeOK
<1>9. SubstepInHierarchy' /\ RangesDivide' /\ LastStepsStored'
  BY <1>2, <1>3 DEF StepInv, SubstepInHierarchy, RangesDivide, LastStepsStored
<1>10. DriftKnown'
  BY <1>2, <1>3 DEF StepInv, DriftKnown
<1>11. ASSUME InHierarchy, NEW i \in 0 .. ts.numRungs - 1, ~StepStarts(i),
              NEW r \in Rank, NEW p \in InRung(r, i)
       PROVE  FitsLimit(i, p)'
  <2>1. PICK q \in Rank : ts.dt_drift[i] + Left(i) * groupDt[q][1] <= limit[p]
    BY <1>2, <1>11 DEF StepInv, LimitsHold, FitsLimit
  <2>2. ~IsSynced
    BY <1>2, <1>11, SyncFacts DEF InHierarchy
  <2>3. p \in Particle /\ p \notin Active
    <3> DEFINE b == Butterfly(ts.substep)
    <3>1. b \in 1 .. ts.numRungs - 1 /\ ~(i < b)
      BY <1>2, <1>11, <2>2, SyncFacts, TimestepTypes
    <3>2. p \in Particle
      BY <1>11, RungCover DEF StepInv
    <3>3. ASSUME NEW t \in Rank, NEW l \in 1 .. NumActive(t), p = ActiveList(t)[l] PROVE FALSE
      <4> HIDE DEF b
      <4>1. /\ NumActive(t) \in 0 .. NumGroups(t)
            /\ NumActive(t) = ts.rungRanges[t][b] /\ ActiveList(t) = tsGroups[t]
        BY <1>2, <2>2, ActiveFacts DEF b
      <4>2. PICK k \in ts.rungRanges[r][i] + 1 .. ts.rungRanges[r][i + 1] : p = tsGroups[r][k]
        BY DEF InRung
      <4>3. k \in 1 .. NumGroups(r) /\ k > ts.rungRanges[r][b]
        BY <1>11, <3>1, <4>2, PositionFacts DEF StepInv
      <4>4. l \in 1 .. NumGroups(t) /\ tsGroups[t][l] = tsGroups[r][k]
        <5>1. NumGroups(t) \in Nat
          BY GroupsFacts
        <5>2. l \in 1 .. NumGroups(t)
          BY <4>1, <5>1
        <5> QED
          BY <3>3, <4>1, <4>2, <5>2
      <4>5. t = r /\ l = k
        BY <4>3, <4>4, ListsDisjoint DEF StepInv
      <4>6. NumActive(t) \in Nat /\ l <= NumActive(t) /\ ~(l <= NumActive(t))
        BY <4>1, <4>3, <4>5
      <4> QED
        BY <4>6
    <3> QED
      BY <3>2, <3>3 DEF Active
  <2>4. limit'[p] = limit[p]
    BY <1>2, <1>4, <2>3
  <2>5. groupDt'[q][1] <= groupDt[q][1] /\ groupDt'[q][1] \in Int /\ groupDt[q][1] \in Int
    <3>1. 1 \in 1 .. NumGroups(q)
      BY GroupsFacts
    <3>2. old(q, 1) = groupDt[q][1] /\ groupDt[q][1] \in Nat
      BY <2>2, <3>1, Zenon DEF StepInv, StepTypeOK
    <3>3. groupDt'[q][1] \in Nat /\ groupDt'[q][1] <= old(q, 1)
      BY <1>7, <3>1
    <3> QED
      BY <3>2, <3>3
  <2>6. Left(i) \in Nat /\ ts.dt_drift[i] \in Int /\ limit[p] \in Int
    <3>1. /\ ts.substep \in Nat /\ i \in Nat /\ i \in Rungs /\ ts.dt_drift \in [Rungs -> Int]
          /\ limit \in [Particle -> Nat]
      BY TimestepTypes, Zenon DEF StepInv, StepTypeOK
    <3>2. Left(i) \in Nat
      BY <3>1, LeftPositive DEF Left
    <3> QED
      BY <2>3, <3>1, <3>2
  <2>7. Left(i) * groupDt'[q][1] <= Left(i) * groupDt[q][1]
    BY <2>5, <2>6, ProductMonotone
  <2>8. ts.dt_drift[i] + Left(i) * groupDt'[q][1] <= limit[p]
    BY <2>1, <2>5, <2>6, <2>7
  <2> QED
    BY <1>2, <1>3, <2>4, <2>8, Zenon DEF FitsLimit
<1>12. ASSUME NEW r \in Rank, NEW k \in 1 .. NumGroups(r), k <= NumActive(r)
       PROVE  groupDt'[r][k] <= limit'[ActiveList(r)[k]]
  BY <1>2, <1>4, <1>6, <1>7, <1>12
<1>13. LimitsHold'
  <2>1. \A r \in Rank : \A k \in 1 .. NumGroups(r) :
          k <= NumActive(r)' => groupDt'[r][k] <= limit'[ActiveList(r)'[k]]
    BY <1>3, <1>12
  <2>2. IsSynced' => groups' = Groups
    BY <1>2, <1>3
  <2>3. \A i \in 0 .. ts'.numRungs - 1 : InHierarchy' /\ ~StepStarts(i)' =>
          \A r \in Rank : \A p \in InRung(r, i)' : FitsLimit(i, p)'
    BY <1>2, <1>3, <1>11
  <2> QED
    BY <1>2, <2>1, <2>2, <2>3, Zenon DEF LimitsHold
<1> QED
  BY <1>8, <1>9, <1>10, <1>13 DEF StepInv

\* Between computeForces and computeRungs the block time-steps do not change.
LEMMA OutputStepInv ==
    ASSUME StepInv, phase = "loop", phase' \in {"rungs", "stuck"},
           UNCHANGED <<ts, prevDt, groupDt, groups, tsGroups, rung, drifted, last, lag, limit>>
    PROVE  StepInv'
<1>1. /\ IsSynced' = IsSynced
      /\ \A r \in Rank : NumActive(r)' = NumActive(r) /\ ActiveList(r)' = ActiveList(r)
      /\ \A r, i : InRung(r, i)' = InRung(r, i)
      /\ \A i : StepStarts(i)' = StepStarts(i)
      /\ \A i, p : FitsLimit(i, p)' = FitsLimit(i, p)
      /\ InHierarchy' => InHierarchy
  BY DEF IsSynced, NumActive, ActiveList, InRung, StepStarts, Left, InHierarchy, FitsLimit
<1>2. StepTypeOK' /\ SubstepInHierarchy' /\ RangesDivide' /\ LastStepsStored'
  BY <1>1 DEF StepInv, StepTypeOK, SubstepInHierarchy, RangesDivide, LastStepsStored
<1>3. DriftKnown'
  BY <1>1 DEF StepInv, DriftKnown
<1>4. LimitsHold'
  BY <1>1 DEF StepInv, LimitsHold
<1> QED
  BY <1>2, <1>3, <1>4 DEF StepInv

\* A new hierarchy: every step fits into the limit of its particle, since a rung begins at
\* 2^i times the smallest time-step.
LEMMA NewHierarchyStepInv == StepInv /\ NewHierarchy => StepInv'
<1> SUFFICES ASSUME StepInv, NewHierarchy PROVE StepInv'
  OBVIOUS
<1> DEFINE idx    == [r \in Rank |-> SortedIndices(groupDt[r], NumGroups(r))]
           sorted == [r \in Rank |-> Gathered(groupDt[r], idx[r])]
           lo     == MinOf({sorted[r][1] : r \in Rank})
           hi     == MinOf({sorted[r][FastIndex(NumGroups(r))] : r \in Rank})
           n      == NumRungs(lo, hi)
           dt     == MinOf({MaxDtIncrease * ts.dt_m1[0], lo})
           ranges == [r \in Rank |-> FindRungRanges(lo, sorted[r], NumGroups(r), n)]
           list   == [r \in Rank |-> Gathered(groups[r], idx[r])]
<1>1. /\ phase = "rungs" /\ IsSynced /\ phase' = "integrate"
      /\ ts' = [NewTimestep(n, [i \in Rungs |-> 0]) EXCEPT
                  !.nextDt = dt, !.totDt = dt * 2 ^ n, !.rungRanges = ranges]
      /\ groupDt' = sorted /\ tsGroups' = list
      /\ UNCHANGED <<groups, rung, drifted, last, lag, limit>>
  BY DEF NewHierarchy
<1>t. StepTypeOK
  BY DEF StepInv
<1>2. ASSUME NEW r \in Rank
      PROVE  /\ idx[r] = SortedIndices(groupDt[r], NumGroups(r))
             /\ sorted[r] = Gathered(groupDt[r], idx[r])
             /\ list[r] = Gathered(groups[r], idx[r])
             /\ ranges[r] = FindRungRanges(lo, sorted[r], NumGroups(r), n)
  BY <1>2
<1> HIDE DEF idx, sorted, ranges, list, hi
<1>3. n \in 1 .. MaxNumRungs /\ n \in Nat
  <2> HIDE DEF lo
  <2>1. n \in 1 .. MaxNumRungs
    BY NumRungsBounded, Zenon
  <2> HIDE DEF n
  <2> QED
    BY <2>1, BlockAssumption
<1> HIDE DEF n
<1>4. ASSUME NEW r \in Rank
      PROVE  /\ NumGroups(r) \in Nat \ {0} /\ NumGroups(r) \in Nat
             /\ sorted[r] \in [1 .. NumGroups(r) -> Nat]
             /\ \A k \in 1 .. NumGroups(r) :
                    /\ idx[r][k] \in 1 .. NumGroups(r)
                    /\ sorted[r][k] = groupDt[r][idx[r][k]]
                    /\ list[r][k] = groups[r][idx[r][k]]
             /\ Increasing(sorted[r], NumGroups(r))
             /\ Permutes(list[r], r)
  <2>1. NumGroups(r) \in Nat \ {0} /\ NumGroups(r) \in Nat /\ NumGroups(r) \in 0 .. NumGroups(r)
    BY GroupsFacts
  <2>2. groupDt[r] \in [1 .. NumGroups(r) -> Nat] /\ Permutes(groups[r], r)
    BY <1>t DEF StepTypeOK
  <2> QED
    <3>1. GroupsSorted(r, groupDt[r], NumGroups(r), SortedIndices(groupDt[r], NumGroups(r)), groups[r])
      BY <2>1, <2>2, SortedRank
    <3>2. GroupsSorted(r, groupDt[r], NumGroups(r), idx[r], groups[r])
      BY <1>2, <3>1, Zenon
    <3> QED
      BY <1>2, <2>1, <3>2, Zenon DEF GroupsSorted
<1>5. /\ lo \in Nat /\ \A r \in Rank : lo <= sorted[r][1]
      /\ \E r \in Rank : lo = sorted[r][1]
  <2>1. \A r \in Rank : sorted[r][1] \in Nat
    <3>1. \A r \in Rank : 1 \in 1 .. NumGroups(r)
      BY <1>4
    <3> QED
      BY <1>4, <3>1, Zenon
  <2>2. lo = MinOf(FirstOf(sorted))
    BY DEF FirstOf
  <2> HIDE DEF lo
  <2> QED
    BY <2>1, <2>2, LowestFirst
<1> HIDE DEF lo
<1>6. dt \in Int /\ dt <= lo
  <2>1. MaxDtIncrease \in Nat /\ 0 \in Rungs
    BY BlockAssumption DEF Rungs
  <2>2. ts.dt_m1[0] \in Int
    BY <1>t, <2>1, TimestepTypes DEF StepTypeOK
  <2>3. MaxDtIncrease * ts.dt_m1[0] \in Int /\ lo \in Int
    BY <1>5, <2>1, <2>2
  <2> QED
    BY <2>3, MinOfPair, Zenon
<1> HIDE DEF dt
<1>7. /\ ts'.nextDt = dt /\ ts'.elapsedDt = 0 /\ ts'.totDt = dt * 2 ^ n /\ ts'.numRungs = n /\ ts'.substep = 0
      /\ ts'.rungRanges = ranges /\ ts'.dt_m1 = [i \in Rungs |-> 0] /\ ts'.dt_drift = [i \in Rungs |-> 0]
  BY <1>1 DEF NewTimestep
<1>8. \A r \in Rank : Ranges(ranges[r], NumGroups(r), n) /\ Separates(ranges[r], lo, sorted[r], NumGroups(r), n)
  <2> SUFFICES ASSUME NEW r \in Rank
               PROVE Ranges(ranges[r], NumGroups(r), n) /\ Separates(ranges[r], lo, sorted[r], NumGroups(r), n)
    OBVIOUS
  <2>1. NumGroups(r) \in Nat /\ NumGroups(r) \in 0 .. NumGroups(r)
    BY <1>4
  <2> QED
    <3>1. sorted[r] \in [1 .. NumGroups(r) -> Nat] /\ Increasing(sorted[r], NumGroups(r))
      BY <1>4
    <3>2. ranges[r] = FindRungRanges(lo, sorted[r], NumGroups(r), n)
      BY <1>2
    <3>3. lo \in Nat /\ n \in 1 .. MaxNumRungs
      BY <1>3, <1>5
    <3> QED
      BY <2>1, <3>1, <3>2, <3>3, RangesFacts, Zenon
<1>9. groups = Groups /\ \A r \in Rank : \A k \in 1 .. NumGroups(r) : groupDt[r][k] <= limit[Groups[r][k]]
  <2>1. \A r \in Rank : NumActive(r) = NumGroups(r) /\ ActiveList(r) = Groups[r]
    BY <1>1 DEF NumActive, ActiveList
  <2>2. groups = Groups /\ \A r \in Rank : \A k \in 1 .. NumGroups(r) :
           k <= NumActive(r) => groupDt[r][k] <= limit[ActiveList(r)[k]]
    BY <1>1 DEF StepInv, LimitsHold
  <2>3. \A r \in Rank : \A k \in 1 .. NumGroups(r) : k <= NumGroups(r)
    BY <1>4
  <2> QED
    BY <2>1, <2>2, <2>3
<1>10. StepTypeOK'
  <2>1. ts' \in Timesteps
    <3>1. dt * 2 ^ n \in Int
      BY <1>3, <1>6, PowerOfTwo
    <3>2. ranges \in [Rank -> [0 .. MaxNumRungs -> Nat]]
      <4>1. \A r \in Rank : ranges[r] \in [0 .. MaxNumRungs -> Nat]
        <5> SUFFICES ASSUME NEW r \in Rank PROVE ranges[r] \in [0 .. MaxNumRungs -> Nat]
          OBVIOUS
        <5>1. ranges[r] \in [0 .. MaxNumRungs -> 0 .. NumGroups(r)] /\ 0 .. NumGroups(r) \subseteq Nat
          BY <1>4, <1>8 DEF Ranges
        <5> QED
          BY <5>1
      <4> QED
        BY <4>1 DEF ranges
    <3>3. NewTimestep(n, [i \in Rungs |-> 0]) \in Timesteps
      BY <1>3, NewTimestepType
    <3> QED
      BY <1>1, <1>6, <3>1, <3>2, <3>3, Zenon DEF Timesteps
  <2>2. \A r \in Rank : groupDt'[r] \in [1 .. NumGroups(r) -> Nat]
    BY <1>1, <1>4
  <2>3. \A r \in Rank : Permutes(groups'[r], r) /\ Permutes(tsGroups'[r], r)
    BY <1>1, <1>4, <1>t DEF StepTypeOK
  <2> QED
    BY <1>1, <1>t, <2>1, <2>2, <2>3 DEF StepTypeOK
<1>11. SubstepInHierarchy'
  BY <1>1, <1>3, <1>7, HierarchyLength DEF SubstepInHierarchy
<1>12. RangesDivide'
  BY <1>7, <1>8 DEF RangesDivide, Ranges
<1>13. ASSUME NEW r \in Rank, NEW i \in 0 .. n - 1, NEW p \in InRung(r, i)'
       PROVE  p \in Particle /\ i \in Rungs /\
              \E k \in 1 .. NumGroups(r) : k > ranges[r][i] /\ p = Groups[r][idx[r][k]]
  <2>1. PICK k \in ranges[r][i] + 1 .. ranges[r][i + 1] : p = list[r][k]
    BY <1>1, <1>7 DEF InRung
  <2>2. /\ i \in 0 .. MaxNumRungs /\ i + 1 \in 0 .. MaxNumRungs /\ i \in Rungs /\ MaxNumRungs \in Nat
    BY <1>3, BlockAssumption DEF Rungs
  <2>3. ranges[r][i] \in 0 .. NumGroups(r) /\ ranges[r][i + 1] \in 0 .. NumGroups(r)
    BY <1>8, <2>2 DEF Ranges
  <2>4. k \in 1 .. NumGroups(r) /\ k > ranges[r][i]
    BY <1>4, <2>1, <2>3
  <2>5. p = Groups[r][idx[r][k]] /\ idx[r][k] \in 1 .. NumGroups(r)
    BY <1>4, <1>9, <2>1, <2>4
  <2>6. p \in Particle
    BY <2>5, OwnFacts DEF Own
  <2> QED
    BY <2>2, <2>4, <2>5, <2>6
<1>14. DriftKnown'
  <2>1. \A i \in 0 .. n - 1 : i \in Rungs
    BY <1>3, BlockAssumption DEF Rungs
  <2>2. \A i \in 0 .. n - 1 : ts'.dt_drift[i] = 0
    BY <1>7, <2>1
  <2>3. \A p \in Particle : drifted[p] = 0 /\ lag[p] = 0
    BY <1>1, SyncedNoDrift
  <2>4. ASSUME NEW i \in 0 .. n - 1, NEW r \in Rank, NEW p \in InRung(r, i)'
        PROVE  drifted'[p] = ts'.dt_drift[i] /\ lag'[p] = ts'.dt_drift[i]
    <3>1. p \in Particle
      BY <1>13
    <3> QED
      BY <1>1, <2>2, <2>3, <3>1
  <2> QED
    BY <1>1, <1>7, <2>2, <2>4 DEF DriftKnown
<1>15. LastStepsStored'
  BY <1>1 DEF LastStepsStored
<1>16. LimitsHold'
  <2>1. ASSUME NEW i \in 0 .. n - 1, NEW r \in Rank, NEW p \in InRung(r, i)' PROVE FitsLimit(i, p)'
    <3>1. PICK k \in 1 .. NumGroups(r) : k > ranges[r][i] /\ p = Groups[r][idx[r][k]]
      BY <1>13
    <3>2. i \in Nat /\ 2 ^ i \in Nat \ {0} /\ i \in Rungs
      BY <1>3, <1>13, PowerOfTwo
    <3>3. sorted[r][k] <= limit[p] /\ sorted[r][k] \in Nat
      <4>1. idx[r][k] \in 1 .. NumGroups(r) /\ sorted[r][k] = groupDt[r][idx[r][k]] /\ sorted[r][k] \in Nat
        BY <1>4
      <4> QED
        BY <1>9, <3>1, <4>1
    <3>4. 2 ^ i * lo <= sorted[r][k]
      <4>1. CASE i = 0
        <5>1. sorted[r][1] <= sorted[r][k]
          BY <1>4 DEF Increasing
        <5>2. lo <= sorted[r][1] /\ sorted[r][1] \in Nat
          <6>1. 1 \in 1 .. NumGroups(r)
            BY <1>4
          <6> QED
            BY <1>4, <1>5, <6>1, Zenon
        <5>3. 2 ^ i * lo = lo
          BY <1>5, <4>1
        <5> QED
          BY <1>5, <3>3, <5>1, <5>2, <5>3
      <4>2. CASE i # 0
        <5>1. i \in 1 .. n - 1
          BY <1>3, <3>2, <4>2
        <5>2. 2 ^ i * lo \in Nat
          BY <1>5, <3>2
        <5>3. sorted[r][k] >= 2 ^ i * lo
          BY <1>8, <3>1, <5>1 DEF Separates
        <5> QED
          BY <3>3, <5>2, <5>3
      <4> QED
        BY <4>1, <4>2
    <3>5. Left(i)' = 2 ^ i
      BY <1>7, <3>2 DEF Left
    <3>6. ts'.dt_drift[i] = 0
      BY <1>7, <3>2
    <3>7. PICK q \in Rank : lo = sorted[q][1]
      BY <1>5
    <3>8. p \in Particle /\ limit[p] \in Nat
      BY <1>13, <1>t DEF StepTypeOK
    <3>9. 0 + 2 ^ i * lo <= limit[p]
      BY <1>5, <3>2, <3>3, <3>4, <3>8
    <3> QED
      BY <1>1, <3>5, <3>6, <3>7, <3>9 DEF FitsLimit
  <2>2. \A r \in Rank : ts'.nextDt <= groupDt'[r][1]
    <3>1. \A r \in Rank : sorted[r][1] \in Nat
      BY <1>4
    <3> QED
      BY <1>1, <1>5, <1>6, <1>7, <3>1
  <2> QED
    BY <1>1, <1>7, <2>1, <2>2 DEF LimitsHold
<1> QED
  BY <1>10, <1>11, <1>12, <1>14, <1>15, <1>16 DEF StepInv

\* Sorting the active groups again: the other rungs keep their groups and the sub-steps do not
\* get longer than the first time-step was; an active rung begins at 2^i times the smallest one.
LEMMA ResortStepInv == StepInv /\ ResortRungs => StepInv'
<1> SUFFICES ASSUME StepInv, ResortRungs PROVE StepInv'
  OBVIOUS
<1> DEFINE high   == ActiveRung(ts.substep, ts.numRungs)
           num(r) == ts.rungRanges[r][high]
           idx    == [r \in Rank |-> SortedIndices(groupDt[r], num(r))]
           sorted == [r \in Rank |-> Gathered(groupDt[r], idx[r])]
           lo     == MinOf({sorted[r][1] : r \in Rank})
           found  == [r \in Rank |-> FindRungRanges(lo, sorted[r], num(r), MaxNumRungs)]
           share  == (ts.totDt - ts.elapsedDt) \div (2 ^ ts.numRungs - ts.substep)
           ranges == [r \in Rank |-> [i \in 0 .. MaxNumRungs |->
                         IF i < high THEN found[r][i] ELSE ts.rungRanges[r][i]]]
           dt     == MinOf({lo, share})
           n      == ts.numRungs
           rr(r)  == ts.rungRanges[r]
<1>1. /\ phase = "rungs" /\ ~IsSynced /\ phase' = "integrate"
      /\ ts' = [ts EXCEPT !.nextDt = dt, !.rungRanges = ranges]
      /\ groupDt' = sorted
      /\ UNCHANGED <<rung, drifted, last, lag, limit>>
  BY Zenon DEF ResortRungs
<1>g. \/ high > 1 /\ groups' = tsGroups /\ tsGroups' = [r \in Rank |-> Gathered(tsGroups[r], idx[r])]
      \/ ~(high > 1) /\ UNCHANGED <<groups, tsGroups>>
  BY Zenon DEF ResortRungs
<1>t. StepTypeOK /\ RangesDivide /\ DriftKnown /\ LimitsHold
  BY DEF StepInv
<1>h. /\ InHierarchy /\ high = Butterfly(ts.substep) /\ high \in 1 .. n - 1
      /\ \A i \in Nat : i < high <=> StepStarts(i)
  BY <1>1, SyncFacts, Zenon
<1>n. /\ n \in 1 .. MaxNumRungs /\ n \in Nat /\ MaxNumRungs \in Nat
      /\ high \in Nat /\ high \in 0 .. MaxNumRungs /\ high >= 1 /\ high < n
      /\ MaxNumRungs \in 1 .. MaxNumRungs
  <2>1. n \in 1 .. MaxNumRungs /\ MaxNumRungs \in Nat
    BY <1>t, TimestepTypes DEF StepTypeOK
  <2> QED
    BY <1>h, <2>1
<1>2. ASSUME NEW r \in Rank
      PROVE  /\ idx[r] = SortedIndices(groupDt[r], num(r))
             /\ sorted[r] = Gathered(groupDt[r], idx[r])
             /\ found[r] = FindRungRanges(lo, sorted[r], num(r), MaxNumRungs)
             /\ ranges[r] = [i \in 0 .. MaxNumRungs |-> IF i < high THEN found[r][i] ELSE rr(r)[i]]
             /\ num(r) = rr(r)[high]
  BY <1>2, Zenon
<1> HIDE DEF idx, sorted, found, ranges, num, high, rr
<1>3. ASSUME NEW r \in Rank
      PROVE  /\ NumGroups(r) \in Nat \ {0} /\ NumGroups(r) \in Nat
             /\ num(r) \in 0 .. NumGroups(r) /\ num(r) \in Nat
             /\ num(r) = NumActive(r) /\ ActiveList(r) = tsGroups[r]
             /\ rr(r) \in [0 .. MaxNumRungs -> Nat]
             /\ \A i, j \in 0 .. MaxNumRungs : i <= j => rr(r)[i] <= rr(r)[j]
             /\ \A i \in n .. MaxNumRungs : rr(r)[i] = NumGroups(r)
             /\ rr(r)[0] = 0
             /\ groupDt[r] \in [1 .. NumGroups(r) -> Nat]
             /\ Permutes(tsGroups[r], r) /\ Permutes(groups[r], r)
  <2>1. NumGroups(r) \in Nat \ {0} /\ NumGroups(r) \in Nat
    BY GroupsFacts
  <2>2. NumActive(r) \in 0 .. NumGroups(r) /\ NumActive(r) = rr(r)[high] /\ ActiveList(r) = tsGroups[r]
    BY <1>1, <1>h, ActiveFacts DEF rr
  <2>3. rr(r) \in [0 .. MaxNumRungs -> Nat]
    BY <1>t, TimestepTypes DEF StepTypeOK, rr
  <2>4. num(r) = NumActive(r) /\ num(r) \in 0 .. NumGroups(r) /\ num(r) \in Nat
    <3>1. num(r) = NumActive(r)
      BY <1>2, <2>2, Zenon
    <3> QED
      BY <2>1, <2>2, <3>1
  <2>5. /\ \A i, j \in 0 .. MaxNumRungs : i <= j => rr(r)[i] <= rr(r)[j]
        /\ \A i \in n .. MaxNumRungs : rr(r)[i] = NumGroups(r)
        /\ rr(r)[0] = 0
    BY <1>t, <1>h DEF RangesDivide, rr
  <2>6. groupDt[r] \in [1 .. NumGroups(r) -> Nat] /\ Permutes(tsGroups[r], r) /\ Permutes(groups[r], r)
    BY <1>t DEF StepTypeOK
  <2> QED
    BY <2>1, <2>2, <2>3, <2>4, <2>5, <2>6
<1>4. ASSUME NEW r \in Rank
      PROVE  /\ sorted[r] \in [1 .. NumGroups(r) -> Nat]
             /\ Increasing(sorted[r], num(r))
             /\ sorted[r][1] \in Nat
             /\ sorted[r][1] <= groupDt[r][1] /\ groupDt[r][1] \in Nat
             /\ \A k \in 1 .. num(r) : sorted[r][1] <= groupDt[r][k]
             /\ Permutes(tsGroups'[r], r) /\ Permutes(groups'[r], r)
             /\ \A k \in 1 .. NumGroups(r) : k > num(r) => tsGroups'[r][k] = tsGroups[r][k]
             /\ \A k \in 1 .. num(r) : \E l \in 1 .. num(r) :
                    tsGroups'[r][k] = tsGroups[r][l] /\ (high > 1 => sorted[r][k] = groupDt[r][l])
  <2>1. GroupsSorted(r, groupDt[r], num(r), SortedIndices(groupDt[r], num(r)), tsGroups[r])
    BY <1>3, SortedRank
  <2>2. GroupsSorted(r, groupDt[r], num(r), idx[r], tsGroups[r])
    BY <1>2, <2>1, Zenon
  <2>3. /\ sorted[r] \in [1 .. NumGroups(r) -> Nat] /\ Increasing(sorted[r], num(r))
        /\ sorted[r][1] <= groupDt[r][1] /\ \A k \in 1 .. num(r) : sorted[r][1] <= groupDt[r][k]
    BY <1>2, <2>2, Zenon DEF GroupsSorted
  <2>4. sorted[r][1] \in Nat /\ groupDt[r][1] \in Nat
    <3>1. 1 \in 1 .. NumGroups(r)
      BY <1>3
    <3> QED
      BY <1>3, <2>3, <3>1
  <2>5. num(r) \in Nat /\ num(r) <= NumGroups(r) /\ NumGroups(r) \in Nat
    BY <1>3
  <2>6. CASE high > 1
    <3>1. groups'[r] = tsGroups[r] /\ tsGroups'[r] = Gathered(tsGroups[r], idx[r])
      BY <1>g, <2>6
    <3>2. /\ Permutes(tsGroups'[r], r)
          /\ \A k \in 1 .. NumGroups(r) : tsGroups'[r][k] = tsGroups[r][idx[r][k]] /\ sorted[r][k] = groupDt[r][idx[r][k]]
          /\ \A k \in 1 .. NumGroups(r) : k > num(r) => idx[r][k] = k
          /\ \A k \in 1 .. num(r) : idx[r][k] \in 1 .. num(r)
      BY <1>2, <2>2, <3>1, Zenon DEF GroupsSorted
    <3>3. \A k \in 1 .. num(r) : k \in 1 .. NumGroups(r)
      BY <2>5
    <3> QED
      BY <1>3, <2>3, <2>4, <3>1, <3>2, <3>3, Zenon
  <2>7. CASE ~(high > 1)
    BY <1>3, <1>g, <2>3, <2>4, <2>7
  <2> QED
    BY <2>6, <2>7
<1>5. /\ lo \in Nat /\ \A r \in Rank : lo <= sorted[r][1]
      /\ \E r \in Rank : lo = sorted[r][1]
  <2>1. \A r \in Rank : sorted[r][1] \in Nat
    BY <1>4
  <2>2. lo = MinOf(FirstOf(sorted))
    BY DEF FirstOf
  <2> HIDE DEF lo
  <2> QED
    BY <2>1, <2>2, LowestFirst
<1> HIDE DEF lo
<1>6. dt \in Int /\ dt <= lo
  <2>1. ts.totDt - ts.elapsedDt \in Int /\ ts.substep \in Nat
    BY <1>t, TimestepTypes DEF StepTypeOK
  <2>2. 2 ^ n - ts.substep \in Nat \ {0}
    <3>1. 2 ^ (n - 1) \in Nat /\ 2 ^ n = 2 * 2 ^ (n - 1)
      <4>1. n - 1 \in Nat /\ (n - 1) + 1 = n
        BY <1>n
      <4> QED
        BY <4>1, PowerOfTwo
    <3>2. ~(ts.substep >= 2 ^ (n - 1))
      BY <1>1, Unsynced
    <3> QED
      BY <2>1, <3>1, <3>2
  <2>3. share \in Int /\ lo \in Int
    BY <1>5, <2>1, <2>2, Quotient
  <2> HIDE DEF share
  <2> QED
    BY <2>3, MinOfPair
<1> HIDE DEF dt
<1>7. /\ ts'.nextDt = dt /\ ts'.numRungs = n /\ ts'.substep = ts.substep
      /\ ts'.rungRanges = ranges /\ ts'.dt_drift = ts.dt_drift
  BY <1>1, <1>t DEF StepTypeOK, Timesteps
<1>8. ASSUME NEW r \in Rank
      PROVE  /\ Ranges(found[r], num(r), MaxNumRungs)
             /\ Separates(found[r], lo, sorted[r], num(r), MaxNumRungs)
  <2>1. /\ sorted[r] \in [1 .. NumGroups(r) -> Nat] /\ Increasing(sorted[r], num(r))
        /\ NumGroups(r) \in Nat /\ num(r) \in 0 .. NumGroups(r)
    BY <1>3, <1>4
  <2>2. found[r] = FindRungRanges(lo, sorted[r], num(r), MaxNumRungs) /\ lo \in Nat
    BY <1>2, <1>5, Zenon
  <2> QED
    BY <1>n, <2>1, <2>2, RangesFacts, Zenon
<1>9. ASSUME NEW r \in Rank, NEW i \in 0 .. MaxNumRungs
      PROVE  /\ ranges[r][i] \in Nat
             /\ i < high => ranges[r][i] = found[r][i] /\ ranges[r][i] <= num(r)
             /\ ~(i < high) => ranges[r][i] = rr(r)[i] /\ num(r) <= ranges[r][i]
  <2>1. ranges[r][i] = IF i < high THEN found[r][i] ELSE rr(r)[i]
    BY <1>2, Zenon
  <2>2. CASE i < high
    <3>1. found[r][i] \in 0 .. num(r) /\ num(r) \in Nat
      BY <1>3, <1>8, Zenon DEF Ranges
    <3> QED
      BY <2>1, <2>2, <3>1
  <2>3. CASE ~(i < high)
    <3>1. high <= i
      BY <1>n, <2>3
    <3>2. rr(r)[high] <= rr(r)[i] /\ rr(r)[i] \in Nat
      BY <1>3, <1>n, <3>1
    <3> QED
      BY <1>2, <2>1, <2>3, <3>2, Zenon
  <2> QED
    BY <2>2, <2>3
<1>10. StepTypeOK'
  <2>1. ts' \in Timesteps
    <3>1. ranges \in [Rank -> [0 .. MaxNumRungs -> Nat]]
      <4>1. \A r \in Rank : ranges[r] \in [0 .. MaxNumRungs -> Nat]
        BY <1>2, <1>9, Zenon
      <4> QED
        BY <4>1 DEF ranges
    <3> QED
      BY <1>1, <1>6, <1>t, <3>1, Zenon DEF StepTypeOK, Timesteps
  <2>2. \A r \in Rank : groupDt'[r] \in [1 .. NumGroups(r) -> Nat]
    BY <1>1, <1>4
  <2>3. \A r \in Rank : Permutes(groups'[r], r) /\ Permutes(tsGroups'[r], r)
    BY <1>4
  <2> QED
    BY <1>1, <1>t, <2>1, <2>2, <2>3 DEF StepTypeOK
<1>11. SubstepInHierarchy'
  <2>1. 2 ^ (n - 1) \in Nat /\ ts.substep \in Nat
    <3>1. 2 ^ (n - 1) \in Nat
      BY <1>n, HierarchyLength
    <3>2. ts.substep \in Nat
      BY <1>t, TimestepTypes, Zenon DEF StepTypeOK
    <3> QED
      BY <3>1, <3>2
  <2>2. ~(ts.substep >= 2 ^ (n - 1))
    BY <1>1, Unsynced
  <2>3. ts.substep < 2 ^ (n - 1)
    BY <2>1, <2>2
  <2> QED
    BY <1>1, <1>7, <2>3 DEF SubstepInHierarchy
<1>12. RangesDivide'
  <2>1. ASSUME NEW r \in Rank, NEW i \in 0 .. MaxNumRungs, NEW j \in 0 .. MaxNumRungs, i <= j
        PROVE  ranges[r][i] <= ranges[r][j]
    <3>1. CASE j < high
      <4>1. i < high /\ found[r][i] <= found[r][j]
        BY <1>8, <1>n, <2>1, <3>1 DEF Ranges
      <4> QED
        BY <1>9, <3>1, <4>1
    <3>2. CASE ~(j < high) /\ i < high
      BY <1>3, <1>9, <3>2
    <3>3. CASE ~(i < high)
      <4>1. ~(j < high)
        BY <1>n, <2>1, <3>3
      <4> QED
        BY <1>3, <1>9, <2>1, <3>3, <4>1
    <3> QED
      BY <3>1, <3>2, <3>3
  <2>2. ASSUME NEW r \in Rank PROVE ranges[r][0] = 0
    <3>1. 0 \in 0 .. MaxNumRungs /\ 0 < high
      BY <1>n
    <3> QED
      BY <1>8, <1>9, <3>1 DEF Ranges
  <2>3. ASSUME NEW r \in Rank, NEW i \in n .. MaxNumRungs PROVE ranges[r][i] = NumGroups(r)
    <3>1. i \in 0 .. MaxNumRungs /\ ~(i < high)
      BY <1>n
    <3> QED
      BY <1>3, <1>9, <3>1
  <2> QED
    BY <1>7, <2>1, <2>2, <2>3 DEF RangesDivide
\* an active group comes from an active rung
<1>13. ASSUME NEW r \in Rank, NEW l \in 1 .. num(r)
       PROVE  tsGroups[r][l] \in Particle /\ drifted[tsGroups[r][l]] = 0 /\ lag[tsGroups[r][l]] = 0
  <2>1. /\ num(r) \in Nat /\ high \in 1 .. MaxNumRungs /\ rr(r) \in [0 .. MaxNumRungs -> Nat] /\ rr(r)[0] = 0
        /\ rr(r)[high] = num(r) /\ \A i, j \in 0 .. MaxNumRungs : i <= j => rr(r)[i] <= rr(r)[j]
    <3>1. high \in 1 .. MaxNumRungs
      BY <1>n
    <3>2. rr(r)[high] = num(r)
      BY <1>2, Zenon
    <3> QED
      BY <1>3, <3>1, <3>2
  <2>2. PICK j \in 0 .. high - 1 : l \in rr(r)[j] + 1 .. rr(r)[j + 1]
    BY <2>1, RungOfPosition, Zenon
  <2>3. j \in 0 .. n - 1 /\ j \in Nat /\ j < high
    BY <1>n
  <2>4. tsGroups[r][l] \in InRung(r, j)
    BY <2>2 DEF InRung, rr
  <2>5. StepStarts(j)
    BY <1>h, <2>3
  <2>6. drifted[tsGroups[r][l]] = 0 /\ lag[tsGroups[r][l]] = 0
    BY <1>h, <1>t, <2>3, <2>4, <2>5 DEF DriftKnown
  <2>7. tsGroups[r][l] \in Particle
    BY <1>t, <1>h, <2>3, <2>4, RungCover
  <2> QED
    BY <2>6, <2>7
\* the new rungs below the highest active one have active groups, the others are as before
<1>14. ASSUME NEW r \in Rank, NEW i \in 0 .. n - 1, NEW p \in InRung(r, i)'
       PROVE  /\ i < high => /\ StepStarts(i)
                             /\ \E k \in 1 .. num(r), l \in 1 .. num(r) :
                                    /\ k > ranges[r][i] /\ p = tsGroups[r][l]
                                    /\ high > 1 => sorted[r][k] = groupDt[r][l]
              /\ ~(i < high) => ~StepStarts(i) /\ p \in InRung(r, i)
  <2>1. PICK k \in ranges[r][i] + 1 .. ranges[r][i + 1] : p = tsGroups'[r][k]
    BY <1>7 DEF InRung
  <2>2. i \in Nat /\ i \in 0 .. MaxNumRungs /\ i + 1 \in 0 .. MaxNumRungs
    BY <1>n
  <2>3. /\ ranges[r][i] \in Nat /\ ranges[r][i + 1] \in Nat
    BY <1>9, <2>2
  <2>4. k \in Nat /\ k > ranges[r][i] /\ k <= ranges[r][i + 1] /\ k >= 1
    BY <2>1, <2>3
  <2>5. CASE i < high
    <3>1. ranges[r][i + 1] <= num(r)
      <4>1. CASE i + 1 < high
        BY <1>9, <2>2, <4>1
      <4>2. CASE ~(i + 1 < high)
        <5>1. i + 1 = high
          BY <1>n, <2>2, <2>5, <4>2
        <5>2. ranges[r][i + 1] = rr(r)[i + 1]
          BY <1>9, <2>2, <4>2
        <5>3. rr(r)[high] = num(r) /\ num(r) \in Nat
          BY <1>2, <1>3, Zenon
        <5> QED
          BY <5>1, <5>2, <5>3
      <4> QED
        BY <4>1, <4>2
    <3>2. k \in 1 .. num(r)
      BY <1>3, <2>3, <2>4, <3>1
    <3>3. PICK l \in 1 .. num(r) : tsGroups'[r][k] = tsGroups[r][l] /\ (high > 1 => sorted[r][k] = groupDt[r][l])
      BY <1>4, <3>2
    <3> QED
      BY <1>h, <2>1, <2>2, <2>4, <2>5, <3>2, <3>3
  <2>6. CASE ~(i < high)
    <3>1. ~(i + 1 < high)
      BY <1>n, <2>2, <2>6
    <3>2. ranges[r][i] = rr(r)[i] /\ num(r) <= ranges[r][i] /\ ranges[r][i + 1] = rr(r)[i + 1]
      BY <1>9, <2>2, <2>6, <3>1
    <3>3. n \in 0 .. MaxNumRungs /\ n \in n .. MaxNumRungs /\ i + 1 <= n
      BY <1>n
    <3>4. rr(r)[i + 1] <= NumGroups(r)
      BY <1>3, <2>2, <3>3
    <3>5. k \in 1 .. NumGroups(r) /\ k > num(r)
      BY <1>3, <2>3, <2>4, <3>2, <3>4
    <3>6. p = tsGroups[r][k]
      BY <1>4, <2>1, <3>5
    <3>7. p \in InRung(r, i)
      BY <2>1, <3>2, <3>6 DEF InRung, rr
    <3> QED
      BY <1>h, <2>2, <2>6, <3>7
  <2> QED
    BY <2>5, <2>6
<1>15. DriftKnown'
  <2>1. \A i : StepStarts(i)' <=> StepStarts(i)
    BY <1>7 DEF StepStarts
  <2>2. ASSUME NEW i \in 0 .. n - 1, NEW r \in Rank, NEW p \in InRung(r, i)'
        PROVE  drifted[p] = ts.dt_drift[i] /\ lag[p] = ts.dt_drift[i]
    <3>1. CASE i < high
      <4>1. StepStarts(i) /\ \E l \in 1 .. num(r) : p = tsGroups[r][l]
        BY <1>14, <2>2, <3>1
      <4>2. ts.dt_drift[i] = 0
        BY <1>h, <1>t, <4>1 DEF DriftKnown
      <4> QED
        BY <1>13, <4>1, <4>2
    <3>2. CASE ~(i < high)
      BY <1>14, <1>h, <1>t, <2>2, <3>2 DEF DriftKnown
    <3> QED
      BY <3>1, <3>2
  <2>3. \A i \in 0 .. n - 1 : StepStarts(i) => ts.dt_drift[i] = 0
    BY <1>h, <1>t DEF DriftKnown
  <2> QED
    BY <1>1, <1>7, <2>1, <2>2, <2>3 DEF DriftKnown
<1>16. LastStepsStored'
  BY <1>1 DEF LastStepsStored
<1>17. ASSUME NEW i \in 0 .. n - 1
       PROVE  /\ i \in Nat /\ 2 ^ i \in Nat \ {0} /\ Left(i)' = Left(i) /\ Left(i) \in Nat
              /\ StepStarts(i) => Left(i) = 2 ^ i
              /\ ts.dt_drift[i] \in Int
  <2>1. i \in Nat /\ ts.substep \in Nat
    BY <1>n, <1>t, TimestepTypes DEF StepTypeOK
  <2>2. Left(i)' = Left(i)
    BY <1>7 DEF Left
  <2>3. 2 ^ i \in Nat \ {0} /\ Left(i) \in Nat
    BY <2>1, LeftPositive DEF Left
  <2>4. StepStarts(i) => Left(i) = 2 ^ i
    BY <2>3 DEF StepStarts, Left
  <2>5. ts.dt_drift[i] \in Int
    BY <1>t, TimestepTypes, Zenon DEF StepTypeOK
  <2> QED
    BY <2>1, <2>2, <2>3, <2>4, <2>5
<1>18. LimitsHold'
  <2>1. ASSUME NEW i \in 0 .. n - 1, NEW r \in Rank, NEW p \in InRung(r, i)' PROVE FitsLimit(i, p)'
    <3>1. CASE i < high
      <4>1. PICK k \in 1 .. num(r), l \in 1 .. num(r) :
              /\ k > ranges[r][i] /\ p = tsGroups[r][l]
              /\ high > 1 => sorted[r][k] = groupDt[r][l]
        BY <1>14, <2>1, <3>1
      <4>2. p \in Particle /\ limit[p] \in Nat
        BY <1>13, <1>t, <4>1 DEF StepTypeOK
      <4>3. l \in 1 .. NumGroups(r) /\ l <= NumActive(r) /\ groupDt[r][l] \in Nat
        <5>1. l \in 1 .. NumGroups(r) /\ l <= NumActive(r)
          BY <1>3
        <5> QED
          BY <1>3, <5>1
      <4>4. groupDt[r][l] <= limit[p]
        BY <1>1, <1>3, <1>t, <4>1, <4>3 DEF LimitsHold
      <4>5. 2 ^ i * lo <= groupDt[r][l]
        <5>1. CASE i = 0
          <6>1. 2 ^ i * lo = lo
            BY <1>5, <5>1
          <6>2. lo <= sorted[r][1] /\ sorted[r][1] <= groupDt[r][l] /\ sorted[r][1] \in Nat
            BY <1>4, <1>5
          <6> QED
            BY <1>5, <4>3, <6>1, <6>2
        <5>2. CASE i # 0
          <6>1. i \in 1 .. MaxNumRungs - 1 /\ high > 1 /\ i \in 0 .. MaxNumRungs
            BY <1>n, <1>17, <3>1, <5>2
          <6>2. k > found[r][i]
            BY <1>9, <3>1, <4>1, <6>1
          <6>3. sorted[r][k] >= 2 ^ i * lo
            BY <1>8, <6>1, <6>2 DEF Separates
          <6>4. 2 ^ i * lo \in Nat
            BY <1>5, <1>17
          <6> QED
            BY <4>1, <4>3, <6>1, <6>3, <6>4
        <5> QED
          BY <5>1, <5>2
      <4>6. PICK q \in Rank : lo = sorted[q][1]
        BY <1>5
      <4>7. ts.dt_drift[i] = 0 /\ Left(i) = 2 ^ i
        BY <1>14, <1>17, <1>h, <1>t, <2>1, <3>1 DEF DriftKnown
      <4>8. 0 + 2 ^ i * lo <= limit[p]
        BY <1>5, <1>17, <4>2, <4>3, <4>4, <4>5
      <4> QED
        BY <1>1, <1>7, <1>17, <4>6, <4>7, <4>8 DEF FitsLimit
    <3>2. CASE ~(i < high)
      <4>1. p \in InRung(r, i) /\ ~StepStarts(i)
        BY <1>14, <2>1, <3>2
      <4>2. FitsLimit(i, p)
        BY <1>h, <1>t, <4>1 DEF LimitsHold
      <4>3. PICK q \in Rank : ts.dt_drift[i] + Left(i) * groupDt[q][1] <= limit[p]
        BY <4>2 DEF FitsLimit
      <4>4. p \in Particle /\ limit[p] \in Nat
        BY <1>h, <1>t, <4>1, RungCover DEF StepTypeOK
      <4>5. sorted[q][1] <= groupDt[q][1] /\ sorted[q][1] \in Int /\ groupDt[q][1] \in Int
        BY <1>4
      <4>6. Left(i) * sorted[q][1] <= Left(i) * groupDt[q][1]
        BY <1>17, <4>5, ProductMonotone
      <4>7. Left(i) * sorted[q][1] \in Int /\ Left(i) * groupDt[q][1] \in Int
        BY <1>17, <4>5
      <4>8. ts.dt_drift[i] + Left(i) * sorted[q][1] <= limit[p]
        BY <1>17, <4>3, <4>4, <4>6, <4>7
      <4> QED
        BY <1>1, <1>7, <1>17, <4>8 DEF FitsLimit
    <3> QED
      BY <3>1, <3>2
  <2>2. \A r \in Rank : ts'.nextDt <= groupDt'[r][1]
    BY <1>1, <1>4, <1>5, <1>6, <1>7
  <2> QED
    BY <1>1, <1>7, <2>1, <2>2 DEF LimitsHold
<1> QED
  BY <1>10, <1>11, <1>12, <1>15, <1>16, <1>18 DEF StepInv

\* integrate: the rungs that end their step are synchronised again, the others drift on.
LEMMA IntegrateStepInv ==
    ASSUME StepInv, IntegrateRungs, phase' \in {"forces", "done"}
    PROVE  StepInv'
<1> DEFINE n          == ts.numRungs
           s          == ts.substep
           members    == [i \in Rungs |-> RungGroups(i)]
           rungOf     == [p \in UNION {members[i] : i \in Rungs} |-> CHOOSE i \in Rungs : p \in members[i]]
           integrated == DOMAIN rungOf
           advanced   == {p \in integrated : Advances(rungOf[p])}
           drift      == [i \in Rungs |-> IF Advances(i) THEN 0 ELSE StepLength(i)]
<1>1. /\ phase = "integrate" /\ phase' \in {"forces", "done"}
      /\ UNCHANGED <<groupDt, groups, tsGroups, limit>>
  BY DEF IntegrateRungs
<1>2. /\ drifted' = [p \in Particle |->
             IF p \in integrated THEN drifted[p] - ts.dt_drift[rungOf[p]] + drift[rungOf[p]] ELSE drifted[p]]
      /\ last' = [p \in Particle |-> IF p \in advanced THEN StepLength(rungOf[p]) ELSE last[p]]
      /\ lag' = [p \in Particle |-> IF p \in advanced THEN 0 ELSE lag[p] + ts.nextDt]
      /\ rung' = [p \in Particle |-> IF p \in advanced THEN rungOf[p] ELSE rung[p]]
  BY DEF IntegrateRungs
<1>t. StepTypeOK /\ RangesDivide /\ DriftKnown /\ LimitsHold /\ InHierarchy
  BY <1>1 DEF StepInv, InHierarchy
<1>3. /\ ts'.dt_m1 = [i \in Rungs |-> IF i < n /\ Advances(i) THEN StepLength(i) ELSE ts.dt_m1[i]]
      /\ ts'.dt_drift = [i \in Rungs |-> IF i < n THEN drift[i] ELSE ts.dt_drift[i]]
      /\ ts'.substep = s + 1 /\ ts'.elapsedDt = ts.elapsedDt + ts.nextDt
      /\ ts'.numRungs = n /\ ts'.rungRanges = ts.rungRanges
      /\ ts'.nextDt = ts.nextDt /\ ts'.totDt = ts.totDt
  BY <1>t DEF IntegrateRungs, StepTypeOK, Timesteps
<1>r. \E m, d, e : ts' = [ts EXCEPT !.dt_m1 = m, !.dt_drift = d, !.substep = ts.substep + 1, !.elapsedDt = e]
  BY Zenon DEF IntegrateRungs
<1>4. /\ n \in 1 .. MaxNumRungs /\ n \in Nat /\ s \in Nat /\ ts.nextDt \in Int /\ ts.elapsedDt \in Int
      /\ \A i \in Rungs : ts.dt_drift[i] \in Int /\ ts.dt_m1[i] \in Int /\ StepLength(i) \in Int /\ drift[i] \in Int
      /\ \A i \in 0 .. n - 1 : i \in Rungs /\ i \in Nat /\ i < n
      /\ MaxNumRungs \in Nat
  <2>1. /\ n \in 1 .. MaxNumRungs /\ n \in Nat /\ s \in Nat /\ ts.nextDt \in Int /\ ts.elapsedDt \in Int
        /\ ts.dt_m1 \in [Rungs -> Int] /\ ts.dt_drift \in [Rungs -> Int] /\ MaxNumRungs \in Nat
        /\ \A i \in 0 .. n - 1 : i \in Rungs
    BY <1>t, TimestepTypes, Zenon DEF StepTypeOK
  <2>2. \A i \in Rungs : ts.dt_drift[i] \in Int /\ ts.dt_m1[i] \in Int /\ StepLength(i) \in Int
    BY <2>1 DEF StepLength
  <2>3. \A i \in Rungs : drift[i] \in Int
    BY <2>2
  <2>4. \A i \in 0 .. n - 1 : i \in Nat /\ i < n
    BY <2>1
  <2> QED
    BY <2>1, <2>2, <2>3, <2>4
<1>5. ASSUME NEW r \in Rank, NEW i \in 0 .. n - 1, NEW p \in InRung(r, i)
      PROVE  p \in Particle /\ p \in integrated /\ rungOf[p] = i
  <2>1. p \in Particle
    BY <1>t, RungCover
  <2>2. i \in Rungs /\ p \in RungGroups(i)
    BY <1>4 DEF RungGroups
  <2>3. p \in members[i]
    BY <2>2
  <2>4. p \in integrated
    BY <2>2, <2>3
  <2>5. ASSUME NEW j \in Rungs, p \in members[j] PROVE j = i
    <3>1. p \in RungGroups(j)
      BY <2>5
    <3>2. j < n /\ \E q \in Rank : p \in InRung(q, j)
      BY <3>1 DEF RungGroups
    <3>3. j \in 0 .. n - 1
      BY <1>4, <3>2 DEF Rungs
    <3> QED
      BY <1>t, <3>2, <3>3, RungCover
  <2>6. rungOf[p] = CHOOSE j \in Rungs : p \in members[j]
    BY <2>4
  <2>7. rungOf[p] = i
    <3> HIDE DEF members, rungOf
    <3> QED
      BY <2>2, <2>3, <2>5, <2>6
  <2> QED
    BY <2>1, <2>4, <2>7
<1>d. \A i \in Rungs : drift[i] = IF Advances(i) THEN 0 ELSE StepLength(i)
  OBVIOUS
<1> HIDE DEF members, rungOf, integrated, drift
<1>6. ASSUME NEW p \in Particle
      PROVE  /\ p \in integrated /\ rungOf[p] \in 0 .. n - 1 /\ rungOf[p] \in Rungs
             /\ \E r \in Rank : p \in InRung(r, rungOf[p])
             /\ drifted[p] = ts.dt_drift[rungOf[p]] /\ lag[p] = ts.dt_drift[rungOf[p]]
             /\ p \in advanced <=> Advances(rungOf[p])
  <2>1. PICK r \in Rank, i \in 0 .. n - 1 : p \in InRung(r, i)
    BY <1>t, RungCover
  <2>2. p \in integrated /\ rungOf[p] = i
    BY <1>5, <2>1
  <2>3. drifted[p] = ts.dt_drift[i] /\ lag[p] = ts.dt_drift[i]
    BY <1>t, <2>1 DEF DriftKnown
  <2> QED
    BY <1>4, <2>1, <2>2, <2>3
<1> HIDE DEF advanced
<1>7. ASSUME NEW p \in Particle
      PROVE  /\ drifted'[p] = drift[rungOf[p]] /\ lag'[p] = drift[rungOf[p]]
             /\ Advances(rungOf[p]) => last'[p] = StepLength(rungOf[p]) /\ rung'[p] = rungOf[p]
  <2> DEFINE i == rungOf[p]
  <2>1. /\ i \in Rungs /\ p \in integrated /\ drifted[p] = ts.dt_drift[i] /\ lag[p] = ts.dt_drift[i]
        /\ p \in advanced <=> Advances(i)
    BY <1>6
  <2>2. /\ drifted'[p] = drifted[p] - ts.dt_drift[i] + drift[i]
        /\ lag'[p] = IF p \in advanced THEN 0 ELSE lag[p] + ts.nextDt
        /\ p \in advanced => last'[p] = StepLength(i) /\ rung'[p] = i
    BY <1>2, <2>1
  <2> HIDE DEF i
  <2>3. ts.dt_drift[i] \in Int /\ drift[i] \in Int /\ drift[i] = IF Advances(i) THEN 0 ELSE ts.dt_drift[i] + ts.nextDt
    BY <1>4, <1>d, <2>1 DEF StepLength
  <2>4. drifted'[p] = drift[i]
    <3> DEFINE e == ts.dt_drift[i]
               c == drift[i]
    <3>1. e \in Int /\ c \in Int /\ drifted'[p] = e - e + c
      BY <2>1, <2>2, <2>3
    <3> HIDE DEF e, c
    <3>2. e - e + c = c
      BY <3>1
    <3> QED
      BY <3>1, <3>2 DEF c
  <2>5. lag'[p] = drift[i]
    BY <2>1, <2>2, <2>3
  <2> QED
    BY <2>1, <2>2, <2>4, <2>5 DEF i
<1>8. StepTypeOK'
  <2>1. ts' \in Timesteps
    <3>1. ts'.dt_m1 \in [Rungs -> Int] /\ ts'.dt_drift \in [Rungs -> Int]
      BY <1>3, <1>4
    <3>2. ts'.substep \in Nat /\ ts'.elapsedDt \in Int
      BY <1>3, <1>4
    <3> QED
      BY <1>r, <1>t, <3>1, <3>2, Zenon DEF StepTypeOK, Timesteps
  <2>2. rung' \in [Particle -> Rungs] /\ last' \in [Particle -> Int]
    BY <1>2, <1>4, <1>6, <1>t DEF StepTypeOK
  <2>3. \A p \in Particle : drift[rungOf[p]] \in Int
    BY <1>4, <1>6
  <2>4. drifted' \in [Particle -> Int] /\ lag' \in [Particle -> Int]
    BY <1>2, <1>7, <2>3
  <2> QED
    BY <1>1, <1>t, <2>1, <2>2, <2>4 DEF StepTypeOK
<1>9. 2 ^ (n - 1) \in Nat /\ s + 1 <= 2 ^ (n - 1)
  <2>1. s < 2 ^ (n - 1)
    BY <1>1 DEF StepInv, SubstepInHierarchy
  <2>2. 2 ^ (n - 1) \in Nat
    BY <1>4, HierarchyLength
  <2> QED
    BY <1>4, <2>1, <2>2
<1>10. SubstepInHierarchy'
  BY <1>1, <1>3, <1>9 DEF SubstepInHierarchy
<1>11. RangesDivide'
  BY <1>3, <1>t DEF RangesDivide
<1>12. \A r, i : InRung(r, i)' = InRung(r, i)
  BY <1>1, <1>3 DEF InRung
<1>13. ASSUME NEW i \in 0 .. n - 1
       PROVE  /\ StepStarts(i)' <=> Advances(i)
              /\ ~Advances(i) => Left(i)' = Left(i) - 1
              /\ ts'.dt_drift[i] = drift[i] /\ ts'.dt_drift[i] \in Int
              /\ Left(i) \in Nat
  <2>1. i \in Nat /\ i \in Rungs /\ i < n
    BY <1>4
  <2>2. /\ Advances(i) <=> (s + 1) % (2 ^ i) = 0
        /\ ~Advances(i) => 2 ^ i - ((s + 1) % (2 ^ i)) = Left(i) - 1
    BY <1>4, <2>1, AdvancesStarts
  <2>3. Left(i) \in Nat
    BY <1>4, <2>1, LeftPositive DEF Left
  <2>4. StepStarts(i)' <=> (s + 1) % (2 ^ i) = 0
    BY <1>3 DEF StepStarts
  <2>5. Left(i)' = 2 ^ i - ((s + 1) % (2 ^ i))
    BY <1>3 DEF Left
  <2>6. ts'.dt_drift[i] = drift[i] /\ drift[i] \in Int
    BY <1>3, <1>4, <2>1
  <2> QED
    BY <2>2, <2>3, <2>4, <2>5, <2>6
<1>14. DriftKnown'
  <2>1. ASSUME NEW i \in 0 .. n - 1, StepStarts(i)' PROVE ts'.dt_drift[i] = 0
    BY <1>13, <1>4, <1>d, <2>1
  <2>2. ASSUME NEW i \in 0 .. n - 1, NEW r \in Rank, NEW p \in InRung(r, i)'
        PROVE  drifted'[p] = ts'.dt_drift[i] /\ lag'[p] = ts'.dt_drift[i]
    <3>1. p \in Particle /\ rungOf[p] = i
      BY <1>5, <1>12, <2>2
    <3> QED
      BY <1>7, <1>13, <3>1
  <2>3. s + 1 # 0
    BY <1>4
  <2> QED
    BY <1>3, <2>1, <2>2, <2>3, Zenon DEF DriftKnown
<1>15. LastStepsStored'
  <2> SUFFICES ASSUME phase' = "forces", IsSynced', NEW p \in Particle
               PROVE  ts'.dt_m1[rung'[p]] = last'[p]
    BY <1>1 DEF LastStepsStored
  <2>1. s + 1 = 2 ^ (n - 1)
    <3>1. ActiveRung(s + 1, n) = 0
      BY <1>3 DEF IsSynced
    <3>2. s + 1 \in Nat /\ s + 1 # 0
      BY <1>4
    <3>3. s + 1 >= 2 ^ (n - 1)
      BY <1>4, <3>1, <3>2, ActiveRungFacts
    <3> QED
      BY <1>4, <1>9, <3>3
  <2> DEFINE i == rungOf[p]
  <2>2. i \in 0 .. n - 1 /\ i \in Nat /\ i \in Rungs /\ i < n
    BY <1>4, <1>6
  <2>3. Advances(i)
    <3>1. (2 ^ (n - 1)) % (2 ^ i) = 0
      BY <1>4, <2>2, AllStart
    <3> QED
      BY <1>4, <2>1, <2>2, <3>1, AdvancesStarts
  <2>4. last'[p] = StepLength(i) /\ rung'[p] = i
    BY <1>7, <2>3
  <2> HIDE DEF i
  <2> QED
    BY <1>3, <2>2, <2>3, <2>4
<1>16. LimitsHold'
  <2>1. ASSUME NEW i \in 0 .. n - 1, ~StepStarts(i)', NEW r \in Rank, NEW p \in InRung(r, i)'
        PROVE  FitsLimit(i, p)'
    <3>1. p \in InRung(r, i) /\ ~Advances(i)
      BY <1>12, <1>13, <2>1
    <3>2. FitsLimit(i, p)
      BY <1>1, <1>t, <3>1 DEF LimitsHold
    <3>3. PICK q \in Rank : ts.dt_drift[i] + Left(i) * groupDt[q][1] <= limit[p]
      BY <3>2 DEF FitsLimit
    <3>4. ts.nextDt <= groupDt[q][1]
      BY <1>1, <1>t DEF LimitsHold
    <3>5. p \in Particle /\ limit[p] \in Nat
      BY <1>5, <1>t, <3>1 DEF StepTypeOK
    <3>6. groupDt[q][1] \in Nat
      <4>1. groupDt[q] \in [1 .. NumGroups(q) -> Nat] /\ 1 \in 1 .. NumGroups(q)
        BY <1>t, GroupsFacts DEF StepTypeOK
      <4> QED
        BY <4>1, Zenon
    <3>7. i \in Rungs /\ ts.dt_drift[i] \in Int /\ ts'.dt_drift[i] = ts.dt_drift[i] + ts.nextDt
      BY <1>4, <1>13, <1>d, <3>1 DEF StepLength
    <3>8. Left(i)' = Left(i) - 1 /\ Left(i) \in Nat
      BY <1>13, <3>1
    <3> DEFINE L == Left(i)
               d == ts.dt_drift[i]
               x == groupDt[q][1]
               m == limit[p]
    <3>9. d + ts.nextDt + (L - 1) * x <= m
      <4>1. d \in Int /\ L \in Int /\ x \in Int /\ m \in Int /\ ts.nextDt \in Int /\ ts.nextDt <= x /\ d + L * x <= m
        BY <1>4, <3>3, <3>4, <3>5, <3>6, <3>7, <3>8
      <4> HIDE DEF L, d, x, m
      <4>2. (L - 1) * x = L * x - x /\ L * x \in Int
        BY <4>1
      <4> QED
        BY <4>1, <4>2
    <3> QED
      BY <1>1, <3>7, <3>8, <3>9 DEF FitsLimit
  <2> QED
    BY <1>1, <1>3, <2>1 DEF LimitsHold
<1> QED
  BY <1>8, <1>10, <1>11, <1>14, <1>15, <1>16 DEF StepInv

\* Stuttering keeps the invariant.
LEMMA UnchangedStepInv ==
    ASSUME StepInv, UNCHANGED bvars
    PROVE  StepInv'
<1>1. StepTypeOK' /\ SubstepInHierarchy' /\ RangesDivide' /\ LastStepsStored'
  BY DEF bvars, StepInv, StepTypeOK, SubstepInHierarchy, RangesDivide, InHierarchy,
              LastStepsStored, IsSynced
<1>2. DriftKnown'
  BY DEF bvars, StepInv, DriftKnown, InHierarchy, StepStarts, InRung
<1>3. LimitsHold'
  BY DEF bvars, StepInv, LimitsHold, InHierarchy, StepStarts, InRung, FitsLimit, Left,
              NumActive, ActiveList, IsSynced
<1> QED
  BY <1>1, <1>2, <1>3 DEF StepInv

\* The particles of a rung have drifted as far as the time since their last step.
LEMMA InvTimesAgree == StepInv => TimesAgree
<1> SUFFICES ASSUME StepInv, phase = "forces", NEW p \in Particle
             PROVE  drifted[p] = lag[p] /\ (IsSynced => lag[p] = 0)
  BY DEF TimesAgree
<1>1. IsSynced => lag[p] = 0
  BY SyncedNoDrift
<1>2. drifted[p] = lag[p]
  <2>1. CASE ts.substep = 0
    BY <2>1 DEF StepInv, DriftKnown
  <2>2. CASE ts.substep # 0
    <3>1. InHierarchy
      BY <2>2 DEF InHierarchy
    <3>2. PICK r \in Rank, i \in 0 .. ts.numRungs - 1 : p \in InRung(r, i)
      BY <3>1, RungCover DEF StepInv
    <3> QED
      BY <3>1, <3>2 DEF StepInv, DriftKnown
  <2> QED
    BY <2>1, <2>2
<1> QED
  BY <1>1, <1>2

\* A rung that is advanced has one sub-step left, which is not longer than any first time-step.
LEMMA InvStepWithinLimit == StepInv => StepWithinLimit
<1> SUFFICES ASSUME StepInv, phase = "integrate", NEW i \in Rungs, Advances(i), NEW p \in RungGroups(i)
             PROVE  StepLength(i) <= limit[p]
  BY DEF StepWithinLimit
<1>1. StepTypeOK /\ RangesDivide /\ InHierarchy /\ LimitsHold
  BY DEF StepInv, InHierarchy
<1>2. PICK r \in Rank : i < ts.numRungs /\ p \in InRung(r, i)
  BY DEF RungGroups
<1>3. /\ ts.numRungs \in Nat /\ ts.substep \in Nat /\ ts.nextDt \in Int /\ ts.dt_drift \in [Rungs -> Int]
      /\ MaxNumRungs \in Nat
  BY <1>1, TimestepTypes DEF StepTypeOK
<1>4. i \in 0 .. ts.numRungs - 1 /\ i \in Nat
  BY <1>2, <1>3 DEF Rungs
<1>5. PICK q \in Rank : ts.dt_drift[i] + Left(i) * groupDt[q][1] <= limit[p]
  BY <1>1, <1>2, <1>4 DEF LimitsHold, FitsLimit
<1>6. ts.nextDt <= groupDt[q][1]
  BY <1>1 DEF LimitsHold
<1>7. Left(i) = 1
  BY <1>3, <1>4, AdvancesStarts
<1>8. groupDt[q][1] \in Nat
  <2>1. groupDt[q] \in [1 .. NumGroups(q) -> Nat] /\ 1 \in 1 .. NumGroups(q)
    BY <1>1, GroupsFacts DEF StepTypeOK
  <2> QED
    BY <2>1, Zenon
<1>9. limit[p] \in Nat
  BY <1>1, <1>2, <1>4, RungCover DEF StepTypeOK
<1>10. ts.dt_drift[i] \in Int
  BY <1>3
<1> QED
  BY <1>3, <1>5, <1>6, <1>7, <1>8, <1>9, <1>10 DEF StepLength

-----------------------------------------------------------------------------
(* The end of the run *)

\* LoopInv holds when the run starts from initial conditions.
LEMMA InitLoopInv == LoopInit => LoopInv
<1> SUFFICES ASSUME LoopInit PROVE LoopInv
  OBVIOUS
<1>1. ts.numRungs = 1 /\ ts.substep = 0
  BY DEF LoopInit, BlockInit, NewTimestep
<1>2. 2 ^ (ts.numRungs - 1) \in Nat \ {0}
  BY <1>1, HierarchyLength, BlockAssumption
<1>3. /\ phase = "forces" /\ iteration = 1 /\ file = NoFile
      /\ isOutputTriggered = FALSE /\ keepRunning = TRUE
  BY DEF LoopInit, BlockInit
<1> QED
  <2>1. LoopTypeOK
    <3>1. ts.numRungs \in 1 .. MaxNumRungs /\ ts.substep \in Nat /\ iteration \in Nat
      BY <1>1, <1>3, BlockAssumption
    <3> QED
      BY <1>3, <3>1, Zenon DEF LoopTypeOK
  <2>2. iteration < MaxSteps + 2 ^ (ts.numRungs - 1)
    BY <1>2, <1>3, LoopAssumption
  <2> QED
    BY <1>1, <1>3, <2>1, <2>2 DEF LoopInv, FileInTime

\* Every step of the loop keeps LoopInv.
LEMMA NextLoopInv == LoopInv /\ [LoopNext]_vars => LoopInv'
<1> SUFFICES ASSUME LoopInv, [LoopNext]_vars PROVE LoopInv'
  OBVIOUS
<1>1. CASE Forces
  BY <1>1 DEF Forces, ComputeForces, LoopInv, LoopTypeOK, FileInTime, Overrun, lvars
<1>2. CASE Decide
  <2>1. PICK clock \in [Rank -> Clock], trigger \in BOOLEAN :
          /\ phase = "loop"
          /\ \/ /\ WriteOutput((trigger \/ syncedWallClockElapsed(clock) \/ isOutputTriggered) /\ iteration > startIteration)
                /\ keepRunning' = ContinueRun(syncedWallClockElapsed(clock))
                /\ phase' = "rungs"
             \/ phase' = "stuck" /\ UNCHANGED <<file, isOutputTriggered, keepRunning>>
          /\ UNCHANGED <<ts, iteration>>
    BY <1>2 DEF Decide
  <2> DEFINE wall == syncedWallClockElapsed(clock)
             triggered == (trigger \/ wall \/ isOutputTriggered) /\ iteration > startIteration
  <2>2. CASE phase' = "stuck" /\ UNCHANGED <<file, isOutputTriggered, keepRunning>>
    BY <2>1, <2>2 DEF LoopInv, LoopTypeOK, FileInTime
  <2>3. CASE /\ WriteOutput(triggered)
             /\ keepRunning' = ContinueRun(wall)
             /\ phase' = "rungs"
    <3>1. wall \in BOOLEAN /\ triggered \in BOOLEAN /\ IsSynced \in BOOLEAN /\ IsSynced' = IsSynced
      BY <2>1 DEF syncedWallClockElapsed, LoopInv, LoopTypeOK, IsSynced
    <3>2. FileInTime'
      BY <2>1, <2>3, <3>1 DEF WriteOutput, Snapshot, FileInTime, LoopInv, LoopTypeOK, NoFile
    <3>3. LoopTypeOK'
      BY <2>1, <2>3, <3>1 DEF WriteOutput, ContinueRun, stopConditionReached, LoopInv, LoopTypeOK
    <3>4. ASSUME keepRunning', ~(iteration < MaxSteps) PROVE Overrun' /\ ~IsSynced'
      <4>1. iteration >= MaxSteps
        BY <3>4, LoopAssumption DEF LoopInv, LoopTypeOK
      <4>2. ~IsSynced
        BY <2>3, <3>4, <4>1 DEF ContinueRun, stopConditionReached
      <4>3. ts.substep # 0 /\ ~(ts.substep >= 2 ^ (ts.numRungs - 1))
        BY <4>2, Unsynced
      <4>4. 2 ^ (ts.numRungs - 1) \in Nat
        BY HierarchyLength DEF LoopInv, LoopTypeOK
      <4>5. Overrun
        BY <2>1, <4>1, <4>3, <4>4, LoopAssumption DEF Overrun, LoopInv, LoopTypeOK
      <4> QED
        BY <2>1, <3>1, <4>2, <4>5 DEF Overrun
    <3>5. ~keepRunning' => ~isOutputTriggered'
      BY <2>3, <3>1 DEF WriteOutput, ContinueRun
    <3> QED
      BY <2>1, <2>3, <3>2, <3>3, <3>4, <3>5 DEF LoopInv
  <2> QED
    BY <2>1, <2>2, <2>3
<1>3. CASE NewHierarchy /\ UNCHANGED lvars
  <2>1. phase = "rungs" /\ IsSynced /\ phase' = "integrate"
    BY <1>3 DEF NewHierarchy
  <2>2. ts'.numRungs \in 1 .. MaxNumRungs /\ ts'.substep = 0
    BY <1>3, NumRungsBounded DEF NewHierarchy, NewTimestep
  <2>3. keepRunning => iteration < MaxSteps
    BY <2>1 DEF LoopInv
  <2> QED
    BY <1>3, <2>1, <2>2, <2>3 DEF LoopInv, LoopTypeOK, FileInTime, lvars
<1>4. CASE ResortRungs /\ UNCHANGED lvars
  <2>1. phase = "rungs" /\ phase' = "integrate" /\ UNCHANGED lvars
    BY <1>4 DEF ResortRungs
  <2>2. \E next, ranges : ts' = [ts EXCEPT !.nextDt = next, !.rungRanges = ranges]
    BY <1>4, Zenon DEF ResortRungs
  <2>3. ts'.numRungs = ts.numRungs /\ ts'.substep = ts.substep
    BY <2>2
  <2> QED
    BY <2>1, <2>3 DEF LoopInv, LoopTypeOK, FileInTime, Overrun, lvars, NoFile
<1>5. CASE Integrate
  <2>1. /\ phase = "integrate"
        /\ phase' = IF keepRunning THEN "forces" ELSE "done"
        /\ iteration' = IF iteration < MaxIteration THEN iteration + 1 ELSE iteration
        /\ UNCHANGED <<isOutputTriggered, keepRunning, file>>
    BY <1>5 DEF Integrate, IntegrateRungs
  <2>2. ts'.numRungs = ts.numRungs /\ ts'.substep = ts.substep + 1
    BY <1>5 DEF Integrate, IntegrateRungs
  <2>3. LoopTypeOK' /\ FileInTime'
    BY <2>1, <2>2, LoopAssumption DEF LoopInv, LoopTypeOK, FileInTime
  <2>4. CASE keepRunning
    <3>1. 2 ^ (ts.numRungs - 1) \in Nat \ {0}
      BY HierarchyLength DEF LoopInv, LoopTypeOK
    <3>2. /\ iteration' < MaxSteps + 2 ^ (ts'.numRungs - 1)
          /\ iteration' > MaxSteps => ts'.substep > iteration' - MaxSteps
      BY <2>1, <2>2, <2>4, <3>1, LoopAssumption DEF LoopInv, LoopTypeOK, Overrun
    <3> QED
      BY <2>1, <2>3, <2>4, <3>2 DEF LoopInv
  <2>5. CASE ~keepRunning
    BY <2>1, <2>3, <2>5 DEF LoopInv, LoopTypeOK
  <2> QED
    BY <2>4, <2>5
<1>6. CASE Restart
  <2>1. /\ phase' = "forces" /\ file # NoFile /\ file' = file
        /\ iteration' = file.iteration /\ isOutputTriggered' = FALSE /\ keepRunning' = TRUE
    BY <1>6 DEF Restart
  <2>2. ts'.numRungs = file.numRungs /\ ts'.substep = 0
    BY <1>6 DEF Restart, Loaded, NewTimestep
  <2> QED
    <3>1. LoopTypeOK'
      <4>1. ts'.numRungs \in 1 .. MaxNumRungs /\ ts'.substep \in Nat /\ iteration' \in Nat
        BY <2>1, <2>2 DEF LoopInv, FileInTime
      <4> QED
        BY <2>1, <4>1, Zenon DEF LoopTypeOK
    <3>2. iteration' < MaxSteps + 2 ^ (ts'.numRungs - 1)
      BY <2>1, <2>2 DEF LoopInv, FileInTime
    <3>3. FileInTime'
      BY <2>1 DEF LoopInv, FileInTime, NoFile
    <3> QED
      BY <2>1, <2>2, <3>1, <3>2, <3>3 DEF LoopInv
<1>7. CASE Ended \/ UNCHANGED vars
  BY <1>7 DEF Ended, vars, bvars, lvars, LoopInv, LoopTypeOK, FileInTime, Overrun, IsSynced
<1> QED
  BY <1>1, <1>2, <1>3, <1>4, <1>5, <1>6, <1>7 DEF LoopNext, ComputeRungs

\* LoopInv is an invariant of the main loop.
THEOREM LoopInvariance == LoopSpec => []LoopInv
BY InitLoopInv, NextLoopInv, PTL DEF LoopSpec

\* The main loop ends with the hierarchy of its last iteration, restarts included, and every
\* output that was triggered is written before (stopConditionReached, isOutputTriggered).
THEOREM EndsSynchronisedHolds == LoopSpec => []EndsSynchronised
<1>1. LoopInv => EndsSynchronised
  BY DEF LoopInv, EndsSynchronised
<1> QED
  BY <1>1, LoopInvariance, PTL

-----------------------------------------------------------------------------
(* The block time-steps *)

\* what a snapshot stores is a synchronised state
FileSynchronised ==
    file # NoFile =>
        /\ file.numRungs \in 1 .. MaxNumRungs
        /\ file.dt_m1 \in [Rungs -> Int] /\ file.rung \in [Particle -> Rungs]
        /\ file.drifted \in [Particle -> Int] /\ file.last \in [Particle -> Int] /\ file.lag \in [Particle -> Int]
        /\ \A p \in Particle : /\ file.drifted[p] = 0 /\ file.lag[p] = 0
                               /\ file.dt_m1[file.rung[p]] = file.last[p]

\* The invariant holds when the run starts from initial conditions.
LEMMA InitStepInv == LoopInit => StepInv /\ FileSynchronised
<1> SUFFICES ASSUME LoopInit PROVE FreshState /\ FileSynchronised
  BY FreshStart
<1> DEFINE d == [i \in Rungs |-> IF i = 0 THEN MinDt ELSE 0]
<1>1. 0 \in Rungs /\ MinDt \in Int /\ 1 \in 1 .. MaxNumRungs
  BY BlockAssumption DEF Rungs
<1>2. d \in [Rungs -> Int] /\ d[0] = MinDt
  BY <1>1
<1>3. /\ phase = "forces" /\ ts = NewTimestep(1, d)
      /\ groupDt = [r \in Rank |-> [k \in 1 .. NumGroups(r) |-> FloatMax]]
      /\ groups = Groups /\ tsGroups = Groups /\ limit = [p \in Particle |-> FloatMax]
      /\ rung = [p \in Particle |-> 0] /\ last = [p \in Particle |-> MinDt]
      /\ drifted = [p \in Particle |-> 0] /\ lag = [p \in Particle |-> 0]
      /\ file = NoFile
  BY DEF LoopInit, BlockInit
<1> HIDE DEF d
<1>4. FileSynchronised
  BY <1>3 DEF FileSynchronised
<1>5. /\ rung \in [Particle -> Rungs] /\ last \in [Particle -> Int]
      /\ drifted \in [Particle -> Int] /\ lag \in [Particle -> Int]
      /\ \A p \in Particle : drifted[p] = 0 /\ lag[p] = 0 /\ d[rung[p]] = last[p]
  BY <1>1, <1>2, <1>3
<1> QED
  BY <1>1, <1>2, <1>3, <1>4, <1>5 DEF FreshState

\* A restart from a snapshot keeps the invariant.
LEMMA RestartStepInv == FileSynchronised /\ Restart => StepInv'
<1> SUFFICES ASSUME FileSynchronised, Restart PROVE FreshState'
  BY FreshStart, PTL
<1>1. /\ file # NoFile /\ file' = file /\ phase' = "forces"
      /\ ts' = NewTimestep(file.numRungs, file.dt_m1)
      /\ rung' = file.rung /\ drifted' = file.drifted /\ last' = file.last /\ lag' = file.lag
      /\ groupDt' = [r \in Rank |-> [k \in 1 .. NumGroups(r) |-> FloatMax]]
      /\ groups' = Groups /\ tsGroups' = Groups /\ limit' = [p \in Particle |-> FloatMax]
  BY DEF Restart, Loaded
<1>2. /\ file.numRungs \in 1 .. MaxNumRungs
      /\ file.dt_m1 \in [Rungs -> Int] /\ file.rung \in [Particle -> Rungs]
      /\ file.drifted \in [Particle -> Int] /\ file.last \in [Particle -> Int] /\ file.lag \in [Particle -> Int]
      /\ \A p \in Particle : /\ file.drifted[p] = 0 /\ file.lag[p] = 0
                             /\ file.dt_m1[file.rung[p]] = file.last[p]
  BY <1>1 DEF FileSynchronised
<1>3. \E n \in 1 .. MaxNumRungs, d \in [Rungs -> Int] :
          ts' = NewTimestep(n, d) /\ \A p \in Particle : d[rung'[p]] = last'[p]
  BY <1>1, <1>2, Zenon
<1>4. /\ rung' \in [Particle -> Rungs] /\ last' \in [Particle -> Int]
      /\ drifted' \in [Particle -> Int] /\ lag' \in [Particle -> Int]
      /\ \A p \in Particle : drifted'[p] = 0 /\ lag'[p] = 0
  BY <1>1, <1>2, Zenon
<1> QED
  BY <1>1, <1>3, <1>4, Zenon DEF FreshState

\* A snapshot is only written of synchronised particles.
LEMMA NextFileSynchronised == StepInv /\ FileSynchronised /\ [LoopNext]_vars => FileSynchronised'
<1> SUFFICES ASSUME StepInv, FileSynchronised, [LoopNext]_vars PROVE FileSynchronised'
  OBVIOUS
<1>1. CASE Decide
  <2>1. phase = "loop" /\ (file' = file \/ (IsSynced /\ file' = Snapshot))
    BY <1>1 DEF Decide, WriteOutput
  <2>2. CASE file' = file
    BY <2>2 DEF FileSynchronised, NoFile
  <2>3. CASE IsSynced /\ file' = Snapshot
    <3>1. /\ ts.numRungs \in 1 .. MaxNumRungs /\ ts.dt_m1 \in [Rungs -> Int]
          /\ rung \in [Particle -> Rungs] /\ drifted \in [Particle -> Int]
          /\ last \in [Particle -> Int] /\ lag \in [Particle -> Int]
      BY TimestepTypes DEF StepInv, StepTypeOK
    <3>2. \A p \in Particle : drifted[p] = 0 /\ lag[p] = 0
      BY <2>1, <2>3, SyncedNoDrift
    <3>3. \A p \in Particle : ts.dt_m1[rung[p]] = last[p]
      BY <2>1, <2>3 DEF StepInv, LastStepsStored
    <3> QED
      BY <2>3, <3>1, <3>2, <3>3 DEF FileSynchronised, Snapshot
  <2> QED
    BY <2>1, <2>2, <2>3
<1>2. CASE file' = file
  BY <1>2 DEF FileSynchronised, NoFile
<1> QED
  BY <1>1, <1>2 DEF LoopNext, ComputeRungs, Forces, Integrate, Restart, Ended, vars, lvars

\* Every step of the main loop keeps the invariant of the block time-steps.
LEMMA NextStepInv == StepInv /\ FileSynchronised /\ [LoopNext]_vars => StepInv'
<1> SUFFICES ASSUME StepInv, FileSynchronised, [LoopNext]_vars PROVE StepInv'
  OBVIOUS
<1>1. CASE Forces
  BY <1>1, ForcesStepInv DEF Forces
<1>2. CASE Decide
  <2>1. /\ phase = "loop" /\ phase' \in {"rungs", "stuck"}
        /\ UNCHANGED <<ts, prevDt, groupDt, groups, tsGroups, rung, drifted, last, lag, limit>>
    BY <1>2 DEF Decide
  <2> QED
    BY <2>1, OutputStepInv
<1>3. CASE NewHierarchy
  BY <1>3, NewHierarchyStepInv
<1>4. CASE ResortRungs
  BY <1>4, ResortStepInv
<1>5. CASE Integrate
  <2>1. IntegrateRungs /\ phase' \in {"forces", "done"}
    BY <1>5 DEF Integrate
  <2> QED
    BY <2>1, IntegrateStepInv
<1>6. CASE Restart
  BY <1>6, RestartStepInv
<1>7. CASE UNCHANGED vars
  BY <1>7, UnchangedStepInv DEF vars
<1> QED
  BY <1>1, <1>2, <1>3, <1>4, <1>5, <1>6, <1>7 DEF LoopNext, ComputeRungs, Ended

\* The invariant of the block time-steps holds in the main loop, restarts from snapshots
\* included, and every snapshot is one of synchronised particles.
THEOREM StepInvariance == LoopSpec => [](StepInv /\ FileSynchronised)
BY InitStepInv, NextStepInv, NextFileSynchronised, PTL DEF LoopSpec

\* When the forces are computed, the positions of all particles are those of the same time
\* (driftPositions forward and back in integrate), for any time-step limits.
THEOREM TimesAgreeHolds == LoopSpec => []TimesAgree
BY StepInvariance, InvTimesAgree, PTL

\* No particle ends a step that is longer than the limit the kernels gave it at the beginning
\* (rungTimestep, minimumGroupDt), for any limits and any number of rungs.
THEOREM StepWithinLimitHolds == LoopSpec => []StepWithinLimit
BY StepInvariance, InvStepWithinLimit, PTL

\* A hierarchy starts with the length of the last step of every particle in the array that
\* field rung indexes, after a restart as well (loadOrStore, dt_m1).
THEOREM PrevStepKnownHolds == LoopSpec => []PrevStepKnown
<1>1. StepInv => PrevStepKnown
  BY DEF StepInv, LastStepsStored, PrevStepKnown
<1> QED
  BY <1>1, StepInvariance, PTL
=============================================================================
