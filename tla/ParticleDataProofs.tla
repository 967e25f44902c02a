------------------------- MODULE ParticleDataProofs -------------------------
(***************************************************************************)
(* Proofs about the data of the particles: their division into one range   *)
(* per rank at the start (InitGrid), the memory of the fields              *)
(* (FieldStates) and the exchange of their halos (HaloExchange).           *)
(*                                                                         *)
(* For any number of fields and particles, the vectors are permuted among  *)
(* the fields, and the size of a vector is determined by the state of the  *)
(* field that holds it (FieldInv).  For any finite set of ranks and any    *)
(* number of exchanges every invariant of the exchange follows from        *)
(* HaloInv.                                                                *)
(***************************************************************************)
EXTENDS HaloExchange, FieldStates, InitGrid, FiniteSetTheorems, TLAPS

-----------------------------------------------------------------------------
(* The division of the points of a grid, of the rows of a file and of the particles of an initial *)
(* condition into one index range per rank *)

\* The smaller and the larger of two integers.
LEMMA MinMaxPair ==
    ASSUME NEW a \in Int, NEW b \in Int
    PROVE  /\ Min({a, b}) = IF a <= b THEN a ELSE b
           /\ Max({a, b}) = IF a <= b THEN b ELSE a
<1>1. \E m \in {a, b} : \A y \in {a, b} : m <= y
  OBVIOUS
<1>2. \E m \in {a, b} : \A y \in {a, b} : m >= y
  OBVIOUS
<1>3. Min({a, b}) \in {a, b} /\ \A y \in {a, b} : Min({a, b}) <= y
  BY <1>1 DEF Min
<1>4. Max({a, b}) \in {a, b} /\ \A y \in {a, b} : Max({a, b}) >= y
  BY <1>2 DEF Max
<1> QED
  BY <1>3, <1>4

\* Quotient and remainder of natural numbers.
LEMMA QuotientRemainder ==
    ASSUME NEW R \in Nat, NEW N \in Nat \ {0}
    PROVE  R \div N \in Nat /\ R % N \in 0 .. N - 1 /\ R = N * (R \div N) + (R % N)
OBVIOUS

\* One term less, and the last term.
LEMMA LastTerm ==
    ASSUME NEW a \in Int, NEW n \in Int
    PROVE  a * (n - 1) + a = n * a
OBVIOUS

\* The ranges of partitionRange in terms of quotient and remainder: the first r
\* of them have s + 1 indices, the others s.
LEMMA PartitionShape ==
    ASSUME NEW R \in Nat, NEW N \in Nat \ {0}, NEW i \in 0 .. N - 1
    PROVE  LET s == R \div N
               r == R % N
               p == partitionRange(R, i, N)
           IN  /\ s \in Nat /\ r \in 0 .. N - 1 /\ R = N * s + r
               /\ p[1] = s * i + (IF i < r THEN i ELSE r)
               /\ p[2] = p[1] + s + (IF i < r THEN 1 ELSE 0)
<1> DEFINE s == R \div N
           r == R % N
<1>1. s \in Nat /\ r \in 0 .. N - 1 /\ R = N * s + r
  BY QuotientRemainder
<1> HIDE DEF s, r
<1>2. Min({i, r}) = (IF i <= r THEN i ELSE r) /\ Max({0, i - r}) = (IF i <= r THEN 0 ELSE i - r)
  <2>1. i \in Int /\ r \in Int /\ i - r \in Int /\ 0 \in Int
    BY <1>1
  <2>2. Min({i, r}) = IF i <= r THEN i ELSE r
    BY <2>1, MinMaxPair
  <2>3. Max({0, i - r}) = IF 0 <= i - r THEN i - r ELSE 0
    BY <2>1, MinMaxPair
  <2> QED
    BY <2>1, <2>2, <2>3
<1>3. (s + 1) * Min({i, r}) + s * Max({0, i - r}) = s * i + (IF i < r THEN i ELSE r)
  <2>1. CASE i <= r
    BY <1>1, <1>2, <2>1
  <2>2. CASE ~(i <= r)
    <3>1. (s + 1) * r + s * (i - r) = s * i + r
      BY <1>1
    <3> QED
      BY <1>1, <1>2, <2>2, <3>1
  <2> QED
    BY <2>1, <2>2
<1> QED
  BY <1>1, <1>3 DEF partitionRange, s, r

\* partitionRange partitions 0 .. R - 1: the range of the first rank starts at 0, each
\* range starts where the one before ends, the last one ends at R, and their lengths
\* differ by one at most.  Whatever R and N are, no index is lost, and none has two
\* owners.
THEOREM RangesPartition ==
    ASSUME NEW R \in Nat, NEW N \in Nat \ {0}
    PROVE  /\ partitionRange(R, 0, N)[1] = 0
           /\ partitionRange(R, N - 1, N)[2] = R
           /\ \A i \in 0 .. N - 2 : partitionRange(R, i, N)[2] = partitionRange(R, i + 1, N)[1]
           /\ \A i \in 0 .. N - 1 :
                  partitionRange(R, i, N)[2] - partitionRange(R, i, N)[1] \in {R \div N, R \div N + 1}
<1> DEFINE s == R \div N
           r == R % N
           p(i) == partitionRange(R, i, N)
<1>1. s \in Nat /\ r \in 0 .. N - 1 /\ R = N * s + r
  BY QuotientRemainder
<1>2. \A i \in 0 .. N - 1 : /\ p(i)[1] = s * i + (IF i < r THEN i ELSE r)
                            /\ p(i)[2] = p(i)[1] + s + (IF i < r THEN 1 ELSE 0)
  BY PartitionShape
<1> HIDE DEF s, r, p
<1>3. p(0)[1] = 0
  BY <1>1, <1>2
<1>4. p(N - 1)[2] = R
  <2>1. N - 1 \in 0 .. N - 1 /\ ~(N - 1 < r)
    BY <1>1
  <2>2. s * (N - 1) + s = N * s
    BY <1>1, LastTerm
  <2>3. s * (N - 1) \in Int /\ N * s \in Int
    BY <1>1
  <2>4. p(N - 1)[1] = s * (N - 1) + r /\ p(N - 1)[2] = p(N - 1)[1] + s + 0
    BY <1>2, <2>1
  <2> QED
    BY <1>1, <2>2, <2>3, <2>4
<1>5. ASSUME NEW i \in 0 .. N - 2 PROVE p(i)[2] = p(i + 1)[1]
  <2>1. i \in 0 .. N - 1 /\ i + 1 \in 0 .. N - 1
    OBVIOUS
  <2>2. s * (i + 1) = s * i + s
    BY <1>1
  <2>3. p(i + 1)[1] = s * i + s + (IF i + 1 < r THEN i + 1 ELSE r)
    BY <1>2, <2>1, <2>2
  <2>4. p(i)[2] = s * i + (IF i < r THEN i ELSE r) + s + (IF i < r THEN 1 ELSE 0)
    BY <1>2, <2>1
  <2>5. s * i \in Int
    BY <1>1
  <2> QED
    BY <1>1, <2>3, <2>4, <2>5
<1>6. ASSUME NEW i \in 0 .. N - 1 PROVE p(i)[2] - p(i)[1] \in {s, s + 1}
  <2>1. p(i)[1] \in Int
    BY <1>1, <1>2
  <2> QED
    BY <1>1, <1>2, <2>1
<1> QED
  BY <1>3, <1>4, <1>5, <1>6 DEF p, s


-----------------------------------------------------------------------------
(* The memory of the fields *)

\* FieldInv holds before activateFields.
LEMMA FieldInitInv == FieldInit => FieldInv
BY DEF FieldInit, FieldInv, FieldTypeOK, VectorsPermuted, State, isAllocated, None

\* A field that acquireOne takes the memory of is released and has the type of the other.
LEMMA ProviderReleased ==
    ASSUME NEW f \in Field, NEW g \in Field, FirstSuitable(f, g)
    PROVE  fieldStates[g] = "released" /\ Type[g] = Type[f]
BY DEF FirstSuitable, Suitable

\* Every operation on the fields preserves FieldInv.
LEMMA FieldStepInv == FieldInv /\ [FieldNext]_fvars => FieldInv'
<1> SUFFICES ASSUME FieldInv, [FieldNext]_fvars PROVE FieldInv'
  OBVIOUS
<1> USE DEF FieldInv, FieldTypeOK, VectorsPermuted, isAllocated, State
<1>1. ASSUME NEW f \in Field, NEW s \in {"conserved", "dependent"}, SetState(f, s)
      PROVE  FieldInv'
  <2>1. numPart = 0 /\ \A g \in Field : size[data[g]] = 0
    BY <1>1 DEF SetState
  <2> QED
    BY <1>1, <2>1 DEF SetState
<1>2. ASSUME NEW f \in Field, Release(f) PROVE FieldInv'
  BY <1>2 DEF Release
<1>3. ASSUME NEW f \in Field, Compute(f) PROVE FieldInv'
  BY <1>3 DEF Compute
<1>4. ASSUME NEW f \in Field, NEW g \in Field, Acquire(f, g) PROVE FieldInv'
  <2>1. fieldStates[g] = "released" /\ Type[g] = Type[f] /\ f # g
    BY <1>4, ProviderReleased DEF Acquire
  <2>2. /\ data'[f] = data[g] /\ data'[g] = data[f]
        /\ \A e \in Field \ {f, g} : data'[e] = data[e]
    BY <1>4, <2>1 DEF Acquire
  <2>3. FieldTypeOK'
    BY <1>4, <2>1 DEF Acquire
  <2>4. VectorsPermuted'
    BY <2>1, <2>2
  <2>5. \A e \in Field : size'[data'[e]] = IF isAllocated(e)' THEN numPart' ELSE 0
    BY <1>4, <2>1, <2>2 DEF Acquire
  <2> QED
    BY <2>3, <2>4, <2>5
<1>5. ASSUME NEW n \in 1 .. MaxSize, NEW drop \in SUBSET Field, Resize(n, drop) PROVE FieldInv'
  <2>1. n \in Nat
    BY FieldAssumption
  <2>2. FieldTypeOK'
    BY <1>5, <2>1 DEF Resize, None
  <2>3. ASSUME NEW e \in Field
        PROVE  size'[data'[e]] = IF isAllocated(e)' THEN numPart' ELSE 0
    <3>1. (\E f \in Field : data[f] = data[e] /\ isAllocated(f)) <=> isAllocated(e)
      OBVIOUS
    <3>2. size'[data[e]] = IF isAllocated(e) THEN n ELSE size[data[e]]
      BY <1>5, <3>1 DEF Resize
    <3> QED
      BY <1>5, <3>2 DEF Resize
  <2> QED
    BY <1>5, <2>2, <2>3 DEF Resize
<1>6. CASE UNCHANGED fvars
  BY <1>6 DEF fvars
<1> QED
  BY <1>1, <1>2, <1>3, <1>4, <1>5, <1>6 DEF FieldNext

\* FieldStates and ParticlesData::resize: the invariant holds in every reachable state.
THEOREM FieldInvariance == FieldSpec => []FieldInv
BY FieldInitInv, FieldStepInv, PTL DEF FieldSpec

\* The variables keep their types.
THEOREM FieldTypeCorrect == FieldSpec => []FieldTypeOK
<1>1. FieldInv => FieldTypeOK
  BY DEF FieldInv
<1> QED
  BY <1>1, FieldInvariance, PTL

\* After any sequence of resize, release and acquire the fields in use have the size of
\* the data set and the others are empty.
THEOREM ActiveFieldsSizedHolds == FieldSpec => []ActiveFieldsSized
<1>1. FieldInv => ActiveFieldsSized
  BY DEF FieldInv, ActiveFieldsSized
<1> QED
  BY <1>1, FieldInvariance, PTL

\* A conserved field is still conserved, and has its values, after an operation on the
\* fields once they are allocated.
LEMMA ConservedStep ==
    ASSUME FieldInv, [FieldNext]_fvars, numPart > 0,
           NEW f \in Field, isConserved(f), content[data[f]] = f
    PROVE  isConserved(f)' /\ content'[data'[f]] = f
<1> USE DEF FieldInv, FieldTypeOK, VectorsPermuted, isConserved
<1>1. ASSUME NEW g \in Field, NEW s \in {"conserved", "dependent"}, SetState(g, s)
      PROVE  FALSE
  BY <1>1 DEF SetState
<1>2. ASSUME NEW g \in Field, Release(g) PROVE isConserved(f)' /\ content'[data'[f]] = f
  BY <1>2 DEF Release
<1>3. ASSUME NEW g \in Field, Compute(g) PROVE isConserved(f)' /\ content'[data'[f]] = f
  <2>1. data[f] = data[g] => f = g
    OBVIOUS
  <2> QED
    BY <1>3, <2>1 DEF Compute
<1>4. ASSUME NEW e \in Field, NEW g \in Field, Acquire(e, g)
      PROVE  isConserved(f)' /\ content'[data'[f]] = f
  <2>1. f # e /\ f # g
    BY <1>4, ProviderReleased DEF Acquire
  <2> QED
    BY <1>4, <2>1 DEF Acquire
<1>5. ASSUME NEW n \in 1 .. MaxSize, NEW drop \in SUBSET Field, Resize(n, drop)
      PROVE  isConserved(f)' /\ content'[data'[f]] = f
  <2>1. ~ \E g \in drop : data[g] = data[f]
    BY <1>5 DEF Resize, Droppable
  <2> QED
    BY <1>5, <2>1 DEF Resize
<1>6. CASE UNCHANGED fvars
  BY <1>6 DEF fvars
<1> QED
  BY <1>1, <1>2, <1>3, <1>4, <1>5, <1>6 DEF FieldNext

\* Conserved fields are preserved by every operation once the data set is allocated.
THEOREM ConservedKeptHolds == FieldSpec => ConservedKept
<1>1. FieldInv /\ [FieldNext]_fvars =>
          [numPart > 0 => \A f \in Field :
              isConserved(f) /\ content[data[f]] = f => isConserved(f)' /\ content'[data'[f]] = f]_fvars
  BY ConservedStep
<1> QED
  BY <1>1, FieldInvariance, PTL DEF FieldSpec, ConservedKept

-----------------------------------------------------------------------------
(* The exchange of halos *)

\* Any subset of the ranks is finite and its cardinality is a natural number.
LEMMA FiniteSubset ==
    ASSUME NEW S \in SUBSET Rank
    PROVE  IsFiniteSet(S) /\ Cardinality(S) \in Nat
BY FS_Subset, FS_CardinalityType, HaloAssumption

\* Removing an element that is present lowers the cardinality by one.
LEMMA CountDown ==
    ASSUME NEW S \in SUBSET Rank, NEW x \in S
    PROVE  Cardinality(S \ {x}) = Cardinality(S) - 1
BY FS_RemoveElement, FiniteSubset

\* A non-empty set of ranks has a positive cardinality.
LEMMA EmptyCount ==
    ASSUME NEW S \in SUBSET Rank, Cardinality(S) = 0
    PROVE  S = {}
BY FS_EmptySet, FiniteSubset

\* Call numbers are natural numbers.
LEMMA EpochNat == \A e \in Epoch : e \in Nat
BY HaloAssumption DEF Epoch

\* HaloInv holds initially.
LEMMA InitInv == Init => HaloInv
<1> SUFFICES ASSUME Init PROVE HaloInv
  OBVIOUS
<1>1. TypeOK
  BY HaloAssumption DEF Init, TypeOK, NoVersion, Epoch
<1>2. RequestsInFlight /\ HalosInFlight
  BY DEF Init, RequestsInFlight, HalosInFlight
<1>3. \A r \in Rank : Progress(r)
  BY HaloAssumption DEF Init, Progress, Interior, Before, NoVersion, Epoch
<1>4. NoFutureHalos
  BY DEF Init, NoFutureHalos, NoVersion
<1> QED
  BY <1>1, <1>2, <1>3, <1>4 DEF HaloInv

\* Requests determine their source and destination.
LEMMA RequestUnique ==
    \A q, r, q2, r2 : RequestMsg(q, r) = RequestMsg(q2, r2) <=> q = q2 /\ r = r2
BY DEF RequestMsg

\* Halo messages determine their source, destination and call.
LEMMA HaloUnique ==
    \A q, r, q2, r2 : \A e, e2 \in Epoch :
        HaloMsg(q, r, e) = HaloMsg(q2, r2, e2) <=> q = q2 /\ r = r2 /\ e = e2
BY DEF HaloMsg

\* The tags of requests and of the different halo exchanges are distinct.
LEMMA TagsDistinct ==
    /\ \A q, r, q2, r2 : \A e \in Epoch : RequestMsg(q, r) # HaloMsg(q2, r2, e)
    /\ \A e \in Epoch : HaloTag(e) # RequestTag
    /\ \A e, e2 \in Epoch : HaloTag(e) = HaloTag(e2) <=> e = e2
<1>1. \A e \in Epoch : e \in Nat
  BY HaloAssumption DEF Epoch
<1> QED
  BY <1>1 DEF RequestMsg, HaloMsg, HaloTag, RequestTag

\* Progress of a rank is not affected by a step of another one that leaves its
\* state alone and does not take a rank back to sending requests.
LEMMA ProgressFrame ==
    ASSUME NEW p \in Rank, Progress(p), UNCHANGED <<incoming, base>>,
           pc'[p] = pc[p], outgoing'[p] = outgoing[p], numLeft'[p] = numLeft[p],
           haloEpoch'[p] = haloEpoch[p], halo'[p] = halo[p],
           \A q \in outgoing[p] : pc'[q] # "request"
    PROVE  Progress(p)'
<1>1. Interior(incoming, p)' = Interior(incoming, p)
  BY DEF Interior
<1>2. Unrequested(p)' = Unrequested(p)
  BY <1>1 DEF Unrequested
<1>3. Awaited(p)' = Awaited(p)
  BY DEF Awaited
<1> QED
  BY <1>1, <1>2, <1>3 DEF Progress, Before

\* Every step of every rank preserves HaloInv.
LEMMA StepInv == HaloInv /\ [Next]_vars => HaloInv'
<1> SUFFICES ASSUME HaloInv, [Next]_vars PROVE HaloInv'
  OBVIOUS
<1>inv. TypeOK /\ RequestsInFlight /\ HalosInFlight /\ NoFutureHalos /\ \A r \in Rank : Progress(r)
  BY DEF HaloInv
<1>1. ASSUME NEW inc \in Needs, ExchangePeers(inc) PROVE HaloInv'
  <2>1. net = {}
    <3> SUFFICES ASSUME NEW m \in net PROVE FALSE
      OBVIOUS
    <3>1. CASE \E q, r \in Rank : m = RequestMsg(q, r)
      <4> PICK q \in Rank, r \in Rank : m = RequestMsg(q, r)
        BY <3>1
      <4>1. r \in incoming[q] /\ q \notin outgoing[r]
        BY <1>inv DEF RequestsInFlight
      <4>2. outgoing[r] = Interior(incoming, r)
        BY <1>1, <1>inv DEF ExchangePeers, Progress
      <4> QED
        BY <4>1, <4>2 DEF Interior
    <3>2. CASE \E q, r \in Rank, e \in Epoch : m = HaloMsg(q, r, e)
      <4> PICK q \in Rank, r \in Rank, e \in Epoch : m = HaloMsg(q, r, e)
        BY <3>2
      <4>1. q \in incoming[r] /\ base <= e /\ e < haloEpoch[q] /\ halo[r][q] < e
        BY <1>inv DEF HalosInFlight
      <4>2. halo[r][q] = Before(haloEpoch[r]) /\ haloEpoch[q] = haloEpoch[r]
        BY <1>1, <1>inv, <4>1 DEF ExchangePeers, Progress
      <4> QED
        BY <4>1, <4>2, <1>inv, HaloAssumption DEF Before, TypeOK, Epoch, NoVersion
    <3> QED
      BY <3>1, <3>2, <1>inv DEF TypeOK
  <2>2. \A r \in Rank : base' = haloEpoch[r] /\ haloEpoch'[r] = haloEpoch[r]
    BY <1>1 DEF ExchangePeers
  <2>3. inc \in [Rank -> SUBSET Rank] /\ incoming' = inc
    BY <1>1 DEF Needs, ExchangePeers
  <2>4. TypeOK'
    <3>1. \A r \in Rank : Cardinality(Interior(inc, r)) \in Nat
      BY FiniteSubset DEF Interior
    <3>2. base' \in Epoch
      BY <1>1, <1>inv DEF ExchangePeers, TypeOK
    <3> QED
      BY <1>1, <1>inv, <2>1, <2>3, <3>1, <3>2 DEF ExchangePeers, TypeOK, NoVersion
  <2>5. RequestsInFlight'
    BY <1>1, <2>1, <2>3 DEF ExchangePeers, RequestsInFlight
  <2>6. HalosInFlight'
    BY <1>1, <1>inv, <2>1, <2>2, HaloAssumption DEF ExchangePeers, HalosInFlight, TypeOK, Epoch
  <2>7. ASSUME NEW r \in Rank PROVE Progress(r)'
    <3>1. Unrequested(r)' = Interior(inc, r)
      BY <1>1, <2>3 DEF ExchangePeers, Unrequested
    <3>2. base' <= haloEpoch'[r]
      BY <2>2, <1>inv, HaloAssumption DEF TypeOK, Epoch
    <3> QED
      BY <1>1, <2>2, <2>3, <3>1, <3>2 DEF ExchangePeers, Progress, Before, Interior
  <2>8. NoFutureHalos'
    BY <1>1, <1>inv, HaloAssumption DEF ExchangePeers, NoFutureHalos, NoVersion, TypeOK, Epoch
  <2> QED
    BY <2>4, <2>5, <2>6, <2>7, <2>8 DEF HaloInv
<1>2. ASSUME NEW r \in Rank, SendRequests(r) PROVE HaloInv'
  <2>1. TypeOK'
    BY <1>2, <1>inv DEF TypeOK, SendRequests
  <2>2. RequestsInFlight'
    <3> SUFFICES ASSUME NEW q \in Rank, NEW p \in Rank
                 PROVE  RequestMsg(q, p) \in net' <=>
                            p \in incoming[q] /\ pc'[q] # "request" /\ q \notin outgoing[p]
      BY <1>2 DEF RequestsInFlight, SendRequests
    <3>1. CASE q = r
      <4>1. r \notin outgoing[p]
        BY <1>2, <1>inv DEF SendRequests, Progress
      <4>2. RequestMsg(r, p) \in net' <=> p \in incoming[r]
        <5>1. RequestMsg(r, p) \notin net
          BY <1>2, <1>inv DEF SendRequests, RequestsInFlight
        <5> QED
          BY <1>2, <5>1, RequestUnique DEF SendRequests
      <4> QED
        BY <4>1, <4>2, <3>1, <1>2, <1>inv DEF SendRequests, TypeOK
    <3>2. CASE q # r
      <4>1. RequestMsg(q, p) \in net' <=> RequestMsg(q, p) \in net
        BY <1>2, <3>2, RequestUnique DEF SendRequests
      <4> QED
        BY <4>1, <3>2, <1>2, <1>inv DEF SendRequests, TypeOK, RequestsInFlight
    <3> QED
      BY <3>1, <3>2
  <2>3. HalosInFlight'
    <3>1. \A q, p \in Rank, e \in Epoch : HaloMsg(q, p, e) \in net' <=> HaloMsg(q, p, e) \in net
      BY <1>2, TagsDistinct DEF SendRequests
    <3> QED
      BY <1>2, <1>inv, <3>1 DEF SendRequests, HalosInFlight
  <2>4. ASSUME NEW p \in Rank PROVE Progress(p)'
    <3>1. UNCHANGED <<incoming, outgoing, numLeft, haloEpoch, halo, base>>
      BY <1>2 DEF SendRequests
    <3>2. pc' = [pc EXCEPT ![r] = "recvRequest"] /\ pc[r] = "request"
      BY <1>2 DEF SendRequests
    <3>3. pc'[p] = (IF p = r THEN "recvRequest" ELSE pc[p])
      BY <3>2, <1>inv DEF TypeOK
    <3>4. \A q \in outgoing[p] : pc'[q] # "request"
      BY <3>2, <1>inv DEF TypeOK, Progress
    <3>5. CASE p # r
      BY <3>1, <3>3, <3>4, <3>5, <1>inv, ProgressFrame
    <3>6. CASE p = r
      <4>1. Unrequested(p)' = Unrequested(p)
        BY <3>1 DEF Unrequested, Interior
      <4>2. Interior(incoming, p)' = Interior(incoming, p)
        BY <3>1 DEF Interior
      <4>3. Progress(p) /\ pc[p] = "request"
        BY <3>2, <3>6, <1>inv
      <4>4. /\ base <= haloEpoch[p] /\ outgoing[p] \subseteq Interior(incoming, p)
            /\ haloEpoch[p] = base /\ numLeft[p] = Cardinality(Unrequested(p))
            /\ \A q \in incoming[p] : halo[p][q] = Before(haloEpoch[p])
        BY <4>3 DEF Progress
      <4>5. Before(haloEpoch[p])' = Before(haloEpoch[p])
        BY <3>1 DEF Before
      <4>6. pc'[p] = "recvRequest"
        BY <3>3, <3>6
      <4> QED
        BY <3>1, <3>4, <4>1, <4>2, <4>4, <4>5, <4>6 DEF Progress
    <3> QED
      BY <3>5, <3>6
  <2>5. NoFutureHalos'
    BY <1>2, <1>inv DEF SendRequests, NoFutureHalos
  <2> QED
    BY <2>1, <2>2, <2>3, <2>4, <2>5 DEF HaloInv
<1>3. ASSUME NEW r \in Rank, NEW m \in net, ReceiveRequest(r, m) PROVE HaloInv'
  <2>1. PICK q \in Rank : m = RequestMsg(q, r)
    <3>1. m.dst = r /\ m.tag = RequestTag
      BY <1>3 DEF ReceiveRequest
    <3>2. \A q2, r2 : \A e \in Epoch : m # HaloMsg(q2, r2, e)
      BY <3>1, TagsDistinct DEF HaloMsg
    <3>3. PICK q2 \in Rank, r2 \in Rank : m = RequestMsg(q2, r2)
      BY <3>2, <1>inv DEF TypeOK
    <3>4. r2 = r
      BY <3>1, <3>3 DEF RequestMsg
    <3> QED
      BY <3>3, <3>4
  <2>2. m.src = q
    BY <2>1 DEF RequestMsg
  <2>3. q \in Unrequested(r) /\ pc[q] # "request" /\ pc[r] = "recvRequest"
    BY <1>3, <2>1, <1>inv DEF RequestsInFlight, Unrequested, Interior, ReceiveRequest
  <2>4. /\ UNCHANGED <<pc, incoming, haloEpoch, halo, base>>
        /\ outgoing' = [outgoing EXCEPT ![r] = @ \cup {q}]
        /\ numLeft' = [numLeft EXCEPT ![r] = @ - 1]
        /\ net' = net \ {RequestMsg(q, r)}
    BY <1>3, <2>1, <2>2 DEF ReceiveRequest
  <2>5. Cardinality(Unrequested(r)) = numLeft[r] /\ numLeft[r] - 1 \in Nat
    <3>1. Cardinality(Unrequested(r)) = numLeft[r]
      BY <2>3, <1>inv DEF Progress
    <3>2. numLeft[r] \in Nat /\ numLeft[r] # 0
      BY <1>3, <1>inv DEF TypeOK, ReceiveRequest
    <3> QED
      BY <3>1, <3>2
  <2>6. TypeOK'
    BY <2>4, <2>5, <1>inv DEF TypeOK
  <2>7. RequestsInFlight'
    <3>1. \A q2, r2 \in Rank : q2 \in outgoing'[r2] <=> q2 \in outgoing[r2] \/ (q2 = q /\ r2 = r)
      BY <2>4, <1>inv DEF TypeOK
    <3>2. \A q2, r2 \in Rank : RequestMsg(q2, r2) \in net' <=>
                                 RequestMsg(q2, r2) \in net /\ ~(q2 = q /\ r2 = r)
      BY <2>4, RequestUnique
    <3> QED
      BY <2>4, <3>1, <3>2, <1>inv DEF RequestsInFlight
  <2>8. HalosInFlight'
    <3>1. \A q2, r2 \in Rank, e \in Epoch : HaloMsg(q2, r2, e) \in net' <=> HaloMsg(q2, r2, e) \in net
      BY <2>4, TagsDistinct
    <3> QED
      BY <2>4, <3>1, <1>inv DEF HalosInFlight
  <2>9. ASSUME NEW p \in Rank PROVE Progress(p)'
    <3>1. CASE p # r
      <4>1. outgoing'[p] = outgoing[p] /\ numLeft'[p] = numLeft[p]
        BY <3>1, <2>4, <1>inv DEF TypeOK
      <4> QED
        BY <4>1, <2>4, <1>inv, ProgressFrame DEF Progress
    <3>2. CASE p = r
      <4>1. outgoing'[r] = outgoing[r] \cup {q} /\ numLeft'[r] = numLeft[r] - 1
        BY <2>4, <1>inv DEF TypeOK
      <4>2. Unrequested(r)' = Unrequested(r) \ {q}
        BY <4>1, <2>4 DEF Unrequested, Interior
      <4>3. Cardinality(Unrequested(r) \ {q}) = Cardinality(Unrequested(r)) - 1
        BY <2>3, CountDown DEF Unrequested, Interior
      <4>4. outgoing'[r] \subseteq Interior(incoming', r)
        BY <4>1, <2>3, <2>4, <1>inv DEF Progress, Unrequested, Interior
      <4>5. \A q2 \in outgoing'[r] : pc'[q2] # "request"
        BY <4>1, <2>3, <2>4, <1>inv DEF Progress
      <4>6. numLeft'[r] = Cardinality(Unrequested(r)')
        BY <4>1, <4>2, <4>3, <2>5
      <4> QED
        BY <3>2, <2>3, <2>4, <4>4, <4>5, <4>6, <1>inv DEF Progress, Before
    <3> QED
      BY <3>1, <3>2
  <2>10. NoFutureHalos'
    BY <2>4, <1>inv DEF NoFutureHalos
  <2> QED
    BY <2>6, <2>7, <2>8, <2>9, <2>10 DEF HaloInv
<1>4. ASSUME NEW r \in Rank, EndRequests(r) PROVE HaloInv'
  <2>1. TypeOK'
    BY <1>4, <1>inv DEF TypeOK, EndRequests
  <2>2. RequestsInFlight'
    BY <1>4, <1>inv DEF TypeOK, EndRequests, RequestsInFlight
  <2>3. HalosInFlight'
    BY <1>4, <1>inv DEF TypeOK, EndRequests, HalosInFlight
  <2>4. outgoing[r] = Interior(incoming, r)
    <3>1. Unrequested(r) \in SUBSET Rank
      BY DEF Unrequested, Interior
    <3>2. Cardinality(Unrequested(r)) = 0
      BY <1>4, <1>inv DEF EndRequests, Progress
    <3>3. Unrequested(r) = {}
      BY <3>1, <3>2, EmptyCount
    <3> QED
      BY <3>3, <1>inv DEF Progress, Unrequested
  <2>5. ASSUME NEW p \in Rank PROVE Progress(p)'
    <3>1. pc'[p] = (IF p = r THEN "idle" ELSE pc[p]) /\ pc[r] = "recvRequest"
      BY <1>4, <1>inv DEF EndRequests, TypeOK
    <3>2. \A q \in outgoing[p] : pc'[q] # "request"
      BY <1>4, <1>inv DEF EndRequests, TypeOK, Progress
    <3>3. UNCHANGED <<incoming, outgoing, numLeft, haloEpoch, halo, base>>
      BY <1>4 DEF EndRequests
    <3>4. CASE p # r
      BY <3>1, <3>2, <3>3, <3>4, <1>inv, ProgressFrame
    <3>5. CASE p = r
      <4>1. Interior(incoming, p)' = Interior(incoming, p)
        BY <3>3 DEF Interior
      <4> QED
        BY <2>4, <3>1, <3>2, <3>3, <3>5, <4>1, <1>inv DEF Progress, Before
    <3> QED
      BY <3>4, <3>5
  <2>6. NoFutureHalos'
    BY <1>4, <1>inv DEF EndRequests, NoFutureHalos
  <2> QED
    BY <2>1, <2>2, <2>3, <2>5, <2>6 DEF HaloInv
<1>5. ASSUME NEW r \in Rank, SendHalos(r) PROVE HaloInv'
  <2>1. /\ UNCHANGED <<incoming, outgoing, halo, base>>
        /\ pc[r] = "idle" /\ pc' = [pc EXCEPT ![r] = "recvHalos"]
        /\ haloEpoch' = [haloEpoch EXCEPT ![r] = haloEpoch[r] + 1]
        /\ numLeft' = [numLeft EXCEPT ![r] = Cardinality(incoming[r])]
        /\ net' = net \cup {HaloMsg(r, q, haloEpoch[r]) : q \in outgoing[r]}
    BY <1>5 DEF SendHalos
  <2>2. haloEpoch[r] \in Epoch /\ haloEpoch[r] \in Nat /\ haloEpoch[r] + 1 \in Epoch
    BY <1>5, <1>inv, HaloAssumption DEF SendHalos, TypeOK, Epoch
  <2>3. TypeOK'
    <3>1. Cardinality(incoming[r]) \in Nat
      BY <1>inv, FiniteSubset DEF TypeOK
    <3> QED
      BY <2>1, <2>2, <3>1, <1>inv DEF TypeOK
  <2>4. outgoing[r] = Interior(incoming, r) /\ base <= haloEpoch[r]
    BY <2>1, <1>inv DEF Progress
  <2>5. RequestsInFlight'
    <3>1. \A q, p \in Rank : RequestMsg(q, p) \in net' <=> RequestMsg(q, p) \in net
      BY <2>1, <2>2, TagsDistinct
    <3>2. \A q \in Rank : pc'[q] = "request" <=> pc[q] = "request"
      BY <2>1, <1>inv DEF TypeOK
    <3> QED
      BY <2>1, <3>1, <3>2, <1>inv DEF RequestsInFlight
  <2>6. HalosInFlight'
    <3> SUFFICES ASSUME NEW q \in Rank, NEW p \in Rank, NEW e \in Epoch
                 PROVE  HaloMsg(q, p, e) \in net' <=>
                          q \in incoming[p] /\ base <= e /\ e < haloEpoch'[q] /\ halo[p][q] < e
      BY <2>1 DEF HalosInFlight
    <3>1. HaloMsg(q, p, e) \in net' <=>
            \/ HaloMsg(q, p, e) \in net
            \/ q = r /\ p \in outgoing[r] /\ e = haloEpoch[r]
      BY <2>1, <2>2, HaloUnique
    <3>2. CASE q # r \/ e # haloEpoch[r]
      <4>1. e < haloEpoch'[q] <=> e < haloEpoch[q]
        <5>1. haloEpoch'[q] = (IF q = r THEN haloEpoch[r] + 1 ELSE haloEpoch[q])
          BY <2>1, <1>inv DEF TypeOK
        <5>2. e \in Nat
          BY EpochNat
        <5> QED
          BY <2>2, <3>2, <5>1, <5>2
      <4> QED
        BY <3>1, <3>2, <4>1, <1>inv DEF HalosInFlight
    <3>3. CASE q = r /\ e = haloEpoch[r]
      <4>1. e < haloEpoch'[q] /\ base <= e
        BY <2>1, <2>2, <2>4, <3>3, <1>inv DEF TypeOK
      <4>2. halo[p][q] < e
        BY <3>3, <1>inv DEF NoFutureHalos
      <4>3. HaloMsg(q, p, e) \notin net
        BY <3>3, <2>2, <1>inv DEF HalosInFlight
      <4>4. p \in outgoing[r] <=> q \in incoming[p]
        BY <2>4, <3>3 DEF Interior
      <4> QED
        BY <3>1, <3>3, <4>1, <4>2, <4>3, <4>4
    <3> QED
      BY <3>2, <3>3
  <2>7. NoFutureHalos'
    <3> SUFFICES ASSUME NEW q \in Rank, NEW p \in Rank
                 PROVE  halo[p][q] < haloEpoch'[q]
      BY <2>1 DEF NoFutureHalos
    <3>1. haloEpoch'[q] = (IF q = r THEN haloEpoch[r] + 1 ELSE haloEpoch[q])
      BY <2>1, <1>inv DEF TypeOK
    <3>2. halo[p][q] < haloEpoch[q] /\ halo[p][q] \in Int
      BY <1>inv DEF NoFutureHalos, TypeOK
    <3> QED
      BY <2>2, <3>1, <3>2
  <2>8. ASSUME NEW p \in Rank PROVE Progress(p)'
    <3>1. \A q \in outgoing[p] : pc'[q] # "request"
      BY <2>1, <1>inv DEF TypeOK, Progress
    <3>2. CASE p # r
      <4>1. pc'[p] = pc[p] /\ numLeft'[p] = numLeft[p] /\ haloEpoch'[p] = haloEpoch[p]
        BY <2>1, <3>2, <1>inv DEF TypeOK
      <4> QED
        BY <2>1, <3>1, <4>1, <1>inv, ProgressFrame
    <3>3. CASE p = r
      <4>1. /\ pc'[r] = "recvHalos" /\ haloEpoch'[r] = haloEpoch[r] + 1
            /\ numLeft'[r] = Cardinality(incoming[r])
        BY <2>1, <1>inv DEF TypeOK
      <4>2. \A q \in incoming[r] : halo[r][q] = Before(haloEpoch[r])
        BY <2>1, <1>inv DEF Progress
      <4>3. base \in Nat /\ base < haloEpoch'[r] /\ haloEpoch'[r] - 1 = haloEpoch[r]
        <5>1. base \in Nat
          BY <1>inv, EpochNat DEF TypeOK
        <5> QED
          BY <2>2, <2>4, <4>1, <5>1
      <4>4. Before(haloEpoch[r]) # haloEpoch[r]
        BY <2>2 DEF Before, NoVersion
      <4>5. Awaited(r)' = incoming[r]
        BY <2>1, <4>2, <4>3, <4>4 DEF Awaited
      <4>6. \A q \in incoming'[r] :
                halo'[r][q] \in {haloEpoch'[r] - 1, Before(haloEpoch[r] - 1)'}
        BY <2>1, <4>2, <4>3 DEF Before
      <4>7. outgoing'[r] = Interior(incoming, r)'
        BY <2>1, <2>4 DEF Interior
      <4>8. base' <= haloEpoch'[r]
        BY <2>1, <2>2, <4>3
      <4> QED
        BY <2>1, <3>1, <3>3, <4>1, <4>3, <4>5, <4>6, <4>7, <4>8 DEF Progress
    <3> QED
      BY <3>2, <3>3
  <2> QED
    BY <2>3, <2>5, <2>6, <2>7, <2>8 DEF HaloInv
<1>6. ASSUME NEW r \in Rank, NEW m \in net, ReceiveHalos(r, m) PROVE HaloInv'
  <2>0. /\ pc[r] = "recvHalos" /\ base < haloEpoch[r] /\ haloEpoch[r] - 1 \in Epoch
        /\ haloEpoch[r] \in Nat /\ base \in Nat
    <3>1. pc[r] = "recvHalos" /\ base < haloEpoch[r] /\ haloEpoch[r] \in Epoch
      BY <1>6, <1>inv DEF ReceiveHalos, Progress, TypeOK
    <3>2. base \in Nat /\ haloEpoch[r] \in Nat
      BY <3>1, <1>inv, EpochNat DEF TypeOK
    <3> QED
      BY <3>1, <3>2, HaloAssumption DEF Epoch
  <2> DEFINE now == haloEpoch[r] - 1
  <2>1. PICK q \in Rank : m = HaloMsg(q, r, now)
    <3>1. m.dst = r /\ m.tag = HaloTag(now)
      BY <1>6 DEF ReceiveHalos, CurrentTag
    <3>2. \A q2, r2 : m # RequestMsg(q2, r2)
      BY <2>0, <3>1, TagsDistinct DEF RequestMsg
    <3>3. PICK q2 \in Rank, r2 \in Rank, e \in Epoch : m = HaloMsg(q2, r2, e)
      BY <3>2, <1>inv DEF TypeOK
    <3>4. r2 = r /\ e = now
      BY <2>0, <3>1, <3>3, TagsDistinct DEF HaloMsg
    <3> QED
      BY <3>3, <3>4
  <2>2. /\ UNCHANGED <<pc, incoming, outgoing, haloEpoch, base>>
        /\ halo' = [halo EXCEPT ![r] = [halo[r] EXCEPT ![q] = now]]
        /\ numLeft' = [numLeft EXCEPT ![r] = numLeft[r] - 1]
        /\ net' = net \ {HaloMsg(q, r, now)}
    <3>1. m.src = q /\ m.val = now
      BY <2>1 DEF HaloMsg
    <3> QED
      BY <1>6, <2>1, <3>1 DEF ReceiveHalos
  <2>3. q \in incoming[r] /\ base <= now /\ now < haloEpoch[q] /\ halo[r][q] < now
    BY <2>0, <2>1, <1>inv DEF HalosInFlight
  <2>4. halo[r][q] \in Int /\ halo[r][q] = Before(now)
    <3>1. halo[r][q] \in Int
      BY <1>inv DEF TypeOK
    <3>2. halo[r][q] \in {now, Before(now)}
      BY <2>0, <2>3, <1>inv DEF Progress
    <3> QED
      BY <2>0, <2>3, <3>1, <3>2
  <2>5. q \in Awaited(r) /\ Awaited(r) \in SUBSET Rank
    BY <2>0, <2>3, <2>4, <1>inv DEF Awaited, TypeOK
  <2>6. Cardinality(Awaited(r)) = numLeft[r] /\ numLeft[r] - 1 \in Nat
    <3>1. Cardinality(Awaited(r)) = numLeft[r]
      BY <2>0, <1>inv DEF Progress
    <3>2. numLeft[r] \in Nat /\ numLeft[r] # 0
      BY <1>6, <1>inv DEF TypeOK, ReceiveHalos
    <3> QED
      BY <3>1, <3>2
  <2>7. TypeOK'
    BY <2>0, <2>2, <2>6, <1>inv DEF TypeOK
  <2>8. \A p, q2 \in Rank :
            halo'[p][q2] = IF p = r /\ q2 = q THEN now ELSE halo[p][q2]
    BY <2>2, <1>inv DEF TypeOK
  <2>9. RequestsInFlight'
    <3>1. \A q2, r2 \in Rank : RequestMsg(q2, r2) \in net' <=> RequestMsg(q2, r2) \in net
      BY <2>0, <2>2, TagsDistinct
    <3> QED
      BY <2>2, <3>1, <1>inv DEF RequestsInFlight
  <2>10. HalosInFlight'
    <3> SUFFICES ASSUME NEW q2 \in Rank, NEW p \in Rank, NEW e \in Epoch
                 PROVE  HaloMsg(q2, p, e) \in net' <=>
                          /\ q2 \in incoming[p] /\ base <= e /\ e < haloEpoch[q2]
                          /\ halo'[p][q2] < e
      BY <2>2 DEF HalosInFlight
    <3>1. HaloMsg(q2, p, e) \in net' <=>
            HaloMsg(q2, p, e) \in net /\ ~(q2 = q /\ p = r /\ e = now)
      BY <2>0, <2>2, HaloUnique
    <3>2. CASE ~(q2 = q /\ p = r)
      BY <2>8, <3>1, <3>2, <1>inv DEF HalosInFlight
    <3>3. CASE q2 = q /\ p = r
      <4>1. halo'[p][q2] = now /\ e \in Nat
        BY <2>8, <3>3, EpochNat
      <4>2. base <= e => (now < e <=> halo[r][q] < e /\ e # now)
        BY <2>0, <2>3, <2>4, <4>1 DEF Before
      <4>3. HaloMsg(q, r, e) \in net <=>
              q \in incoming[r] /\ base <= e /\ e < haloEpoch[q] /\ halo[r][q] < e
        BY <1>inv DEF HalosInFlight
      <4> QED
        BY <3>1, <3>3, <4>1, <4>2, <4>3
    <3> QED
      BY <3>2, <3>3
  <2>11. NoFutureHalos'
    BY <2>2, <2>3, <2>8, <1>inv DEF NoFutureHalos
  <2>12. ASSUME NEW p \in Rank PROVE Progress(p)'
    <3>1. \A q2 \in outgoing[p] : pc'[q2] # "request"
      BY <2>2, <1>inv DEF Progress
    <3>2. CASE p # r
      <4>1. numLeft'[p] = numLeft[p] /\ halo'[p] = halo[p]
        BY <2>2, <3>2, <1>inv DEF TypeOK
      <4> QED
        BY <2>2, <3>1, <4>1, <1>inv, ProgressFrame
    <3>3. CASE p = r
      <4>1. Awaited(r)' = Awaited(r) \ {q}
        <5>1. \A q2 \in incoming[r] : halo'[r][q2] = IF q2 = q THEN now ELSE halo[r][q2]
          BY <2>8, <1>inv DEF TypeOK
        <5> QED
          BY <2>2, <5>1 DEF Awaited
      <4>2. numLeft'[r] = Cardinality(Awaited(r)')
        <5>1. Cardinality(Awaited(r) \ {q}) = Cardinality(Awaited(r)) - 1
          BY <2>5, CountDown
        <5>2. numLeft'[r] = numLeft[r] - 1
          BY <2>2, <1>inv DEF TypeOK
        <5> QED
          BY <4>1, <5>1, <5>2, <2>6
      <4>3. \A q2 \in incoming'[r] :
                halo'[r][q2] \in {haloEpoch'[r] - 1, Before(haloEpoch[r] - 1)'}
        <5>1. \A q2 \in incoming[r] : halo[r][q2] \in {now, Before(now)}
          BY <2>0, <1>inv DEF Progress
        <5>2. Before(haloEpoch[r] - 1)' = Before(now)
          BY <2>2 DEF Before
        <5> QED
          BY <2>2, <2>8, <5>1, <5>2, <1>inv DEF TypeOK
      <4>4. outgoing'[r] = Interior(incoming, r)'
        BY <2>0, <2>2, <1>inv DEF Progress, Interior
      <4>5. base' <= haloEpoch'[r] /\ base' < haloEpoch'[r] /\ pc'[r] = "recvHalos"
        BY <2>0, <2>2
      <4> QED
        BY <3>1, <3>3, <2>2, <4>2, <4>3, <4>4, <4>5 DEF Progress
    <3> QED
      BY <3>2, <3>3
  <2> QED
    BY <2>7, <2>9, <2>10, <2>11, <2>12 DEF HaloInv
<1>7. ASSUME NEW r \in Rank, EndHalos(r) PROVE HaloInv'
  <2>1. /\ UNCHANGED <<incoming, outgoing, numLeft, haloEpoch, halo, net, base>>
        /\ pc[r] = "recvHalos" /\ pc' = [pc EXCEPT ![r] = "idle"] /\ numLeft[r] = 0
    BY <1>7 DEF EndHalos
  <2>2. \A q \in Rank : pc'[q] = "request" <=> pc[q] = "request"
    BY <2>1, <1>inv DEF TypeOK
  <2>3. TypeOK' /\ RequestsInFlight' /\ HalosInFlight' /\ NoFutureHalos'
    <3>1. TypeOK'
      BY <2>1, <1>inv DEF TypeOK
    <3>2. RequestsInFlight'
      BY <2>1, <2>2, <1>inv DEF RequestsInFlight
    <3> QED
      BY <2>1, <3>1, <3>2, <1>inv DEF HalosInFlight, NoFutureHalos
  <2>4. ASSUME NEW p \in Rank PROVE Progress(p)'
    <3>1. \A q \in outgoing[p] : pc'[q] # "request"
      BY <2>2, <1>inv DEF TypeOK, Progress
    <3>2. CASE p # r
      <4>1. pc'[p] = pc[p]
        BY <2>1, <3>2, <1>inv DEF TypeOK
      <4> QED
        BY <2>1, <3>1, <4>1, <1>inv, ProgressFrame
    <3>3. CASE p = r
      <4>1. Awaited(r) = {}
        <5>1. Awaited(r) \in SUBSET Rank
          BY <1>inv DEF Awaited, TypeOK
        <5>2. Cardinality(Awaited(r)) = 0
          BY <2>1, <1>inv DEF Progress
        <5> QED
          BY <5>1, <5>2, EmptyCount
      <4>2. base < haloEpoch[r] /\ base <= haloEpoch[r] /\ outgoing[r] = Interior(incoming, r)
        BY <2>1, <1>inv DEF Progress
      <4>3. Before(haloEpoch[r]) = haloEpoch[r] - 1
        BY <4>2, <1>inv, HaloAssumption DEF Before, TypeOK, Epoch
      <4>4. \A q \in incoming[r] : halo[r][q] = Before(haloEpoch[r])
        BY <4>1, <4>3 DEF Awaited
      <4>5. Interior(incoming, r)' = Interior(incoming, r)
        BY <2>1 DEF Interior
      <4>6. pc'[r] = "idle"
        BY <2>1, <1>inv DEF TypeOK
      <4> QED
        BY <2>1, <3>1, <3>3, <4>2, <4>4, <4>5, <4>6 DEF Progress, Before
    <3> QED
      BY <3>2, <3>3
  <2> QED
    BY <2>3, <2>4 DEF HaloInv
<1>8. CASE UNCHANGED vars
  <2>1. UNCHANGED <<pc, incoming, outgoing, numLeft, haloEpoch, halo, net, base>>
    BY <1>8 DEF vars
  <2>2. TypeOK'
    BY <2>1, <1>inv DEF TypeOK
  <2>3. RequestsInFlight' /\ HalosInFlight' /\ NoFutureHalos'
    BY <2>1, <1>inv DEF RequestsInFlight, HalosInFlight, NoFutureHalos
  <2>4. ASSUME NEW p \in Rank PROVE Progress(p)'
    <3>1. \A q \in outgoing[p] : pc'[q] # "request"
      BY <2>1, <1>inv DEF Progress
    <3> QED
      BY <2>1, <3>1, <1>inv, ProgressFrame
  <2> QED
    BY <2>2, <2>3, <2>4 DEF HaloInv
<1> QED
  BY <1>1, <1>2, <1>3, <1>4, <1>5, <1>6, <1>7, <1>8 DEF Next

\* HaloInv holds in every state: the messages in flight are exactly those that
\* exchangeRequests and exchangeHalos have sent and not received, and the number
\* of messages a rank waits for is the number still to come.
THEOREM HaloInvariance == Spec => []HaloInv
<1>1. HaloInv /\ [Next]_vars => HaloInv'
  BY StepInv
<1> QED
  BY InitInv, <1>1, PTL DEF Spec

\* The variables of class Halos stay within their types for any number of ranks.
THEOREM TypeCorrect == Spec => []TypeOK
<1>1. HaloInv => TypeOK
  BY DEF HaloInv
<1> QED
  BY HaloInvariance, <1>1, PTL

\* For any number of ranks and calls, exchangeHalos returns with the values the
\* owners had in the same call.
THEOREM HaloCurrentHolds == Spec => []HaloCurrent
<1>1. HaloInv => HaloCurrent
  <2> SUFFICES ASSUME HaloInv, NEW r \in Rank, pc[r] = "idle", haloEpoch[r] > base,
                      NEW q \in incoming[r]
               PROVE  halo[r][q] = haloEpoch[r] - 1
    BY DEF HaloCurrent
  <2>1. halo[r][q] = Before(haloEpoch[r])
    BY DEF HaloInv, Progress
  <2>2. haloEpoch[r] \in Nat /\ base \in Nat
    BY EpochNat DEF HaloInv, TypeOK
  <2> QED
    BY <2>1, <2>2 DEF Before
<1> QED
  BY HaloInvariance, <1>1, PTL

\* For any number of ranks, exchangeRequests returns with exactly the ranks that
\* need particles of the rank as destinations.
THEOREM PeersMatchedHolds == Spec => []PeersMatched
<1>1. HaloInv => PeersMatched
  BY DEF HaloInv, Progress, PeersMatched
<1> QED
  BY HaloInvariance, <1>1, PTL
=============================================================================
