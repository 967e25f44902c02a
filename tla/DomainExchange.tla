--------------------------- MODULE DomainExchange ---------------------------
(***************************************************************************)
(* The particle exchange of Domain::sync and Domain::reapplySync.          *)
(*                                                                         *)
(* Every rank holds a particle buffer with a locally assigned range        *)
(* [start:end) and halos around it.  A sync computes an assignment of SFC  *)
(* key ranges to ranks, sends every particle that is now assigned          *)
(* elsewhere, receives the incoming ones in whatever order the messages    *)
(* arrive, sorts, and places assigned particles and halos in a new layout. *)
(* reapplySync repeats the recorded exchange for one more array.           *)
(*                                                                         *)
(* Data abstraction: the particle fields moved by sync are one array of    *)
(* particle identities (data), the field moved later by reapplySync is a   *)
(* second one (aux), a particle's coordinates are its SFC key (pos), and   *)
(* the global tree has one leaf per key.                                   *)
(***************************************************************************)
EXTENDS Integers, FiniteSets, Sequences, FiniteSetsExt, Functions

CONSTANTS
    NumRanks,     \* ranks of the communicator
    NumParticles, \* particles at startup
    NumKeys,      \* nodeRange(0): keys are 0 .. NumKeys - 1
    InitialOwner, \* InitialOwner[p]: the rank particle p starts on
    NumFit,       \* NumFit[epoch]: elements that fit into one message
    Eager,        \* MPI buffers messages, instead of waiting for their receipt
    MaxHalos,     \* bound: MaxHalos[n], halos on either side of the assigned range after n syncs
    MaxSync,      \* bound: number of calls to sync
    MaxRemoved    \* bound: number of particles marked for removal

ASSUME ExchangeAssumption ==
    /\ NumRanks \in Nat \ {0} /\ NumParticles \in Nat /\ NumKeys \in Nat \ {0}
    /\ InitialOwner \in [1 .. NumParticles -> 0 .. NumRanks - 1]
    /\ NumFit \in [{0, 1} -> Nat \ {0}]
    /\ Eager \in BOOLEAN
    /\ MaxSync \in Nat /\ MaxRemoved \in Nat /\ MaxHalos \in [0 .. MaxSync -> Nat]

Rank      == 0 .. NumRanks - 1
Particle  == 1 .. NumParticles
Key       == 0 .. NumKeys - 1
RemoveKey == NumKeys
NoParticle == 0

VARIABLES
    pos,       \* pos[p]: the SFC key of the coordinates of particle p
    alive,     \* particles not marked for removal
    pc,        \* pc[r]: what rank r is doing
    data,      \* data[r]: particle buffer of r, indexed from 0
    keys,      \* keys[r]: SFC keys of r, same indices
    aux,       \* aux[r]: the array handed to reapplySync
    bufDesc,   \* bufDesc_
    prevDesc,  \* prevBufDesc_
    order,     \* order[r]: the SFC order of the sorter, buffer index -> buffer index
    asg,       \* assignment_: the same on all ranks
    sends,     \* sends[r]: exchanges_
    log,       \* log[r]: recvLog_
    record,    \* record[r]: whether the running exchange fills the log
    recv,      \* recv[r]: [at, end] of the running receive loop
    net,       \* net[epoch][src][dst]: messages in flight, in order
    numSync    \* calls to sync so far

vars == <<pos, alive, pc, data, keys, aux, bufDesc, prevDesc, order, asg, sends,
          log, record, recv, net, numSync>>

-----------------------------------------------------------------------------
(* Sorted-sequence helpers on arrays indexed from 0 *)

\* std::lower_bound of v in the sorted range [lo:hi) of a, relative to lo
LowerBound(a, lo, hi, v) == Cardinality({i \in lo .. hi - 1 : a[i] < v})

\* (mutant) equal keys change their order, as std::sort may do
UnstableOrder(ks, lo, hi) ==
    LET Before(p, q) == ks[p] < ks[q] \/ (ks[p] = ks[q] /\ p > q)
        Place(p)     == lo + Cardinality({q \in lo .. hi - 1 : Before(q, p)})
    IN  [i \in lo .. hi - 1 |-> CHOOSE p \in lo .. hi - 1 : Place(p) = i]

\* sort_by_key: the stable order of the range [lo:hi) of the keys ks
SortOrder(ks, lo, hi) ==
    LET Before(p, q) == ks[p] < ks[q] \/ (ks[p] = ks[q] /\ p < q)
        Place(p)     == lo + Cardinality({q \in lo .. hi - 1 : Before(q, p)})
    IN  [i \in lo .. hi - 1 |-> CHOOSE p \in lo .. hi - 1 : Place(p) = i]

\* the array a with its range permuted by o
Permuted(a, o) == [i \in DOMAIN a |-> IF i \in DOMAIN o THEN a[o[i]] ELSE a[i]]

\* resize an array to n elements, new elements being v
Resized(a, n, v) == [i \in 0 .. n - 1 |-> IF i \in DOMAIN a THEN a[i] ELSE v]

-----------------------------------------------------------------------------
(* Domain decomposition *)

\* determine bins that produce a histogram with uniform number of elements
UniformBins(counts) ==
    LET n       == Cardinality(DOMAIN counts)
        scan    == [i \in 0 .. n |-> SumFunctionOnSet(counts, 0 .. i - 1)]
        Target(b) == (b * scan[n]) \div NumRanks
        bins    == [b \in 0 .. NumRanks |->
                      IF b = 0 THEN 0
                      ELSE IF b = NumRanks THEN n
                      ELSE Min({i \in 0 .. n : scan[i] >= Target(b)})]
    IN  [bins |-> bins, counts |-> [b \in Rank |-> scan[bins[b + 1]] - scan[bins[b]]]]

\* rank boundaries and particle counts; leaf i of the tree starts at key i
MakeSfcAssignment(counts) ==
    LET b == UniformBins(counts)
    IN  [bound |-> b.bins, count |-> b.counts]

\* index ranges of the sorted local keys that belong to each rank
CreateSendRanges(a, ks, d) ==
    [q \in 0 .. NumRanks |-> LowerBound(ks, d.start, d.end, a.bound[q])]

\* send ranges valid after numIncoming received particles were sorted in
ShiftSendRanges(s, r, numIncoming) ==
    [q \in 0 .. NumRanks |-> IF q > r THEN s[q] + numIncoming ELSE s[q]]

SendCount(s, q) == IF s[q + 1] >= s[q] THEN s[q + 1] - s[q] ELSE 0

-----------------------------------------------------------------------------
(* Buffer description *)

ExchangeBufferSize(d, numIncoming) ==
    IF d.start >= numIncoming \/ d.size - d.end >= numIncoming
    THEN d.size ELSE d.end + numIncoming

ReceiveStart(d, numIncoming) ==
    IF d.start >= numIncoming THEN d.start - numIncoming ELSE d.end

AssignedEnvelope(d, numIncoming) ==
    IF d.start >= numIncoming
    THEN [start |-> d.start - numIncoming, end |-> d.end]
    ELSE [start |-> d.start, end |-> d.end + numIncoming]

NumSendDown(r) == sends[r][r]
NumPresent(r)  == SendCount(sends[r], r)
NumAssigned(r) == asg.count[r]
NumIncoming(r) == NumAssigned(r) - NumPresent(r)

\* the assigned range of a buffer description
Range01(d) == d.start .. d.end - 1

\* (mutant) the removal mark is overwritten
RecomputeAllKeys(ks, dat, I, at) ==
    [i \in DOMAIN ks |-> IF i \in I /\ dat[i] # NoParticle THEN at[dat[i]] ELSE ks[i]]

\* computeSfcKeys on the indices I: a key marked for removal is kept
ComputeSfcKeys(ks, dat, I, at) ==
    [i \in DOMAIN ks |-> IF i \in I /\ ks[i] # RemoveKey /\ dat[i] # NoParticle
                         THEN at[dat[i]] ELSE ks[i]]

-----------------------------------------------------------------------------
(* Messages *)

\* (mutant) a send that fills its last message is followed by an empty one
MessagesTrailing(e, arr, o, base, s, q) ==
    LET n     == SendCount(s, q)
        fit   == NumFit[e]
        elems == [j \in 1 .. n |-> arr[o[base + s[q] + j - 1]]]
    IN  [c \in 1 .. (IF n = 0 THEN 0 ELSE n \div fit + 1) |->
            SubSeq(elems, (c - 1) * fit + 1, Min({c * fit, n}))]

\* the messages to rank q: the elements of arr selected through the order o,
\* in chunks of at most NumFit[e] elements
Messages(e, arr, o, base, s, q) ==
    LET n     == SendCount(s, q)
        fit   == NumFit[e]
        elems == [j \in 1 .. n |-> arr[o[base + s[q] + j - 1]]]
    IN  [c \in 1 .. (n + fit - 1) \div fit |->
            SubSeq(elems, (c - 1) * fit + 1, Min({c * fit, n}))]

\* the network after r posted all its sends of exchange e
Posted(e, r, arr, o, base, s) ==
    [net EXCEPT ![e][r] =
        [q \in Rank |-> net[e][r][q] \o
            (IF q = r THEN <<>> ELSE Messages(e, arr, o, base, s, q))]]

\* ExchangeLog::lookup, the first entry of rank src
Lookup(lg, src) ==
    lg[Min({i \in DOMAIN lg : lg[i].rank = src})].location

\* where the message at the head of net[e][src][r] is placed
Location(r, src) == IF record[r] THEN recv[r].at ELSE Lookup(log[r], src)

\* arr with message m copied to loc
Scattered(arr, m, loc) ==
    [i \in DOMAIN arr |-> IF i - loc + 1 \in DOMAIN m THEN m[i - loc + 1] ELSE arr[i]]

\* one turn of the receive loop of exchangeParticles, up to the copy
ReceiveMessage(e, r, src) ==
    /\ recv[r].at # recv[r].end
    /\ net[e][src][r] # <<>>
    /\ net' = [net EXCEPT ![e][src][r] = Tail(@)]
    /\ log' = IF record[r]
              THEN [log EXCEPT ![r] = Append(@, [rank |-> src, location |-> recv[r].at])]
              ELSE log
    /\ recv' = [recv EXCEPT ![r].at = @ + Len(Head(net[e][src][r]))]

\* MPI_Waitall on the sends of exchangeParticles
SendsComplete(e, r) == Eager \/ \A dst \in Rank : net[e][r][dst] = <<>>

-----------------------------------------------------------------------------
(* Actions *)

\* GlobalAssignment::assign on all ranks (it contains collectives), followed by
\* the reallocation in Domain::distribute and the start of the exchange
Assign ==
    LET fresh  == [r \in Rank |-> ComputeSfcKeys(keys[r], data[r], Range01(bufDesc[r]), pos)]
        ord    == [r \in Rank |-> SortOrder(fresh[r], bufDesc[r].start, bufDesc[r].end)]
        sorted == [r \in Rank |-> Permuted(fresh[r], ord[r])]
        InLeaf(k, r) == Cardinality({i \in Range01(bufDesc[r]) : fresh[r][i] = k})
        counts == [k \in Key |-> SumFunction([r \in Rank |-> InLeaf(k, r)])]
        a      == MakeSfcAssignment(counts)
        s      == [r \in Rank |-> CreateSendRanges(a, sorted[r], bufDesc[r])]
        In(r)  == a.count[r] - SendCount(s[r], r)
        Size(r)  == ExchangeBufferSize(bufDesc[r], In(r))
        Start(r) == ReceiveStart([bufDesc[r] EXCEPT !.size = Size(r)], In(r))
    IN  /\ \A r \in Rank : pc[r] = "moved"
        /\ numSync < MaxSync
        /\ numSync' = numSync + 1
        /\ asg' = a
        /\ sends' = s
        /\ order' = ord
        /\ keys' = [r \in Rank |-> Resized(sorted[r], Size(r), 0)]
        /\ data' = [r \in Rank |-> Resized(data[r], Size(r), NoParticle)]
        /\ log' = [r \in Rank |-> <<>>]
        /\ record' = [r \in Rank |-> TRUE]
        /\ recv' = [r \in Rank |-> [at |-> Start(r), end |-> Start(r) + In(r)]]
        /\ pc' = [r \in Rank |-> "sending"]
        /\ UNCHANGED <<pos, alive, aux, bufDesc, prevDesc, net>>

\* the send loop of exchangeParticles, all sends are asynchronous
SendParticles(r) ==
    /\ pc[r] = "sending"
    /\ net' = Posted(0, r, data[r], order[r], bufDesc[r].start, sends[r])
    /\ pc' = [pc EXCEPT ![r] = "receiving"]
    /\ UNCHANGED <<pos, alive, data, keys, aux, bufDesc, prevDesc, order, asg, sends,
                   log, record, recv, numSync>>

\* receive from any source
ReceiveParticles(r, src) ==
    /\ pc[r] = "receiving"
    /\ ReceiveMessage(0, r, src)
    /\ data' = [data EXCEPT ![r] = Scattered(@, Head(net[0][src][r]), Location(r, src))]
    /\ UNCHANGED <<pos, alive, pc, keys, aux, bufDesc, prevDesc, order, asg, sends,
                   record, numSync>>

\* GlobalAssignment::distribute after the exchange: keys of the received
\* particles, then a sort of the envelope that contains all assigned particles
FinishDistribute(r) ==
    LET n     == NumIncoming(r)
        rs    == ReceiveStart(bufDesc[r], n)
        env   == AssignedEnvelope(bufDesc[r], n)
        ks    == ComputeSfcKeys(keys[r], data[r], rs .. rs + n - 1, pos)
        map   == [i \in env.start .. env.end - 1 |->
                    IF i \in rs .. rs + n - 1 THEN i ELSE order[r][i]]
        ord   == SortOrder(ks, env.start, env.end)
    IN  /\ pc[r] = "receiving"
        /\ recv[r].at = recv[r].end
        /\ SendsComplete(0, r)
        /\ keys' = [keys EXCEPT ![r] = Permuted(ks, ord)]
        /\ order' = [order EXCEPT ![r] = [i \in DOMAIN ord |-> map[ord[i]]]]
        /\ pc' = [pc EXCEPT ![r] = "exchanged"]
        /\ UNCHANGED <<pos, alive, data, aux, bufDesc, prevDesc, asg, sends, log,
                       record, recv, net, numSync>>

\* first key of the assigned particles after the exchange
PostExchangeStart(r, d) == AssignedEnvelope(d, NumIncoming(r)).start + NumSendDown(r)

\* (mutant) the buffers are not gathered through the SFC order
UnorderedIndex(r, j) == PostExchangeStart(r, bufDesc[r]) + j

\* keyView: position j = 0 .. NumAssigned - 1 of the sorted envelope, and the
\* buffer index its particle is stored at
ViewKey(r, j) == keys[r][PostExchangeStart(r, bufDesc[r]) + j]
ViewIndex(r, j) == order[r][PostExchangeStart(r, bufDesc[r]) + j]

\* number of assigned particles the focus tree counts in the leaves of r
NumCounted(r) ==
    Cardinality({j \in 0 .. NumAssigned(r) - 1 :
                    asg.bound[r] <= ViewKey(r, j) /\ ViewKey(r, j) < asg.bound[r + 1]})

\* SfcAssignment::findRank
FindRank(k) == Max({q \in Rank : asg.bound[q] <= k})

\* a set of halo particles in SFC order, as a sequence
InSfcOrder(H) ==
    LET Before(p, q) == pos[p] < pos[q] \/ (pos[p] = pos[q] /\ p < q)
    IN  [n \in 1 .. Cardinality(H) |->
            CHOOSE p \in H : Cardinality({q \in H : Before(q, p)}) = n - 1]

\* Domain::updateLayout and setupHalos, after the collectives of the halo
\* discovery: L and H are the halos below and above the assigned range
UpdateLayout(r, L, H) ==
    LET low  == InSfcOrder(L)
        high == InSfcOrder(H)
        n    == NumAssigned(r)
        new  == [start |-> Len(low), end |-> Len(low) + NumCounted(r),
                 size |-> Len(low) + NumCounted(r) + Len(high)]
        dat  == [i \in 0 .. new.size - 1 |->
                   IF i < new.start THEN low[i + 1]
                   ELSE IF i < new.end THEN data[r][ViewIndex(r, i - new.start)]
                   ELSE high[i - new.end + 1]]
        kept == [i \in 0 .. new.size - 1 |->
                   IF i \in new.start .. new.start + n - 1 THEN ViewKey(r, i - new.start)
                   ELSE IF i < bufDesc[r].size THEN keys[r][i] ELSE 0]
    IN  /\ pc[r] = "exchanged"
        /\ \A q \in Rank : pc[q] \notin {"sending", "receiving"}
        /\ data' = [data EXCEPT ![r] = dat]
        /\ keys' = [keys EXCEPT ![r] =
                      ComputeSfcKeys(kept, dat, DOMAIN dat \ Range01(new), pos)]
        /\ prevDesc' = [prevDesc EXCEPT ![r] = bufDesc[r]]
        /\ bufDesc' = [bufDesc EXCEPT ![r] = new]
        /\ pc' = [pc EXCEPT ![r] = "synced"]
        /\ UNCHANGED <<pos, alive, aux, order, asg, sends, log, record, recv, net, numSync>>

\* reapplySync up to the end of the send loop of redoExchange
RedoSend(r) ==
    LET n    == NumIncoming(r)
        size == ExchangeBufferSize(prevDesc[r], n)
        env  == AssignedEnvelope(prevDesc[r], n)
        rs   == ReceiveStart([prevDesc[r] EXCEPT !.size = size], n)
        arr  == Resized(aux[r], size, NoParticle)
    IN  /\ pc[r] = "synced"
        /\ aux' = [aux EXCEPT ![r] = arr]
        /\ record' = [record EXCEPT ![r] = log[r] = <<>>]
        /\ recv' = [recv EXCEPT ![r] = [at |-> rs, end |-> rs + n]]
        /\ net' = Posted(1, r, arr, order[r], env.start, ShiftSendRanges(sends[r], r, n))
        /\ pc' = [pc EXCEPT ![r] = "redoing"]
        /\ UNCHANGED <<pos, alive, data, keys, bufDesc, prevDesc, order, asg, sends, log, numSync>>

RedoReceive(r, src) ==
    /\ pc[r] = "redoing"
    /\ ReceiveMessage(1, r, src)
    /\ aux' = [aux EXCEPT ![r] = Scattered(@, Head(net[1][src][r]), Location(r, src))]
    /\ UNCHANGED <<pos, alive, pc, data, keys, bufDesc, prevDesc, order, asg, sends,
                   record, numSync>>

\* the gather at the end of reapplySync
FinishRedo(r) ==
    LET first == PostExchangeStart(r, prevDesc[r])
        d     == bufDesc[r]
    IN  /\ pc[r] = "redoing"
        /\ recv[r].at = recv[r].end
        /\ SendsComplete(1, r)
        /\ aux' = [aux EXCEPT ![r] =
                     [i \in 0 .. d.size - 1 |->
                        IF i \in Range01(d) THEN @[order[r][first + i - d.start]] ELSE NoParticle]]
        /\ pc' = [pc EXCEPT ![r] = "done"]
        /\ UNCHANGED <<pos, alive, data, keys, bufDesc, prevDesc, order, asg, sends, log,
                       record, recv, net, numSync>>

\* the particles assigned to r
Local(r) == {data[r][i] : i \in Range01(bufDesc[r])}

\* the time step: particles of r move, and some of them are marked for removal
\* by setting their key (updateSmoothingLength, computeAccretionCondition)
Integrate(r, to, gone) ==
    /\ pc[r] = "done"
    /\ numSync < MaxSync
    /\ NumParticles - Cardinality(alive) + Cardinality(gone) <= MaxRemoved
    /\ pos' = [p \in Particle |-> IF p \in Local(r) THEN to[p] ELSE pos[p]]
    /\ alive' = alive \ gone
    /\ keys' = [keys EXCEPT ![r] = [i \in DOMAIN @ |->
                  IF i \in Range01(bufDesc[r]) /\ data[r][i] \in gone THEN RemoveKey ELSE @[i]]]
    /\ pc' = [pc EXCEPT ![r] = "moved"]
    /\ UNCHANGED <<data, aux, bufDesc, prevDesc, order, asg, sends, log, record, recv,
                   net, numSync>>

\* the main loop ends after the last step
Stop == /\ numSync = MaxSync
        /\ \A r \in Rank : pc[r] = "done"
        /\ UNCHANGED vars

Below(r) == {p \in alive : FindRank(pos[p]) < r}
Above(r) == {p \in alive : FindRank(pos[p]) > r}
AtMost(n, S) == {T \in SUBSET S : Cardinality(T) <= n}

\* initially particles have any coordinates, in buffers without halos
Init ==
    \E at \in [Particle -> Key] :
        LET own(r) == {p \in Particle : InitialOwner[p] = r}
            size(r) == Cardinality(own(r))
            arr(r) == [i \in 0 .. size(r) - 1 |->
                         CHOOSE p \in own(r) : Cardinality({q \in own(r) : q < p}) = i]
            desc(r) == [start |-> 0, end |-> size(r), size |-> size(r)]
        IN  /\ pos = at
            /\ alive = Particle
            /\ pc = [r \in Rank |-> "moved"]
            /\ data = [r \in Rank |-> arr(r)]
            /\ aux = [r \in Rank |-> arr(r)]
            /\ keys = [r \in Rank |-> [i \in 0 .. size(r) - 1 |-> 0]]
            /\ bufDesc = [r \in Rank |-> desc(r)]
            /\ prevDesc = [r \in Rank |-> desc(r)]
            /\ order = [r \in Rank |-> << >>]
            /\ asg = MakeSfcAssignment([k \in Key |-> 0])
            /\ sends = [r \in Rank |-> [q \in 0 .. NumRanks |-> 0]]
            /\ log = [r \in Rank |-> << >>]
            /\ record = [r \in Rank |-> TRUE]
            /\ recv = [r \in Rank |-> [at |-> 0, end |-> 0]]
            /\ net = [e \in {0, 1} |-> [r \in Rank |-> [q \in Rank |-> << >>]]]
            /\ numSync = 0

Next ==
    \/ Assign
    \/ \E r \in Rank : SendParticles(r)
    \/ \E r, src \in Rank : ReceiveParticles(r, src)
    \/ \E r \in Rank : FinishDistribute(r)
    \/ \E r \in Rank : \E L \in AtMost(MaxHalos[numSync], Below(r)), H \in AtMost(MaxHalos[numSync], Above(r)) :
          UpdateLayout(r, L, H)
    \/ \E r \in Rank : RedoSend(r)
    \/ \E r, src \in Rank : RedoReceive(r, src)
    \/ \E r \in Rank : FinishRedo(r)
    \/ \E r \in Rank : \E to \in [Local(r) -> Key], gone \in AtMost(MaxRemoved, Local(r)) :
          Integrate(r, to, gone)
    \/ Stop

Spec == Init /\ [][Next]_vars

-----------------------------------------------------------------------------
(* Properties *)

Placed(r) == pc[r] \in {"synced", "redoing", "done"}

\* No particle is lost, duplicated or resurrected: once all ranks have placed
\* their particles after a sync, every particle not marked for removal is
\* assigned to exactly one slot of one rank, and no removed particle is left.
\* (exchangeParticles, distribute and updateLayout together)
ParticlesConserved ==
    (\A r \in Rank : Placed(r)) =>
        /\ \A p \in Particle :
             LET slots == {x \in Rank \X (0 .. NumParticles * 3) :
                             x[2] \in Range01(bufDesc[x[1]]) /\ data[x[1]][x[2]] = p}
             IN  Cardinality(slots) = IF p \in alive THEN 1 ELSE 0
        /\ \A r \in Rank : NoParticle \notin Local(r)

\* After a sync the assigned range of a rank is sorted along the SFC, its keys
\* are those of its particles, and they lie in the rank's SFC segment, although
\* keys and coordinates were sorted, received and moved separately.
SfcSorted ==
    \A r \in Rank : Placed(r) =>
        /\ \A i \in Range01(bufDesc[r]) :
             /\ keys[r][i] = pos[data[r][i]]
             /\ asg.bound[r] <= keys[r][i] /\ keys[r][i] < asg.bound[r + 1]
        /\ \A i, j \in Range01(bufDesc[r]) : i < j => keys[r][i] <= keys[r][j]

\* A rank leaves an exchange only when every message sent to it in that exchange
\* was consumed, so messages of consecutive exchanges cannot be mixed up.
NoStrayMessages ==
    \A r, src \in Rank :
        /\ pc[r] \notin {"sending", "receiving"} => net[0][src][r] = << >>
        /\ pc[r] \in {"done", "moved"} => net[1][src][r] = << >>

\* the sends to rank r fitted into one message each
Unsplit(r) == \A i, j \in DOMAIN log[r] : log[r][i].rank = log[r][j].rank => i = j

\* reapplySync puts every element of the additional array next to the other
\* fields of the same particle, whatever order the messages of either exchange
\* arrived in.  This is so on ranks that received one message per source: the
\* log has the places of all messages, but lookup finds the first one of a
\* source, and reapplySync puts all messages of a split send there.
ReapplyMatches ==
    \A r \in Rank : pc[r] = "done" /\ Unsplit(r) =>
        \A i \in Range01(bufDesc[r]) : aux[r][i] = data[r][i]
=============================================================================
