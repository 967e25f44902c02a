-------------------------- MODULE ExchangeInvariant -------------------------
(***************************************************************************)
(* The inductive invariant CountInv of DomainExchange, from which          *)
(* NoStrayMessages follows, and the terms in which the proofs speak about  *)
(* the sort, the send ranges, the assignment and the steps of a rank.      *)
(***************************************************************************)
EXTENDS DomainExchange

-----------------------------------------------------------------------------
(* Sorting, send ranges and the assignment of keys *)

\* o is a permutation of the indices lo .. hi - 1
PermutesRange(o, lo, hi) ==
    /\ o \in [lo .. hi - 1 -> lo .. hi - 1]
    /\ \A i, j \in lo .. hi - 1 : o[i] = o[j] => i = j
    /\ \A k \in lo .. hi - 1 : \E i \in lo .. hi - 1 : o[i] = k

\* o sorts the keys ks of the indices lo .. hi - 1
SortsRange(o, ks, lo, hi) == \A i, j \in lo .. hi - 1 : i <= j => ks[o[i]] <= ks[o[j]]

\* descriptions of a buffer with an assigned range and halos around it
Descriptions == {d \in [start : Nat, end : Nat, size : Nat] : d.start <= d.end /\ d.end <= d.size}

\* the assigned particles of a buffer with keys from a to before b
Between(ks, d, a, b) == {i \in Range01(d) : a <= ks[i] /\ ks[i] < b}

\* the keys of the assigned particles of a buffer
KeysOf(ks, d) == \A i \in Range01(d) : ks[i] \in Int /\ i \in DOMAIN ks

\* the boundaries of the ranks: from the first key to behind the last one
Boundaries(bound) ==
    /\ bound \in [0 .. NumRanks -> 0 .. NumKeys]
    /\ bound[0] = 0 /\ bound[NumRanks] = NumKeys
    /\ \A p, q \in 0 .. NumRanks : p <= q => bound[p] <= bound[q]

\* the send ranges of a rank with n assigned particles
SendRanges(s, n) ==
    /\ s \in [0 .. NumRanks -> 0 .. n]
    /\ \A p, q \in 0 .. NumRanks : p <= q => s[p] <= s[q]

\* a divides the keys into ranges of ranks, of which it knows the numbers of particles
Assigns(a, counts) ==
    /\ Boundaries(a.bound)
    /\ \A q \in Rank : a.count[q] = SumFunctionOnSet(counts, a.bound[q] .. a.bound[q + 1] - 1)

\* the particles of all ranks in each leaf of the global tree
LeafCounts(ks, d) ==
    [k \in Key |-> SumFunction([r \in Rank |-> Cardinality({i \in Range01(d[r]) : ks[r][i] = k})])]

\* the particles each rank has for the keys from a to before b
CountsBetween(ks, d, a, b) == [r \in Rank |-> Cardinality(Between(ks[r], d[r], a, b))]

-----------------------------------------------------------------------------
(* The inductive invariant *)

\* what a slot of a buffer holds
Slot == Particle \cup {NoParticle}

Phases == {"moved", "sending", "receiving", "exchanged", "synced", "redoing", "done"}

\* the phases with the buffer of bufDesc enlarged for the incoming particles
Exchanging(r) == pc[r] \in {"sending", "receiving", "exchanged"}

\* the sends of exchange e are still to be posted
Waiting(e, r) == IF e = 0 THEN pc[r] = "sending" ELSE Exchanging(r) \/ pc[r] = "synced"

\* the buffer that the send ranges are about
SentDesc(r) == IF Exchanging(r) THEN bufDesc[r] ELSE prevDesc[r]

BufferSize(r) == IF Exchanging(r) THEN ExchangeBufferSize(bufDesc[r], NumIncoming(r)) ELSE bufDesc[r].size

Envelope(r) == AssignedEnvelope(SentDesc(r), NumIncoming(r))

\* the buffers of rank r, as far as the next steps depend on them
BuffersOK(r) ==
    /\ bufDesc[r] \in Descriptions /\ prevDesc[r] \in Descriptions
    /\ data[r] \in [0 .. BufferSize(r) - 1 -> Slot]
    /\ keys[r] \in [0 .. BufferSize(r) - 1 -> 0 .. NumKeys]
    /\ aux[r] \in [DOMAIN aux[r] -> Slot]
    /\ pc[r] = "redoing" => DOMAIN aux[r] = 0 .. ExchangeBufferSize(prevDesc[r], NumIncoming(r)) - 1
    /\ pc[r] \in {"synced", "redoing"} => bufDesc[r].end - bufDesc[r].start <= NumAssigned(r)
    /\ recv[r] \in [at : Int, end : Int]

OrderOK(r) ==
    /\ pc[r] \in {"sending", "receiving"} => PermutesRange(order[r], bufDesc[r].start, bufDesc[r].end)
    /\ pc[r] \in {"exchanged", "synced", "redoing"} => PermutesRange(order[r], Envelope(r).start, Envelope(r).end)

SendsOK(r) == SendRanges(sends[r], SentDesc(r).end - SentDesc(r).start)

\* what every rank sends to r
SentTo(r) == [src \in Rank |-> SendCount(sends[src], r)]

\* the assignment counts what the ranks send
AssignmentOK == Boundaries(asg.bound) /\ \A r \in Rank : asg.count[r] = SumFunctionOnSet(SentTo(r), Rank)

\* n elements make this many messages
NumChunks(n, fit) == (n + fit - 1) \div fit

\* the length of the c-th of them
ChunkSize(n, fit, c) == Min({c * fit, n}) - (c - 1) * fit

\* messages m are what is left of the n elements that were sent
Leftover(m, n, fit) ==
    /\ m \in Seq(Seq(Slot))
    /\ Len(m) <= NumChunks(n, fit)
    /\ \A c \in 1 .. Len(m) : Len(m[c]) = ChunkSize(n, fit, NumChunks(n, fit) - Len(m) + c)

ChannelOK(e, src, dst) ==
    /\ Leftover(net[e][src][dst], SendCount(sends[src], dst), NumFit[e])
    /\ src = dst \/ Waiting(e, src) => net[e][src][dst] = << >>

\* the number of elements in k messages that are left of n elements
LeftoverSize(k, n, fit) == IF k = 0 THEN 0 ELSE n - (NumChunks(n, fit) - k) * fit

\* the number of elements from src that dst has not received yet in exchange e
Due(e, src, dst) ==
    IF src = dst THEN 0
    ELSE IF Waiting(e, src) THEN SendCount(sends[src], dst)
    ELSE LeftoverSize(Len(net[e][src][dst]), SendCount(sends[src], dst), NumFit[e])

DueTo(e, r) == [src \in Rank |-> Due(e, src, r)]

\* the number of elements that r still expects
Expected(e, r) ==
    IF (e = 0 /\ pc[r] \in {"sending", "receiving"}) \/ (e = 1 /\ pc[r] = "redoing")
    THEN recv[r].end - recv[r].at
    ELSE IF e = 1 /\ Waiting(1, r) THEN NumIncoming(r) ELSE 0

CountOK(e, r) == SumFunctionOnSet(DueTo(e, r), Rank) = Expected(e, r)

\* the variables are arrays over the ranks
ArraysOK ==
    /\ pos \in [Particle -> Key] /\ alive \subseteq Particle /\ pc \in [Rank -> Phases]
    /\ DOMAIN data = Rank /\ DOMAIN keys = Rank /\ DOMAIN aux = Rank
    /\ DOMAIN bufDesc = Rank /\ DOMAIN prevDesc = Rank /\ DOMAIN order = Rank
    /\ DOMAIN sends = Rank /\ DOMAIN log = Rank /\ DOMAIN record = Rank /\ DOMAIN recv = Rank
    /\ DOMAIN net = {0, 1}
    /\ \A e \in {0, 1} : DOMAIN net[e] = Rank /\ \A r \in Rank : DOMAIN net[e][r] = Rank

\* the inductive invariant of the exchange: every rank expects as many elements as are sent to
\* it and not received
CountInv ==
    /\ ArraysOK /\ AssignmentOK
    /\ \A r \in Rank : BuffersOK(r) /\ OrderOK(r) /\ SendsOK(r)
    /\ \A e \in {0, 1} : \A r \in Rank : CountOK(e, r) /\ \A dst \in Rank : ChannelOK(e, r, dst)

-----------------------------------------------------------------------------
(* Messages, parts of the invariant and the effects of a step *)

\* the elements of messages m are those of arr in order o, from index base
Carries(m, arr, o, base, n, fit) ==
    \A c \in 1 .. NumChunks(n, fit) : \A j \in 1 .. ChunkSize(n, fit, c) :
        m[c][j] = arr[o[base + (c - 1) * fit + j - 1]]

\* the elements of arr that are sent to rank q exist
Sendable(arr, o, base, s, q) ==
    /\ s[q] \in Nat /\ SendCount(s, q) \in Nat
    /\ \A j \in 1 .. SendCount(s, q) : arr[o[base + s[q] + j - 1]] \in Slot

\* the messages m are all those of n elements
AllMessages(m, n, fit) == Leftover(m, n, fit) /\ LeftoverSize(Len(m), n, fit) = n

\* the assignment and the send ranges belong together
SendsKnown ==
    /\ AssignmentOK
    /\ \A r \in Rank : SendsOK(r) /\ bufDesc[r] \in Descriptions /\ prevDesc[r] \in Descriptions

\* Every rank receives a number of particles.
IncomingKnown == \A r \in Rank : NumIncoming(r) \in Nat

\* while no rank has sent, every rank is due what it is assigned and does not have
AllDue ==
    \A e \in {0, 1} : (\A q \in Rank : Waiting(e, q)) =>
        \A r \in Rank : SumFunctionOnSet(DueTo(e, r), Rank) = NumIncoming(r)

\* the part of the state that belongs to rank r
Entries(r) == <<pc[r], data[r], keys[r], aux[r], bufDesc[r], prevDesc[r], order[r], recv[r]>>

RankOK(r) == BuffersOK(r) /\ OrderOK(r) /\ SendsOK(r)

ExchangeOK(e) == \A r \in Rank : CountOK(e, r) /\ \A dst \in Rank : ChannelOK(e, r, dst)

\* r posts the messages M[q] to the other ranks q in exchange e
Posts(e, r, M) ==
    /\ sends' = sends
    /\ Waiting(e, r) /\ ~Waiting(e, r)'
    /\ \A q \in Rank \ {r} : Waiting(e, q)' <=> Waiting(e, q)
    /\ \A q \in Rank : Expected(e, q)' = Expected(e, q)
    /\ \A src, dst \in Rank : net'[e][src][dst] = IF src = r /\ dst # r THEN M[dst] ELSE net[e][src][dst]
    /\ \A q \in Rank \ {r} : AllMessages(M[q], SendCount(sends[r], q), NumFit[e])

\* r takes the first message from src in exchange e
Takes(e, r, src) ==
    /\ sends' = sends
    /\ net[e][src][r] # << >>
    /\ \A q \in Rank : Waiting(e, q)' <=> Waiting(e, q)
    /\ \A q \in Rank \ {r} : Expected(e, q)' = Expected(e, q)
    /\ Expected(e, r)' = Expected(e, r) - Len(Head(net[e][src][r]))
    /\ \A s, dst \in Rank : net'[e][s][dst] = IF s = src /\ dst = r THEN Tail(net[e][src][r]) ELSE net[e][s][dst]

\* the channels of both exchanges
NetOK == DOMAIN net = {0, 1} /\ \A e \in {0, 1} : DOMAIN net[e] = Rank /\ \A r \in Rank : DOMAIN net[e][r] = Rank

NetEmpty == \A e \in {0, 1} : \A src, dst \in Rank : net[e][src][dst] = << >>

ChannelsOK ==
    \A e \in {0, 1} : \A src, dst \in Rank :
        /\ ChannelOK(e, src, dst) /\ Due(e, src, dst) \in Nat
        /\ ~Waiting(e, src) => Due(e, src, dst) = 0
=============================================================================
