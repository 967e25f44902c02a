--------------------------- MODULE SfcOrderProofs ---------------------------
(***************************************************************************)
(* After a sync the particles of a rank are sorted along the space-filling *)
(* curve and lie in the rank's segment of it: SfcSorted of DomainExchange, *)
(* for every value of the constants.  The inductive invariant SortInv says *)
(* of every phase of a rank which keys belong to which particles, and of   *)
(* every message that its particles lie in the segment of the receiver.    *)
(***************************************************************************)
EXTENDS ExchangeProofs

\* Zenon first: in a context as large as this one it is the faster of the two provers.
USE ZenonT(10), SMTT(30)

-----------------------------------------------------------------------------
(* The inductive invariant *)

\* k is a key of the segment that is assigned to r
InSegment(r, k) == asg.bound[r] <= k /\ k < asg.bound[r + 1]

\* x is a particle of the segment of r
BelongsTo(r, x) == x \in Particle /\ InSegment(r, pos[x])

\* r is in exchangeParticles of sync
Unfinished(r) == pc[r] \in {"sending", "receiving"}

\* r has all its particles and has not moved them yet
Late(r) == pc[r] \in {"exchanged", "synced", "redoing", "done"}

\* k is the key of particle x
KeyOf(k, x) == x \in Particle /\ k = pos[x]

\* the keys of the local particles are known in the order of the sorter, and divided by
\* the send ranges as the segments divide them
OwnOK(r) ==
    \A i \in Range01(bufDesc[r]) :
        /\ keys[r][i] # RemoveKey => KeyOf(keys[r][i], data[r][order[r][i]])
        /\ \A q \in 0 .. NumRanks : keys[r][i] < asg.bound[q] <=> i < bufDesc[r].start + sends[r][q]

\* the particles received so far fill the receive buffer from its start
ReceivedOK(r) ==
    LET rs == ReceiveStart(bufDesc[r], NumIncoming(r))
    IN  /\ record[r] = TRUE
        /\ rs <= recv[r].at /\ recv[r].end = rs + NumIncoming(r)
        /\ \A i \in rs .. recv[r].at - 1 : BelongsTo(r, data[r][i])

\* the positions of the key view, and those with a key of the segment
View(r)    == 0 .. NumAssigned(r) - 1
Counted(r) == {j \in View(r) : ViewKey(r, j) < asg.bound[r + 1]}

\* the key view is sorted and starts in the segment
ViewOK(r) ==
    /\ \A j, k \in View(r) : j <= k => ViewKey(r, j) <= ViewKey(r, k)
    /\ \A j \in View(r) : asg.bound[r] <= ViewKey(r, j)
    /\ \A j \in Counted(r) : KeyOf(ViewKey(r, j), data[r][ViewIndex(r, j)])

\* what SfcSorted says of a rank
PlacedOK(r) ==
    /\ \A i \in Range01(bufDesc[r]) : KeyOf(keys[r][i], data[r][i]) /\ InSegment(r, keys[r][i])
    /\ \A i, j \in Range01(bufDesc[r]) : i < j => keys[r][i] <= keys[r][j]

MovedOK(r) == \A i \in Range01(bufDesc[r]) : data[r][i] \in Particle

SortOK(r) ==
    /\ pc[r] = "moved" => MovedOK(r)
    /\ Unfinished(r) => OwnOK(r) /\ ReceivedOK(r)
    /\ pc[r] = "exchanged" => ViewOK(r)
    /\ Placed(r) => PlacedOK(r)

\* the particles that r has and has not moved yet
Held(r) ==
    IF pc[r] = "exchanged" THEN {data[r][ViewIndex(r, j)] : j \in Counted(r)} ELSE Local(r)

\* the messages m to rank q have particles of its segment
Addressed(m, q) == \A c \in 1 .. Len(m) : \A j \in 1 .. Len(m[c]) : BelongsTo(q, m[c][j])

InFlightOK == \A src, dst \in Rank : Addressed(net[0][src][dst], dst)

\* the elements of the messages m are among the n elements of arr from index b in order o
DrawnFrom(m, arr, o, b, n) ==
    \A c \in 1 .. Len(m) : \A j \in 1 .. Len(m[c]) : \E k \in 1 .. n : m[c][j] = arr[o[b + k - 1]]

\* no rank moves its particles while another one is still in exchangeParticles
Together == \A r \in Rank : Unfinished(r) => \A q \in Rank : Exchanging(q)

\* no particle is held by two ranks
Apart == \A r, q \in Rank : r # q /\ Late(r) /\ Late(q) => Held(r) \cap Held(q) = {}

\* a rank in its receive loop has not passed the end of it
ReceiveInBounds == \A r \in Rank : Unfinished(r) => recv[r].at <= recv[r].end

\* the ranks that have exchanged hold particles of their segments
HeldInSegment ==
    \A r \in Rank : pc[r] = "exchanged" /\ ViewOK(r) => \A x \in Held(r) : BelongsTo(r, x)

SortInv == (\A r \in Rank : SortOK(r)) /\ InFlightOK /\ Together /\ Apart

-----------------------------------------------------------------------------
(* Sorted ranges *)
\* In sorted keys those below a value come first.
LEMMA SortedCut ==
    ASSUME NEW lo \in Nat, NEW hi \in Nat, NEW ks, \A i \in lo .. hi - 1 : ks[i] \in Int,
           NEW o, PermutesRange(o, lo, hi), SortsRange(o, ks, lo, hi), NEW v \in Int
    PROVE  \A i \in lo .. hi - 1 : ks[o[i]] < v <=> i < lo + Cardinality({k \in lo .. hi - 1 : ks[k] < v})
<1> DEFINE D == lo .. hi - 1
           A == {i \in D : ks[o[i]] < v}
           B == {i \in D : ks[i] < v}
<1>1. IsFiniteSet(D)
  <2>1. lo \in Int /\ hi - 1 \in Int
    OBVIOUS
  <2> QED
    BY <2>1, FS_Interval
<1>2. /\ o \in [D -> D] /\ \A i, j \in D : o[i] = o[j] => i = j
      /\ \A k \in D : \E i \in D : o[i] = k
  BY DEF PermutesRange
<1>3. A \in SUBSET D /\ B \in SUBSET D /\ \A i \in D : i \in A <=> o[i] \in B
  BY <1>2
<1>4. ASSUME NEW i \in D, NEW j \in D, i <= j, j \in A PROVE i \in A
  <2> DEFINE x == ks[o[i]]
             y == ks[o[j]]
  <2>1. o[i] \in D /\ o[j] \in D
    BY <1>2
  <2>2. x \in Int /\ y \in Int /\ x <= y /\ y < v
    BY <1>4, <2>1 DEF SortsRange
  <2> HIDE DEF x, y
  <2>3. x < v
    BY <2>2
  <2> QED
    BY <2>3 DEF x
<1>5. \A i \in D : ks[o[i]] < v <=> i \in A
  OBVIOUS
<1> HIDE DEF A, B
<1>6. Cardinality(A) = Cardinality(B)
  <2> HIDE DEF D
  <2> QED
    BY <1>1, <1>2, <1>3, PermutedCount
<1>7. \A i \in D : i \in A <=> i < lo + Cardinality(A)
  BY <1>3, <1>4, DownClosed
<1> QED
  BY <1>5, <1>6, <1>7 DEF B

\* Every element of a message is one of those that are sent to the rank.
LEMMA MessageElements ==
    ASSUME NEW arr, NEW o, NEW base \in Nat, NEW s, NEW q, Sendable(arr, o, base, s, q)
    PROVE  DrawnFrom(Messages(0, arr, o, base, s, q), arr, o, base + s[q], SendCount(s, q))
<1> SUFFICES ASSUME NEW c \in 1 .. Len(Messages(0, arr, o, base, s, q)),
                    NEW j \in 1 .. Len(Messages(0, arr, o, base, s, q)[c])
             PROVE  \E k \in 1 .. SendCount(s, q) :
                      Messages(0, arr, o, base, s, q)[c][j] = arr[o[base + s[q] + k - 1]]
  BY DEF DrawnFrom
<1> DEFINE n == SendCount(s, q)
           fit == NumFit[0]
           M == Messages(0, arr, o, base, s, q)
           b == base + s[q]
           y == (c - 1) * fit
           z == Min({c * fit, n})
<1>1. n \in Nat /\ fit \in Nat \ {0} /\ b \in Nat
  BY ExchangeAssumption DEF Sendable
<1>2. Leftover(M, n, fit) /\ LeftoverSize(Len(M), n, fit) = n /\ Carries(M, arr, o, b, n, fit)
  BY MessagesFacts DEF AllMessages
<1> HIDE DEF n, fit, M, b
<1>3. NumChunks(n, fit) \in Nat /\ \A x \in 1 .. NumChunks(n, fit) : (x - 1) * fit \in Nat
  BY <1>1, ChunkFacts
<1>4. Len(M) \in Nat /\ Len(M) <= NumChunks(n, fit) /\ c \in 1 .. Len(M) /\ j \in 1 .. Len(M[c])
  BY <1>2 DEF Leftover, M
<1>5. Len(M) = NumChunks(n, fit)
  <2>1. LeftoverSize(Len(M), n, fit) = IF Len(M) = 0 THEN 0 ELSE n - (NumChunks(n, fit) - Len(M)) * fit
    BY DEF LeftoverSize
  <2> DEFINE w == NumChunks(n, fit) - Len(M)
  <2>2. w \in Nat /\ w * fit = 0
    BY <1>1, <1>2, <1>3, <1>4, <2>1
  <2> HIDE DEF w
  <2>3. w = 0
    BY <1>1, <2>2
  <2> QED
    BY <1>3, <1>4, <2>3 DEF w
<1>6. Len(M[c]) = z - y
  <2>1. Len(M[c]) = ChunkSize(n, fit, NumChunks(n, fit) - Len(M) + c) /\ NumChunks(n, fit) - Len(M) + c = c
    BY <1>2, <1>3, <1>4, <1>5 DEF Leftover
  <2> QED
    BY <2>1 DEF ChunkSize
<1>7. z \in Nat /\ z <= n
  <2>1. c * fit \in Nat
    BY <1>1, <1>4
  <2> DEFINE S == {c * fit, n}
  <2>2. S \in SUBSET Nat /\ S # {} /\ n \in S
    BY <1>1, <2>1
  <2> HIDE DEF S
  <2>3. Min(S) \in S /\ \A k \in S : Min(S) <= k
    BY <2>2, MinFacts
  <2> QED
    BY <2>2, <2>3 DEF S
<1>8. y \in Nat /\ M[c][j] = arr[o[b + y + j - 1]]
  <2>1. c \in 1 .. NumChunks(n, fit) /\ j \in 1 .. ChunkSize(n, fit, c)
    BY <1>4, <1>5, <1>6 DEF ChunkSize
  <2> QED
    BY <1>2, <1>3, <2>1 DEF Carries
<1> HIDE DEF y, z
<1>9. y + j \in 1 .. n /\ b + (y + j) - 1 = b + y + j - 1
  BY <1>1, <1>4, <1>6, <1>7, <1>8
<1>10. M[c][j] = arr[o[b + (y + j) - 1]]
  BY <1>8, <1>9
<1> QED
  BY <1>9, <1>10 DEF n, M, b

-----------------------------------------------------------------------------
(* What a step of one rank leaves alone *)
\* The part of the invariant about a rank depends on its own state only, while no particle moves.
LEMMA SortFrame ==
    ASSUME NEW q \in Rank, SortOK(q), sends' = sends, asg' = asg, pos' = pos,
           record'[q] = record[q], Entries(q)' = Entries(q)
    PROVE  SortOK(q)' /\ Held(q)' = Held(q) /\ (Late(q)' <=> Late(q)) /\ (Unfinished(q)' <=> Unfinished(q))
<1>1. /\ pc'[q] = pc[q] /\ data'[q] = data[q] /\ keys'[q] = keys[q]
      /\ bufDesc'[q] = bufDesc[q] /\ order'[q] = order[q] /\ recv'[q] = recv[q]
  BY DEF Entries
<1>2. NumIncoming(q)' = NumIncoming(q) /\ View(q)' = View(q)
  BY <1>1 DEF NumIncoming, NumAssigned, NumPresent, View
<1>3. PostExchangeStart(q, bufDesc[q])' = PostExchangeStart(q, bufDesc[q])
  BY <1>1, <1>2 DEF PostExchangeStart, NumSendDown
<1>4. \A j : ViewKey(q, j)' = ViewKey(q, j) /\ ViewIndex(q, j)' = ViewIndex(q, j)
  BY <1>1, <1>3 DEF ViewKey, ViewIndex
<1>5. Counted(q)' = Counted(q)
  BY <1>2, <1>4 DEF Counted
<1>6. /\ Late(q)' <=> Late(q)
      /\ Unfinished(q)' <=> Unfinished(q)
      /\ Placed(q)' <=> Placed(q)
  BY <1>1 DEF Late, Unfinished, Placed
<1>7. MovedOK(q)' <=> MovedOK(q)
  BY <1>1 DEF MovedOK
<1>8. OwnOK(q)' <=> OwnOK(q)
  BY <1>1 DEF OwnOK, KeyOf
<1>9. ReceivedOK(q)' <=> ReceivedOK(q)
  BY <1>1, <1>2 DEF ReceivedOK, BelongsTo, InSegment
<1>10. ViewOK(q)' <=> ViewOK(q)
  BY <1>1, <1>2, <1>4, <1>5 DEF ViewOK, KeyOf
<1>11. PlacedOK(q)' <=> PlacedOK(q)
  BY <1>1 DEF PlacedOK, KeyOf, InSegment
<1>12. SortOK(q)'
  BY <1>1, <1>6, <1>7, <1>8, <1>9, <1>10, <1>11 DEF SortOK
<1>13. Held(q)' = Held(q)
  BY <1>1, <1>4, <1>5 DEF Held, Local
<1> QED
  BY <1>6, <1>12, <1>13

\* A step of one rank keeps the invariant if it keeps the part of this rank, the messages and
\* the phases in order, and if the particles that it then holds are held by no other rank.
LEMMA SortStep ==
    ASSUME SortInv, NEW r \in Rank, sends' = sends, asg' = asg, pos' = pos,
           \A q \in Rank \ {r} : Entries(q)' = Entries(q) /\ record'[q] = record[q],
           SortOK(r)', InFlightOK', Together',
           \A q \in Rank \ {r} : Late(r)' /\ Late(q) => Held(r)' \cap Held(q) = {}
    PROVE  SortInv'
<1>1. \A q \in Rank \ {r} : SortOK(q)' /\ Held(q)' = Held(q) /\ (Late(q)' <=> Late(q))
  BY SortFrame DEF SortInv
<1>2. Apart
  BY DEF SortInv
<1>3. Apart'
  <2> SUFFICES ASSUME NEW a \in Rank, NEW b \in Rank, a # b, Late(a)', Late(b)'
               PROVE  Held(a)' \cap Held(b)' = {}
    BY DEF Apart
  <2>1. CASE a = r
    BY <1>1, <2>1
  <2>2. CASE b = r
    <3>1. Held(b)' \cap Held(a)' = {}
      BY <1>1, <2>2
    <3> QED
      BY <3>1
  <2>3. CASE a # r /\ b # r
    <3>1. Held(a) \cap Held(b) = {}
      BY <1>1, <1>2, <2>3 DEF Apart
    <3> QED
      BY <1>1, <2>3, <3>1
  <2> QED
    BY <2>1, <2>2, <2>3
<1>4. \A q \in Rank : SortOK(q)'
  BY <1>1
<1> QED
  BY <1>3, <1>4 DEF SortInv

\* What the messages are, while no particle moves.
LEMMA InFlightFrame ==
    ASSUME InFlightOK, asg' = asg, pos' = pos, net'[0] = net[0]
    PROVE  InFlightOK'
<1> SUFFICES ASSUME NEW src \in Rank, NEW dst \in Rank PROVE Addressed(net[0][src][dst], dst)'
  BY DEF InFlightOK, Addressed
<1>1. Addressed(net[0][src][dst], dst)
  BY DEF InFlightOK
<1> QED
  BY <1>1 DEF Addressed, BelongsTo, InSegment

\* A step of one rank after its particles are placed, which only moves another array.
LEMMA PlacedStep ==
    ASSUME SortInv, NEW r \in Rank, Placed(r), Placed(r)', sends' = sends, asg' = asg, pos' = pos,
           \A q \in Rank \ {r} : Entries(q)' = Entries(q) /\ record'[q] = record[q],
           data'[r] = data[r], keys'[r] = keys[r], bufDesc'[r] = bufDesc[r], net'[0] = net[0]
    PROVE  SortInv'
<1>1. SortOK(r) /\ InFlightOK /\ Together /\ Apart
  BY DEF SortInv
<1>2. PlacedOK(r)'
  <2>1. PlacedOK(r)
    BY <1>1 DEF SortOK
  <2> QED
    BY <2>1 DEF PlacedOK, KeyOf, InSegment
<1>3. /\ pc'[r] \notin {"moved", "exchanged"} /\ ~Unfinished(r)' /\ ~Exchanging(r)
      /\ pc[r] # "exchanged" /\ Late(r) /\ Late(r)'
  BY DEF Placed, Unfinished, Exchanging, Late
<1>4. SortOK(r)'
  BY <1>2, <1>3 DEF SortOK
<1>5. InFlightOK'
  BY <1>1, InFlightFrame
<1>6. Together'
  <2> SUFFICES ASSUME NEW x \in Rank, Unfinished(x)' PROVE FALSE
    BY DEF Together
  <2>1. x # r
    BY <1>3
  <2>2. pc'[x] = pc[x]
    BY <2>1 DEF Entries
  <2>3. Unfinished(x)
    BY <2>2 DEF Unfinished
  <2> QED
    BY <1>1, <1>3, <2>3 DEF Together
<1>7. Held(r)' = Held(r)
  BY <1>3 DEF Held, Local
<1>8. \A q \in Rank \ {r} : Late(q) => Held(r)' \cap Held(q) = {}
  BY <1>1, <1>3, <1>7 DEF Apart
<1> QED
  BY <1>4, <1>5, <1>6, <1>8, SortStep

\* reapplySync does not touch the particles that sync placed.
LEMMA RedoSort ==
    CountInv /\ SortInv /\ (\/ \E r \in Rank : RedoSend(r) \/ FinishRedo(r)
                            \/ \E r, src \in Rank : RedoReceive(r, src)) => SortInv'
<1> SUFFICES ASSUME CountInv, SortInv,
                    \/ \E r \in Rank : RedoSend(r) \/ FinishRedo(r)
                    \/ \E r, src \in Rank : RedoReceive(r, src)
             PROVE  SortInv'
  OBVIOUS
<1>1. ArraysOK
  BY DEF CountInv
<1>2. ASSUME NEW r \in Rank, RedoSend(r) PROVE SortInv'
  <2>1. /\ pc[r] = "synced" /\ pc' = [pc EXCEPT ![r] = "redoing"]
        /\ aux' = [aux EXCEPT ![r] = aux'[r]] /\ record' = [record EXCEPT ![r] = record'[r]]
        /\ recv' = [recv EXCEPT ![r] = recv'[r]]
        /\ sends' = sends /\ asg' = asg /\ pos' = pos /\ data' = data /\ keys' = keys
        /\ bufDesc' = bufDesc /\ prevDesc' = prevDesc /\ order' = order
    BY <1>1, <1>2 DEF RedoSend, ArraysOK
  <2>2. net'[0] = net[0]
    <3> DEFINE n    == NumIncoming(r)
               arr  == Resized(aux[r], ExchangeBufferSize(prevDesc[r], n), NoParticle)
               base == AssignedEnvelope(prevDesc[r], n).start
               s    == ShiftSendRanges(sends[r], r, n)
               o    == order[r]
    <3>1. net' = Posted(1, r, arr, o, base, s)
      BY <1>2 DEF RedoSend
    <3> HIDE DEF n, arr, base, s, o
    <3> DEFINE row == [q \in Rank |-> net[1][r][q] \o (IF q = r THEN <<>> ELSE Messages(1, arr, o, base, s, q))]
    <3>2. net' = [net EXCEPT ![1][r] = row]
      BY <3>1 DEF Posted
    <3> HIDE DEF row
    <3> QED
      BY <1>1, <3>2 DEF ArraysOK
  <2>3. Placed(r) /\ Placed(r)'
    BY <1>1, <2>1 DEF Placed, ArraysOK
  <2>4. \A q \in Rank \ {r} : Entries(q)' = Entries(q) /\ record'[q] = record[q]
    BY <1>1, <2>1 DEF Entries, ArraysOK
  <2> QED
    BY <2>1, <2>2, <2>3, <2>4, PlacedStep
<1>3. ASSUME NEW r \in Rank, FinishRedo(r) PROVE SortInv'
  <2>1. /\ pc[r] = "redoing" /\ pc' = [pc EXCEPT ![r] = "done"]
        /\ aux' = [aux EXCEPT ![r] = aux'[r]] /\ record' = record /\ recv' = recv
        /\ sends' = sends /\ asg' = asg /\ pos' = pos /\ data' = data /\ keys' = keys
        /\ bufDesc' = bufDesc /\ prevDesc' = prevDesc /\ order' = order /\ net' = net
    BY <1>1, <1>3 DEF FinishRedo, ArraysOK
  <2>2. Placed(r) /\ Placed(r)'
    BY <1>1, <2>1 DEF Placed, ArraysOK
  <2>3. \A q \in Rank \ {r} : Entries(q)' = Entries(q) /\ record'[q] = record[q]
    BY <1>1, <2>1 DEF Entries, ArraysOK
  <2> QED
    BY <2>1, <2>2, <2>3, PlacedStep
<1>4. ASSUME NEW r \in Rank, NEW src \in Rank, RedoReceive(r, src) PROVE SortInv'
  <2>1. /\ pc[r] = "redoing" /\ pc' = pc
        /\ aux' = [aux EXCEPT ![r] = aux'[r]] /\ record' = record /\ recv' = [recv EXCEPT ![r] = recv'[r]]
        /\ sends' = sends /\ asg' = asg /\ pos' = pos /\ data' = data /\ keys' = keys
        /\ bufDesc' = bufDesc /\ prevDesc' = prevDesc /\ order' = order
    BY <1>1, <1>4 DEF RedoReceive, ReceiveMessage, ArraysOK
  <2>2. net'[0] = net[0]
    <3>1. NetOK /\ ReceiveMessage(1, r, src)
      BY <1>1, <1>4 DEF RedoReceive, NetOK, ArraysOK
    <3>2. net'[1 - 1] = net[1 - 1]
      BY <3>1, ReceivedFacts
    <3> QED
      BY <3>2
  <2>3. Placed(r) /\ Placed(r)'
    BY <1>1, <2>1 DEF Placed, ArraysOK
  <2>4. \A q \in Rank \ {r} : Entries(q)' = Entries(q) /\ record'[q] = record[q]
    BY <1>1, <2>1 DEF Entries, ArraysOK
  <2> QED
    BY <2>1, <2>2, <2>3, <2>4, PlacedStep
<1> QED
  BY <1>2, <1>3, <1>4

\* Steps that change nothing.
LEMMA StutterSort == CountInv /\ SortInv /\ UNCHANGED vars => SortInv'
<1> SUFFICES ASSUME CountInv, SortInv, UNCHANGED vars PROVE SortInv'
  OBVIOUS
<1>1. /\ sends' = sends /\ asg' = asg /\ net' = net /\ pc' = pc /\ data' = data /\ keys' = keys /\ aux' = aux
      /\ bufDesc' = bufDesc /\ prevDesc' = prevDesc /\ order' = order /\ recv' = recv /\ pos' = pos
      /\ record' = record
  BY DEF vars
<1>2. \A q \in Rank : Entries(q)' = Entries(q)
  BY <1>1 DEF Entries
<1>3. \A q \in Rank : SortOK(q)' /\ Held(q)' = Held(q) /\ (Late(q)' <=> Late(q)) /\ (Unfinished(q)' <=> Unfinished(q))
  BY <1>1, <1>2, SortFrame DEF SortInv
<1>4. InFlightOK'
  BY <1>1, InFlightFrame DEF SortInv
<1>5. Together'
  BY <1>1, <1>3 DEF SortInv, Together, Exchanging
<1>6. Apart'
  BY <1>3 DEF SortInv, Apart
<1> QED
  BY <1>3, <1>4, <1>5, <1>6 DEF SortInv

-----------------------------------------------------------------------------
(* The exchange *)
\* While a rank exchanges particles, the others do so, too, and have moved none.
LEMMA ExchangingTogether ==
    ASSUME SortInv, NEW r \in Rank, Unfinished(r), NEW q \in Rank
    PROVE  Exchanging(q) /\ (Late(q) => pc[q] = "exchanged")
<1>1. Exchanging(q)
  BY DEF SortInv, Together
<1> QED
  BY <1>1 DEF Exchanging, Late

\* A rank only posts particles of the segment of their receiver: the send ranges divide the
\* sorted keys as the segments do, and particles marked for removal come behind all of them.
LEMMA SentInSegment ==
    ASSUME CountInv, SortInv, NEW r \in Rank, pc[r] = "sending", NEW q \in Rank
    PROVE  /\ Messages(0, data[r], order[r], bufDesc[r].start, sends[r], q) \in Seq(Seq(Slot))
           /\ Addressed(Messages(0, data[r], order[r], bufDesc[r].start, sends[r], q), q)
<1> DEFINE d == bufDesc[r]
           base == d.start
           o == order[r]
           s == sends[r]
           N == SendCount(s, q)
<1>1. RankOK(r) /\ SendsKnown /\ AssignmentOK
  BY InvParts
<1>2. Exchanging(r) /\ SentDesc(r) = d /\ Unfinished(r)
  BY DEF Exchanging, SentDesc, Unfinished
<1>3. OwnOK(r)
  BY <1>2 DEF SortInv, SortOK
<1>4. /\ d \in Descriptions /\ PermutesRange(o, d.start, d.end)
      /\ data[r] \in [0 .. ExchangeBufferSize(d, NumIncoming(r)) - 1 -> Slot]
      /\ keys[r] \in [0 .. ExchangeBufferSize(d, NumIncoming(r)) - 1 -> 0 .. NumKeys]
  BY <1>1, <1>2 DEF RankOK, BuffersOK, OrderOK, BufferSize
<1>5. /\ N \in Nat /\ s[q] \in Nat /\ s[q + 1] = s[q] + N /\ s[q] + N <= d.end - d.start
      /\ NumIncoming(r) \in Nat
  BY <1>1, <1>2, SentCounts
<1>6. d.start \in Nat /\ d.end \in Nat /\ d.size \in Nat /\ d.end <= d.size
  BY <1>4, RangeSize
<1>7. /\ ExchangeBufferSize(d, NumIncoming(r)) \in Nat /\ d.size <= ExchangeBufferSize(d, NumIncoming(r))
  BY <1>4, <1>5, EnvelopeFacts
<1>8. /\ q \in 0 .. NumRanks /\ q + 1 \in 0 .. NumRanks
      /\ asg.bound[q] \in 0 .. NumKeys /\ asg.bound[q + 1] \in 0 .. NumKeys /\ NumKeys \in Nat
  BY <1>1, RankFacts DEF AssignmentOK, Boundaries
<1> HIDE DEF N, d, s, o
<1>9. ASSUME NEW k \in 1 .. N PROVE BelongsTo(q, data[r][o[base + s[q] + k - 1]])
  <2> DEFINE i == base + s[q] + k - 1
  <2>1. i \in d.start .. d.end - 1 /\ ~(i < d.start + s[q]) /\ i < d.start + s[q + 1]
    BY <1>5, <1>6
  <2> HIDE DEF i
  <2>2. i \in 0 .. ExchangeBufferSize(d, NumIncoming(r)) - 1
    BY <1>6, <1>7, <2>1
  <2>3. keys[r][i] \in 0 .. NumKeys
    BY <1>4, <2>2
  <2>4. ~(keys[r][i] < asg.bound[q]) /\ keys[r][i] < asg.bound[q + 1]
    BY <1>3, <1>8, <2>1 DEF OwnOK, Range01, d, s
  <2>5. keys[r][i] # RemoveKey /\ InSegment(q, keys[r][i])
    BY <1>8, <2>3, <2>4 DEF RemoveKey, InSegment
  <2>6. KeyOf(keys[r][i], data[r][o[i]])
    BY <1>3, <2>1, <2>5 DEF OwnOK, Range01, d, o
  <2> QED
    BY <2>5, <2>6 DEF KeyOf, BelongsTo, i
<1> DEFINE arr == data[r]
<1>10. base \in Nat /\ Sendable(arr, o, base, s, q) /\ \A k \in 1 .. N : BelongsTo(q, arr[o[base + s[q] + k - 1]])
  BY <1>5, <1>6, <1>9 DEF Sendable, N, BelongsTo, Slot
<1> HIDE DEF base, arr
<1> DEFINE m == Messages(0, arr, o, base, s, q)
<1>11. DrawnFrom(m, arr, o, base + s[q], N)
  BY <1>10, MessageElements DEF N
<1>12. m \in Seq(Seq(Slot))
  <2>1. 0 \in {0, 1}
    OBVIOUS
  <2>2. AllMessages(m, SendCount(s, q), NumFit[0])
    BY <1>10, <2>1, MessagesFacts
  <2> QED
    BY <2>2 DEF AllMessages, Leftover
<1> HIDE DEF m
<1>13. Addressed(m, q)
  BY <1>10, <1>11 DEF Addressed, DrawnFrom
<1> QED
  BY <1>12, <1>13 DEF m, arr, base, d, o, s

\* Posting in exchangeParticles.
LEMMA SendParticlesSort == CountInv /\ SortInv /\ (\E r \in Rank : SendParticles(r)) => SortInv'
<1> SUFFICES ASSUME CountInv, SortInv, NEW r \in Rank, SendParticles(r) PROVE SortInv'
  OBVIOUS
<1> DEFINE M(q) == Messages(0, data[r], order[r], bufDesc[r].start, sends[r], q)
<1>1. /\ pc[r] = "sending" /\ pc' = [pc EXCEPT ![r] = "receiving"]
      /\ sends' = sends /\ asg' = asg /\ data' = data /\ keys' = keys /\ aux' = aux /\ bufDesc' = bufDesc
      /\ prevDesc' = prevDesc /\ order' = order /\ recv' = recv /\ pos' = pos /\ record' = record
      /\ net' = Posted(0, r, data[r], order[r], bufDesc[r].start, sends[r])
  BY DEF SendParticles
<1>2. ArraysOK /\ ExchangeOK(0) /\ NetOK
  BY InvParts DEF ArraysOK, NetOK
<1>3. pc'[r] = "receiving" /\ \A q \in Rank \ {r} : pc'[q] = pc[q]
  BY <1>1, <1>2 DEF ArraysOK
<1>4. Unfinished(r) /\ Unfinished(r)' /\ ~Late(r)' /\ Exchanging(r)'
  BY <1>1, <1>3 DEF Unfinished, Late, Exchanging
<1>5. \A q \in Rank \ {r} : Entries(q)' = Entries(q) /\ record'[q] = record[q]
  BY <1>1, <1>3 DEF Entries
<1>6. SortOK(r)'
  <2>1. OwnOK(r) /\ ReceivedOK(r)
    BY <1>4 DEF SortInv, SortOK
  <2>2. OwnOK(r)'
    BY <1>1, <2>1 DEF OwnOK, KeyOf
  <2>3. NumIncoming(r)' = NumIncoming(r)
    BY <1>1 DEF NumIncoming, NumAssigned, NumPresent
  <2>4. ReceivedOK(r)'
    BY <1>1, <2>1, <2>3 DEF ReceivedOK, BelongsTo, InSegment
  <2> QED
    BY <1>3, <2>2, <2>4 DEF SortOK, Placed
<1>7. Together'
  <2>1. \A q \in Rank : Exchanging(q)
    BY <1>4, ExchangingTogether
  <2>2. \A q \in Rank : Exchanging(q)'
    BY <1>3, <1>4, <2>1 DEF Exchanging
  <2> QED
    BY <2>2 DEF Together
<1>8. ASSUME NEW src \in Rank, NEW dst \in Rank PROVE Addressed(net[0][src][dst], dst)'
  <2>1. \A q \in Rank : net[0][r][q] = << >>
    BY <1>1, <1>2 DEF ExchangeOK, ChannelOK, Waiting
  <2>2. \A q \in Rank \ {r} : M(q) \in Seq(Seq(Slot))
    BY <1>1, SentInSegment
  <2>3. net'[0][src][dst] = IF src = r /\ dst # r THEN M(dst) ELSE net[0][src][dst]
    BY <1>1, <1>2, <2>1, <2>2, PostedFacts
  <2>4. Addressed(net[0][src][dst], dst) /\ Addressed(M(dst), dst)
    BY <1>1, SentInSegment DEF SortInv, InFlightOK
  <2> HIDE DEF M
  <2>5. Addressed(net'[0][src][dst], dst)
    BY <2>3, <2>4
  <2> QED
    BY <1>1, <2>5 DEF Addressed, BelongsTo, InSegment
<1>9. InFlightOK'
  BY <1>8 DEF InFlightOK, Addressed
<1> QED
  BY <1>1, <1>4, <1>5, <1>6, <1>7, <1>9, SortStep

\* The number of particles that a rank expects is never negative.
LEMMA ExpectedIsNat == CountInv => ReceiveInBounds
<1> SUFFICES ASSUME CountInv, NEW r \in Rank, Unfinished(r) PROVE recv[r].at <= recv[r].end
  BY DEF ReceiveInBounds
<1> DEFINE g == DueTo(0, r)
<1>1. SendsKnown /\ RankOK(r) /\ ExchangeOK(0)
  BY InvParts
<1>2. \A x \in Rank : Due(0, x, r) \in Nat
  BY <1>1, DueFacts DEF ExchangeOK
<1>3. \A x \in Rank : g[x] = Due(0, x, r)
  BY DEF DueTo
<1>4. SumFunctionOnSet(g, Rank) = recv[r].end - recv[r].at
  BY <1>1 DEF ExchangeOK, CountOK, Expected, Unfinished
<1>5. recv[r].at \in Int /\ recv[r].end \in Int
  BY <1>1 DEF RankOK, BuffersOK
<1> HIDE DEF g
<1>6. \A x \in Rank : g[x] \in Nat
  BY <1>2, <1>3
<1>7. SumFunctionOnSet(g, Rank) \in Nat
  BY <1>6, RankFacts, SumOfUnits
<1> QED
  BY <1>4, <1>5, <1>7

\* Receiving in exchangeParticles: a message goes behind what was received before, wherever it
\* comes from, and overwrites neither that nor the particles that are still to be sent.
LEMMA ReceiveParticlesSort ==
    CountInv /\ SortInv /\ (\E r, src \in Rank : ReceiveParticles(r, src)) => SortInv'
<1> SUFFICES ASSUME CountInv, SortInv, NEW r \in Rank, NEW src \in Rank, ReceiveParticles(r, src) PROVE SortInv'
  OBVIOUS
<1> DEFINE m == Head(net[0][src][r])
           d == bufDesc[r]
           n == NumIncoming(r)
           rs == ReceiveStart(d, n)
           at == recv[r].at
           dat == Scattered(data[r], m, at)
<1>1. /\ pc[r] = "receiving" /\ pc' = pc /\ ReceiveMessage(0, r, src)
      /\ recv' = [recv EXCEPT ![r].at = @ + Len(m)]
      /\ data' = [data EXCEPT ![r] = Scattered(@, m, Location(r, src))]
      /\ sends' = sends /\ asg' = asg /\ keys' = keys /\ aux' = aux /\ bufDesc' = bufDesc
      /\ prevDesc' = prevDesc /\ order' = order /\ pos' = pos /\ record' = record
  BY DEF ReceiveParticles, ReceiveMessage
<1>2. ArraysOK /\ RankOK(r) /\ ExchangeOK(0) /\ SendsKnown /\ NetOK /\ InFlightOK
  BY InvParts DEF ArraysOK, NetOK, SortInv
<1>3. Unfinished(r) /\ Unfinished(r)' /\ Exchanging(r) /\ ~Late(r)' /\ SentDesc(r) = d
  BY <1>1 DEF Unfinished, Exchanging, Late, SentDesc
<1>4. OwnOK(r) /\ ReceivedOK(r)
  BY <1>3 DEF SortInv, SortOK
<1>5. Location(r, src) = at
  BY <1>4 DEF Location, ReceivedOK
<1>6. /\ data'[r] = dat /\ recv'[r] = [recv[r] EXCEPT !.at = @ + Len(m)]
      /\ \A q \in Rank \ {r} : data'[q] = data[q] /\ recv'[q] = recv[q]
  BY <1>1, <1>2, <1>5 DEF ArraysOK
<1>7. /\ net[0][src][r] # << >>
      /\ \A s, dst \in Rank : net'[0][s][dst] = IF s = src /\ dst = r THEN Tail(net[0][src][r]) ELSE net[0][s][dst]
  BY <1>1, <1>2, ReceivedFacts
<1>8. m \in Seq(Slot) /\ Len(m) \in Nat /\ net[0][src][r] \in Seq(Seq(Slot))
  <2>1. net[0][src][r] \in Seq(Seq(Slot))
    BY <1>2 DEF ExchangeOK, ChannelOK, Leftover
  <2> QED
    BY <1>2, <1>7, <2>1, HeadFacts
<1>9. /\ d \in Descriptions /\ PermutesRange(order[r], d.start, d.end) /\ n \in Nat
      /\ data[r] \in [0 .. ExchangeBufferSize(d, n) - 1 -> Slot] /\ recv[r] \in [at : Int, end : Int]
  BY <1>1, <1>2, <1>3, SentCounts DEF RankOK, BuffersOK, OrderOK, BufferSize
<1>10. /\ at \in Int /\ rs <= at /\ recv[r].end = rs + n
       /\ recv'[r].at = at + Len(m) /\ recv'[r].end = rs + n /\ at + Len(m) <= rs + n
  <2>1. at \in Int /\ rs <= at /\ recv[r].end = rs + n
    BY <1>4, <1>9 DEF ReceivedOK
  <2>2. recv'[r].at = at + Len(m) /\ recv'[r].end = rs + n
    BY <1>6, <1>9, <2>1
  <2>3. CountInv'
    BY ReceiveParticlesInv
  <2>4. (CountInv => ReceiveInBounds)'
    BY ExpectedIsNat, PTL
  <2>5. recv'[r].at <= recv'[r].end
    BY <1>3, <2>3, <2>4 DEF ReceiveInBounds
  <2> QED
    BY <2>1, <2>2, <2>5
<1>11. Addressed(net[0][src][r], r)
  BY <1>2 DEF InFlightOK
<1>12. \A j \in 1 .. Len(m) : BelongsTo(r, m[j])
  <2> DEFINE w == net[0][src][r]
  <2>1. w \in Seq(Seq(Slot)) /\ w # << >> /\ m = Head(w)
    BY <1>7, <1>8
  <2>2. Addressed(w, r)
    BY <1>11
  <2> HIDE DEF w, m
  <2>3. 1 \in 1 .. Len(w) /\ m = w[1]
    BY <2>1
  <2> QED
    BY <2>2, <2>3 DEF Addressed
<1>13. /\ \A j \in 1 .. Len(m) : j \in DOMAIN m
       /\ DOMAIN m = 1 .. Len(m)
  BY <1>8
<1> HIDE DEF m
<1>14. /\ rs \in Nat /\ ExchangeBufferSize(d, n) \in Nat
       /\ \A i \in d.start .. d.end - 1 : i \in 0 .. ExchangeBufferSize(d, n) - 1 /\ ~(i \in rs .. rs + n - 1)
       /\ \A i \in rs .. rs + n - 1 : i \in 0 .. ExchangeBufferSize(d, n) - 1
  <2>1. d.start \in Nat /\ d.end \in Nat /\ d.size \in Nat /\ d.end <= d.size /\ d.start <= d.end
    BY <1>9, RangeSize
  <2> HIDE DEF d, n
  <2>2. /\ rs \in Nat /\ ExchangeBufferSize(d, n) \in Nat /\ d.size <= ExchangeBufferSize(d, n)
        /\ AssignedEnvelope(d, n).end <= ExchangeBufferSize(d, n) /\ AssignedEnvelope(d, n).end \in Nat
        /\ \/ rs + n = d.start
           \/ rs = d.end /\ AssignedEnvelope(d, n).end = d.end + n
    BY <1>9, EnvelopeFacts
  <2> HIDE DEF rs
  <2> QED
    BY <1>9, <2>1, <2>2
<1>15. ASSUME NEW i \in 0 .. ExchangeBufferSize(d, n) - 1
       PROVE  dat[i] = IF i \in at .. at + Len(m) - 1 THEN m[i - at + 1] ELSE data[r][i]
  <2>1. i \in DOMAIN data[r]
    BY <1>9
  <2>2. dat[i] = IF i - at + 1 \in DOMAIN m THEN m[i - at + 1] ELSE data[r][i]
    BY <2>1 DEF Scattered
  <2>3. i - at + 1 \in DOMAIN m <=> i \in at .. at + Len(m) - 1
    BY <1>8, <1>10, <1>13, <1>14
  <2> QED
    BY <2>2, <2>3
<1> HIDE DEF dat
<1>16. OwnOK(r)'
  <2> SUFFICES ASSUME NEW i \in Range01(d) PROVE dat[order[r][i]] = data[r][order[r][i]]
    BY <1>1, <1>4, <1>6 DEF OwnOK, KeyOf
  <2>1. order[r][i] \in d.start .. d.end - 1
    BY <1>9 DEF PermutesRange, Range01
  <2> DEFINE k == order[r][i]
  <2>2. k \in 0 .. ExchangeBufferSize(d, n) - 1 /\ ~(k \in rs .. rs + n - 1)
    BY <1>14, <2>1
  <2> HIDE DEF k, d, n, rs, at
  <2>3. ~(k \in at .. at + Len(m) - 1)
    BY <1>8, <1>10, <1>14, <2>2, <1>9
  <2>4. dat[k] = data[r][k]
    BY <1>15, <2>2, <2>3
  <2> QED
    BY <2>4 DEF k
<1>17. ReceivedOK(r)'
  <2>1. NumIncoming(r)' = n /\ bufDesc'[r] = d /\ record'[r] = TRUE
    BY <1>1, <1>4 DEF NumIncoming, NumAssigned, NumPresent, ReceivedOK
  <2>2. ASSUME NEW i \in rs .. at + Len(m) - 1 PROVE BelongsTo(r, dat[i])
    <3> HIDE DEF d, n, rs, at
    <3>1. i \in 0 .. ExchangeBufferSize(d, n) - 1
      BY <1>8, <1>9, <1>10, <1>14
    <3>2. CASE i \in at .. at + Len(m) - 1
      <4>1. i - at + 1 \in 1 .. Len(m)
        BY <1>8, <1>10, <3>2
      <4> QED
        BY <1>12, <1>15, <3>1, <3>2, <4>1
    <3>3. CASE ~(i \in at .. at + Len(m) - 1)
      <4>1. i \in rs .. at - 1
        BY <1>8, <1>10, <1>14, <3>3
      <4>2. BelongsTo(r, data[r][i])
        BY <1>4, <4>1 DEF ReceivedOK, rs, d, n, at
      <4> QED
        BY <1>15, <3>1, <3>3, <4>2
    <3> QED
      BY <3>2, <3>3
  <2>3. \A i \in rs .. recv'[r].at - 1 : BelongsTo(r, data'[r][i])
    BY <1>6, <1>10, <2>2
  <2>4. rs <= recv'[r].at
    <3> HIDE DEF rs, at
    <3> QED
      BY <1>8, <1>10, <1>14
  <2> HIDE DEF d, n
  <2> QED
    BY <1>1, <1>10, <2>1, <2>3, <2>4 DEF ReceivedOK, BelongsTo, InSegment
<1>18. SortOK(r)'
  BY <1>1, <1>16, <1>17 DEF SortOK, Placed
<1>19. InFlightOK'
  <2> SUFFICES ASSUME NEW s \in Rank, NEW dst \in Rank PROVE Addressed(net[0][s][dst], dst)'
    BY DEF InFlightOK, Addressed
  <2>1. Addressed(net'[0][s][dst], dst)
    <3>1. CASE s = src /\ dst = r
      <4> DEFINE w == net[0][src][r]
      <4>1. w \in Seq(Seq(Slot)) /\ w # << >> /\ Addressed(w, r)
        BY <1>7, <1>8, <1>11
      <4> HIDE DEF w
      <4>2. Len(Tail(w)) = Len(w) - 1 /\ Len(w) \in Nat /\ \A c \in 1 .. Len(Tail(w)) : Tail(w)[c] = w[c + 1]
        BY <4>1
      <4>3. \A c \in 1 .. Len(Tail(w)) : c + 1 \in 1 .. Len(w)
        BY <4>2
      <4>4. Addressed(Tail(w), r)
        BY <4>1, <4>2, <4>3 DEF Addressed
      <4> QED
        BY <1>7, <3>1, <4>4 DEF w
    <3>2. CASE ~(s = src /\ dst = r)
      BY <1>2, <1>7, <3>2 DEF InFlightOK
    <3> QED
      BY <3>1, <3>2
  <2> QED
    BY <1>1, <2>1 DEF Addressed, BelongsTo, InSegment
<1>20. Together'
  BY <1>1 DEF SortInv, Together, Unfinished, Exchanging
<1>21. \A q \in Rank \ {r} : Entries(q)' = Entries(q) /\ record'[q] = record[q]
  BY <1>1, <1>6 DEF Entries
<1> QED
  BY <1>1, <1>3, <1>18, <1>19, <1>20, <1>21, SortStep

\* What a rank holds after the exchange lies in its segment.
LEMMA HeldBelongs == HeldInSegment
<1> SUFFICES ASSUME NEW r \in Rank, pc[r] = "exchanged", ViewOK(r), NEW x \in Held(r) PROVE BelongsTo(r, x)
  BY DEF HeldInSegment
<1>1. PICK j \in Counted(r) : x = data[r][ViewIndex(r, j)]
  BY DEF Held
<1>2. /\ KeyOf(ViewKey(r, j), x) /\ asg.bound[r] <= ViewKey(r, j) /\ ViewKey(r, j) < asg.bound[r + 1]
  BY <1>1 DEF ViewOK, Counted
<1> QED
  BY <1>2 DEF KeyOf, BelongsTo, InSegment

\* A particle lies in the segment of one rank only.
LEMMA SegmentsDisjoint ==
    ASSUME Boundaries(asg.bound), pos \in [Particle -> Key], NEW r \in Rank, NEW q \in Rank, r # q,
           NEW x, BelongsTo(r, x), BelongsTo(q, x)
    PROVE  FALSE
<1>1. ASSUME NEW a \in Rank, NEW b \in Rank, a < b, BelongsTo(a, x), BelongsTo(b, x) PROVE FALSE
  <2> DEFINE k == pos[x]
             u == asg.bound[a + 1]
             v == asg.bound[b]
  <2>1. k \in Int /\ k < u /\ v <= k
    BY <1>1, RankFacts DEF BelongsTo, InSegment, Key
  <2>2. a + 1 \in 0 .. NumRanks /\ b \in 0 .. NumRanks /\ a + 1 <= b
    BY <1>1, RankFacts DEF Rank
  <2>3. u <= v /\ u \in Int /\ v \in Int
    BY <2>2, RankFacts DEF Boundaries
  <2> HIDE DEF k, u, v
  <2> QED
    BY <2>1, <2>3
<1>2. r < q \/ q < r
  BY RankFacts DEF Rank
<1> QED
  BY <1>1, <1>2

\* Sorting in distribute: after the exchange the keys below the segment are those of the particles
\* that were sent down, because nothing below the segment was received; so the view starts in it.
LEMMA FinishDistributeSort == CountInv /\ SortInv /\ (\E r \in Rank : FinishDistribute(r)) => SortInv'
<1> SUFFICES ASSUME CountInv, SortInv, NEW r \in Rank, FinishDistribute(r) PROVE SortInv'
  OBVIOUS
<1> DEFINE d == bufDesc[r]
           n == NumIncoming(r)
           size == ExchangeBufferSize(d, n)
           rs == ReceiveStart(d, n)
           env == AssignedEnvelope(d, n)
           lo == env.start
           hi == env.end
           b == asg.bound[r]
           c == asg.bound[r + 1]
           s == sends[r][r]
           ks == ComputeSfcKeys(keys[r], data[r], rs .. rs + n - 1, pos)
           map == [i \in lo .. hi - 1 |-> IF i \in rs .. rs + n - 1 THEN i ELSE order[r][i]]
           ord == SortOrder(ks, lo, hi)
           new == [i \in DOMAIN ord |-> map[ord[i]]]
<1>1. /\ pc[r] = "receiving" /\ recv[r].at = recv[r].end /\ pc' = [pc EXCEPT ![r] = "exchanged"]
      /\ keys' = [keys EXCEPT ![r] = Permuted(ks, ord)] /\ order' = [order EXCEPT ![r] = new]
      /\ sends' = sends /\ asg' = asg /\ data' = data /\ aux' = aux /\ bufDesc' = bufDesc /\ net' = net
      /\ prevDesc' = prevDesc /\ recv' = recv /\ pos' = pos /\ record' = record
  BY DEF FinishDistribute
<1>2. ArraysOK /\ RankOK(r) /\ SendsKnown /\ AssignmentOK
  BY InvParts
<1>3. /\ pc'[r] = "exchanged" /\ keys'[r] = Permuted(ks, ord) /\ order'[r] = new
      /\ \A q \in Rank \ {r} : pc'[q] = pc[q] /\ keys'[q] = keys[q] /\ order'[q] = order[q]
  BY <1>1, <1>2 DEF ArraysOK
<1>4. Exchanging(r) /\ Exchanging(r)' /\ SentDesc(r) = d /\ Unfinished(r) /\ ~Unfinished(r)'
  BY <1>1, <1>3 DEF Exchanging, SentDesc, Unfinished
<1>5. OwnOK(r) /\ ReceivedOK(r)
  BY <1>4 DEF SortInv, SortOK
<1>6. /\ d \in Descriptions /\ PermutesRange(order[r], d.start, d.end)
      /\ data[r] \in [0 .. size - 1 -> Slot] /\ keys[r] \in [0 .. size - 1 -> 0 .. NumKeys]
      /\ pos \in [Particle -> Key]
  BY <1>1, <1>2, <1>4 DEF RankOK, BuffersOK, OrderOK, BufferSize, ArraysOK
<1>7. /\ n \in Nat /\ s \in Nat /\ s + NumPresent(r) <= d.end - d.start
      /\ NumPresent(r) \in Nat /\ NumAssigned(r) = NumPresent(r) + n
  BY <1>2, <1>4, SentCounts DEF NumPresent
<1>8. d.start \in Nat /\ d.end \in Nat /\ d.start <= d.end
  BY <1>6, RangeSize
<1>9. /\ r \in 0 .. NumRanks /\ r + 1 \in 0 .. NumRanks
      /\ b \in 0 .. NumKeys /\ c \in 0 .. NumKeys /\ NumKeys \in Nat
  BY <1>2, RankFacts DEF AssignmentOK, Boundaries
<1> HIDE DEF n
<1>10. /\ size \in Nat /\ lo \in Nat /\ hi \in Nat /\ hi <= size /\ rs \in Nat
       /\ lo <= d.start /\ d.end <= hi /\ hi - lo = d.end - d.start + n
       /\ \/ lo = rs /\ hi = d.end /\ rs + n = d.start
          \/ lo = d.start /\ rs = d.end /\ hi = d.end + n
  BY <1>6, <1>7, EnvelopeFacts
<1> HIDE DEF size, rs, lo, hi
<1> DEFINE D == d.start .. d.end - 1
           R == rs .. rs + n - 1
           E == lo .. hi - 1
<1>11. /\ \A i : i \in E <=> i \in R \/ i \in D
       /\ \A i : ~(i \in R /\ i \in D)
       /\ \A i \in E : i \in 0 .. size - 1
  BY <1>7, <1>8, <1>10
<1>12. ASSUME NEW i \in E
       PROVE  ks[i] = IF i \in R /\ keys[r][i] # RemoveKey /\ data[r][i] # NoParticle THEN pos[data[r][i]] ELSE keys[r][i]
  BY <1>6, <1>11 DEF ComputeSfcKeys
<1>13. ASSUME NEW i \in R
       PROVE  ks[i] \in 0 .. NumKeys /\ ~(ks[i] < b) /\ (ks[i] < c => KeyOf(ks[i], data[r][i]))
  <2>1. i \in E /\ i \in 0 .. size - 1
    BY <1>11
  <2>2. BelongsTo(r, data[r][i])
    <3> DEFINE at == recv[r].at
    <3>1. at = rs + n
      BY <1>1, <1>5 DEF ReceivedOK, rs, n
    <3>2. \A k \in rs .. at - 1 : BelongsTo(r, data[r][k])
      BY <1>5 DEF ReceivedOK, rs, n
    <3> HIDE DEF at
    <3>3. i \in rs .. at - 1
      BY <1>7, <1>10, <3>1
    <3> QED
      BY <3>2, <3>3
  <2>3. /\ data[r][i] \in Particle /\ data[r][i] # NoParticle /\ pos[data[r][i]] \in Key
        /\ b <= pos[data[r][i]] /\ pos[data[r][i]] < c
    BY <1>6, <2>2 DEF BelongsTo, InSegment, Particle, NoParticle
  <2>4. pos[data[r][i]] \in 0 .. NumKeys
    BY <1>9, <2>3 DEF Key
  <2>5. CASE keys[r][i] = RemoveKey
    <3>1. ks[i] = NumKeys
      BY <1>12, <2>1, <2>5 DEF RemoveKey
    <3> HIDE DEF ks, b, c
    <3> QED
      BY <1>9, <3>1
  <2>6. CASE keys[r][i] # RemoveKey
    <3>1. ks[i] = pos[data[r][i]]
      BY <1>12, <2>1, <2>3, <2>6
    <3> DEFINE k == pos[data[r][i]]
    <3>2. k \in 0 .. NumKeys /\ b <= k
      BY <2>3, <2>4
    <3> HIDE DEF k, b
    <3>3. ~(k < b)
      BY <1>9, <3>2
    <3> QED
      BY <2>3, <3>1, <3>2, <3>3 DEF KeyOf, k
  <2> QED
    BY <2>5, <2>6
<1>14. ASSUME NEW i \in D
       PROVE  /\ ks[i] \in 0 .. NumKeys /\ (ks[i] < b <=> i < d.start + s)
              /\ ks[i] < c => KeyOf(ks[i], data[r][order[r][i]])
  <2>1. i \in E /\ i \in 0 .. size - 1 /\ i \notin R
    BY <1>11
  <2>2. ks[i] = keys[r][i] /\ keys[r][i] \in 0 .. NumKeys
    BY <1>6, <1>12, <2>1
  <2>3. /\ keys[r][i] # RemoveKey => KeyOf(keys[r][i], data[r][order[r][i]])
        /\ keys[r][i] < b <=> i < d.start + s
    BY <1>5, <1>9 DEF OwnOK, Range01
  <2>4. ks[i] < c => keys[r][i] # RemoveKey
    <3> HIDE DEF ks, c
    <3> QED
      BY <1>9, <2>2 DEF RemoveKey
  <2> QED
    BY <2>2, <2>3, <2>4
<1> HIDE DEF ks, b, c
<1>15. \A i \in E : ks[i] \in 0 .. NumKeys /\ ks[i] \in Int
  BY <1>11, <1>13, <1>14, <1>9
<1>16. PermutesRange(ord, lo, hi) /\ SortsRange(ord, ks, lo, hi)
  BY <1>10, <1>15, SortOrderFacts
<1>17. Cardinality({k \in E : ks[k] < b}) = s
  <2>1. {k \in E : ks[k] < b} = d.start .. d.start + s - 1
    <3>1. \A k \in d.start .. d.start + s - 1 : k \in D /\ k < d.start + s
      BY <1>7, <1>8
    <3>2. \A k \in D : k < d.start + s => k \in d.start .. d.start + s - 1
      BY <1>7, <1>8
    <3> HIDE DEF D, R, E
    <3> QED
      BY <1>11, <1>13, <1>14, <3>1, <3>2
  <2> DEFINE y == d.start
             z == d.start + s - 1
  <2>2. y \in Int /\ z \in Int /\ z - y + 1 = s /\ (y > z => s = 0)
    BY <1>7, <1>8
  <2> HIDE DEF y, z
  <2>3. Cardinality(y .. z) = IF y > z THEN 0 ELSE z - y + 1
    BY <2>2, FS_Interval
  <2> QED
    BY <2>1, <2>2, <2>3 DEF y, z
<1>18. \A i \in E : ks[ord[i]] < b <=> i < lo + s
  <2> HIDE DEF ord, s
  <2>1. b \in Int
    BY <1>9
  <2>2. \A i \in lo .. hi - 1 : ks[ord[i]] < b <=> i < lo + Cardinality({k \in lo .. hi - 1 : ks[k] < b})
    BY <1>10, <1>15, <1>16, <2>1, SortedCut
  <2> QED
    BY <1>17, <2>2
<1> HIDE DEF ord
<1>19. NumIncoming(r)' = n /\ View(r)' = View(r) /\ PostExchangeStart(r, bufDesc[r])' = lo + s
  BY <1>1 DEF NumIncoming, NumAssigned, NumPresent, View, PostExchangeStart, NumSendDown, n, lo
<1>20. ASSUME NEW j \in View(r) PROVE lo + s + j \in E /\ lo + s + j >= lo + s
  BY <1>7, <1>8, <1>10 DEF View
<1>21. /\ \A i \in E : ord[i] \in E
       /\ \A i \in E : Permuted(ks, ord)[i] = ks[ord[i]]
       /\ \A i \in E : new[i] = map[ord[i]]
  <2>1. ord \in [E -> E]
    BY <1>16 DEF PermutesRange
  <2>2. DOMAIN ks = 0 .. size - 1
    BY <1>6 DEF ks, ComputeSfcKeys
  <2> HIDE DEF E, map
  <2> QED
    BY <1>11, <2>1, <2>2 DEF Permuted
<1>22. ASSUME NEW j \in View(r)
       PROVE  /\ ViewKey(r, j)' = ks[ord[lo + s + j]] /\ ViewIndex(r, j)' = map[ord[lo + s + j]]
              /\ ord[lo + s + j] \in E
  BY <1>3, <1>19, <1>20, <1>21 DEF ViewKey, ViewIndex
<1>23. ASSUME NEW i \in E, ks[i] < c PROVE KeyOf(ks[i], data[r][map[i]])
  <2>1. CASE i \in R
    BY <1>13, <1>23, <2>1
  <2>2. CASE i \notin R
    BY <1>11, <1>14, <1>23, <2>2
  <2> QED
    BY <2>1, <2>2
<1> HIDE DEF map, new, E
<1>24. ViewOK(r)'
  <2>1. ASSUME NEW j \in View(r), NEW k \in View(r), j <= k PROVE ViewKey(r, j)' <= ViewKey(r, k)'
    <3>1. lo + s + j \in E /\ lo + s + k \in E /\ lo + s + j <= lo + s + k
      BY <1>7, <1>10, <1>20, <2>1 DEF View
    <3>2. ks[ord[lo + s + j]] <= ks[ord[lo + s + k]]
      BY <1>16, <3>1 DEF SortsRange, E
    <3> QED
      BY <1>22, <3>2
  <2>2. ASSUME NEW j \in View(r) PROVE b <= ViewKey(r, j)'
    <3> DEFINE i == lo + s + j
    <3>1. i \in E /\ i >= lo + s
      BY <1>20
    <3>2. i \in Int /\ lo + s \in Int
      BY <1>7, <1>10, <3>1 DEF E
    <3> HIDE DEF i, s
    <3>3. ~(ks[ord[i]] < b)
      BY <1>18, <3>1, <3>2
    <3>4. ks[ord[i]] \in Int /\ b \in Int
      BY <1>9, <1>15, <1>21, <3>1
    <3>5. b <= ks[ord[i]]
      BY <3>3, <3>4
    <3> QED
      BY <1>22, <3>5 DEF i, s
  <2>3. ASSUME NEW j \in Counted(r)' PROVE KeyOf(ViewKey(r, j), data[r][ViewIndex(r, j)])'
    <3>1. j \in View(r) /\ ViewKey(r, j)' < c
      BY <1>1, <1>19, <2>3 DEF Counted, c
    <3>2. KeyOf(ks[ord[lo + s + j]], data[r][map[ord[lo + s + j]]])
      BY <1>22, <1>23, <3>1
    <3> QED
      BY <1>1, <1>22, <3>1, <3>2 DEF KeyOf
  <2> QED
    BY <1>1, <1>19, <2>1, <2>2, <2>3 DEF ViewOK, b
<1>25. SortOK(r)'
  BY <1>3, <1>4, <1>24 DEF SortOK, Placed
<1>26. InFlightOK'
  BY <1>1, InFlightFrame DEF SortInv
<1>27. Together'
  <2>1. \A q \in Rank : Exchanging(q)
    BY <1>4, ExchangingTogether
  <2>2. \A q \in Rank : Exchanging(q)'
    BY <1>3, <1>4, <2>1 DEF Exchanging
  <2> QED
    BY <2>2 DEF Together
<1>28. ASSUME NEW q \in Rank \ {r}, Late(q) PROVE Held(r)' \cap Held(q) = {}
  <2>1. pc[q] = "exchanged"
    BY <1>4, <1>28, ExchangingTogether
  <2>2. ViewOK(q)
    BY <2>1 DEF SortInv, SortOK
  <2>3. \A x \in Held(q) : BelongsTo(q, x)
    BY <2>1, <2>2, HeldBelongs DEF HeldInSegment
  <2>4. HeldInSegment'
    BY HeldBelongs, PTL
  <2>5. \A x \in Held(r)' : BelongsTo(r, x)'
    BY <1>3, <1>24, <2>4 DEF HeldInSegment
  <2>6. \A x : BelongsTo(r, x)' <=> BelongsTo(r, x)
    BY <1>1 DEF BelongsTo, InSegment
  <2>7. \A x : ~(BelongsTo(r, x) /\ BelongsTo(q, x))
    BY <1>2, <1>6, SegmentsDisjoint DEF AssignmentOK
  <2> QED
    BY <2>3, <2>5, <2>6, <2>7
<1>29. \A q \in Rank \ {r} : Entries(q)' = Entries(q) /\ record'[q] = record[q]
  BY <1>1, <1>3 DEF Entries
<1> QED
  BY <1>1, <1>25, <1>26, <1>27, <1>28, <1>29, SortStep

\* What a rank takes into its new layout are the particles of the view with a key of its segment.
LEMMA CountedView ==
    ASSUME NEW r \in Rank, NumAssigned(r) \in Nat, ViewOK(r), NEW j \in 0 .. NumCounted(r) - 1,
           \A i \in View(r) : ViewKey(r, i) \in Int, asg.bound[r + 1] \in Int
    PROVE  j \in Counted(r) /\ j \in View(r)
<1> DEFINE n == NumAssigned(r)
           C == Counted(r)
<1>1. NumCounted(r) = Cardinality(C)
  <2>1. C = {i \in View(r) : asg.bound[r] <= ViewKey(r, i) /\ ViewKey(r, i) < asg.bound[r + 1]}
    BY DEF Counted, ViewOK
  <2> QED
    BY <2>1 DEF NumCounted, View
<1>2. C \in SUBSET (0 .. n - 1)
  BY DEF Counted, View
<1>3. ASSUME NEW i \in 0 .. n - 1, NEW k \in 0 .. n - 1, i <= k, k \in C PROVE i \in C
  <2> DEFINE x == ViewKey(r, i)
             y == ViewKey(r, k)
             z == asg.bound[r + 1]
  <2>1. x <= y /\ y < z /\ x \in Int /\ y \in Int /\ z \in Int
    BY <1>3 DEF ViewOK, Counted, View
  <2> HIDE DEF x, y, z
  <2>2. x < z
    BY <2>1
  <2> QED
    BY <2>2 DEF x, z, Counted, View
<1>4. n \in Int /\ 0 \in Int
  OBVIOUS
<1> HIDE DEF C, n
<1>5. Cardinality(C) \in Nat /\ \A i \in 0 .. n - 1 : i \in C <=> i < 0 + Cardinality(C)
  BY <1>2, <1>3, <1>4, DownClosed
<1>6. NumCounted(r) \in Nat /\ NumCounted(r) <= n /\ n \in Nat
  BY NumCountedBound DEF n
<1>7. j \in 0 .. n - 1 /\ j < 0 + Cardinality(C)
  BY <1>1, <1>6
<1> QED
  BY <1>5, <1>7 DEF C, n, View

\* updateLayout and setupHalos: the particles of the view are placed with their keys.
LEMMA UpdateLayoutSort ==
    CountInv /\ SortInv /\ (\E r \in Rank : \E L \in AtMost(MaxHalos[numSync], Below(r)), H \in AtMost(MaxHalos[numSync], Above(r)) :
                               UpdateLayout(r, L, H)) => SortInv'
<1> SUFFICES ASSUME CountInv, SortInv, NEW r \in Rank, NEW L \in AtMost(MaxHalos[numSync], Below(r)),
                    NEW H \in AtMost(MaxHalos[numSync], Above(r)), UpdateLayout(r, L, H)
             PROVE  SortInv'
  OBVIOUS
<1> DEFINE low == InSfcOrder(L)
           high == InSfcOrder(H)
           n == NumAssigned(r)
           d == bufDesc[r]
           old == ExchangeBufferSize(d, NumIncoming(r))
           new == [start |-> Len(low), end |-> Len(low) + NumCounted(r),
                   size |-> Len(low) + NumCounted(r) + Len(high)]
           dat == [i \in 0 .. new.size - 1 |->
                     IF i < new.start THEN low[i + 1]
                     ELSE IF i < new.end THEN data[r][ViewIndex(r, i - new.start)]
                     ELSE high[i - new.end + 1]]
           kept == [i \in 0 .. new.size - 1 |->
                     IF i \in new.start .. new.start + n - 1 THEN ViewKey(r, i - new.start)
                     ELSE IF i < bufDesc[r].size THEN keys[r][i] ELSE 0]
           I == DOMAIN dat \ Range01(new)
           ks == ComputeSfcKeys(kept, dat, I, pos)
<1>1. /\ pc[r] = "exchanged" /\ pc' = [pc EXCEPT ![r] = "synced"]
      /\ \A q \in Rank : pc[q] \notin {"sending", "receiving"}
      /\ data' = [data EXCEPT ![r] = dat] /\ keys' = [keys EXCEPT ![r] = ks]
      /\ prevDesc' = [prevDesc EXCEPT ![r] = d] /\ bufDesc' = [bufDesc EXCEPT ![r] = new]
      /\ sends' = sends /\ asg' = asg /\ aux' = aux /\ net' = net /\ order' = order
      /\ recv' = recv /\ pos' = pos /\ record' = record
  BY DEF UpdateLayout
<1>2. ArraysOK /\ RankOK(r) /\ SendsKnown /\ AssignmentOK
  BY InvParts
<1>3. /\ pc'[r] = "synced" /\ data'[r] = dat /\ keys'[r] = ks /\ bufDesc'[r] = new
      /\ \A q \in Rank \ {r} : /\ pc'[q] = pc[q] /\ data'[q] = data[q] /\ keys'[q] = keys[q]
                               /\ prevDesc'[q] = prevDesc[q] /\ bufDesc'[q] = bufDesc[q]
  BY <1>1, <1>2 DEF ArraysOK
<1>4. Exchanging(r) /\ SentDesc(r) = d /\ Late(r) /\ Placed(r)'
  BY <1>1, <1>3 DEF Exchanging, SentDesc, Late, Placed
<1>5. /\ keys[r] \in [0 .. old - 1 -> 0 .. NumKeys] /\ pos \in [Particle -> Key] /\ alive \subseteq Particle
  BY <1>1, <1>2, <1>4 DEF RankOK, BuffersOK, BufferSize, ArraysOK
<1>6. ViewOK(r)
  BY <1>1 DEF SortInv, SortOK
<1>7. n \in Nat /\ NumIncoming(r) \in Nat
  BY <1>2, SentCounts
<1>8. L \in SUBSET Particle /\ H \in SUBSET Particle
  BY <1>5 DEF AtMost, Below, Above
<1>9. Len(low) \in Nat /\ Len(high) \in Nat
  BY <1>5, <1>8, HaloFacts
<1>10. NumCounted(r) \in Nat /\ NumCounted(r) <= n
  BY <1>7, NumCountedBound
<1>11. asg.bound[r + 1] \in Int
  BY <1>2, RankFacts DEF AssignmentOK, Boundaries
<1> HIDE DEF low, high, n, old
<1>12. ASSUME NEW j \in View(r) PROVE ViewKey(r, j) \in Int
  <2> DEFINE i == PostExchangeStart(r, d) + j
             E == Envelope(r).start .. Envelope(r).end - 1
  <2>1. i \in E /\ \A k \in E : k \in 0 .. old - 1
    BY <1>2, <1>4, ViewInEnvelope DEF View, old
  <2>2. ViewKey(r, j) = keys[r][i]
    BY DEF ViewKey
  <2> HIDE DEF i, E
  <2>3. keys[r][i] \in 0 .. NumKeys
    BY <1>5, <2>1
  <2> QED
    BY <2>2, <2>3
<1> DEFINE a == new.start
           b == new.end
           c == new.size
<1>13. a \in Nat /\ b \in Nat /\ c \in Nat /\ a = Len(low) /\ b = a + NumCounted(r) /\ c = b + Len(high) /\ b - a <= n
  BY <1>7, <1>9, <1>10
<1>14. dat = [i \in 0 .. c - 1 |-> IF i < a THEN low[i + 1]
                                  ELSE IF i < b THEN data[r][ViewIndex(r, i - a)] ELSE high[i - b + 1]]
  OBVIOUS
<1>15. kept = [i \in 0 .. c - 1 |-> IF i \in a .. a + n - 1 THEN ViewKey(r, i - a)
                                   ELSE IF i < bufDesc[r].size THEN keys[r][i] ELSE 0]
  OBVIOUS
<1>16. Range01(new) = a .. b - 1
  BY DEF Range01
<1> HIDE DEF a, b, c, dat, kept, new
<1>17. ASSUME NEW i \in a .. b - 1
       PROVE  /\ dat[i] = data[r][ViewIndex(r, i - a)] /\ ks[i] = ViewKey(r, i - a)
              /\ i - a \in Counted(r) /\ i - a \in View(r)
  <2>1. i \in 0 .. c - 1 /\ ~(i < a) /\ i < b /\ i \in a .. a + n - 1 /\ i - a \in 0 .. NumCounted(r) - 1
    <3> DEFINE w == NumCounted(r)
               x == Len(high)
    <3>1. n \in Nat /\ w \in Nat /\ w <= n /\ x \in Nat /\ a \in Nat /\ b = a + w /\ c = b + x
      BY <1>7, <1>9, <1>10, <1>13
    <3> HIDE DEF w, x
    <3>2. i \in 0 .. c - 1 /\ ~(i < a) /\ i < b /\ i \in a .. a + n - 1 /\ i - a \in 0 .. w - 1
      BY <3>1
    <3> QED
      BY <3>2 DEF w
  <2>2. dat[i] = data[r][ViewIndex(r, i - a)] /\ kept[i] = ViewKey(r, i - a) /\ i \in DOMAIN kept
    BY <1>14, <1>15, <2>1
  <2>3. ks[i] = kept[i]
    <3>1. i \notin I
      BY <1>16
    <3> HIDE DEF I
    <3> QED
      BY <2>2, <3>1 DEF ComputeSfcKeys
  <2>4. i - a \in Counted(r) /\ i - a \in View(r)
    BY <1>6, <1>7, <1>11, <1>12, <2>1, CountedView DEF n
  <2> QED
    BY <2>2, <2>3, <2>4
<1> HIDE DEF ks
<1>18. PlacedOK(r)'
  <2>1. ASSUME NEW i \in a .. b - 1 PROVE KeyOf(ks[i], dat[i]) /\ InSegment(r, ks[i])
    BY <1>6, <1>17 DEF ViewOK, InSegment, Counted
  <2>2. ASSUME NEW i \in a .. b - 1, NEW j \in a .. b - 1, i < j PROVE ks[i] <= ks[j]
    <3>1. i - a <= j - a
      BY <1>13, <2>2
    <3> QED
      BY <1>6, <1>17, <3>1 DEF ViewOK
  <2>3. Range01(bufDesc[r])' = a .. b - 1
    BY <1>3, <1>16 DEF Range01
  <2>4. ASSUME NEW i \in Range01(bufDesc[r])' PROVE KeyOf(keys[r][i], data[r][i])' /\ InSegment(r, keys[r][i])'
    <3>1. KeyOf(ks[i], dat[i]) /\ InSegment(r, ks[i]) /\ keys'[r][i] = ks[i] /\ data'[r][i] = dat[i]
      BY <1>3, <2>1, <2>3
    <3> QED
      BY <1>1, <3>1 DEF KeyOf, InSegment
  <2>5. \A i, j \in Range01(bufDesc[r])' : i < j => keys'[r][i] <= keys'[r][j]
    BY <1>3, <2>2, <2>3
  <2> QED
    BY <2>4, <2>5 DEF PlacedOK
<1>19. SortOK(r)'
  BY <1>3, <1>18 DEF SortOK, Unfinished
<1>20. InFlightOK'
  BY <1>1, InFlightFrame DEF SortInv
<1>21. Together'
  BY <1>1, <1>3 DEF Together, Unfinished
<1>22. Held(r)' \subseteq Held(r)
  <2>1. Held(r)' = {dat[i] : i \in a .. b - 1}
    BY <1>3, <1>16 DEF Held, Local
  <2>2. Held(r) = {data[r][ViewIndex(r, j)] : j \in Counted(r)}
    BY <1>1 DEF Held
  <2> QED
    BY <1>17, <2>1, <2>2
<1>23. \A q \in Rank \ {r} : Late(q) => Held(r)' \cap Held(q) = {}
  BY <1>4, <1>22 DEF SortInv, Apart
<1>24. \A q \in Rank \ {r} : Entries(q)' = Entries(q) /\ record'[q] = record[q]
  BY <1>1, <1>3 DEF Entries
<1> QED
  BY <1>1, <1>19, <1>20, <1>21, <1>23, <1>24, SortStep

\* The time step: a rank moves particles that no other rank holds, when all have theirs.
LEMMA IntegrateSort ==
    CountInv /\ SortInv /\ (\E r \in Rank : \E to \in [Local(r) -> Key], gone \in AtMost(MaxRemoved, Local(r)) :
                               Integrate(r, to, gone)) => SortInv'
<1> SUFFICES ASSUME CountInv, SortInv, NEW r \in Rank, NEW to \in [Local(r) -> Key],
                    NEW gone \in AtMost(MaxRemoved, Local(r)), Integrate(r, to, gone)
             PROVE  SortInv'
  OBVIOUS
<1>1. /\ pc[r] = "done" /\ pc' = [pc EXCEPT ![r] = "moved"]
      /\ pos' = [p \in Particle |-> IF p \in Local(r) THEN to[p] ELSE pos[p]]
      /\ sends' = sends /\ asg' = asg /\ data' = data /\ bufDesc' = bufDesc /\ net' = net /\ order' = order
  BY DEF Integrate
<1>2. ArraysOK
  BY InvParts
<1>3. pc'[r] = "moved" /\ \A q \in Rank \ {r} : pc'[q] = pc[q] /\ keys'[q] = keys[q]
  BY <1>1, <1>2 DEF ArraysOK, Integrate
<1>4. SortOK(r) /\ InFlightOK /\ Together /\ Apart
  BY DEF SortInv
<1>5. \A q \in Rank : ~Unfinished(q)
  <2>1. ~Exchanging(r)
    BY <1>1 DEF Exchanging
  <2> QED
    BY <1>4, <2>1 DEF Together
<1>6. Late(r) /\ Placed(r) /\ Held(r) = Local(r)
  BY <1>1 DEF Late, Placed, Held
<1>7. \A q \in Rank : ~Unfinished(q)'
  BY <1>3, <1>5 DEF Unfinished
<1>8. SortOK(r)'
  <2>1. MovedOK(r)
    BY <1>4, <1>6 DEF SortOK, PlacedOK, KeyOf, MovedOK
  <2>2. MovedOK(r)'
    BY <1>1, <2>1 DEF MovedOK
  <2> QED
    BY <1>3, <1>7, <2>2 DEF SortOK, Placed
<1>9. ASSUME NEW q \in Rank \ {r} PROVE SortOK(q)' /\ Held(q)' = Held(q) /\ (Late(q)' <=> Late(q))
  <2>1. pc'[q] = pc[q] /\ keys'[q] = keys[q] /\ SortOK(q) /\ ~Unfinished(q)'
    BY <1>3, <1>7 DEF SortInv
  <2>2. View(q)' = View(q) /\ PostExchangeStart(q, bufDesc[q])' = PostExchangeStart(q, bufDesc[q])
    BY <1>1 DEF NumIncoming, NumAssigned, NumPresent, View, PostExchangeStart, NumSendDown
  <2>3. \A j : ViewKey(q, j)' = ViewKey(q, j) /\ ViewIndex(q, j)' = ViewIndex(q, j)
    BY <1>1, <2>1, <2>2 DEF ViewKey, ViewIndex
  <2>4. Counted(q)' = Counted(q)
    BY <1>1, <2>2, <2>3 DEF Counted
  <2>5. Held(q)' = Held(q) /\ (Late(q)' <=> Late(q)) /\ (Placed(q)' <=> Placed(q))
    <3>1. (Late(q)' <=> Late(q)) /\ (Placed(q)' <=> Placed(q))
      BY <2>1 DEF Late, Placed
    <3>2. Local(q)' = Local(q)
      BY <1>1 DEF Local
    <3>3. {data[q][ViewIndex(q, j)] : j \in Counted(q)}' = {data[q][ViewIndex(q, j)] : j \in Counted(q)}
      BY <1>1, <2>3, <2>4
    <3> QED
      BY <2>1, <3>1, <3>2, <3>3 DEF Held
  <2>6. CASE pc[q] = "moved"
    <3>1. MovedOK(q)'
      BY <1>1, <2>1, <2>6 DEF SortOK, MovedOK
    <3> QED
      BY <2>1, <2>5, <2>6, <3>1 DEF SortOK, Placed
  <2>7. CASE pc[q] = "exchanged"
    <3>1. ViewOK(q) /\ Late(q) /\ \A j \in Counted(q) : data[q][ViewIndex(q, j)] \in Held(q)
      BY <2>1, <2>7 DEF SortOK, Late, Held
    <3>2. \A j \in Counted(q) : KeyOf(ViewKey(q, j), data[q][ViewIndex(q, j)])'
      <4> SUFFICES ASSUME NEW j \in Counted(q) PROVE KeyOf(ViewKey(q, j), data[q][ViewIndex(q, j)])'
        OBVIOUS
      <4> DEFINE k == ViewKey(q, j)
                 x == data[q][ViewIndex(q, j)]
      <4>1. KeyOf(k, x) /\ x \in Held(q) /\ k' = k /\ x' = x
        BY <1>1, <2>3, <3>1 DEF ViewOK
      <4> HIDE DEF k, x
      <4>2. x \in Particle /\ k = pos'[x]
        <5>1. x \notin Local(r)
          BY <1>4, <1>6, <3>1, <4>1 DEF Apart
        <5> QED
          BY <1>1, <4>1, <5>1 DEF KeyOf
      <4>3. KeyOf(k, x)'
        BY <4>1, <4>2 DEF KeyOf
      <4> QED
        BY <4>3 DEF k, x
    <3>3. ViewOK(q)'
      BY <1>1, <2>2, <2>3, <2>4, <3>1, <3>2 DEF ViewOK
    <3> QED
      BY <2>1, <2>5, <2>7, <3>3 DEF SortOK, Placed
  <2>8. CASE Placed(q)
    <3>1. PlacedOK(q) /\ Late(q) /\ Held(q) = Local(q) /\ pc[q] \notin {"moved", "exchanged"}
      BY <2>1, <2>8 DEF SortOK, Late, Held, Placed
    <3>2. ASSUME NEW i \in Range01(bufDesc[q]) PROVE data[q][i] \in Particle /\ keys[q][i] = pos'[data[q][i]]
      <4>1. KeyOf(keys[q][i], data[q][i]) /\ data[q][i] \in Local(q)
        BY <3>1 DEF PlacedOK, Local
      <4>2. data[q][i] \notin Local(r)
        BY <1>4, <1>6, <3>1, <4>1 DEF Apart
      <4> QED
        BY <1>1, <4>1, <4>2 DEF KeyOf
    <3>3. PlacedOK(q)'
      BY <1>1, <2>1, <3>1, <3>2 DEF PlacedOK, KeyOf, InSegment
    <3> QED
      BY <2>1, <2>5, <3>1, <3>3 DEF SortOK
  <2>9. pc[q] = "moved" \/ pc[q] = "exchanged" \/ Placed(q)
    BY <1>2, <1>5 DEF ArraysOK, Phases, Unfinished, Placed
  <2> QED
    BY <2>5, <2>6, <2>7, <2>8, <2>9
<1>10. InFlightOK'
  <2>1. \A src, dst \in Rank : net[0][src][dst] = << >>
    BY <1>5, CountsImplyNoStray DEF NoStrayMessages, Unfinished
  <2>2. \A src, dst \in Rank : net'[0][src][dst] = << >>
    BY <1>1, <2>1
  <2> QED
    BY <2>2 DEF InFlightOK, Addressed
<1>11. Apart'
  <2>1. ~Late(r)'
    BY <1>3 DEF Late
  <2> QED
    BY <1>4, <1>9, <2>1 DEF Apart
<1>12. Together'
  BY <1>7 DEF Together
<1>13. \A q \in Rank : SortOK(q)'
  BY <1>8, <1>9
<1> QED
  BY <1>10, <1>11, <1>12, <1>13 DEF SortInv

\* createSendRanges divides the sorted keys where the segments begin.
LEMMA SendRangeCut ==
    ASSUME NEW d \in Descriptions, NEW ks, KeysOf(ks, d), NEW o, PermutesRange(o, d.start, d.end),
           SortsRange(o, ks, d.start, d.end), NEW v \in Int
    PROVE  \A i \in Range01(d) :
             ks[o[i]] < v <=> i < d.start + LowerBound(Permuted(ks, o), d.start, d.end, v)
<1> DEFINE lo == d.start
           hi == d.end
<1>1. lo \in Nat /\ hi \in Nat /\ \A i \in lo .. hi - 1 : ks[i] \in Int
  BY RangeSize DEF KeysOf, Range01
<1>2. LowerBound(Permuted(ks, o), lo, hi, v) = Cardinality({i \in lo .. hi - 1 : ks[i] < v})
  BY LowerBoundFacts DEF LowerBound
<1>3. PermutesRange(o, lo, hi) /\ SortsRange(o, ks, lo, hi)
  OBVIOUS
<1> HIDE DEF lo, hi
<1>4. \A i \in lo .. hi - 1 : ks[o[i]] < v <=> i < lo + Cardinality({k \in lo .. hi - 1 : ks[k] < v})
  BY <1>1, <1>3, SortedCut
<1> QED
  BY <1>2, <1>4 DEF Range01, lo, hi

\* The collective assignment: the keys of the local particles are computed, sorted and divided.
LEMMA AssignSort == CountInv /\ SortInv /\ Assign => SortInv'
<1> SUFFICES ASSUME CountInv, SortInv, Assign PROVE SortInv'
  OBVIOUS
<1> DEFINE fresh  == [r \in Rank |-> ComputeSfcKeys(keys[r], data[r], Range01(bufDesc[r]), pos)]
           ord    == [r \in Rank |-> SortOrder(fresh[r], bufDesc[r].start, bufDesc[r].end)]
           sorted == [r \in Rank |-> Permuted(fresh[r], ord[r])]
           counts == LeafCounts(fresh, bufDesc)
           a      == MakeSfcAssignment(counts)
           s      == [r \in Rank |-> CreateSendRanges(a, sorted[r], bufDesc[r])]
           In(r)  == a.count[r] - SendCount(s[r], r)
           Size(r)  == ExchangeBufferSize(bufDesc[r], In(r))
           Start(r) == ReceiveStart([bufDesc[r] EXCEPT !.size = Size(r)], In(r))
<1>1. /\ \A r \in Rank : pc[r] = "moved"
      /\ asg' = a /\ sends' = s /\ order' = ord
      /\ keys' = [r \in Rank |-> Resized(sorted[r], Size(r), 0)]
      /\ data' = [r \in Rank |-> Resized(data[r], Size(r), NoParticle)]
      /\ record' = [r \in Rank |-> TRUE]
      /\ recv' = [r \in Rank |-> [at |-> Start(r), end |-> Start(r) + In(r)]]
      /\ pc' = [r \in Rank |-> "sending"]
      /\ pos' = pos /\ bufDesc' = bufDesc /\ net' = net
  BY DEF Assign, LeafCounts
<1>2. ArraysOK /\ (\A r \in Rank : RankOK(r)) /\ CountInv'
  BY InvParts, AssignInv
<1>3. SendsKnown' /\ AssignmentOK'
  BY <1>2 DEF CountInv, SendsKnown, BuffersOK
<1>4. ASSUME NEW r \in Rank
      PROVE  /\ sends'[r] = CreateSendRanges(asg', Permuted(fresh[r], order'[r]), bufDesc[r])
             /\ order'[r] = SortOrder(fresh[r], bufDesc[r].start, bufDesc[r].end)
             /\ fresh[r] = ComputeSfcKeys(keys[r], data[r], Range01(bufDesc[r]), pos)
             /\ NumIncoming(r)' = In(r) /\ keys'[r] = Resized(Permuted(fresh[r], order'[r]), Size(r), 0)
             /\ data'[r] = Resized(data[r], Size(r), NoParticle) /\ record'[r] = TRUE
             /\ recv'[r] = [at |-> Start(r), end |-> Start(r) + In(r)] /\ pc'[r] = "sending"
             /\ bufDesc'[r] = bufDesc[r]
  <2>1. NumIncoming(r)' = In(r)
    BY <1>1 DEF NumIncoming, NumAssigned, NumPresent
  <2>2. fresh[r] = ComputeSfcKeys(keys[r], data[r], Range01(bufDesc[r]), pos)
    OBVIOUS
  <2> HIDE DEF fresh, a
  <2>3. /\ ord[r] = SortOrder(fresh[r], bufDesc[r].start, bufDesc[r].end)
        /\ sorted[r] = Permuted(fresh[r], ord[r]) /\ s[r] = CreateSendRanges(a, sorted[r], bufDesc[r])
    OBVIOUS
  <2> HIDE DEF ord, sorted, s, In, Size, Start
  <2>4. /\ asg' = a /\ order'[r] = ord[r] /\ sends'[r] = s[r] /\ keys'[r] = Resized(sorted[r], Size(r), 0)
        /\ data'[r] = Resized(data[r], Size(r), NoParticle) /\ record'[r] = TRUE
        /\ recv'[r] = [at |-> Start(r), end |-> Start(r) + In(r)] /\ pc'[r] = "sending"
        /\ bufDesc'[r] = bufDesc[r]
    BY <1>1
  <2> QED
    BY <2>1, <2>2, <2>3, <2>4
<1>5. ASSUME NEW r \in Rank PROVE OwnOK(r)' /\ ReceivedOK(r)'
  <2> DEFINE d == bufDesc[r]
             ks == fresh[r]
             o == order'[r]
             n == NumIncoming(r)'
             size == ExchangeBufferSize(d, n)
  <2>1. /\ sends'[r] = CreateSendRanges(asg', Permuted(ks, o), d) /\ o = SortOrder(ks, d.start, d.end)
        /\ ks = ComputeSfcKeys(keys[r], data[r], Range01(d), pos)
        /\ keys'[r] = Resized(Permuted(ks, o), size, 0) /\ data'[r] = Resized(data[r], size, NoParticle)
        /\ recv'[r].at = ReceiveStart([d EXCEPT !.size = size], n)
        /\ recv'[r].end = ReceiveStart([d EXCEPT !.size = size], n) + n
        /\ bufDesc'[r] = d /\ record'[r] = TRUE
    <3>1. Size(r) = size /\ Start(r) = ReceiveStart([d EXCEPT !.size = size], n)
      BY <1>4
    <3> HIDE DEF fresh, ord, sorted, counts, a, s, In, Size, Start, n, size
    <3>2. In(r) = n
      BY <1>4 DEF n
    <3>3. recv'[r].at = Start(r) /\ recv'[r].end = Start(r) + In(r)
      <4>1. recv'[r] = [at |-> Start(r), end |-> Start(r) + In(r)]
        BY <1>4
      <4> QED
        BY <4>1
    <3>4. keys'[r] = Resized(Permuted(ks, o), size, 0) /\ data'[r] = Resized(data[r], size, NoParticle)
      BY <1>4, <3>1
    <3>5. /\ sends'[r] = CreateSendRanges(asg', Permuted(ks, o), d) /\ o = SortOrder(ks, d.start, d.end)
          /\ ks = ComputeSfcKeys(keys[r], data[r], Range01(d), pos)
          /\ bufDesc'[r] = d /\ record'[r] = TRUE
      BY <1>4
    <3> QED
      BY <3>1, <3>2, <3>3, <3>4, <3>5
  <2> HIDE DEF fresh, ord, sorted, counts, a, s, In, Size, Start, ks, o, n
  <2>2. MovedOK(r) /\ BufferSize(r) = d.size
    BY <1>1 DEF SortInv, SortOK, BufferSize, Exchanging
  <2>3. /\ d \in Descriptions /\ pos \in [Particle -> Key]
        /\ data[r] \in [0 .. d.size - 1 -> Slot] /\ keys[r] \in [0 .. d.size - 1 -> 0 .. NumKeys]
    BY <1>2, <2>2 DEF RankOK, BuffersOK, ArraysOK
  <2>4. n \in Nat
    <3>1. (SendsKnown => IncomingKnown)'
      BY IncomingIsNat, PTL
    <3> QED
      BY <1>3, <3>1 DEF IncomingKnown, n
  <2>5. /\ size \in Nat /\ d.size <= size /\ ReceiveStart(d, n) \in Nat
        /\ d.start \in Nat /\ d.end \in Nat /\ d.size \in Nat /\ d.end <= d.size
    BY <2>3, <2>4, EnvelopeFacts, RangeSize
  <2> HIDE DEF size
  <2>6. ks \in [0 .. d.size - 1 -> 0 .. NumKeys]
    <3> DEFINE I == Range01(d)
               D == 0 .. d.size - 1
               A == data[r]
               K == keys[r]
    <3>1. K \in [D -> 0 .. NumKeys] /\ (\A i \in D \cap I : A[i] \in Slot) /\ ks = ComputeSfcKeys(K, A, I, pos)
      BY <2>1, <2>3
    <3> HIDE DEF I, D, A, K
    <3>2. ComputeSfcKeys(K, A, I, pos) \in [D -> 0 .. NumKeys]
      BY <2>3, <3>1, KeyTypes
    <3> QED
      BY <3>1, <3>2 DEF D
  <2>7. \A i \in Range01(d) : i \in 0 .. d.size - 1 /\ i \in 0 .. size - 1
    BY <2>5 DEF Range01
  <2>8. KeysOf(ks, d)
    <3>1. \A i \in 0 .. d.size - 1 : ks[i] \in Int /\ i \in DOMAIN ks
      BY <2>6, RankFacts
    <3> QED
      BY <2>7, <3>1 DEF KeysOf
  <2>9. PermutesRange(o, d.start, d.end) /\ SortsRange(o, ks, d.start, d.end)
    <3> DEFINE lo == d.start
               hi == d.end
    <3>1. lo \in Nat /\ hi \in Nat /\ (\A i \in lo .. hi - 1 : ks[i] \in Int) /\ o = SortOrder(ks, lo, hi)
      BY <2>1, <2>5, <2>8 DEF KeysOf, Range01
    <3> HIDE DEF lo, hi
    <3>2. PermutesRange(o, lo, hi) /\ SortsRange(o, ks, lo, hi)
      BY <3>1, SortOrderFacts
    <3> QED
      BY <3>2 DEF lo, hi
  <2>10. \A i \in Range01(d) : o[i] \in Range01(d) /\ i \in DOMAIN o
    BY <2>9 DEF PermutesRange, Range01
  <2>11. ASSUME NEW i \in Range01(d) PROVE keys'[r][i] = ks[o[i]] /\ data'[r][o[i]] = data[r][o[i]]
    <3>1. Permuted(ks, o)[i] = ks[o[i]] /\ i \in DOMAIN Permuted(ks, o)
      BY <2>6, <2>7, <2>10 DEF Permuted
    <3>2. keys'[r][i] = Permuted(ks, o)[i]
      BY <2>1, <2>7, <3>1 DEF Resized
    <3>3. o[i] \in 0 .. size - 1 /\ o[i] \in DOMAIN data[r]
      BY <2>3, <2>7, <2>10
    <3>4. data'[r][o[i]] = data[r][o[i]]
      BY <2>1, <3>3 DEF Resized
    <3> QED
      BY <3>1, <3>2, <3>4
  <2>12. ASSUME NEW k \in Range01(d), ks[k] # RemoveKey PROVE KeyOf(ks[k], data[r][k])
    <3>1. data[r][k] \in Particle
      BY <2>2 DEF MovedOK
    <3>2. data[r][k] # NoParticle
      BY <3>1 DEF Particle, NoParticle
    <3>3. k \in DOMAIN keys[r]
      BY <2>3, <2>7
    <3>4. ks[k] = IF keys[r][k] # RemoveKey THEN pos[data[r][k]] ELSE keys[r][k]
      BY <2>1, <3>2, <3>3 DEF ComputeSfcKeys
    <3> QED
      BY <2>12, <3>1, <3>4 DEF KeyOf
  <2>13. ASSUME NEW i \in Range01(d), NEW q \in 0 .. NumRanks
         PROVE  ks[o[i]] < asg'.bound[q] <=> i < d.start + sends'[r][q]
    <3> DEFINE v == asg'.bound[q]
    <3>1. v \in Int
      <4>1. v \in 0 .. NumKeys
        BY <1>3 DEF AssignmentOK, Boundaries
      <4> QED
        BY <4>1
    <3>2. sends'[r][q] = LowerBound(Permuted(ks, o), d.start, d.end, v)
      BY <2>1 DEF CreateSendRanges
    <3> HIDE DEF v
    <3>3. ks[o[i]] < v <=> i < d.start + LowerBound(Permuted(ks, o), d.start, d.end, v)
      BY <2>3, <2>8, <2>9, <3>1, SendRangeCut
    <3> QED
      BY <3>2, <3>3 DEF v
  <2>14. OwnOK(r)'
    <3>1. Range01(bufDesc[r])' = Range01(d)
      BY <2>1 DEF Range01
    <3>2. ASSUME NEW i \in Range01(d)
          PROVE  /\ keys'[r][i] # RemoveKey => KeyOf(keys[r][i], data[r][order[r][i]])'
                 /\ \A q \in 0 .. NumRanks : keys'[r][i] < asg'.bound[q] <=> i < d.start + sends'[r][q]
      <4>1. keys'[r][i] # RemoveKey => KeyOf(ks[o[i]], data[r][o[i]])
        BY <2>10, <2>11, <2>12
      <4>2. keys'[r][i] # RemoveKey => KeyOf(keys[r][i], data[r][order[r][i]])'
        BY <1>1, <2>11, <4>1 DEF KeyOf, o
      <4> QED
        BY <2>11, <2>13, <4>2
    <3> QED
      BY <2>1, <3>1, <3>2 DEF OwnOK, RemoveKey
  <2>15. ReceivedOK(r)'
    <3> DEFINE rs == ReceiveStart(d, n)
    <3>1. ReceiveStart([d EXCEPT !.size = size], n) = rs
      BY <2>3 DEF ReceiveStart, Descriptions
    <3>2. recv'[r].at = rs /\ recv'[r].end = rs + n /\ rs \in Nat
      BY <2>1, <2>5, <3>1
    <3> HIDE DEF rs
    <3>3. rs <= recv'[r].at /\ rs .. recv'[r].at - 1 = {}
      BY <3>2
    <3>4. ReceiveStart(bufDesc[r], NumIncoming(r))' = rs
      BY <2>1 DEF rs, n, ReceiveStart
    <3> QED
      BY <2>1, <3>2, <3>3, <3>4 DEF ReceivedOK, n
  <2> QED
    BY <2>14, <2>15
<1> HIDE DEF fresh, ord, sorted, counts, a, s, In, Size, Start
<1>6. \A r \in Rank : SortOK(r)' /\ Exchanging(r)' /\ ~Late(r)'
  BY <1>4, <1>5 DEF SortOK, Placed, Exchanging, Late
<1>7. InFlightOK'
  <2>1. \A src, dst \in Rank : net[0][src][dst] = << >>
    BY <1>1, CountsImplyNoStray DEF NoStrayMessages
  <2>2. \A src, dst \in Rank : net'[0][src][dst] = << >>
    BY <1>1, <2>1
  <2> QED
    BY <2>2 DEF InFlightOK, Addressed
<1> QED
  BY <1>6, <1>7 DEF SortInv, Together, Apart

\* Initially every rank has particles, and no message is on its way.
LEMMA InitSort == Init => SortInv
<1> SUFFICES ASSUME Init PROVE SortInv
  OBVIOUS
<1> DEFINE own(r) == {p \in Particle : InitialOwner[p] = r}
           size(r) == Cardinality(own(r))
           arr(r) == [i \in 0 .. size(r) - 1 |-> CHOOSE p \in own(r) : Cardinality({q \in own(r) : q < p}) = i]
           desc(r) == [start |-> 0, end |-> size(r), size |-> size(r)]
<1>1. /\ pc = [r \in Rank |-> "moved"] /\ data = [r \in Rank |-> arr(r)]
      /\ bufDesc = [r \in Rank |-> desc(r)]
      /\ net = [e \in {0, 1} |-> [r \in Rank |-> [q \in Rank |-> << >>]]]
  BY DEF Init
<1>2. ASSUME NEW r \in Rank PROVE MovedOK(r)
  <2> DEFINE D == own(r)
  <2>1. D \in SUBSET Particle
    OBVIOUS
  <2> HIDE DEF D
  <2>2. [i \in 0 .. Cardinality(D) - 1 |-> CHOOSE p \in D : Cardinality({q \in D : q < p}) = i]
             \in [0 .. Cardinality(D) - 1 -> D]
    BY <2>1, InitialBuffer
  <2>3. arr(r) \in [0 .. size(r) - 1 -> D]
    BY <2>2 DEF D
  <2>4. Range01(bufDesc[r]) = 0 .. size(r) - 1 /\ data[r] = arr(r)
    BY <1>1 DEF Range01
  <2> HIDE DEF arr, size
  <2> QED
    BY <2>1, <2>3, <2>4 DEF MovedOK
<1>3. \A r \in Rank : pc[r] = "moved"
  BY <1>1
<1>4. \A r \in Rank : SortOK(r) /\ ~Unfinished(r) /\ ~Late(r)
  BY <1>2, <1>3 DEF SortOK, Unfinished, Placed, Late
<1>5. InFlightOK
  <2>1. \A src, dst \in Rank : net[0][src][dst] = << >>
    BY <1>1
  <2> QED
    BY <2>1 DEF InFlightOK, Addressed
<1> QED
  BY <1>4, <1>5 DEF SortInv, Together, Apart

-----------------------------------------------------------------------------
(* The order of the particles after a sync *)
\* Every step of the exchange keeps the keys with their particles.
LEMMA NextSort == CountInv /\ SortInv /\ [Next]_vars => SortInv'
<1> SUFFICES ASSUME CountInv, SortInv, [Next]_vars PROVE SortInv'
  OBVIOUS
<1>1. CASE Assign
  BY <1>1, AssignSort
<1>2. CASE \E r \in Rank : SendParticles(r)
  BY <1>2, SendParticlesSort
<1>3. CASE \E r, src \in Rank : ReceiveParticles(r, src)
  BY <1>3, ReceiveParticlesSort
<1>4. CASE \E r \in Rank : FinishDistribute(r)
  BY <1>4, FinishDistributeSort
<1>5. CASE \E r \in Rank : \E L \in AtMost(MaxHalos[numSync], Below(r)), H \in AtMost(MaxHalos[numSync], Above(r)) : UpdateLayout(r, L, H)
  BY <1>5, UpdateLayoutSort
<1>6. CASE (\E r \in Rank : RedoSend(r)) \/ (\E r, src \in Rank : RedoReceive(r, src)) \/ (\E r \in Rank : FinishRedo(r))
  BY <1>6, RedoSort
<1>7. CASE \E r \in Rank : \E to \in [Local(r) -> Key], gone \in AtMost(MaxRemoved, Local(r)) : Integrate(r, to, gone)
  BY <1>7, IntegrateSort
<1>8. CASE Stop \/ UNCHANGED vars
  BY <1>8, StutterSort DEF Stop
<1> QED
  BY <1>1, <1>2, <1>3, <1>4, <1>5, <1>6, <1>7, <1>8 DEF Next

\* In every state of the exchange, for any number of ranks, particles, keys and syncs, any
\* message size, any order in which messages arrive and any particles marked for removal: every
\* key that a rank has sorted and not marked is that of the particle it is gathered with, the
\* particles of a message lie in the segment of its receiver, no rank moves its particles while
\* another one still exchanges, and no particle is held by two ranks.
THEOREM SortInvariance == Spec => []SortInv
<1>1. Init => SortInv
  BY InitSort
<1>2. CountInv /\ SortInv /\ [Next]_vars => SortInv'
  BY NextSort
<1>3. Spec => []CountInv
  BY CountInvariance
<1> QED
  BY <1>1, <1>2, <1>3, PTL DEF Spec

\* The particles of a rank in its new layout are what SfcSorted says of them.
LEMMA PlacedIsSorted == SortInv => SfcSorted
BY DEF SortInv, SortOK, PlacedOK, KeyOf, InSegment, SfcSorted

\* After a sync the assigned range of a rank is sorted along the space-filling curve, its keys
\* are those of its particles, and they lie in the rank's segment (Domain::sync), for every
\* value of the constants, although the keys and the particles were sorted, received and moved
\* separately; it stays so while reapplySync moves another array.
THEOREM SfcSortedHolds == Spec => []SfcSorted
BY SortInvariance, PlacedIsSorted, PTL
=============================================================================
