--------------------------- MODULE ExchangeProofs ---------------------------
(***************************************************************************)
(* Where DomainExchange puts the particles it receives, for any buffer and *)
(* any number of incoming particles, and that ranks receive exactly what   *)
(* is sent to them: the inductive invariant CountInv of ExchangeLemmas.    *)
(***************************************************************************)
EXTENDS ExchangeLemmas

\* Zenon first: in a context as large as this one it is the faster of the two provers.
USE ZenonT(10), SMTT(30)

\* The received particles fit into the buffer after exchangeBufferSize has enlarged it,
\* overwrite none of the assigned particles, some of which are still to be sent, and
\* together with them fill the envelope that is sorted next, without a gap (receiveStart
\* and assignedEnvelope, each of which chooses by itself whether the particles are put in
\* front of the assigned ones or behind).  The assertion of receiveStart holds.
THEOREM ReceivedBesideAssigned ==
    ASSUME NEW d \in Descriptions, NEW numIncoming \in Nat
    PROVE  LET size  == ExchangeBufferSize(d, numIncoming)
               first == ReceiveStart([d EXCEPT !.size = size], numIncoming)
               env   == AssignedEnvelope(d, numIncoming)
               received == first .. first + numIncoming - 1
           IN  /\ d.size <= size
               /\ d.start >= numIncoming \/ size - d.end >= numIncoming
               /\ received \subseteq 0 .. size - 1
               /\ received \cap Range01(d) = {}
               /\ received \cup Range01(d) = Range01(env)
<1> DEFINE size  == ExchangeBufferSize(d, numIncoming)
           first == ReceiveStart([d EXCEPT !.size = size], numIncoming)
           env   == AssignedEnvelope(d, numIncoming)
<1>1. d.start \in Nat /\ d.end \in Nat /\ d.size \in Nat /\ d.start <= d.end /\ d.end <= d.size
  BY DEF Descriptions
<1>2. CASE d.start >= numIncoming
  <2>1. size = d.size /\ first = d.start - numIncoming
    BY <1>2 DEF ExchangeBufferSize, ReceiveStart, Descriptions
  <2>2. env.start = d.start - numIncoming /\ env.end = d.end
    BY <1>2 DEF AssignedEnvelope
  <2> QED
    BY <1>1, <1>2, <2>1, <2>2 DEF Range01
<1>3. CASE ~(d.start >= numIncoming)
  <2>1. first = d.end
    BY <1>3 DEF ReceiveStart, Descriptions
  <2>2. size = IF d.size - d.end >= numIncoming THEN d.size ELSE d.end + numIncoming
    BY <1>3 DEF ExchangeBufferSize
  <2>3. env.start = d.start /\ env.end = d.end + numIncoming
    BY <1>3 DEF AssignedEnvelope
  <2> QED
    BY <1>1, <1>3, <2>1, <2>2, <2>3 DEF Range01
<1> QED
  BY <1>2, <1>3

-----------------------------------------------------------------------------
(* What the invariant says in one state *)
\* A rank is assigned what it keeps and what it receives.
LEMMA SentCounts ==
    SendsKnown =>
        \A r \in Rank :
            /\ \A q \in Rank : /\ SendCount(sends[r], q) \in Nat /\ sends[r][q] \in Nat /\ sends[r][q + 1] \in Nat
                               /\ sends[r][q + 1] = sends[r][q] + SendCount(sends[r], q)
                               /\ sends[r][q + 1] <= SentDesc(r).end - SentDesc(r).start
            /\ SentDesc(r) \in Descriptions
            /\ NumPresent(r) \in Nat /\ NumIncoming(r) \in Nat /\ NumAssigned(r) \in Nat
            /\ NumAssigned(r) = NumPresent(r) + NumIncoming(r)
<1> SUFFICES ASSUME SendsKnown
             PROVE  \A r \in Rank :
                      /\ \A q \in Rank : /\ SendCount(sends[r], q) \in Nat /\ sends[r][q] \in Nat /\ sends[r][q + 1] \in Nat
                                         /\ sends[r][q + 1] = sends[r][q] + SendCount(sends[r], q)
                                         /\ sends[r][q + 1] <= SentDesc(r).end - SentDesc(r).start
                      /\ SentDesc(r) \in Descriptions
                      /\ NumPresent(r) \in Nat /\ NumIncoming(r) \in Nat /\ NumAssigned(r) \in Nat
                      /\ NumAssigned(r) = NumPresent(r) + NumIncoming(r)
  OBVIOUS
<1>1. ASSUME NEW r \in Rank
      PROVE  /\ SentDesc(r) \in Descriptions /\ SentDesc(r).end - SentDesc(r).start \in Nat
             /\ SendRanges(sends[r], SentDesc(r).end - SentDesc(r).start)
  <2>1. SentDesc(r) \in Descriptions
    BY DEF SendsKnown, SentDesc
  <2>2. SentDesc(r).end - SentDesc(r).start \in Nat
    BY <2>1, RangeSize
  <2> QED
    BY <2>1, <2>2 DEF SendsKnown, SendsOK
<1>2. ASSUME NEW r \in Rank, NEW q \in Rank
      PROVE  /\ SendCount(sends[r], q) \in Nat /\ sends[r][q] \in Nat /\ sends[r][q + 1] \in Nat
             /\ sends[r][q + 1] = sends[r][q] + SendCount(sends[r], q)
             /\ sends[r][q + 1] <= SentDesc(r).end - SentDesc(r).start
  <2> DEFINE n == SentDesc(r).end - SentDesc(r).start
             s == sends[r]
  <2>1. n \in Nat /\ SendRanges(s, n)
    BY <1>1
  <2> HIDE DEF n, s
  <2>2. /\ SendCount(s, q) \in Nat /\ s[q] \in Nat /\ s[q + 1] \in Nat
        /\ s[q + 1] = s[q] + SendCount(s, q) /\ s[q + 1] <= n
    BY <2>1, SendCountFacts
  <2> QED
    BY <2>2 DEF n, s
<1>3. ASSUME NEW r \in Rank
      PROVE  /\ NumPresent(r) \in Nat /\ NumIncoming(r) \in Nat /\ NumAssigned(r) \in Nat
             /\ NumAssigned(r) = NumPresent(r) + NumIncoming(r)
  <2> DEFINE f == SentTo(r)
  <2>1. \A x \in Rank : f[x] = SendCount(sends[x], r) /\ f[x] \in Nat
    BY <1>2 DEF SentTo
  <2>2. asg.count[r] = SumFunctionOnSet(f, Rank)
    BY DEF SendsKnown, AssignmentOK
  <2> HIDE DEF f
  <2>3. /\ SumFunctionOnSet(f, Rank) = f[r] + SumFunctionOnSet(f, Rank \ {r})
        /\ SumFunctionOnSet(f, Rank \ {r}) \in Nat
    BY <2>1, RankFacts, SumTerm
  <2>4. NumPresent(r) = f[r] /\ NumAssigned(r) = asg.count[r] /\ NumIncoming(r) = asg.count[r] - f[r] /\ f[r] \in Nat
    BY <2>1 DEF NumPresent, NumAssigned, NumIncoming
  <2> QED
    BY <2>2, <2>3, <2>4
<1> QED
  BY <1>1, <1>2, <1>3

\* numIncoming is not negative.
LEMMA IncomingIsNat == SendsKnown => IncomingKnown
BY SentCounts DEF IncomingKnown

\* Before any rank has sent, every rank is due what it is assigned and does not have.
LEMMA WaitingSum == SendsKnown => AllDue
<1> SUFFICES ASSUME SendsKnown, NEW e \in {0, 1}, \A q \in Rank : Waiting(e, q), NEW r \in Rank
             PROVE  SumFunctionOnSet(DueTo(e, r), Rank) = NumIncoming(r)
  BY DEF AllDue
<1> DEFINE f == SentTo(r)
           g == DueTo(e, r)
<1>1. \A x \in Rank : f[x] = SendCount(sends[x], r) /\ f[x] \in Nat
  BY SentCounts DEF SentTo
<1>2. \A x \in Rank : g[x] = IF x = r THEN 0 ELSE SendCount(sends[x], r)
  BY DEF DueTo, Due
<1>3. asg.count[r] = SumFunctionOnSet(f, Rank)
  BY DEF SendsKnown, AssignmentOK
<1>4. NumIncoming(r) = asg.count[r] - SendCount(sends[r], r) /\ asg.count[r] \in Nat
  BY SentCounts DEF NumPresent, NumAssigned, NumIncoming
<1> HIDE DEF f, g
<1>5. /\ \A y \in Rank : f[y] \in Nat /\ g[y] \in Nat
      /\ \A y \in Rank \ {r} : f[y] = g[y]
  BY <1>1, <1>2
<1>6. SumFunctionOnSet(g, Rank) = SumFunctionOnSet(f, Rank) - f[r] + g[r]
  BY <1>5, RankFacts, SumChange
<1>7. f[r] = SendCount(sends[r], r) /\ f[r] \in Nat /\ g[r] = 0
  BY <1>1, <1>2
<1> QED
  BY <1>3, <1>4, <1>6, <1>7 DEF g

\* What is due is a number, and zero only if nothing is in flight.
LEMMA DueFacts ==
    ASSUME SendsKnown, NEW e \in {0, 1}, NEW src \in Rank, NEW r \in Rank, ChannelOK(e, src, r)
    PROVE  Due(e, src, r) \in Nat /\ (Due(e, src, r) = 0 => net[e][src][r] = << >>)
<1> DEFINE n == SendCount(sends[src], r)
           fit == NumFit[e]
           m == net[e][src][r]
<1>1. n \in Nat /\ fit \in Nat \ {0} /\ Leftover(m, n, fit)
  BY SentCounts, ExchangeAssumption DEF ChannelOK
<1>2. src = r \/ Waiting(e, src) => m = << >>
  BY DEF ChannelOK
<1>3. Due(e, src, r) = IF src = r THEN 0 ELSE IF Waiting(e, src) THEN n ELSE LeftoverSize(Len(m), n, fit)
  BY DEF Due
<1> HIDE DEF m, n, fit
<1>4. LeftoverSize(Len(m), n, fit) \in Nat /\ (LeftoverSize(Len(m), n, fit) = 0 => m = << >>)
  BY <1>1, LeftoverFacts
<1>5. Due(e, src, r) \in Nat /\ (Due(e, src, r) = 0 => m = << >>)
  BY <1>1, <1>2, <1>3, <1>4
<1> QED
  BY <1>5 DEF m

\* A rank that expects nothing more has an empty channel from every rank.
LEMMA NothingExpected ==
    CountInv => \A e \in {0, 1} : \A r \in Rank : Expected(e, r) = 0 => \A src \in Rank : net[e][src][r] = << >>
<1> SUFFICES ASSUME CountInv, NEW e \in {0, 1}, NEW r \in Rank, Expected(e, r) = 0, NEW src \in Rank
             PROVE  net[e][src][r] = << >>
  OBVIOUS
<1> DEFINE g == DueTo(e, r)
<1>1. SendsKnown
  BY DEF CountInv, SendsKnown, BuffersOK
<1>2. \A x \in Rank : ChannelOK(e, x, r)
  BY DEF CountInv
<1>3. \A x \in Rank : Due(e, x, r) \in Nat /\ (Due(e, x, r) = 0 => net[e][x][r] = << >>)
  BY <1>1, <1>2, DueFacts
<1>4. \A x \in Rank : g[x] = Due(e, x, r)
  BY DEF DueTo
<1>5. SumFunctionOnSet(g, Rank) = 0
  BY DEF CountInv, CountOK
<1> HIDE DEF g
<1>6. \A x \in Rank : g[x] \in Nat
  BY <1>3, <1>4
<1>7. \A x \in Rank : g[x] = 0
  BY <1>5, <1>6, RankFacts, SumZero
<1> QED
  BY <1>3, <1>4, <1>7

\* NoStrayMessages follows from the counts.
LEMMA CountsImplyNoStray == CountInv => NoStrayMessages
<1> SUFFICES ASSUME CountInv, NEW r \in Rank, NEW src \in Rank
             PROVE  /\ pc[r] \notin {"sending", "receiving"} => net[0][src][r] = << >>
                    /\ pc[r] \in {"done", "moved"} => net[1][src][r] = << >>
  BY DEF NoStrayMessages
<1>1. ASSUME pc[r] \notin {"sending", "receiving"} PROVE Expected(0, r) = 0
  BY <1>1 DEF Expected
<1>2. ASSUME pc[r] \in {"done", "moved"} PROVE Expected(1, r) = 0
  BY <1>2 DEF Expected, Waiting, Exchanging
<1> QED
  BY <1>1, <1>2, NothingExpected

-----------------------------------------------------------------------------
(* What steps leave alone, and what posting and receiving change *)
\* A step of one rank leaves the buffers of the others as they were.
LEMMA RankFrame ==
    ASSUME NEW q \in Rank, RankOK(q), sends' = sends, asg' = asg, Entries(q)' = Entries(q)
    PROVE  RankOK(q)'
<1>1. /\ pc'[q] = pc[q] /\ data'[q] = data[q] /\ keys'[q] = keys[q] /\ aux'[q] = aux[q]
      /\ bufDesc'[q] = bufDesc[q] /\ prevDesc'[q] = prevDesc[q] /\ order'[q] = order[q] /\ recv'[q] = recv[q]
  BY DEF Entries
<1>2. /\ Exchanging(q)' <=> Exchanging(q)
      /\ NumIncoming(q)' = NumIncoming(q) /\ NumAssigned(q)' = NumAssigned(q)
  BY <1>1 DEF Exchanging, NumIncoming, NumAssigned, NumPresent
<1>3. SentDesc(q)' = SentDesc(q) /\ BufferSize(q)' = BufferSize(q)
  BY <1>1, <1>2 DEF SentDesc, BufferSize
<1>4. Envelope(q)' = Envelope(q)
  BY <1>2, <1>3 DEF Envelope
<1>5. BuffersOK(q)'
  BY <1>1, <1>2, <1>3 DEF RankOK, BuffersOK
<1>6. OrderOK(q)'
  BY <1>1, <1>4 DEF RankOK, OrderOK
<1>7. SendsOK(q)'
  BY <1>3 DEF RankOK, SendsOK
<1> QED
  BY <1>5, <1>6, <1>7 DEF RankOK

\* What a rank expects depends on its own state only.
LEMMA ExpectedFrame ==
    ASSUME NEW e \in {0, 1}, NEW q \in Rank, sends' = sends, asg' = asg, Entries(q)' = Entries(q)
    PROVE  Expected(e, q)' = Expected(e, q) /\ (Waiting(e, q)' <=> Waiting(e, q))
<1>1. pc'[q] = pc[q] /\ recv'[q] = recv[q]
  BY DEF Entries
<1>2. NumIncoming(q)' = NumIncoming(q)
  BY DEF NumIncoming, NumAssigned, NumPresent
<1>3. Waiting(0, q)' <=> Waiting(0, q)
  BY <1>1 DEF Waiting, Exchanging
<1>4. Waiting(1, q)' <=> Waiting(1, q)
  BY <1>1 DEF Waiting, Exchanging
<1>5. Expected(e, q)' = Expected(e, q)
  BY <1>1, <1>2, <1>4 DEF Expected
<1> QED
  BY <1>3, <1>4, <1>5

\* A step without messages of exchange e keeps its counts.
LEMMA NetSame ==
    ASSUME NEW e \in {0, 1}, ExchangeOK(e), sends' = sends, net'[e] = net[e],
           \A q \in Rank : (Waiting(e, q)' <=> Waiting(e, q)) /\ Expected(e, q)' = Expected(e, q)
    PROVE  ExchangeOK(e)'
<1>1. ASSUME NEW src \in Rank, NEW dst \in Rank PROVE ChannelOK(e, src, dst)' /\ Due(e, src, dst)' = Due(e, src, dst)
  <2>1. ChannelOK(e, src, dst)
    BY DEF ExchangeOK
  <2>2. ChannelOK(e, src, dst)'
    BY <2>1 DEF ChannelOK
  <2>3. Due(e, src, dst)' = Due(e, src, dst)
    BY DEF Due
  <2> QED
    BY <2>2, <2>3
<1>2. ASSUME NEW r \in Rank PROVE CountOK(e, r)'
  <2>1. DueTo(e, r)' = DueTo(e, r)
    BY <1>1 DEF DueTo
  <2>2. CountOK(e, r)
    BY DEF ExchangeOK
  <2> QED
    BY <2>1, <2>2 DEF CountOK
<1> QED
  BY <1>1, <1>2 DEF ExchangeOK

\* Posting the sends puts what was still to be sent into the channels.
LEMMA NetPosted ==
    ASSUME NEW e \in {0, 1}, NEW r \in Rank, ExchangeOK(e), NEW M, Posts(e, r, M)
    PROVE  ExchangeOK(e)'
<1>1. ASSUME NEW src \in Rank, NEW dst \in Rank PROVE ChannelOK(e, src, dst)' /\ Due(e, src, dst)' = Due(e, src, dst)
  <2>1. ChannelOK(e, src, dst)
    BY DEF ExchangeOK
  <2>2. CASE src = r /\ dst # r
    <3>1. net'[e][src][dst] = M[dst]
      BY <2>2 DEF Posts
    <3>2. ChannelOK(e, src, dst)'
      BY <2>2, <3>1 DEF ChannelOK, Posts, AllMessages
    <3>3. Due(e, src, dst)' = Due(e, src, dst)
      BY <2>2, <3>1 DEF Due, Posts, AllMessages
    <3> QED
      BY <3>2, <3>3
  <2>3. CASE ~(src = r /\ dst # r)
    <3>1. net'[e][src][dst] = net[e][src][dst]
      BY <2>3 DEF Posts
    <3>2. ChannelOK(e, src, dst)'
      BY <2>1, <2>3, <3>1 DEF ChannelOK, Posts
    <3>3. Due(e, src, dst)' = Due(e, src, dst)
      BY <2>3, <3>1 DEF Due, Posts
    <3> QED
      BY <3>2, <3>3
  <2> QED
    BY <2>2, <2>3
<1>2. ASSUME NEW q \in Rank PROVE CountOK(e, q)'
  <2>1. DueTo(e, q)' = DueTo(e, q)
    BY <1>1 DEF DueTo
  <2>2. CountOK(e, q)
    BY DEF ExchangeOK
  <2> QED
    BY <2>1, <2>2 DEF CountOK, Posts
<1> QED
  BY <1>1, <1>2 DEF ExchangeOK

\* Receiving a message takes its elements from the channel and from what is expected.
LEMMA NetReceived ==
    ASSUME NEW e \in {0, 1}, NEW r \in Rank, NEW src \in Rank, SendsKnown, ExchangeOK(e), Takes(e, r, src)
    PROVE  ExchangeOK(e)'
<1> DEFINE m == net[e][src][r]
           n == SendCount(sends[src], r)
           fit == NumFit[e]
<1>1. n \in Nat /\ fit \in Nat \ {0} /\ ChannelOK(e, src, r)
  BY SentCounts, ExchangeAssumption DEF ExchangeOK
<1>2. src # r /\ ~Waiting(e, src) /\ Leftover(m, n, fit)
  BY <1>1 DEF ChannelOK, Takes
<1>3. /\ Len(Head(m)) \in Nat /\ Leftover(Tail(m), n, fit)
      /\ LeftoverSize(Len(Tail(m)), n, fit) = LeftoverSize(Len(m), n, fit) - Len(Head(m))
      /\ LeftoverSize(Len(Tail(m)), n, fit) \in Nat /\ LeftoverSize(Len(m), n, fit) \in Nat
  <2> HIDE DEF n, fit
  <2>1. /\ Len(Head(m)) \in 1 .. fit /\ Leftover(Tail(m), n, fit)
        /\ LeftoverSize(Len(Tail(m)), n, fit) = LeftoverSize(Len(m), n, fit) - Len(Head(m))
        /\ LeftoverSize(Len(m), n, fit) \in Nat
    BY <1>1, <1>2, LeftoverFacts DEF Takes
  <2>2. LeftoverSize(Len(Tail(m)), n, fit) \in Nat
    BY <1>1, <2>1, LeftoverFacts
  <2>3. Len(Head(m)) \in Nat
    <3> DEFINE L == Len(Head(m))
    <3>1. L \in 1 .. fit /\ fit \in Nat
      BY <1>1, <2>1
    <3> HIDE DEF L
    <3>2. L \in Nat
      BY <3>1
    <3> QED
      BY <3>2 DEF L
  <2> QED
    BY <2>1, <2>2, <2>3, Zenon
<1>4. ASSUME NEW s \in Rank, NEW dst \in Rank, ~(s = src /\ dst = r)
      PROVE  ChannelOK(e, s, dst)' /\ Due(e, s, dst)' = Due(e, s, dst)
  <2>1. ChannelOK(e, s, dst) /\ net'[e][s][dst] = net[e][s][dst]
    BY <1>4 DEF ExchangeOK, Takes
  <2>2. ChannelOK(e, s, dst)'
    BY <2>1 DEF ChannelOK, Takes
  <2>3. Due(e, s, dst)' = Due(e, s, dst)
    BY <2>1 DEF Due, Takes
  <2> QED
    BY <2>2, <2>3
<1>5. net'[e][src][r] = Tail(m)
  BY DEF Takes
<1>6. ChannelOK(e, src, r)'
  BY <1>2, <1>3, <1>5 DEF ChannelOK, Takes
<1>7. Due(e, src, r) = LeftoverSize(Len(m), n, fit) /\ Due(e, src, r)' = LeftoverSize(Len(Tail(m)), n, fit)
  BY <1>2, <1>5 DEF Due, Takes
<1>8. ASSUME NEW q \in Rank \ {r} PROVE CountOK(e, q)'
  <2>1. DueTo(e, q)' = DueTo(e, q)
    BY <1>4 DEF DueTo
  <2>2. CountOK(e, q)
    BY DEF ExchangeOK
  <2> QED
    BY <2>1, <2>2 DEF CountOK, Takes
<1>9. CountOK(e, r)'
  <2> DEFINE f == DueTo(e, r)
             g == DueTo(e, r)'
  <2>1. \A x \in Rank : f[x] = Due(e, x, r) /\ g[x] = Due(e, x, r)'
    BY DEF DueTo
  <2>2. \A x \in Rank : Due(e, x, r) \in Nat
    BY DueFacts DEF ExchangeOK
  <2> HIDE DEF f, g, m, n, fit
  <2>3. g[src] = f[src] - Len(Head(m)) /\ g[src] \in Nat /\ f[src] \in Nat
    BY <1>3, <1>7, <2>1
  <2>4. \A x \in Rank \ {src} : f[x] = g[x]
    BY <1>4, <2>1
  <2>5. \A x \in Rank : f[x] \in Nat /\ g[x] \in Nat
    BY <2>1, <2>2, <2>3, <2>4
  <2>6. SumFunctionOnSet(g, Rank) = SumFunctionOnSet(f, Rank) - f[src] + g[src]
    <3>1. IsFiniteSet(Rank)
      BY RankFacts
    <3> QED
      BY <2>4, <2>5, <3>1, SumChange
  <2>7. SumFunctionOnSet(f, Rank) \in Nat
    BY <2>5, RankFacts, SumOfUnits, SumTerm
  <2>8. SumFunctionOnSet(f, Rank) = Expected(e, r)
    BY DEF ExchangeOK, CountOK, f
  <2>9. SumFunctionOnSet(g, Rank) = Expected(e, r) - Len(Head(m))
    BY <1>3, <2>3, <2>6, <2>7, <2>8
  <2>10. SumFunctionOnSet(g, Rank) = Expected(e, r)'
    BY <2>9 DEF m, Takes
  <2> QED
    BY <2>10 DEF CountOK, g
<1> QED
  BY <1>4, <1>6, <1>8, <1>9 DEF ExchangeOK

-----------------------------------------------------------------------------
(* Every step keeps the invariant *)
\* The invariant by ranks and exchanges.
LEMMA InvParts ==
    /\ CountInv <=> ArraysOK /\ AssignmentOK /\ (\A r \in Rank : RankOK(r)) /\ ExchangeOK(0) /\ ExchangeOK(1)
    /\ CountInv => SendsKnown
<1>1. CountInv <=> ArraysOK /\ AssignmentOK /\ (\A r \in Rank : RankOK(r)) /\ ExchangeOK(0) /\ ExchangeOK(1)
  BY DEF CountInv, RankOK, ExchangeOK
<1>2. CountInv => SendsKnown
  BY DEF CountInv, SendsKnown, BuffersOK
<1> QED
  BY <1>1, <1>2

\* A step of one rank keeps the invariant if it keeps the part of this rank and the counts.
LEMMA StepOfRank ==
    ASSUME CountInv, NEW r \in Rank, sends' = sends, asg' = asg, ArraysOK',
           \A q \in Rank \ {r} : Entries(q)' = Entries(q),
           RankOK(r)', ExchangeOK(0)', ExchangeOK(1)'
    PROVE  CountInv'
<1>1. AssignmentOK'
  <2>1. AssignmentOK
    BY DEF CountInv
  <2>2. \A q \in Rank : SentTo(q)' = SentTo(q)
    BY DEF SentTo
  <2> QED
    BY <2>1, <2>2 DEF AssignmentOK
<1>2. ASSUME NEW q \in Rank PROVE RankOK(q)'
  <2>1. RankOK(q)
    BY InvParts
  <2>2. CASE q # r
    BY <2>1, <2>2, RankFrame
  <2> QED
    BY <2>2
<1> QED
  BY <1>1, <1>2 DEF CountInv, RankOK, ExchangeOK

\* The channels after a rank has posted its sends.
LEMMA PostedFacts ==
    ASSUME NetOK, NEW e \in {0, 1}, NEW r \in Rank, NEW arr, NEW o, NEW base, NEW s,
           net' = Posted(e, r, arr, o, base, s), \A q \in Rank : net[e][r][q] = << >>,
           \A q \in Rank \ {r} : Messages(e, arr, o, base, s, q) \in Seq(Seq(Slot))
    PROVE  /\ NetOK'
           /\ net'[1 - e] = net[1 - e]
           /\ \A src, dst \in Rank : net'[e][src][dst] =
                IF src = r /\ dst # r THEN Messages(e, arr, o, base, s, dst) ELSE net[e][src][dst]
<1> DEFINE M(q) == Messages(e, arr, o, base, s, q)
           row == [q \in Rank |-> net[e][r][q] \o (IF q = r THEN << >> ELSE M(q))]
<1>1. net' = [net EXCEPT ![e] = [net[e] EXCEPT ![r] = row]]
  BY DEF Posted
<1>2. \A q \in Rank : row[q] = IF q = r THEN << >> ELSE M(q)
  <2> SUFFICES ASSUME NEW q \in Rank PROVE row[q] = IF q = r THEN << >> ELSE M(q)
    OBVIOUS
  <2> DEFINE x == IF q = r THEN << >> ELSE M(q)
  <2>1. row[q] = << >> \o x
    OBVIOUS
  <2>2. x \in Seq(Seq(Slot))
    OBVIOUS
  <2> HIDE DEF x, row
  <2>3. << >> \o x = x
    BY <2>2
  <2> QED
    BY <2>1, <2>3 DEF x
<1>3. DOMAIN row = Rank
  OBVIOUS
<1> HIDE DEF row, M
<1>4. NetOK'
  <2> DEFINE d == 1 - e
  <2>1. \A x \in {0, 1} : x = e \/ x # e
    OBVIOUS
  <2>2. DOMAIN net' = {0, 1} /\ \A x \in {0, 1} : DOMAIN net'[x] = Rank
    BY <1>1 DEF NetOK
  <2>3. \A x \in {0, 1} : \A q \in Rank : net'[x][q] = IF x = e /\ q = r THEN row ELSE net[x][q]
    BY <1>1 DEF NetOK
  <2>4. \A x \in {0, 1} : \A q \in Rank : DOMAIN net'[x][q] = Rank
    BY <1>3, <2>3 DEF NetOK
  <2> QED
    BY <2>2, <2>4 DEF NetOK
<1>5. net'[1 - e] = net[1 - e]
  BY <1>1 DEF NetOK
<1>6. ASSUME NEW src \in Rank, NEW dst \in Rank
      PROVE  net'[e][src][dst] = IF src = r /\ dst # r THEN M(dst) ELSE net[e][src][dst]
  <2>1. net'[e][src] = IF src = r THEN row ELSE net[e][src]
    BY <1>1 DEF NetOK
  <2> QED
    BY <1>2, <2>1
<1> QED
  BY <1>4, <1>5, <1>6 DEF M

\* Posting in exchangeParticles.
LEMMA SendParticlesInv == CountInv /\ (\E r \in Rank : SendParticles(r)) => CountInv'
<1> SUFFICES ASSUME CountInv, NEW r \in Rank, SendParticles(r) PROVE CountInv'
  OBVIOUS
<1> DEFINE d == bufDesc[r]
           base == d.start
           M(q) == Messages(0, data[r], order[r], base, sends[r], q)
           N(q) == SendCount(sends[r], q)
<1>1. /\ pc[r] = "sending" /\ pc' = [pc EXCEPT ![r] = "receiving"]
      /\ net' = Posted(0, r, data[r], order[r], base, sends[r])
      /\ sends' = sends /\ asg' = asg /\ data' = data /\ keys' = keys /\ aux' = aux /\ bufDesc' = bufDesc
      /\ prevDesc' = prevDesc /\ order' = order /\ recv' = recv
      /\ pos' = pos /\ alive' = alive /\ log' = log /\ record' = record
  BY DEF SendParticles
<1>2. ArraysOK /\ RankOK(r) /\ ExchangeOK(0) /\ ExchangeOK(1) /\ SendsKnown /\ NetOK
  BY InvParts DEF ArraysOK, NetOK
<1>3. pc \in [Rank -> Phases] /\ pc'[r] = "receiving" /\ \A q \in Rank \ {r} : pc'[q] = pc[q]
  BY <1>1, <1>2 DEF ArraysOK
<1>4. Exchanging(r) /\ Exchanging(r)' /\ SentDesc(r) = d
  BY <1>1, <1>3 DEF Exchanging, SentDesc
<1>5. /\ d \in Descriptions /\ PermutesRange(order[r], d.start, d.end)
      /\ data[r] \in [0 .. ExchangeBufferSize(d, NumIncoming(r)) - 1 -> Slot]
  BY <1>1, <1>2, <1>4 DEF RankOK, BuffersOK, OrderOK, BufferSize
<1>6. ASSUME NEW q \in Rank PROVE AllMessages(M(q), N(q), NumFit[0]) /\ M(q) \in Seq(Seq(Slot))
  <2>1. /\ N(q) \in Nat /\ sends[r][q] \in Nat /\ sends[r][q] + N(q) <= d.end - d.start
        /\ NumIncoming(r) \in Nat
    BY <1>2, <1>4, SentCounts
  <2>2. /\ d.start \in Nat /\ d.end \in Nat /\ d.size \in Nat /\ d.end <= d.size
    BY <1>5, RangeSize
  <2>3. ExchangeBufferSize(d, NumIncoming(r)) \in Nat /\ d.size <= ExchangeBufferSize(d, NumIncoming(r))
    BY <1>5, <2>1, EnvelopeFacts
  <2>4. ASSUME NEW j \in 1 .. N(q) PROVE data[r][order[r][base + sends[r][q] + j - 1]] \in Slot
    <3> DEFINE i == base + sends[r][q] + j - 1
    <3> HIDE DEF N
    <3>1. i \in d.start .. d.end - 1
      BY <2>1, <2>2
    <3>2. order[r][i] \in d.start .. d.end - 1
      <4> HIDE DEF i
      <4> QED
        BY <1>5, <3>1 DEF PermutesRange
    <3>3. \A k \in d.start .. d.end - 1 : k \in 0 .. ExchangeBufferSize(d, NumIncoming(r)) - 1
      BY <2>2, <2>3
    <3> QED
      BY <1>5, <3>2, <3>3
  <2>5. base \in Nat /\ 0 \in {0, 1}
    BY <2>2
  <2>6. Sendable(data[r], order[r], base, sends[r], q)
    BY <2>1, <2>4 DEF Sendable
  <2>7. AllMessages(M(q), N(q), NumFit[0])
    <3> HIDE DEF base
    <3> QED
      BY <2>5, <2>6, MessagesFacts
  <2> QED
    BY <2>7 DEF AllMessages, Leftover
<1>7. \A q \in Rank : net[0][r][q] = << >>
  BY <1>1, <1>2 DEF ExchangeOK, ChannelOK, Waiting
<1>8. /\ NetOK' /\ net'[1 - 0] = net[1 - 0]
      /\ \A src, dst \in Rank : net'[0][src][dst] = IF src = r /\ dst # r THEN M(dst) ELSE net[0][src][dst]
  <2>1. \A q \in Rank \ {r} : Messages(0, data[r], order[r], base, sends[r], q) \in Seq(Seq(Slot))
    BY <1>6
  <2> HIDE DEF base
  <2> QED
    BY <1>1, <1>2, <1>7, <2>1, PostedFacts
<1>9. \A q \in Rank \ {r} : Entries(q)' = Entries(q)
  BY <1>1, <1>3 DEF Entries
<1>10. NumIncoming(r)' = NumIncoming(r) /\ NumAssigned(r)' = NumAssigned(r)
  BY <1>1 DEF NumIncoming, NumAssigned, NumPresent
<1>11. RankOK(r)'
  <2>1. SentDesc(r)' = SentDesc(r) /\ BufferSize(r)' = BufferSize(r)
    BY <1>1, <1>4, <1>10 DEF SentDesc, BufferSize
  <2>2. BuffersOK(r)'
    BY <1>1, <1>2, <1>3, <1>10, <2>1 DEF RankOK, BuffersOK
  <2>3. OrderOK(r)'
    BY <1>1, <1>3, <1>5 DEF OrderOK
  <2>4. SendsOK(r)'
    BY <1>1, <1>2, <2>1 DEF RankOK, SendsOK
  <2> QED
    BY <2>2, <2>3, <2>4 DEF RankOK
<1>12. /\ Waiting(0, r) /\ ~Waiting(0, r)' /\ Waiting(1, r) /\ Waiting(1, r)'
       /\ Expected(0, r)' = Expected(0, r) /\ Expected(1, r)' = Expected(1, r)
  BY <1>1, <1>3, <1>4, <1>10 DEF Waiting, Expected
<1>13. \A e \in {0, 1} : \A q \in Rank \ {r} : Expected(e, q)' = Expected(e, q) /\ (Waiting(e, q)' <=> Waiting(e, q))
  BY <1>1, <1>9, ExpectedFrame
<1>14. ExchangeOK(0)'
  <2> DEFINE F == [q \in Rank |-> M(q)]
  <2>1. \A q \in Rank : F[q] = M(q)
    OBVIOUS
  <2>2. /\ \A src, dst \in Rank : net'[0][src][dst] = IF src = r /\ dst # r THEN F[dst] ELSE net[0][src][dst]
        /\ \A q \in Rank \ {r} : AllMessages(F[q], SendCount(sends[r], q), NumFit[0])
    BY <1>6, <1>8, <2>1
  <2> HIDE DEF F
  <2>3. Posts(0, r, F)
    BY <1>1, <1>12, <1>13, <2>2 DEF Posts
  <2> QED
    BY <1>2, <2>3, NetPosted
<1>15. ExchangeOK(1)'
  <2>1. \A q \in Rank : (Waiting(1, q)' <=> Waiting(1, q)) /\ Expected(1, q)' = Expected(1, q)
    BY <1>12, <1>13
  <2>2. net'[1] = net[1]
    BY <1>8
  <2> QED
    BY <1>1, <1>2, <2>1, <2>2, NetSame
<1>16. ArraysOK'
  BY <1>1, <1>2, <1>8 DEF ArraysOK, NetOK, Phases
<1> QED
  BY <1>1, <1>9, <1>11, <1>14, <1>15, <1>16, StepOfRank

\* Posting in redoExchange.
LEMMA RedoSendInv == CountInv /\ (\E r \in Rank : RedoSend(r)) => CountInv'
<1> SUFFICES ASSUME CountInv, NEW r \in Rank, RedoSend(r) PROVE CountInv'
  OBVIOUS
<1> DEFINE d == prevDesc[r]
           n == NumIncoming(r)
           size == ExchangeBufferSize(d, n)
           env == AssignedEnvelope(d, n)
           rs == ReceiveStart([d EXCEPT !.size = size], n)
           arr == Resized(aux[r], size, NoParticle)
           t == ShiftSendRanges(sends[r], r, n)
           base == env.start
           M(q) == Messages(1, arr, order[r], base, t, q)
<1>1. /\ pc[r] = "synced" /\ pc' = [pc EXCEPT ![r] = "redoing"]
      /\ aux' = [aux EXCEPT ![r] = arr] /\ recv' = [recv EXCEPT ![r] = [at |-> rs, end |-> rs + n]]
      /\ record' = [record EXCEPT ![r] = log[r] = <<>>]
      /\ net' = Posted(1, r, arr, order[r], base, t)
      /\ sends' = sends /\ asg' = asg /\ data' = data /\ keys' = keys /\ bufDesc' = bufDesc
      /\ prevDesc' = prevDesc /\ order' = order /\ pos' = pos /\ alive' = alive /\ log' = log
  BY DEF RedoSend
<1>2. ArraysOK /\ RankOK(r) /\ ExchangeOK(0) /\ ExchangeOK(1) /\ SendsKnown /\ NetOK
  BY InvParts DEF ArraysOK, NetOK
<1>3. /\ pc \in [Rank -> Phases] /\ pc'[r] = "redoing" /\ aux'[r] = arr /\ recv'[r] = [at |-> rs, end |-> rs + n]
      /\ \A q \in Rank \ {r} : pc'[q] = pc[q] /\ aux'[q] = aux[q] /\ recv'[q] = recv[q]
  BY <1>1, <1>2 DEF ArraysOK
<1>4. ~Exchanging(r) /\ ~Exchanging(r)' /\ SentDesc(r) = d
  BY <1>1, <1>3 DEF Exchanging, SentDesc
<1>5. /\ d \in Descriptions /\ PermutesRange(order[r], env.start, env.end)
      /\ aux[r] \in [DOMAIN aux[r] -> Slot]
  BY <1>1, <1>2, <1>4 DEF RankOK, BuffersOK, OrderOK, Envelope
<1>6. n \in Nat /\ SendRanges(sends[r], d.end - d.start)
  BY <1>2, <1>4, SentCounts DEF RankOK, SendsOK
<1>7. d.start \in Nat /\ d.end \in Nat /\ d.size \in Nat /\ d.start <= d.end /\ d.end - d.start \in Nat
  <2>1. d.start \in Nat /\ d.end \in Nat /\ d.size \in Nat /\ d.start <= d.end
    BY <1>5, RangeSize
  <2> QED
    BY <2>1
<1>8. /\ size \in Nat /\ env.start \in Nat /\ env.end \in Nat /\ env.end <= size
      /\ env.end - env.start = d.end - d.start + n
  <2> HIDE DEF n
  <2> QED
    BY <1>5, <1>6, EnvelopeFacts
<1>9. rs \in Int
  <2>1. rs = IF d.start >= n THEN d.start - n ELSE d.end
    BY <1>5 DEF ReceiveStart, Descriptions
  <2> QED
    BY <1>6, <1>7, <2>1
<1>10. arr \in [0 .. size - 1 -> Slot]
  <2> DEFINE A == aux[r]
  <2>1. A \in [DOMAIN A -> Slot] /\ NoParticle \in Slot /\ size \in Int
    BY <1>5, <1>8 DEF Slot
  <2> HIDE DEF A, size
  <2>2. Resized(A, size, NoParticle) \in [0 .. size - 1 -> Slot]
    BY <2>1, BufferTypes
  <2> QED
    BY <2>2 DEF A
<1> HIDE DEF n, size, arr, t, env, rs
<1>11. ASSUME NEW q \in Rank \ {r}
       PROVE  AllMessages(M(q), SendCount(sends[r], q), NumFit[1]) /\ M(q) \in Seq(Seq(Slot))
  <2>1. /\ SendCount(sends[r], q) \in Nat /\ sends[r][q] \in Nat
        /\ sends[r][q] + SendCount(sends[r], q) <= d.end - d.start
    BY <1>2, <1>4, SentCounts
  <2>2. /\ SendCount(t, q) = SendCount(sends[r], q)
        /\ t[q] = IF q > r THEN sends[r][q] + n ELSE sends[r][q]
    <3> DEFINE k == d.end - d.start
               s == sends[r]
    <3>1. k \in Nat /\ n \in Nat /\ SendRanges(s, k) /\ q \in Rank /\ q # r
      BY <1>6, <1>7
    <3> HIDE DEF k, s
    <3>2. /\ SendCount(ShiftSendRanges(s, r, n), q) = SendCount(s, q)
          /\ ShiftSendRanges(s, r, n)[q] = IF q > r THEN s[q] + n ELSE s[q]
      BY <3>1, ShiftFacts
    <3> QED
      BY <3>2 DEF t, s
  <2>3. t[q] \in Nat /\ t[q] + SendCount(t, q) <= env.end - env.start
    BY <1>6, <1>7, <1>8, <2>1, <2>2
  <2>4. ASSUME NEW j \in 1 .. SendCount(t, q) PROVE arr[order[r][base + t[q] + j - 1]] \in Slot
    <3> DEFINE i == base + t[q] + j - 1
    <3>1. i \in env.start .. env.end - 1
      BY <1>8, <2>1, <2>2, <2>3
    <3>2. order[r][i] \in env.start .. env.end - 1
      <4> HIDE DEF i
      <4> QED
        BY <1>5, <3>1 DEF PermutesRange
    <3>3. \A k \in env.start .. env.end - 1 : k \in 0 .. size - 1
      BY <1>8
    <3> QED
      BY <1>10, <3>2, <3>3
  <2>5. Sendable(arr, order[r], base, t, q)
    BY <2>1, <2>2, <2>3, <2>4 DEF Sendable
  <2>6. AllMessages(M(q), SendCount(t, q), NumFit[1])
    <3>1. base \in Nat /\ 1 \in {0, 1}
      BY <1>8
    <3> HIDE DEF base
    <3> QED
      BY <2>5, <3>1, MessagesFacts
  <2> QED
    BY <2>2, <2>6 DEF AllMessages, Leftover
<1>12. \A q \in Rank : net[1][r][q] = << >>
  BY <1>1, <1>2 DEF ExchangeOK, ChannelOK, Waiting
<1>13. /\ NetOK' /\ net'[1 - 1] = net[1 - 1]
       /\ \A src, dst \in Rank : net'[1][src][dst] = IF src = r /\ dst # r THEN M(dst) ELSE net[1][src][dst]
  <2>1. \A q \in Rank \ {r} : Messages(1, arr, order[r], base, t, q) \in Seq(Seq(Slot))
    BY <1>11
  <2> HIDE DEF base
  <2> QED
    BY <1>1, <1>2, <1>12, <2>1, PostedFacts
<1>14. \A q \in Rank \ {r} : Entries(q)' = Entries(q)
  BY <1>1, <1>3 DEF Entries
<1>15. NumIncoming(r)' = n /\ NumAssigned(r)' = NumAssigned(r)
  BY <1>1 DEF NumIncoming, NumAssigned, NumPresent, n
<1>16. RankOK(r)'
  <2>1. /\ SentDesc(r)' = SentDesc(r) /\ BufferSize(r)' = BufferSize(r)
    BY <1>1, <1>4 DEF SentDesc, BufferSize
  <2>2. Envelope(r)' = env
    BY <1>4, <1>15, <2>1 DEF Envelope, env
  <2>3. recv'[r] \in [at : Int, end : Int]
    BY <1>3, <1>6, <1>9
  <2>4. aux'[r] \in [DOMAIN aux'[r] -> Slot] /\ DOMAIN aux'[r] = 0 .. ExchangeBufferSize(prevDesc[r], n) - 1
    BY <1>3, <1>10 DEF size
  <2>5. BuffersOK(r)'
    BY <1>1, <1>2, <1>3, <1>15, <2>1, <2>3, <2>4 DEF RankOK, BuffersOK
  <2>6. OrderOK(r)'
    BY <1>1, <1>3, <1>5, <2>2 DEF OrderOK
  <2>7. SendsOK(r)'
    BY <1>1, <1>2, <2>1 DEF RankOK, SendsOK
  <2> QED
    BY <2>5, <2>6, <2>7 DEF RankOK
<1>17. /\ ~Waiting(0, r) /\ ~Waiting(0, r)' /\ Waiting(1, r) /\ ~Waiting(1, r)'
       /\ Expected(0, r)' = Expected(0, r) /\ Expected(1, r)' = Expected(1, r)
  <2>1. ~Waiting(0, r) /\ ~Waiting(0, r)' /\ Waiting(1, r) /\ ~Waiting(1, r)'
    BY <1>1, <1>3, <1>4 DEF Waiting
  <2>2. Expected(0, r) = 0 /\ Expected(0, r)' = 0 /\ Expected(1, r) = n
    BY <1>1, <1>3, <2>1 DEF Expected, n
  <2>3. Expected(1, r)' = (rs + n) - rs
    BY <1>3 DEF Expected
  <2>4. (rs + n) - rs = n
    BY <1>6, <1>9
  <2> QED
    BY <2>1, <2>2, <2>3, <2>4
<1>18. \A e \in {0, 1} : \A q \in Rank \ {r} : Expected(e, q)' = Expected(e, q) /\ (Waiting(e, q)' <=> Waiting(e, q))
  BY <1>1, <1>14, ExpectedFrame
<1>19. ExchangeOK(1)'
  <2> DEFINE F == [q \in Rank |-> M(q)]
  <2>1. \A q \in Rank : F[q] = M(q)
    OBVIOUS
  <2>2. /\ \A src, dst \in Rank : net'[1][src][dst] = IF src = r /\ dst # r THEN F[dst] ELSE net[1][src][dst]
        /\ \A q \in Rank \ {r} : AllMessages(F[q], SendCount(sends[r], q), NumFit[1])
    BY <1>11, <1>13, <2>1
  <2> HIDE DEF F
  <2>3. Posts(1, r, F)
    BY <1>1, <1>17, <1>18, <2>2 DEF Posts
  <2> QED
    BY <1>2, <2>3, NetPosted
<1>20. ExchangeOK(0)'
  <2>1. \A q \in Rank : (Waiting(0, q)' <=> Waiting(0, q)) /\ Expected(0, q)' = Expected(0, q)
    BY <1>17, <1>18
  <2>2. net'[0] = net[0]
    BY <1>13
  <2> QED
    BY <1>1, <1>2, <2>1, <2>2, NetSame
<1>21. ArraysOK'
  BY <1>1, <1>2, <1>13 DEF ArraysOK, NetOK, Phases
<1> QED
  BY <1>1, <1>14, <1>16, <1>19, <1>20, <1>21, StepOfRank

\* The channels after a message was received.
LEMMA ReceivedFacts ==
    ASSUME NetOK, NEW e \in {0, 1}, NEW r \in Rank, NEW src \in Rank, ReceiveMessage(e, r, src)
    PROVE  /\ NetOK' /\ net'[1 - e] = net[1 - e] /\ net[e][src][r] # << >>
           /\ \A s, dst \in Rank : net'[e][s][dst] = IF s = src /\ dst = r THEN Tail(net[e][src][r]) ELSE net[e][s][dst]
<1>1. net[e][src][r] # << >> /\ net' = [net EXCEPT ![e][src][r] = Tail(@)]
  BY DEF ReceiveMessage
<1> DEFINE x == Tail(net[e][src][r])
<1>2. net' = [net EXCEPT ![e] = [net[e] EXCEPT ![src] = [net[e][src] EXCEPT ![r] = x]]]
  BY <1>1
<1> HIDE DEF x
<1>3. \A s \in Rank : net'[e][s] = IF s = src THEN [net[e][src] EXCEPT ![r] = x] ELSE net[e][s]
  BY <1>2 DEF NetOK
<1>4. net'[1 - e] = net[1 - e] /\ DOMAIN net' = {0, 1} /\ DOMAIN net'[e] = Rank
  BY <1>2 DEF NetOK
<1>5. \A s, dst \in Rank : net'[e][s][dst] = IF s = src /\ dst = r THEN x ELSE net[e][s][dst]
  BY <1>3 DEF NetOK
<1>6. \A s \in Rank : DOMAIN net'[e][s] = Rank
  BY <1>3 DEF NetOK
<1>7. ASSUME NEW f \in {0, 1} PROVE DOMAIN net'[f] = Rank /\ \A s \in Rank : DOMAIN net'[f][s] = Rank
  <2>1. CASE f = e
    BY <1>4, <1>6, <2>1
  <2>2. CASE f # e
    <3>1. f = 1 - e
      BY <2>2
    <3> QED
      BY <1>4, <3>1 DEF NetOK
  <2> QED
    BY <2>1, <2>2
<1>8. NetOK'
  BY <1>4, <1>7 DEF NetOK
<1> QED
  BY <1>1, <1>4, <1>5, <1>8 DEF x

\* A message has elements that fit into buffers.
LEMMA HeadFacts ==
    ASSUME SendsKnown, NEW e \in {0, 1}, NEW r \in Rank, NEW src \in Rank, ExchangeOK(e), net[e][src][r] # << >>
    PROVE  Head(net[e][src][r]) \in Seq(Slot) /\ Len(Head(net[e][src][r])) \in Nat
<1> DEFINE m == net[e][src][r]
           n == SendCount(sends[src], r)
           fit == NumFit[e]
<1>1. n \in Nat /\ fit \in Nat \ {0} /\ Leftover(m, n, fit) /\ m # << >>
  BY SentCounts, ExchangeAssumption DEF ExchangeOK, ChannelOK
<1> HIDE DEF m, n, fit
<1>2. Head(m) \in Seq(Slot)
  BY <1>1, LeftoverFacts
<1>3. Len(Head(m)) \in Nat
  BY <1>2
<1> QED
  BY <1>2, <1>3 DEF m

\* Receiving in exchangeParticles.
LEMMA ReceiveParticlesInv == CountInv /\ (\E r, src \in Rank : ReceiveParticles(r, src)) => CountInv'
<1> SUFFICES ASSUME CountInv, NEW r \in Rank, NEW src \in Rank, ReceiveParticles(r, src) PROVE CountInv'
  OBVIOUS
<1> DEFINE m == Head(net[0][src][r])
           dat == Scattered(data[r], m, Location(r, src))
<1>1. /\ pc[r] = "receiving" /\ ReceiveMessage(0, r, src) /\ data' = [data EXCEPT ![r] = dat]
      /\ recv' = [recv EXCEPT ![r].at = @ + Len(m)]
      /\ sends' = sends /\ asg' = asg /\ keys' = keys /\ aux' = aux /\ bufDesc' = bufDesc
      /\ prevDesc' = prevDesc /\ order' = order /\ pos' = pos /\ alive' = alive /\ record' = record /\ pc' = pc
  BY DEF ReceiveParticles, ReceiveMessage
<1>2. ArraysOK /\ RankOK(r) /\ ExchangeOK(0) /\ ExchangeOK(1) /\ SendsKnown /\ NetOK
  BY InvParts DEF ArraysOK, NetOK
<1>3. DOMAIN log' = Rank
  BY <1>2 DEF ReceiveParticles, ReceiveMessage, ArraysOK
<1>4. /\ data'[r] = dat /\ recv'[r] = [recv[r] EXCEPT !.at = @ + Len(m)]
      /\ \A q \in Rank \ {r} : data'[q] = data[q] /\ recv'[q] = recv[q]
  BY <1>1, <1>2 DEF ArraysOK
<1>5. recv[r] \in [at : Int, end : Int] /\ data[r] \in [0 .. BufferSize(r) - 1 -> Slot]
  BY <1>2 DEF RankOK, BuffersOK
<1>6. /\ NetOK' /\ net'[1 - 0] = net[1 - 0] /\ net[0][src][r] # << >>
      /\ \A s, dst \in Rank : net'[0][s][dst] = IF s = src /\ dst = r THEN Tail(net[0][src][r]) ELSE net[0][s][dst]
  BY <1>1, <1>2, ReceivedFacts
<1>7. m \in Seq(Slot) /\ Len(m) \in Nat
  BY <1>2, <1>6, HeadFacts
<1> HIDE DEF m
<1>8. recv'[r] \in [at : Int, end : Int] /\ recv'[r].end - recv'[r].at = (recv[r].end - recv[r].at) - Len(m)
  <2>1. /\ recv'[r] = [at |-> recv[r].at + Len(m), end |-> recv[r].end]
        /\ recv[r].at \in Int /\ recv[r].end \in Int
    BY <1>4, <1>5
  <2>2. recv'[r].at = recv[r].at + Len(m) /\ recv'[r].end = recv[r].end
    BY <2>1
  <2> QED
    BY <1>7, <2>1, <2>2
<1>9. dat \in [0 .. BufferSize(r) - 1 -> Slot]
  <2> DEFINE D == 0 .. BufferSize(r) - 1
             A == data[r]
             l == Location(r, src)
  <2>1. A \in [D -> Slot]
    BY <1>5
  <2> HIDE DEF D, A, l
  <2>2. Scattered(A, m, l) \in [D -> Slot]
    BY <1>7, <2>1, BufferTypes
  <2> QED
    BY <2>2 DEF A, D, l
<1> HIDE DEF dat
<1>10. \A q \in Rank \ {r} : Entries(q)' = Entries(q)
  BY <1>1, <1>4 DEF Entries
<1>11. /\ NumIncoming(r)' = NumIncoming(r) /\ NumAssigned(r)' = NumAssigned(r)
       /\ Exchanging(r)' <=> Exchanging(r)
  BY <1>1 DEF NumIncoming, NumAssigned, NumPresent, Exchanging
<1>12. RankOK(r)'
  <2>1. SentDesc(r)' = SentDesc(r) /\ BufferSize(r)' = BufferSize(r)
    BY <1>1, <1>11 DEF SentDesc, BufferSize
  <2>2. BuffersOK(r)'
    BY <1>1, <1>2, <1>4, <1>8, <1>9, <1>11, <2>1 DEF RankOK, BuffersOK
  <2>3. OrderOK(r)'
    BY <1>1, <1>2 DEF RankOK, OrderOK
  <2>4. SendsOK(r)'
    BY <1>1, <1>2, <2>1 DEF RankOK, SendsOK
  <2> QED
    BY <2>2, <2>3, <2>4 DEF RankOK
<1>13. /\ \A e \in {0, 1} : Waiting(e, r)' <=> Waiting(e, r)
       /\ Expected(0, r)' = Expected(0, r) - Len(m) /\ Expected(1, r)' = Expected(1, r)
  <2>1. \A e \in {0, 1} : Waiting(e, r)' <=> Waiting(e, r)
    BY <1>1, <1>11 DEF Waiting
  <2>2. Expected(0, r) = recv[r].end - recv[r].at /\ Expected(0, r)' = recv'[r].end - recv'[r].at
    BY <1>1 DEF Expected
  <2>3. Expected(1, r)' = Expected(1, r)
    BY <1>1, <1>11, <2>1 DEF Expected
  <2> QED
    BY <1>8, <2>1, <2>2, <2>3
<1>14. \A e \in {0, 1} : \A q \in Rank \ {r} : Expected(e, q)' = Expected(e, q) /\ (Waiting(e, q)' <=> Waiting(e, q))
  BY <1>1, <1>10, ExpectedFrame
<1>15. ExchangeOK(0)'
  <2>1. Takes(0, r, src)
    BY <1>1, <1>6, <1>13, <1>14 DEF Takes, m
  <2> QED
    BY <1>2, <2>1, NetReceived
<1>16. ExchangeOK(1)'
  <2>1. \A q \in Rank : (Waiting(1, q)' <=> Waiting(1, q)) /\ Expected(1, q)' = Expected(1, q)
    BY <1>13, <1>14
  <2>2. net'[1] = net[1]
    BY <1>6
  <2> QED
    BY <1>1, <1>2, <2>1, <2>2, NetSame
<1>17. ArraysOK'
  <2>1. DOMAIN data' = Rank /\ DOMAIN recv' = Rank
    BY <1>1, <1>2 DEF ArraysOK
  <2> QED
    BY <1>1, <1>2, <1>3, <1>6, <2>1 DEF ArraysOK, NetOK
<1> QED
  BY <1>1, <1>10, <1>12, <1>15, <1>16, <1>17, StepOfRank

\* Receiving in redoExchange.
LEMMA RedoReceiveInv == CountInv /\ (\E r, src \in Rank : RedoReceive(r, src)) => CountInv'
<1> SUFFICES ASSUME CountInv, NEW r \in Rank, NEW src \in Rank, RedoReceive(r, src) PROVE CountInv'
  OBVIOUS
<1> DEFINE m == Head(net[1][src][r])
           arr == Scattered(aux[r], m, Location(r, src))
           D == DOMAIN aux[r]
<1>1. /\ pc[r] = "redoing" /\ ReceiveMessage(1, r, src) /\ aux' = [aux EXCEPT ![r] = arr]
      /\ recv' = [recv EXCEPT ![r].at = @ + Len(m)]
      /\ sends' = sends /\ asg' = asg /\ keys' = keys /\ data' = data /\ bufDesc' = bufDesc
      /\ prevDesc' = prevDesc /\ order' = order /\ pos' = pos /\ alive' = alive /\ record' = record /\ pc' = pc
  BY DEF RedoReceive, ReceiveMessage
<1>2. ArraysOK /\ RankOK(r) /\ ExchangeOK(0) /\ ExchangeOK(1) /\ SendsKnown /\ NetOK
  BY InvParts DEF ArraysOK, NetOK
<1>3. DOMAIN log' = Rank
  BY <1>2 DEF RedoReceive, ReceiveMessage, ArraysOK
<1>4. /\ aux'[r] = arr /\ recv'[r] = [recv[r] EXCEPT !.at = @ + Len(m)]
      /\ \A q \in Rank \ {r} : aux'[q] = aux[q] /\ recv'[q] = recv[q]
  BY <1>1, <1>2 DEF ArraysOK
<1>5. recv[r] \in [at : Int, end : Int] /\ aux[r] \in [D -> Slot]
  BY <1>2 DEF RankOK, BuffersOK
<1>6. /\ NetOK' /\ net'[1 - 1] = net[1 - 1] /\ net[1][src][r] # << >>
      /\ \A s, dst \in Rank : net'[1][s][dst] = IF s = src /\ dst = r THEN Tail(net[1][src][r]) ELSE net[1][s][dst]
  BY <1>1, <1>2, ReceivedFacts
<1>7. m \in Seq(Slot) /\ Len(m) \in Nat
  BY <1>2, <1>6, HeadFacts
<1> HIDE DEF m
<1>8. recv'[r] \in [at : Int, end : Int] /\ recv'[r].end - recv'[r].at = (recv[r].end - recv[r].at) - Len(m)
  <2>1. /\ recv'[r] = [at |-> recv[r].at + Len(m), end |-> recv[r].end]
        /\ recv[r].at \in Int /\ recv[r].end \in Int
    BY <1>4, <1>5
  <2>2. recv'[r].at = recv[r].at + Len(m) /\ recv'[r].end = recv[r].end
    BY <2>1
  <2> QED
    BY <1>7, <2>1, <2>2
<1>9. arr \in [D -> Slot]
  <2> DEFINE A == aux[r]
             l == Location(r, src)
  <2>1. A \in [D -> Slot]
    BY <1>5
  <2> HIDE DEF D, A, l
  <2>2. Scattered(A, m, l) \in [D -> Slot]
    BY <1>7, <2>1, BufferTypes
  <2> QED
    BY <2>2 DEF A, l
<1> HIDE DEF arr
<1>10. \A q \in Rank \ {r} : Entries(q)' = Entries(q)
  BY <1>1, <1>4 DEF Entries
<1>11. /\ NumIncoming(r)' = NumIncoming(r) /\ NumAssigned(r)' = NumAssigned(r)
       /\ Exchanging(r)' <=> Exchanging(r)
  BY <1>1 DEF NumIncoming, NumAssigned, NumPresent, Exchanging
<1>12. RankOK(r)'
  <2>1. SentDesc(r)' = SentDesc(r) /\ BufferSize(r)' = BufferSize(r)
    BY <1>1, <1>11 DEF SentDesc, BufferSize
  <2>2. DOMAIN aux'[r] = DOMAIN aux[r] /\ aux'[r] \in [DOMAIN aux'[r] -> Slot]
    BY <1>4, <1>9
  <2>3. BuffersOK(r)'
    BY <1>1, <1>2, <1>8, <1>11, <2>1, <2>2 DEF RankOK, BuffersOK
  <2>4. Envelope(r)' = Envelope(r)
    BY <1>11, <2>1 DEF Envelope
  <2>5. OrderOK(r)'
    BY <1>1, <1>2, <2>4 DEF RankOK, OrderOK
  <2>6. SendsOK(r)'
    BY <1>1, <1>2, <2>1 DEF RankOK, SendsOK
  <2> QED
    BY <2>3, <2>5, <2>6 DEF RankOK
<1>13. /\ \A e \in {0, 1} : Waiting(e, r)' <=> Waiting(e, r)
       /\ Expected(1, r)' = Expected(1, r) - Len(m) /\ Expected(0, r)' = Expected(0, r)
  <2>1. \A e \in {0, 1} : Waiting(e, r)' <=> Waiting(e, r)
    BY <1>1, <1>11 DEF Waiting
  <2>2. Expected(1, r) = recv[r].end - recv[r].at /\ Expected(1, r)' = recv'[r].end - recv'[r].at
    BY <1>1 DEF Expected
  <2>3. Expected(0, r)' = Expected(0, r)
    BY <1>1 DEF Expected
  <2> QED
    BY <1>8, <2>1, <2>2, <2>3
<1>14. \A e \in {0, 1} : \A q \in Rank \ {r} : Expected(e, q)' = Expected(e, q) /\ (Waiting(e, q)' <=> Waiting(e, q))
  BY <1>1, <1>10, ExpectedFrame
<1>15. ExchangeOK(1)'
  <2>1. Takes(1, r, src)
    BY <1>1, <1>6, <1>13, <1>14 DEF Takes, m
  <2> QED
    BY <1>2, <2>1, NetReceived
<1>16. ExchangeOK(0)'
  <2>1. \A q \in Rank : (Waiting(0, q)' <=> Waiting(0, q)) /\ Expected(0, q)' = Expected(0, q)
    BY <1>13, <1>14
  <2>2. net'[0] = net[0]
    BY <1>6
  <2> QED
    BY <1>1, <1>2, <2>1, <2>2, NetSame
<1>17. ArraysOK'
  <2>1. DOMAIN aux' = Rank /\ DOMAIN recv' = Rank
    BY <1>1, <1>2 DEF ArraysOK
  <2> QED
    BY <1>1, <1>2, <1>3, <1>6, <2>1 DEF ArraysOK, NetOK
<1> QED
  BY <1>1, <1>10, <1>12, <1>15, <1>16, <1>17, StepOfRank

\* A step of one rank without messages.
LEMMA LocalStep ==
    ASSUME CountInv, NEW r \in Rank, sends' = sends, asg' = asg, net' = net, ArraysOK',
           \A q \in Rank \ {r} : Entries(q)' = Entries(q), RankOK(r)',
           \A e \in {0, 1} : (Waiting(e, r)' <=> Waiting(e, r)) /\ Expected(e, r)' = Expected(e, r)
    PROVE  CountInv'
<1>1. \A e \in {0, 1} : \A q \in Rank \ {r} : Expected(e, q)' = Expected(e, q) /\ (Waiting(e, q)' <=> Waiting(e, q))
  BY ExpectedFrame
<1>2. ASSUME NEW e \in {0, 1} PROVE ExchangeOK(e)'
  <2>1. \A q \in Rank : (Waiting(e, q)' <=> Waiting(e, q)) /\ Expected(e, q)' = Expected(e, q)
    BY <1>1
  <2>2. ExchangeOK(e) /\ net'[e] = net[e]
    BY InvParts
  <2> QED
    BY <2>1, <2>2, NetSame
<1>3. ExchangeOK(0)' /\ ExchangeOK(1)'
  BY <1>2
<1> QED
  BY <1>3, StepOfRank

\* A permutation of a permutation is one.
LEMMA ComposedOrder ==
    ASSUME NEW lo \in Int, NEW hi \in Int, NEW a, PermutesRange(a, lo, hi), NEW b, PermutesRange(b, lo, hi)
    PROVE  PermutesRange([i \in DOMAIN b |-> a[b[i]]], lo, hi)
<1> DEFINE D == lo .. hi - 1
           c == [i \in DOMAIN b |-> a[b[i]]]
<1>1. /\ a \in [D -> D] /\ \A i, j \in D : a[i] = a[j] => i = j
      /\ b \in [D -> D] /\ \A i, j \in D : b[i] = b[j] => i = j
      /\ \A k \in D : \E i \in D : a[i] = k
      /\ \A k \in D : \E i \in D : b[i] = k
  BY DEF PermutesRange
<1> HIDE DEF D
<1>2. c \in [D -> D] /\ \A i \in D : c[i] = a[b[i]]
  BY <1>1
<1> HIDE DEF c
<1>3. \A i, j \in D : c[i] = c[j] => i = j
  BY <1>1, <1>2
<1>4. \A k \in D : \E i \in D : c[i] = k
  BY <1>1, <1>2
<1> QED
  BY <1>2, <1>3, <1>4 DEF PermutesRange, D, c

\* distribute keeps the order of the assigned particles and adds the received ones, which lie
\* beside them: together a permutation of the envelope.
LEMMA MergedOrder ==
    ASSUME NEW d \in Descriptions, NEW n \in Nat, NEW o, PermutesRange(o, d.start, d.end)
    PROVE  PermutesRange([i \in AssignedEnvelope(d, n).start .. AssignedEnvelope(d, n).end - 1 |->
                             IF i \in ReceiveStart(d, n) .. ReceiveStart(d, n) + n - 1 THEN i ELSE o[i]],
                         AssignedEnvelope(d, n).start, AssignedEnvelope(d, n).end)
<1> DEFINE rs == ReceiveStart(d, n)
           lo == AssignedEnvelope(d, n).start
           hi == AssignedEnvelope(d, n).end
           R == rs .. rs + n - 1
           E == lo .. hi - 1
           D == d.start .. d.end - 1
           map == [i \in E |-> IF i \in R THEN i ELSE o[i]]
<1>1. /\ lo \in Nat /\ hi \in Nat /\ rs \in Nat
      /\ \/ lo = rs /\ hi = d.end /\ rs + n = d.start
         \/ lo = d.start /\ rs = d.end /\ hi = d.end + n
  BY EnvelopeFacts
<1>2. d.start \in Nat /\ d.end \in Nat /\ d.start <= d.end
  BY RangeSize
<1>3. (\A i : i \in E <=> i \in R \/ i \in D) /\ (\A i : ~(i \in R /\ i \in D))
  <2> HIDE DEF lo, hi, rs
  <2> QED
    BY <1>1, <1>2
<1>4. /\ o \in [D -> D] /\ \A i, j \in D : o[i] = o[j] => i = j
      /\ \A k \in D : \E i \in D : o[i] = k
  BY DEF PermutesRange
<1> HIDE DEF R, D, E
<1>5. \A i \in E : map[i] = IF i \in R THEN i ELSE o[i]
  OBVIOUS
<1>6. map \in [E -> E]
  BY <1>3, <1>4
<1> HIDE DEF map
<1>7. \A i, j \in E : map[i] = map[j] => i = j
  BY <1>3, <1>4, <1>5
<1>8. \A k \in E : \E i \in E : map[i] = k
  <2> SUFFICES ASSUME NEW k \in E PROVE \E i \in E : map[i] = k
    OBVIOUS
  <2>1. CASE k \in R
    BY <1>5, <2>1
  <2>2. CASE k \notin R
    <3>1. PICK i \in D : o[i] = k
      BY <1>3, <1>4, <2>2
    <3> QED
      BY <1>3, <1>5, <3>1
  <2> QED
    BY <2>1, <2>2
<1> QED
  BY <1>6, <1>7, <1>8 DEF PermutesRange, map, E, R, lo, hi, rs

\* Sorting in distribute, after the exchange.
LEMMA FinishDistributeInv == CountInv /\ (\E r \in Rank : FinishDistribute(r)) => CountInv'
<1> SUFFICES ASSUME CountInv, NEW r \in Rank, FinishDistribute(r) PROVE CountInv'
  OBVIOUS
<1> DEFINE d == bufDesc[r]
           n == NumIncoming(r)
           size == ExchangeBufferSize(d, n)
           rs == ReceiveStart(d, n)
           env == AssignedEnvelope(d, n)
           ks == ComputeSfcKeys(keys[r], data[r], rs .. rs + n - 1, pos)
           map == [i \in env.start .. env.end - 1 |-> IF i \in rs .. rs + n - 1 THEN i ELSE order[r][i]]
           ord == SortOrder(ks, env.start, env.end)
           new == [i \in DOMAIN ord |-> map[ord[i]]]
<1>1. /\ pc[r] = "receiving" /\ recv[r].at = recv[r].end /\ pc' = [pc EXCEPT ![r] = "exchanged"]
      /\ keys' = [keys EXCEPT ![r] = Permuted(ks, ord)] /\ order' = [order EXCEPT ![r] = new]
      /\ sends' = sends /\ asg' = asg /\ data' = data /\ aux' = aux /\ bufDesc' = bufDesc /\ net' = net
      /\ prevDesc' = prevDesc /\ recv' = recv /\ pos' = pos /\ alive' = alive /\ log' = log /\ record' = record
  BY DEF FinishDistribute
<1>2. ArraysOK /\ RankOK(r) /\ SendsKnown
  BY InvParts
<1>3. /\ pc'[r] = "exchanged" /\ keys'[r] = Permuted(ks, ord) /\ order'[r] = new
      /\ \A q \in Rank \ {r} : pc'[q] = pc[q] /\ keys'[q] = keys[q] /\ order'[q] = order[q]
  BY <1>1, <1>2 DEF ArraysOK
<1>4. Exchanging(r) /\ Exchanging(r)' /\ SentDesc(r) = d
  BY <1>1, <1>3 DEF Exchanging, SentDesc
<1>5. /\ d \in Descriptions /\ PermutesRange(order[r], d.start, d.end)
      /\ data[r] \in [0 .. size - 1 -> Slot] /\ keys[r] \in [0 .. size - 1 -> 0 .. NumKeys]
      /\ recv[r] \in [at : Int, end : Int] /\ pos \in [Particle -> Key]
  BY <1>1, <1>2, <1>4 DEF RankOK, BuffersOK, OrderOK, BufferSize, ArraysOK
<1>6. n \in Nat
  BY <1>2, SentCounts
<1>7. /\ size \in Nat /\ env.start \in Nat /\ env.end \in Nat /\ env.end <= size
  <2> HIDE DEF n
  <2> QED
    BY <1>5, <1>6, EnvelopeFacts
<1> HIDE DEF n, size
<1>8. ks \in [0 .. size - 1 -> 0 .. NumKeys]
  <2> DEFINE I == rs .. rs + n - 1
             D == 0 .. size - 1
             A == data[r]
             K == keys[r]
  <2>1. K \in [D -> 0 .. NumKeys] /\ \A i \in D \cap I : A[i] \in Slot
    BY <1>5
  <2> HIDE DEF I, D, A, K
  <2>2. ComputeSfcKeys(K, A, I, pos) \in [D -> 0 .. NumKeys]
    BY <1>5, <2>1, KeyTypes
  <2> QED
    BY <2>2 DEF I, D, A, K
<1> HIDE DEF ks
<1>9. PermutesRange(ord, env.start, env.end)
  <2> DEFINE lo == env.start
             hi == env.end
  <2>1. \A i \in lo .. hi - 1 : i \in 0 .. size - 1
    BY <1>7
  <2>2. \A i \in lo .. hi - 1 : ks[i] \in Int
    BY <1>8, <2>1, RankFacts
  <2>3. lo \in Nat /\ hi \in Nat
    BY <1>7
  <2> HIDE DEF lo, hi
  <2>4. PermutesRange(SortOrder(ks, lo, hi), lo, hi)
    BY <2>2, <2>3, SortOrderFacts
  <2> QED
    BY <2>4 DEF lo, hi
<1>10. PermutesRange(map, env.start, env.end)
  BY <1>5, <1>6, MergedOrder
<1> HIDE DEF ord, map, env
<1>11. PermutesRange(new, env.start, env.end)
  <2> DEFINE lo == env.start
             hi == env.end
  <2>1. lo \in Int /\ hi \in Int
    BY <1>7
  <2> HIDE DEF lo, hi
  <2>2. PermutesRange(map, lo, hi) /\ PermutesRange(ord, lo, hi)
    BY <1>9, <1>10 DEF lo, hi
  <2>3. PermutesRange(new, lo, hi)
    BY <2>1, <2>2, ComposedOrder
  <2> QED
    BY <2>3 DEF lo, hi
<1>12. Permuted(ks, ord) \in [0 .. size - 1 -> 0 .. NumKeys]
  <2>1. ord \in [DOMAIN ord -> 0 .. size - 1]
    <3>1. ord \in [env.start .. env.end - 1 -> env.start .. env.end - 1]
      BY <1>9 DEF PermutesRange
    <3>2. \A i \in env.start .. env.end - 1 : i \in 0 .. size - 1
      BY <1>7
    <3> QED
      BY <3>1, <3>2
  <2> QED
    BY <1>8, <2>1, BufferTypes
<1> HIDE DEF new
<1>13. NumIncoming(r)' = n /\ NumAssigned(r)' = NumAssigned(r)
  BY <1>1 DEF NumIncoming, NumAssigned, NumPresent, n
<1>14. RankOK(r)'
  <2>1. SentDesc(r)' = d /\ BufferSize(r)' = size /\ BufferSize(r) = size
    BY <1>1, <1>4, <1>13 DEF SentDesc, BufferSize, size, n
  <2>2. Envelope(r)' = env
    BY <1>13, <2>1 DEF Envelope, env
  <2>3. BuffersOK(r)'
    BY <1>1, <1>2, <1>3, <1>5, <1>12, <1>13, <2>1 DEF RankOK, BuffersOK
  <2>4. OrderOK(r)'
    BY <1>3, <1>11, <2>2 DEF OrderOK
  <2>5. SendsOK(r)'
    BY <1>1, <1>2, <1>4, <2>1 DEF RankOK, SendsOK
  <2> QED
    BY <2>3, <2>4, <2>5 DEF RankOK
<1>15. \A e \in {0, 1} : (Waiting(e, r)' <=> Waiting(e, r)) /\ Expected(e, r)' = Expected(e, r)
  <2>1. ~Waiting(0, r) /\ ~Waiting(0, r)' /\ Waiting(1, r) /\ Waiting(1, r)'
    BY <1>1, <1>3, <1>4 DEF Waiting
  <2>2. Expected(1, r) = n /\ Expected(1, r)' = n /\ Expected(0, r)' = 0
    BY <1>1, <1>3, <1>13, <2>1 DEF Expected, n
  <2>3. Expected(0, r) = 0
    <3>1. Expected(0, r) = recv[r].end - recv[r].at /\ recv[r].end \in Int
      BY <1>1, <1>5 DEF Expected
    <3> QED
      BY <1>1, <3>1
  <2> QED
    BY <2>1, <2>2, <2>3
<1>16. ArraysOK'
  BY <1>1, <1>2 DEF ArraysOK, Phases
<1>17. \A q \in Rank \ {r} : Entries(q)' = Entries(q)
  BY <1>1, <1>3 DEF Entries
<1> QED
  BY <1>1, <1>14, <1>15, <1>16, <1>17, LocalStep

\* The assigned particles are a part of the sorted envelope.
LEMMA ViewInEnvelope ==
    ASSUME SendsKnown, NEW r \in Rank, NEW j \in 0 .. NumAssigned(r) - 1
    PROVE  /\ PostExchangeStart(r, SentDesc(r)) + j \in Envelope(r).start .. Envelope(r).end - 1
           /\ \A k \in Envelope(r).start .. Envelope(r).end - 1 :
                k \in 0 .. ExchangeBufferSize(SentDesc(r), NumIncoming(r)) - 1
<1> DEFINE d == SentDesc(r)
           n == NumIncoming(r)
           env == AssignedEnvelope(d, n)
           s == sends[r][r]
           x == NumPresent(r)
<1>1. d \in Descriptions /\ n \in Nat /\ x \in Nat /\ NumAssigned(r) = x + n /\ s \in Nat
  BY SentCounts
<1>2. s + x <= d.end - d.start
  BY SentCounts DEF NumPresent
<1>3. PostExchangeStart(r, d) = env.start + s /\ Envelope(r) = env
  BY DEF PostExchangeStart, NumSendDown, Envelope
<1>4. d.start \in Nat /\ d.end \in Nat
  BY <1>1, RangeSize
<1> HIDE DEF d, n, x, s
<1>5. /\ env.start \in Nat /\ env.end \in Nat /\ env.end - env.start = d.end - d.start + n
      /\ env.end <= ExchangeBufferSize(d, n) /\ ExchangeBufferSize(d, n) \in Nat
  BY <1>1, EnvelopeFacts
<1> HIDE DEF env
<1>6. env.start + s + j \in env.start .. env.end - 1
  BY <1>1, <1>2, <1>4, <1>5
<1>7. \A k \in env.start .. env.end - 1 : k \in 0 .. ExchangeBufferSize(d, n) - 1
  BY <1>5
<1> QED
  BY <1>3, <1>6, <1>7 DEF d, n

\* The focus tree does not count more particles than are assigned.
LEMMA NumCountedBound ==
    ASSUME NEW r \in Rank, NumAssigned(r) \in Nat
    PROVE  NumCounted(r) \in Nat /\ NumCounted(r) <= NumAssigned(r)
<1> DEFINE n == NumAssigned(r)
           D == 0 .. n - 1
           C == {j \in D : asg.bound[r] <= ViewKey(r, j) /\ ViewKey(r, j) < asg.bound[r + 1]}
<1>1. 0 \in Int /\ n - 1 \in Int
  OBVIOUS
<1> HIDE DEF n
<1>2. IsFiniteSet(D) /\ Cardinality(D) = IF 0 > n - 1 THEN 0 ELSE n - 1 - 0 + 1
  BY <1>1, FS_Interval
<1>3. Cardinality(D) = n
  BY <1>2 DEF n
<1>4. C \in SUBSET D
  OBVIOUS
<1>5. NumCounted(r) = Cardinality(C)
  BY DEF NumCounted, n
<1> HIDE DEF C, D
<1>6. IsFiniteSet(C) /\ Cardinality(C) <= Cardinality(D)
  BY <1>2, <1>4, FS_Subset
<1>7. Cardinality(C) \in Nat
  BY <1>6, FS_CardinalityType
<1> QED
  BY <1>3, <1>5, <1>6, <1>7 DEF n

\* updateLayout and setupHalos.
LEMMA UpdateLayoutInv ==
    CountInv /\ (\E r \in Rank : \E L \in AtMost(MaxHalos[numSync], Below(r)), H \in AtMost(MaxHalos[numSync], Above(r)) :
                    UpdateLayout(r, L, H)) => CountInv'
<1> SUFFICES ASSUME CountInv, NEW r \in Rank, NEW L \in AtMost(MaxHalos[numSync], Below(r)),
                    NEW H \in AtMost(MaxHalos[numSync], Above(r)), UpdateLayout(r, L, H)
             PROVE  CountInv'
  OBVIOUS
<1> DEFINE low == InSfcOrder(L)
           high == InSfcOrder(H)
           n == NumAssigned(r)
           d == bufDesc[r]
           old == ExchangeBufferSize(d, NumIncoming(r))
           new == [start |-> Len(low), end |-> Len(low) + NumCounted(r),
                   size |-> Len(low) + NumCounted(r) + Len(high)]
           dat == [i \in 0 .. new.size - 1 |->
                     IF i < new.start THEN low[i + 1]
                     ELSE IF i < new.end THEN data[r][ViewIndex(r, i - new.start)]
                     ELSE high[i - new.end + 1]]
           kept == [i \in 0 .. new.size - 1 |->
                     IF i \in new.start .. new.start + n - 1 THEN ViewKey(r, i - new.start)
                     ELSE IF i < bufDesc[r].size THEN keys[r][i] ELSE 0]
           ks == ComputeSfcKeys(kept, dat, DOMAIN dat \ Range01(new), pos)
<1>1. /\ pc[r] = "exchanged" /\ pc' = [pc EXCEPT ![r] = "synced"]
      /\ data' = [data EXCEPT ![r] = dat] /\ keys' = [keys EXCEPT ![r] = ks]
      /\ prevDesc' = [prevDesc EXCEPT ![r] = d] /\ bufDesc' = [bufDesc EXCEPT ![r] = new]
      /\ sends' = sends /\ asg' = asg /\ aux' = aux /\ net' = net /\ order' = order
      /\ recv' = recv /\ pos' = pos /\ alive' = alive /\ log' = log /\ record' = record
  BY DEF UpdateLayout
<1>2. ArraysOK /\ RankOK(r) /\ SendsKnown
  BY InvParts
<1>3. /\ pc'[r] = "synced" /\ data'[r] = dat /\ keys'[r] = ks /\ prevDesc'[r] = d /\ bufDesc'[r] = new
      /\ \A q \in Rank \ {r} : /\ pc'[q] = pc[q] /\ data'[q] = data[q] /\ keys'[q] = keys[q]
                               /\ prevDesc'[q] = prevDesc[q] /\ bufDesc'[q] = bufDesc[q]
  BY <1>1, <1>2 DEF ArraysOK
<1>4. Exchanging(r) /\ ~Exchanging(r)' /\ SentDesc(r) = d /\ SentDesc(r)' = d
  BY <1>1, <1>3 DEF Exchanging, SentDesc
<1>5. /\ d \in Descriptions /\ PermutesRange(order[r], Envelope(r).start, Envelope(r).end)
      /\ data[r] \in [0 .. old - 1 -> Slot] /\ keys[r] \in [0 .. old - 1 -> 0 .. NumKeys]
      /\ pos \in [Particle -> Key] /\ alive \subseteq Particle
  BY <1>1, <1>2, <1>4 DEF RankOK, BuffersOK, OrderOK, BufferSize, ArraysOK
<1>6. n \in Nat /\ NumIncoming(r) \in Nat
  BY <1>2, SentCounts
<1>7. L \in SUBSET Particle /\ H \in SUBSET Particle
  BY <1>5 DEF AtMost, Below, Above
<1>8. low \in Seq(Particle) /\ Len(low) \in Nat /\ high \in Seq(Particle) /\ Len(high) \in Nat
  BY <1>5, <1>7, HaloFacts
<1>9. NumCounted(r) \in Nat /\ NumCounted(r) <= n
  BY <1>6, NumCountedBound
<1>10. old \in Nat /\ d.size \in Nat /\ d.size <= old
  BY <1>5, <1>6, EnvelopeFacts, RangeSize
<1> HIDE DEF low, high, n, old
<1>11. /\ new \in Descriptions /\ new.end - new.start <= n
       /\ new.start = Len(low) /\ new.end = Len(low) + NumCounted(r)
       /\ new.size = Len(low) + NumCounted(r) + Len(high)
  BY <1>6, <1>8, <1>9 DEF Descriptions
<1>12. ASSUME NEW j \in 0 .. n - 1
       PROVE  data[r][ViewIndex(r, j)] \in Slot /\ ViewKey(r, j) \in 0 .. NumKeys
  <2> DEFINE i == PostExchangeStart(r, d) + j
             E == Envelope(r).start .. Envelope(r).end - 1
  <2>1. i \in E /\ \A k \in E : k \in 0 .. old - 1
    BY <1>2, <1>4, ViewInEnvelope DEF n, old
  <2>2. order[r][i] \in E
    <3> HIDE DEF i
    <3> QED
      BY <1>5, <2>1 DEF PermutesRange
  <2>3. ViewIndex(r, j) = order[r][i] /\ ViewKey(r, j) = keys[r][i]
    BY DEF ViewIndex, ViewKey
  <2> HIDE DEF i, E
  <2> QED
    BY <1>5, <2>1, <2>2, <2>3
<1> DEFINE a == new.start
           b == new.end
           c == new.size
<1>13. a \in Nat /\ b \in Nat /\ c \in Nat /\ a = Len(low) /\ b = a + NumCounted(r) /\ c = b + Len(high) /\ b - a <= n
  BY <1>8, <1>9, <1>11
<1>14. dat = [i \in 0 .. c - 1 |-> IF i < a THEN low[i + 1]
                                  ELSE IF i < b THEN data[r][ViewIndex(r, i - a)] ELSE high[i - b + 1]]
  OBVIOUS
<1>15. kept = [i \in 0 .. c - 1 |-> IF i \in a .. a + n - 1 THEN ViewKey(r, i - a)
                                   ELSE IF i < bufDesc[r].size THEN keys[r][i] ELSE 0]
  OBVIOUS
<1> HIDE DEF a, b, c, dat, kept
<1>16. dat \in [0 .. c - 1 -> Slot]
  <2>1. ASSUME NEW i \in 0 .. c - 1
        PROVE  (IF i < a THEN low[i + 1]
                ELSE IF i < b THEN data[r][ViewIndex(r, i - a)] ELSE high[i - b + 1]) \in Slot
    <3>1. CASE i < a
      <4>1. i + 1 \in 1 .. Len(low)
        BY <1>8, <1>13, <3>1
      <4>2. low[i + 1] \in Particle
        BY <1>8, <4>1
      <4> QED
        BY <3>1, <4>2 DEF Slot
    <3>2. CASE ~(i < a) /\ i < b
      <4>1. i - a \in 0 .. n - 1
        BY <1>6, <1>13, <3>2
      <4> QED
        BY <1>12, <3>2, <4>1
    <3>3. CASE ~(i < a) /\ ~(i < b)
      <4>1. i - b + 1 \in 1 .. Len(high)
        BY <1>8, <1>13, <3>3
      <4>2. high[i - b + 1] \in Particle
        BY <1>8, <4>1
      <4> QED
        BY <3>3, <4>2 DEF Slot
    <3> QED
      BY <3>1, <3>2, <3>3
  <2> QED
    BY <1>14, <2>1
<1>17. kept \in [0 .. c - 1 -> 0 .. NumKeys]
  <2>1. ASSUME NEW i \in 0 .. c - 1
        PROVE  (IF i \in a .. a + n - 1 THEN ViewKey(r, i - a)
                ELSE IF i < bufDesc[r].size THEN keys[r][i] ELSE 0) \in 0 .. NumKeys
    <3>1. CASE i \in a .. a + n - 1
      <4>1. i - a \in 0 .. n - 1
        BY <1>6, <1>13, <3>1
      <4> QED
        BY <1>12, <3>1, <4>1
    <3>2. CASE i \notin a .. a + n - 1 /\ i < bufDesc[r].size
      <4>1. i \in 0 .. old - 1
        BY <1>10, <1>13, <3>2
      <4> QED
        BY <1>5, <3>2, <4>1
    <3>3. CASE i \notin a .. a + n - 1 /\ ~(i < bufDesc[r].size)
      BY <3>3, RankFacts
    <3> QED
      BY <3>1, <3>2, <3>3
  <2> QED
    BY <1>15, <2>1
<1>18. ks \in [0 .. c - 1 -> 0 .. NumKeys]
  <2> DEFINE I == DOMAIN dat \ Range01(new)
             D == 0 .. c - 1
  <2>1. \A i \in D \cap I : dat[i] \in Slot
    BY <1>16
  <2>2. kept \in [D -> 0 .. NumKeys]
    BY <1>17
  <2> HIDE DEF I, D
  <2>3. ComputeSfcKeys(kept, dat, I, pos) \in [D -> 0 .. NumKeys]
    BY <1>5, <2>1, <2>2, KeyTypes
  <2> QED
    BY <2>3 DEF I, D
<1> HIDE DEF ks
<1>19. NumIncoming(r)' = NumIncoming(r) /\ NumAssigned(r)' = n
  BY <1>1 DEF NumIncoming, NumAssigned, NumPresent, n
<1>20. RankOK(r)'
  <2>1. BufferSize(r)' = c
    BY <1>3, <1>4 DEF BufferSize, c
  <2>2. Envelope(r)' = Envelope(r)
    BY <1>4, <1>19 DEF Envelope
  <2>3. BuffersOK(r)'
    <3>1. aux'[r] \in [DOMAIN aux'[r] -> Slot] /\ recv'[r] \in [at : Int, end : Int]
      BY <1>1, <1>2 DEF RankOK, BuffersOK
    <3>2. bufDesc'[r] \in Descriptions /\ prevDesc'[r] \in Descriptions /\ bufDesc'[r].end - bufDesc'[r].start <= NumAssigned(r)'
      BY <1>3, <1>5, <1>11, <1>19
    <3> HIDE DEF new
    <3> QED
      BY <1>3, <1>16, <1>18, <2>1, <3>1, <3>2 DEF BuffersOK
  <2>4. OrderOK(r)'
    BY <1>1, <1>3, <1>5, <2>2 DEF OrderOK
  <2>5. SendsOK(r)'
    BY <1>1, <1>2, <1>4 DEF RankOK, SendsOK
  <2> QED
    BY <2>3, <2>4, <2>5 DEF RankOK
<1>21. \A e \in {0, 1} : (Waiting(e, r)' <=> Waiting(e, r)) /\ Expected(e, r)' = Expected(e, r)
  <2>1. ~Waiting(0, r) /\ ~Waiting(0, r)' /\ Waiting(1, r) /\ Waiting(1, r)'
    BY <1>1, <1>3, <1>4 DEF Waiting
  <2>2. Expected(1, r) = NumIncoming(r) /\ Expected(1, r)' = NumIncoming(r) /\ Expected(0, r)' = 0 /\ Expected(0, r) = 0
    BY <1>1, <1>3, <1>19, <2>1 DEF Expected
  <2> QED
    BY <2>1, <2>2
<1>22. ArraysOK'
  BY <1>1, <1>2 DEF ArraysOK, Phases
<1>23. \A q \in Rank \ {r} : Entries(q)' = Entries(q)
  BY <1>1, <1>3 DEF Entries
<1> QED
  BY <1>1, <1>20, <1>21, <1>22, <1>23, LocalStep

\* The gather at the end of reapplySync.
LEMMA FinishRedoInv == CountInv /\ (\E r \in Rank : FinishRedo(r)) => CountInv'
<1> SUFFICES ASSUME CountInv, NEW r \in Rank, FinishRedo(r) PROVE CountInv'
  OBVIOUS
<1> DEFINE first == PostExchangeStart(r, prevDesc[r])
           d == bufDesc[r]
           arr == [i \in 0 .. d.size - 1 |->
                     IF i \in Range01(d) THEN aux[r][order[r][first + i - d.start]] ELSE NoParticle]
<1>1. /\ pc[r] = "redoing" /\ recv[r].at = recv[r].end /\ pc' = [pc EXCEPT ![r] = "done"]
      /\ aux' = [aux EXCEPT ![r] = arr]
      /\ sends' = sends /\ asg' = asg /\ data' = data /\ keys' = keys /\ bufDesc' = bufDesc /\ net' = net
      /\ prevDesc' = prevDesc /\ recv' = recv /\ pos' = pos /\ alive' = alive /\ log' = log /\ record' = record
      /\ order' = order
  BY DEF FinishRedo
<1>2. ArraysOK /\ RankOK(r) /\ SendsKnown
  BY InvParts
<1>3. pc'[r] = "done" /\ aux'[r] = arr /\ \A q \in Rank \ {r} : pc'[q] = pc[q] /\ aux'[q] = aux[q]
  BY <1>1, <1>2 DEF ArraysOK
<1>4. ~Exchanging(r) /\ ~Exchanging(r)' /\ SentDesc(r) = prevDesc[r] /\ SentDesc(r)' = prevDesc[r]
  BY <1>1, <1>3 DEF Exchanging, SentDesc
<1> DEFINE old == ExchangeBufferSize(prevDesc[r], NumIncoming(r))
           E == Envelope(r).start .. Envelope(r).end - 1
<1>5. /\ d \in Descriptions /\ PermutesRange(order[r], Envelope(r).start, Envelope(r).end)
      /\ aux[r] \in [0 .. old - 1 -> Slot] /\ d.end - d.start <= NumAssigned(r)
      /\ recv[r] \in [at : Int, end : Int]
  BY <1>1, <1>2 DEF RankOK, BuffersOK, OrderOK
<1>6. NumAssigned(r) \in Nat /\ d.start \in Nat /\ d.end \in Nat
  BY <1>2, <1>5, SentCounts, RangeSize
<1>7. arr \in [0 .. d.size - 1 -> Slot]
  <2>1. ASSUME NEW i \in Range01(d) PROVE aux[r][order[r][first + i - d.start]] \in Slot
    <3> DEFINE j == i - d.start
    <3>1. j \in 0 .. NumAssigned(r) - 1 /\ i \in Int
      BY <1>5, <1>6 DEF Range01
    <3>2. first + j \in E /\ \A k \in E : k \in 0 .. old - 1
      <4> HIDE DEF j
      <4> QED
        BY <1>2, <1>4, <3>1, ViewInEnvelope
    <3>3. first + i - d.start = first + j
      <4>1. first \in Int
        <5>1. prevDesc[r] \in Descriptions /\ NumIncoming(r) \in Nat /\ sends[r][r] \in Nat
          BY <1>2, <1>4, SentCounts
        <5>2. AssignedEnvelope(prevDesc[r], NumIncoming(r)).start \in Nat
          BY <5>1, EnvelopeFacts
        <5> QED
          BY <5>1, <5>2 DEF PostExchangeStart, NumSendDown
      <4> HIDE DEF first
      <4> QED
        BY <1>6, <3>1, <4>1
    <3> HIDE DEF j, first
    <3>4. order[r][first + j] \in E
      BY <1>5, <3>2 DEF PermutesRange
    <3> HIDE DEF E, old
    <3> QED
      BY <1>5, <3>2, <3>3, <3>4
  <2> QED
    BY <2>1 DEF Slot
<1> HIDE DEF arr
<1>8. NumIncoming(r)' = NumIncoming(r) /\ NumAssigned(r)' = NumAssigned(r)
  BY <1>1 DEF NumIncoming, NumAssigned, NumPresent
<1>9. RankOK(r)'
  <2>1. BufferSize(r)' = BufferSize(r)
    BY <1>1, <1>4 DEF BufferSize
  <2>2. aux'[r] \in [DOMAIN aux'[r] -> Slot]
    BY <1>3, <1>7
  <2>3. BuffersOK(r)'
    BY <1>1, <1>2, <1>3, <2>1, <2>2 DEF RankOK, BuffersOK
  <2>4. OrderOK(r)'
    BY <1>3 DEF OrderOK
  <2>5. SendsOK(r)'
    BY <1>1, <1>2, <1>4 DEF RankOK, SendsOK
  <2> QED
    BY <2>3, <2>4, <2>5 DEF RankOK
<1>10. \A e \in {0, 1} : (Waiting(e, r)' <=> Waiting(e, r)) /\ Expected(e, r)' = Expected(e, r)
  <2>1. ~Waiting(0, r) /\ ~Waiting(0, r)' /\ ~Waiting(1, r) /\ ~Waiting(1, r)'
    BY <1>1, <1>3, <1>4 DEF Waiting
  <2>2. Expected(0, r) = 0 /\ Expected(0, r)' = 0 /\ Expected(1, r)' = 0
    BY <1>1, <1>3, <2>1 DEF Expected
  <2>3. Expected(1, r) = 0
    <3>1. Expected(1, r) = recv[r].end - recv[r].at /\ recv[r].end \in Int
      BY <1>1, <1>5 DEF Expected
    <3> QED
      BY <1>1, <3>1
  <2> QED
    BY <2>1, <2>2, <2>3
<1>11. ArraysOK'
  BY <1>1, <1>2 DEF ArraysOK, Phases
<1>12. \A q \in Rank \ {r} : Entries(q)' = Entries(q)
  BY <1>1, <1>3 DEF Entries
<1> QED
  BY <1>1, <1>9, <1>10, <1>11, <1>12, LocalStep

\* The time step.
LEMMA IntegrateInv ==
    CountInv /\ (\E r \in Rank : \E to \in [Local(r) -> Key], gone \in AtMost(MaxRemoved, Local(r)) :
                    Integrate(r, to, gone)) => CountInv'
<1> SUFFICES ASSUME CountInv, NEW r \in Rank, NEW to \in [Local(r) -> Key],
                    NEW gone \in AtMost(MaxRemoved, Local(r)), Integrate(r, to, gone)
             PROVE  CountInv'
  OBVIOUS
<1> DEFINE ks == [i \in DOMAIN keys[r] |->
                    IF i \in Range01(bufDesc[r]) /\ data[r][i] \in gone THEN RemoveKey ELSE keys[r][i]]
<1>1. /\ pc[r] = "done" /\ pc' = [pc EXCEPT ![r] = "moved"]
      /\ pos' = [p \in Particle |-> IF p \in Local(r) THEN to[p] ELSE pos[p]]
      /\ alive' = alive \ gone /\ keys' = [keys EXCEPT ![r] = ks]
      /\ sends' = sends /\ asg' = asg /\ data' = data /\ aux' = aux /\ bufDesc' = bufDesc /\ net' = net
      /\ prevDesc' = prevDesc /\ recv' = recv /\ log' = log /\ record' = record /\ order' = order
  BY DEF Integrate
<1>2. ArraysOK /\ RankOK(r)
  BY InvParts
<1>3. pc'[r] = "moved" /\ keys'[r] = ks /\ \A q \in Rank \ {r} : pc'[q] = pc[q] /\ keys'[q] = keys[q]
  BY <1>1, <1>2 DEF ArraysOK
<1>4. ~Exchanging(r) /\ ~Exchanging(r)' /\ SentDesc(r) = prevDesc[r] /\ SentDesc(r)' = prevDesc[r]
  BY <1>1, <1>3 DEF Exchanging, SentDesc
<1>5. ks \in [0 .. BufferSize(r) - 1 -> 0 .. NumKeys]
  <2>1. keys[r] \in [0 .. BufferSize(r) - 1 -> 0 .. NumKeys]
    BY <1>2 DEF RankOK, BuffersOK
  <2>2. RemoveKey \in 0 .. NumKeys
    BY RankFacts DEF RemoveKey
  <2> QED
    BY <2>1, <2>2
<1> HIDE DEF ks
<1>6. RankOK(r)'
  <2>1. BufferSize(r)' = BufferSize(r)
    BY <1>1, <1>4 DEF BufferSize
  <2>2. BuffersOK(r)'
    BY <1>1, <1>2, <1>3, <1>5, <2>1 DEF RankOK, BuffersOK
  <2>3. OrderOK(r)'
    BY <1>3 DEF OrderOK
  <2>4. SendsOK(r)'
    BY <1>1, <1>2, <1>4 DEF RankOK, SendsOK
  <2> QED
    BY <2>2, <2>3, <2>4 DEF RankOK
<1>7. \A e \in {0, 1} : (Waiting(e, r)' <=> Waiting(e, r)) /\ Expected(e, r)' = Expected(e, r)
  <2>1. ~Waiting(0, r) /\ ~Waiting(0, r)' /\ ~Waiting(1, r) /\ ~Waiting(1, r)'
    BY <1>1, <1>3, <1>4 DEF Waiting
  <2>2. Expected(0, r) = 0 /\ Expected(0, r)' = 0 /\ Expected(1, r)' = 0 /\ Expected(1, r) = 0
    BY <1>1, <1>3, <2>1 DEF Expected
  <2> QED
    BY <2>1, <2>2
<1>8. ArraysOK'
  <2>1. pos' \in [Particle -> Key] /\ alive' \subseteq Particle
    BY <1>1, <1>2 DEF ArraysOK
  <2> QED
    BY <1>1, <1>2, <2>1 DEF ArraysOK, Phases
<1>9. \A q \in Rank \ {r} : Entries(q)' = Entries(q)
  BY <1>1, <1>3 DEF Entries
<1> QED
  BY <1>1, <1>6, <1>7, <1>8, <1>9, LocalStep

\* Steps that change nothing.
LEMMA StutterInv == CountInv /\ UNCHANGED vars => CountInv'
<1> SUFFICES ASSUME CountInv, UNCHANGED vars PROVE CountInv'
  OBVIOUS
<1>1. /\ sends' = sends /\ asg' = asg /\ net' = net /\ pc' = pc /\ data' = data /\ keys' = keys /\ aux' = aux
      /\ bufDesc' = bufDesc /\ prevDesc' = prevDesc /\ order' = order /\ recv' = recv /\ pos' = pos
      /\ alive' = alive /\ log' = log /\ record' = record
  BY DEF vars
<1>2. \A q \in Rank : Entries(q)' = Entries(q)
  BY <1>1 DEF Entries
<1>3. 0 \in Rank
  BY RankFacts DEF Rank
<1>4. ArraysOK'
  BY <1>1, InvParts DEF ArraysOK
<1>5. RankOK(0)'
  BY <1>1, <1>2, <1>3, InvParts, RankFrame
<1>6. \A e \in {0, 1} : (Waiting(e, 0)' <=> Waiting(e, 0)) /\ Expected(e, 0)' = Expected(e, 0)
  BY <1>1, <1>2, <1>3, ExpectedFrame
<1> QED
  BY <1>1, <1>2, <1>3, <1>4, <1>5, <1>6, LocalStep

\* Empty channels are right, and nothing is due from a rank that has sent: at the start and
\* when a sync begins.
LEMMA EmptyChannels == SendsKnown /\ NetEmpty => ChannelsOK
<1> SUFFICES ASSUME SendsKnown, NEW e \in {0, 1}, NEW src \in Rank, NEW dst \in Rank, net[e][src][dst] = << >>
             PROVE  ChannelOK(e, src, dst) /\ Due(e, src, dst) \in Nat /\ (~Waiting(e, src) => Due(e, src, dst) = 0)
  BY DEF NetEmpty, ChannelsOK
<1> DEFINE n == SendCount(sends[src], dst)
<1>1. n \in Nat /\ NumFit[e] \in Nat \ {0}
  BY SentCounts, ExchangeAssumption
<1>2. NumChunks(n, NumFit[e]) \in Nat
  <2> HIDE DEF n
  <2> QED
    BY <1>1, ChunkFacts
<1>3. Leftover(<< >>, n, NumFit[e])
  <2> HIDE DEF n
  <2>1. << >> \in Seq(Seq(Slot)) /\ Len(<< >>) = 0
    OBVIOUS
  <2> QED
    BY <1>2, <2>1 DEF Leftover
<1>4. ChannelOK(e, src, dst)
  BY <1>3 DEF ChannelOK
<1>5. Due(e, src, dst) = IF src = dst THEN 0 ELSE IF Waiting(e, src) THEN n ELSE LeftoverSize(0, n, NumFit[e])
  BY DEF Due
<1>6. LeftoverSize(0, n, NumFit[e]) = 0
  BY DEF LeftoverSize
<1> QED
  BY <1>1, <1>4, <1>5, <1>6

\* Initially nothing is assigned, sent or expected.
LEMMA InitInv == Init => CountInv
<1> SUFFICES ASSUME Init PROVE CountInv
  OBVIOUS
<1> DEFINE own(r) == {p \in Particle : InitialOwner[p] = r}
           size(r) == Cardinality(own(r))
           arr(r) == [i \in 0 .. size(r) - 1 |-> CHOOSE p \in own(r) : Cardinality({q \in own(r) : q < p}) = i]
           desc(r) == [start |-> 0, end |-> size(r), size |-> size(r)]
           zero == [k \in Key |-> 0]
<1>1. /\ pos \in [Particle -> Key] /\ alive = Particle /\ pc = [r \in Rank |-> "moved"]
      /\ data = [r \in Rank |-> arr(r)] /\ aux = [r \in Rank |-> arr(r)]
      /\ keys = [r \in Rank |-> [i \in 0 .. size(r) - 1 |-> 0]]
      /\ bufDesc = [r \in Rank |-> desc(r)] /\ prevDesc = [r \in Rank |-> desc(r)]
      /\ order = [r \in Rank |-> << >>] /\ asg = MakeSfcAssignment(zero)
      /\ sends = [r \in Rank |-> [q \in 0 .. NumRanks |-> 0]]
      /\ log = [r \in Rank |-> << >>] /\ record = [r \in Rank |-> TRUE]
      /\ recv = [r \in Rank |-> [at |-> 0, end |-> 0]]
      /\ net = [e \in {0, 1} |-> [r \in Rank |-> [q \in Rank |-> << >>]]]
  BY DEF Init
<1>2. ASSUME NEW r \in Rank PROVE size(r) \in Nat /\ arr(r) \in [0 .. size(r) - 1 -> Slot]
  <2> DEFINE D == own(r)
  <2>1. D \in SUBSET Particle
    OBVIOUS
  <2> HIDE DEF D
  <2>2. /\ Cardinality(D) \in Nat
        /\ [i \in 0 .. Cardinality(D) - 1 |-> CHOOSE p \in D : Cardinality({q \in D : q < p}) = i]
             \in [0 .. Cardinality(D) - 1 -> D]
    BY <2>1, InitialBuffer
  <2>3. size(r) \in Nat /\ arr(r) \in [0 .. size(r) - 1 -> D]
    BY <2>2 DEF D
  <2> HIDE DEF arr, size
  <2> QED
    BY <2>1, <2>3 DEF Slot
<1> HIDE DEF size, arr
<1>3. ArraysOK
  BY <1>1 DEF ArraysOK, Phases
<1>4. ASSUME NEW r \in Rank
      PROVE  /\ pc[r] = "moved" /\ data[r] = arr(r) /\ aux[r] = arr(r) /\ keys[r] = [i \in 0 .. size(r) - 1 |-> 0]
             /\ bufDesc[r] = desc(r) /\ prevDesc[r] = desc(r) /\ sends[r] = [q \in 0 .. NumRanks |-> 0]
             /\ recv[r] = [at |-> 0, end |-> 0] /\ desc(r) \in Descriptions /\ desc(r).size = size(r)
             /\ desc(r).end - desc(r).start \in Nat
  <2>1. desc(r) \in Descriptions /\ desc(r).size = size(r) /\ desc(r).end - desc(r).start \in Nat
    BY <1>2 DEF Descriptions
  <2> QED
    BY <1>1, <2>1
<1>5. ASSUME NEW r \in Rank PROVE RankOK(r)
  <2>1. ~Exchanging(r) /\ SentDesc(r) = desc(r) /\ BufferSize(r) = size(r)
    BY <1>4 DEF Exchanging, SentDesc, BufferSize
  <2>2. keys[r] \in [0 .. size(r) - 1 -> 0 .. NumKeys] /\ recv[r] \in [at : Int, end : Int]
    <3>1. 0 \in 0 .. NumKeys
      BY RankFacts
    <3>2. keys[r] = [i \in 0 .. size(r) - 1 |-> 0] /\ recv[r] = [at |-> 0, end |-> 0]
      BY <1>4
    <3> QED
      BY <3>1, <3>2
  <2>3. BuffersOK(r)
    BY <1>2, <1>4, <2>1, <2>2 DEF BuffersOK
  <2>4. OrderOK(r)
    BY <1>4 DEF OrderOK
  <2>5. SendRanges(sends[r], desc(r).end - desc(r).start)
    <3> DEFINE n == desc(r).end - desc(r).start
    <3>1. n \in Nat /\ sends[r] = [q \in 0 .. NumRanks |-> 0]
      BY <1>4
    <3> HIDE DEF n
    <3>2. SendRanges(sends[r], n)
      BY <3>1 DEF SendRanges
    <3> QED
      BY <3>2 DEF n
  <2> QED
    BY <2>1, <2>3, <2>4, <2>5 DEF RankOK, SendsOK
<1>6. AssignmentOK
  <2>1. zero \in [Key -> Nat] /\ \A k \in Key : zero[k] = 0
    OBVIOUS
  <2> HIDE DEF zero
  <2>2. Assigns(asg, zero)
    BY <1>1, <2>1, AssignmentFacts
  <2>3. ASSUME NEW r \in Rank PROVE asg.count[r] = 0
    <3> DEFINE S == asg.bound[r] .. asg.bound[r + 1] - 1
    <3>1. asg.bound[r] \in 0 .. NumKeys /\ asg.bound[r + 1] \in 0 .. NumKeys
      BY <2>2, RankFacts DEF Assigns, Boundaries
    <3>2. asg.bound[r] \in Int /\ asg.bound[r + 1] - 1 \in Int
      BY <3>1, RankFacts
    <3>3. IsFiniteSet(S)
      BY <3>2, FS_Interval
    <3>4. \A k \in S : k \in Key
      BY <3>1, RankFacts DEF Key
    <3>5. asg.count[r] = SumFunctionOnSet(zero, S)
      BY <2>2 DEF Assigns
    <3> HIDE DEF S
    <3>6. \A k \in S : zero[k] \in Nat /\ zero[k] = 0
      BY <2>1, <3>4
    <3>7. SumFunctionOnSet(zero, S) = 0
      BY <3>3, <3>6, SumZero
    <3> QED
      BY <3>5, <3>7
  <2>4. ASSUME NEW r \in Rank PROVE SumFunctionOnSet(SentTo(r), Rank) = 0
    <3> DEFINE f == SentTo(r)
    <3>1. \A x \in Rank : f[x] = SendCount(sends[x], r)
      BY DEF SentTo
    <3>2. \A x \in Rank : SendCount(sends[x], r) = 0
      <4> SUFFICES ASSUME NEW x \in Rank PROVE SendCount(sends[x], r) = 0
        OBVIOUS
      <4>1. sends[x] = [q \in 0 .. NumRanks |-> 0]
        BY <1>4
      <4>2. r \in 0 .. NumRanks /\ r + 1 \in 0 .. NumRanks
        BY RankFacts
      <4>3. sends[x][r] = 0 /\ sends[x][r + 1] = 0
        BY <4>1, <4>2
      <4> QED
        BY <4>3 DEF SendCount
    <3> HIDE DEF f
    <3>3. \A x \in Rank : f[x] \in Nat /\ f[x] = 0
      BY <3>1, <3>2
    <3>4. SumFunctionOnSet(f, Rank) = 0
      BY <3>3, RankFacts, SumZero
    <3> QED
      BY <3>4 DEF f
  <2> QED
    BY <2>2, <2>3, <2>4 DEF AssignmentOK, Assigns
<1>7. SendsKnown
  BY <1>5, <1>6 DEF SendsKnown, RankOK, BuffersOK
<1>8. ASSUME NEW e \in {0, 1} PROVE ExchangeOK(e)
  <2>1. \A f \in {0, 1} : \A src, dst \in Rank : net[f][src][dst] = << >>
    BY <1>1
  <2>2. \A src, dst \in Rank : ChannelOK(e, src, dst) /\ Due(e, src, dst) \in Nat /\ (~Waiting(e, src) => Due(e, src, dst) = 0)
    BY <1>7, <2>1, EmptyChannels DEF NetEmpty, ChannelsOK
  <2>3. ASSUME NEW r \in Rank PROVE ~Waiting(e, r) /\ Expected(e, r) = 0
    BY <1>4 DEF Waiting, Expected, Exchanging
  <2>4. ASSUME NEW r \in Rank PROVE SumFunctionOnSet(DueTo(e, r), Rank) = 0
    <3> DEFINE f == DueTo(e, r)
    <3>1. \A x \in Rank : f[x] = Due(e, x, r)
      BY DEF DueTo
    <3> HIDE DEF f
    <3>2. \A x \in Rank : f[x] \in Nat /\ f[x] = 0
      BY <2>2, <2>3, <3>1
    <3>3. SumFunctionOnSet(f, Rank) = 0
      BY <3>2, RankFacts, SumZero
    <3> QED
      BY <3>3 DEF f
  <2> QED
    BY <2>2, <2>3, <2>4 DEF ExchangeOK, CountOK
<1>9. ExchangeOK(0) /\ ExchangeOK(1)
  BY <1>8
<1> QED
  BY <1>3, <1>5, <1>6, <1>9, InvParts

\* The collective assignment at the start of a sync: all messages of the last one have been
\* received, and the new counts and send ranges agree.
LEMMA AssignInv == CountInv /\ Assign => CountInv'
<1> SUFFICES ASSUME CountInv, Assign PROVE CountInv'
  OBVIOUS
<1> DEFINE fresh  == [r \in Rank |-> ComputeSfcKeys(keys[r], data[r], Range01(bufDesc[r]), pos)]
           ord    == [r \in Rank |-> SortOrder(fresh[r], bufDesc[r].start, bufDesc[r].end)]
           sorted == [r \in Rank |-> Permuted(fresh[r], ord[r])]
           counts == LeafCounts(fresh, bufDesc)
           a      == MakeSfcAssignment(counts)
           s      == [r \in Rank |-> CreateSendRanges(a, sorted[r], bufDesc[r])]
           In(r)  == a.count[r] - SendCount(s[r], r)
           Size(r)  == ExchangeBufferSize(bufDesc[r], In(r))
           Start(r) == ReceiveStart([bufDesc[r] EXCEPT !.size = Size(r)], In(r))
<1>1. /\ \A r \in Rank : pc[r] = "moved"
      /\ asg' = a /\ sends' = s /\ order' = ord
      /\ keys' = [r \in Rank |-> Resized(sorted[r], Size(r), 0)]
      /\ data' = [r \in Rank |-> Resized(data[r], Size(r), NoParticle)]
      /\ log' = [r \in Rank |-> <<>>] /\ record' = [r \in Rank |-> TRUE]
      /\ recv' = [r \in Rank |-> [at |-> Start(r), end |-> Start(r) + In(r)]]
      /\ pc' = [r \in Rank |-> "sending"]
      /\ pos' = pos /\ alive' = alive /\ aux' = aux /\ bufDesc' = bufDesc /\ prevDesc' = prevDesc /\ net' = net
  BY DEF Assign, LeafCounts
<1>2. ArraysOK /\ \A r \in Rank : RankOK(r)
  BY InvParts
<1>3. ASSUME NEW r \in Rank
      PROVE  /\ bufDesc[r] \in Descriptions /\ prevDesc[r] \in Descriptions
             /\ data[r] \in [0 .. bufDesc[r].size - 1 -> Slot] /\ keys[r] \in [0 .. bufDesc[r].size - 1 -> 0 .. NumKeys]
             /\ aux[r] \in [DOMAIN aux[r] -> Slot] /\ pos \in [Particle -> Key]
  <2>1. BufferSize(r) = bufDesc[r].size
    BY <1>1 DEF BufferSize, Exchanging
  <2> QED
    BY <1>2, <2>1 DEF RankOK, BuffersOK, ArraysOK
<1>4. ASSUME NEW r \in Rank
      PROVE  fresh[r] \in [0 .. bufDesc[r].size - 1 -> 0 .. NumKeys] /\ KeysOf(fresh[r], bufDesc[r])
  <2> DEFINE I == Range01(bufDesc[r])
             D == 0 .. bufDesc[r].size - 1
             A == data[r]
             K == keys[r]
  <2>1. K \in [D -> 0 .. NumKeys] /\ \A i \in D \cap I : A[i] \in Slot
    BY <1>3
  <2>2. fresh[r] = ComputeSfcKeys(K, A, I, pos)
    OBVIOUS
  <2>3. I \subseteq D
    BY <1>3, RangeSize DEF Range01
  <2> HIDE DEF I, D, A, K, fresh
  <2>4. ComputeSfcKeys(K, A, I, pos) \in [D -> 0 .. NumKeys]
    BY <1>3, <2>1, KeyTypes
  <2>5. \A i \in I : fresh[r][i] \in Int /\ i \in DOMAIN fresh[r]
    BY <2>2, <2>3, <2>4, RankFacts
  <2> QED
    BY <2>2, <2>4, <2>5 DEF D, I, KeysOf
<1>5. ASSUME NEW r \in Rank
      PROVE  PermutesRange(ord[r], bufDesc[r].start, bufDesc[r].end) /\ sorted[r] = Permuted(fresh[r], ord[r])
  <2> DEFINE lo == bufDesc[r].start
             hi == bufDesc[r].end
             ks == fresh[r]
  <2>1. lo \in Nat /\ hi \in Nat
    BY <1>3, RangeSize
  <2>2. \A i \in lo .. hi - 1 : ks[i] \in Int
    BY <1>4 DEF KeysOf, Range01
  <2> HIDE DEF lo, hi, ks, fresh
  <2>3. PermutesRange(SortOrder(ks, lo, hi), lo, hi)
    BY <2>1, <2>2, SortOrderFacts
  <2> QED
    BY <2>3 DEF lo, hi, ks
<1> HIDE DEF fresh, ord
<1>6. /\ counts \in [Key -> Nat]
      /\ \A x, y \in 0 .. NumKeys :
           SumFunctionOnSet(counts, x .. y - 1) = SumFunctionOnSet(CountsBetween(fresh, bufDesc, x, y), Rank)
  BY <1>3, <1>4, CountsAgree
<1> HIDE DEF counts
<1>7. Assigns(a, counts)
  BY <1>6, AssignmentFacts
<1> HIDE DEF a
<1>8. ASSUME NEW r \in Rank
      PROVE  /\ SendRanges(s[r], bufDesc[r].end - bufDesc[r].start)
             /\ \A q \in Rank : SendCount(s[r], q) = Cardinality(Between(fresh[r], bufDesc[r], a.bound[q], a.bound[q + 1]))
             /\ \A q \in Rank : SendCount(s[r], q) \in Nat
  <2> DEFINE d == bufDesc[r]
             ks == fresh[r]
             o == ord[r]
  <2>1. s[r] = CreateSendRanges(a, Permuted(ks, o), d)
    BY <1>5
  <2>2. d \in Descriptions /\ KeysOf(ks, d) /\ PermutesRange(o, d.start, d.end) /\ Boundaries(a.bound)
    BY <1>3, <1>4, <1>5, <1>7 DEF Assigns
  <2> HIDE DEF d, ks, o, s
  <2>3. /\ SendRanges(s[r], d.end - d.start)
        /\ \A q \in Rank : SendCount(s[r], q) = Cardinality(Between(ks, d, a.bound[q], a.bound[q + 1]))
    BY <2>1, <2>2, SendRangesFacts
  <2>4. d.end - d.start \in Nat
    BY <2>2, RangeSize
  <2>5. \A q \in Rank : SendCount(s[r], q) \in Nat
    <3> DEFINE n == d.end - d.start
               t == s[r]
    <3>1. n \in Nat /\ SendRanges(t, n)
      BY <2>3, <2>4
    <3> HIDE DEF n, t
    <3>2. \A q \in Rank : SendCount(t, q) \in Nat
      BY <3>1, SendCountFacts
    <3> QED
      BY <3>2 DEF t
  <2> QED
    BY <2>3, <2>5 DEF d, ks
<1> HIDE DEF s, sorted
<1>9. ASSUME NEW q \in Rank PROVE a.count[q] = SumFunctionOnSet(SentTo(q)', Rank) /\ a.count[q] \in Nat
  <2> DEFINE x == a.bound[q]
             y == a.bound[q + 1]
             f == CountsBetween(fresh, bufDesc, x, y)
             g == [src \in Rank |-> SendCount(s[src], q)]
  <2>1. x \in 0 .. NumKeys /\ y \in 0 .. NumKeys
    BY <1>7, RankFacts DEF Assigns, Boundaries
  <2>2. a.count[q] = SumFunctionOnSet(counts, x .. y - 1)
    BY <1>7 DEF Assigns
  <2>3. SumFunctionOnSet(counts, x .. y - 1) = SumFunctionOnSet(f, Rank)
    BY <1>6, <2>1
  <2>4. SentTo(q)' = g
    BY <1>1 DEF SentTo
  <2>5. \A z \in Rank : f[z] = Cardinality(Between(fresh[z], bufDesc[z], x, y)) /\ g[z] = SendCount(s[z], q)
    BY DEF CountsBetween
  <2>6. \A z \in Rank : g[z] \in Nat /\ f[z] = g[z]
    BY <1>8, <2>5
  <2> HIDE DEF f, g
  <2>7. SumFunctionOnSet(g, Rank) = SumFunctionOnSet(f, Rank)
    BY <2>6, RankFacts, SumSame
  <2>8. SumFunctionOnSet(g, Rank) \in Nat
    BY <2>6, RankFacts, SumOfUnits
  <2> QED
    BY <2>2, <2>3, <2>4, <2>7, <2>8
<1>10. AssignmentOK'
  BY <1>1, <1>7, <1>9 DEF AssignmentOK, Assigns
<1>11. ASSUME NEW r \in Rank
       PROVE  /\ pc'[r] = "sending" /\ Exchanging(r)' /\ SentDesc(r)' = bufDesc[r]
              /\ NumIncoming(r)' = In(r) /\ BufferSize(r)' = Size(r) /\ In(r) \in Int
              /\ sends'[r] = s[r] /\ order'[r] = ord[r]
  <2>1. pc'[r] = "sending" /\ sends'[r] = s[r] /\ order'[r] = ord[r] /\ bufDesc'[r] = bufDesc[r]
    BY <1>1
  <2>2. Exchanging(r)' /\ SentDesc(r)' = bufDesc[r]
    BY <2>1 DEF Exchanging, SentDesc
  <2>3. NumIncoming(r)' = In(r)
    BY <1>1 DEF NumIncoming, NumAssigned, NumPresent
  <2>4. BufferSize(r)' = Size(r)
    BY <2>1, <2>2, <2>3 DEF BufferSize
  <2>5. In(r) \in Int
    BY <1>8, <1>9
  <2> QED
    BY <2>1, <2>2, <2>3, <2>4, <2>5
<1>12. ASSUME NEW r \in Rank PROVE SendsOK(r)'
  BY <1>8, <1>11 DEF SendsOK
<1>13. SendsKnown'
  BY <1>1, <1>3, <1>10, <1>12 DEF SendsKnown
<1>14. ASSUME NEW r \in Rank PROVE In(r) \in Nat
  <2>1. (SendsKnown => IncomingKnown)'
    BY IncomingIsNat, PTL
  <2> QED
    BY <1>11, <1>13, <2>1 DEF IncomingKnown
<1>15. ASSUME NEW r \in Rank PROVE BuffersOK(r)'
  <2> DEFINE d == bufDesc[r]
             n == In(r)
             st == Start(r)
             sz == Size(r)
  <2>1. d.start \in Nat /\ d.end \in Nat /\ n \in Nat /\ d \in Descriptions
    BY <1>3, <1>14, RangeSize
  <2>2. sz \in Nat
    <3>1. sz = ExchangeBufferSize(d, n)
      OBVIOUS
    <3> HIDE DEF d, n, sz
    <3> QED
      BY <2>1, <3>1, EnvelopeFacts
  <2>3. st \in Int
    <3>1. st = IF d.start >= n THEN d.start - n ELSE d.end
      <4>1. st = ReceiveStart([d EXCEPT !.size = sz], n)
        OBVIOUS
      <4> HIDE DEF n, sz, st, d
      <4> QED
        BY <2>1, <4>1 DEF ReceiveStart, Descriptions
    <3> HIDE DEF d, n, st
    <3> QED
      BY <2>1, <3>1
  <2> HIDE DEF n, st, sz
  <2>4. recv'[r] = [at |-> st, end |-> st + n]
    BY <1>1 DEF st, n
  <2>5. recv'[r] \in [at : Int, end : Int]
    BY <2>1, <2>3, <2>4
  <2>6. data'[r] \in [0 .. sz - 1 -> Slot]
    <3> DEFINE A == data[r]
               D == 0 .. bufDesc[r].size - 1
    <3>1. data'[r] = Resized(A, sz, NoParticle) /\ A \in [D -> Slot] /\ NoParticle \in Slot /\ sz \in Int
      BY <1>1, <1>3, <2>2 DEF sz, Slot
    <3> HIDE DEF A, D
    <3>2. Resized(A, sz, NoParticle) \in [0 .. sz - 1 -> Slot]
      BY <3>1, BufferTypes
    <3> QED
      BY <3>1, <3>2
  <2>7. keys'[r] \in [0 .. sz - 1 -> 0 .. NumKeys]
    <3> DEFINE A == sorted[r]
               D == 0 .. bufDesc[r].size - 1
               F == fresh[r]
               o == ord[r]
    <3>1. F \in [D -> 0 .. NumKeys]
      BY <1>4
    <3>2. o \in [DOMAIN o -> D]
      <4>1. o \in [d.start .. d.end - 1 -> d.start .. d.end - 1]
        BY <1>5 DEF PermutesRange
      <4>2. \A i \in d.start .. d.end - 1 : i \in D
        <5>1. d.end <= d.size /\ d.size \in Nat
          BY <2>1, RangeSize
        <5> QED
          BY <2>1, <5>1
      <4> HIDE DEF o, D
      <4> QED
        BY <4>1, <4>2
    <3>3. A = Permuted(F, o)
      BY <1>5
    <3>4. keys'[r] = Resized(A, sz, 0) /\ 0 \in 0 .. NumKeys /\ sz \in Int
      BY <1>1, <2>2, RankFacts DEF sz
    <3> HIDE DEF A, D, F, o
    <3>5. A \in [D -> 0 .. NumKeys]
      BY <3>1, <3>2, <3>3, BufferTypes
    <3>6. Resized(A, sz, 0) \in [0 .. sz - 1 -> 0 .. NumKeys]
      BY <3>4, <3>5, BufferTypes
    <3> QED
      BY <3>4, <3>6
  <2>8. BufferSize(r)' = sz
    BY <1>11 DEF sz
  <2> QED
    BY <1>1, <1>3, <1>11, <2>5, <2>6, <2>7, <2>8 DEF BuffersOK
<1>16. ASSUME NEW r \in Rank PROVE OrderOK(r)'
  BY <1>1, <1>5, <1>11 DEF OrderOK
<1>17. ASSUME NEW e \in {0, 1} PROVE ExchangeOK(e)'
  <2>1. \A f \in {0, 1} : \A q \in Rank : Expected(f, q) = 0
    BY <1>1 DEF Expected, Waiting, Exchanging
  <2>2. \A f \in {0, 1} : \A src, dst \in Rank : net[f][src][dst] = << >>
    BY <2>1, NothingExpected
  <2>3. NetEmpty'
    BY <1>1, <2>2 DEF NetEmpty
  <2>4. (SendsKnown /\ NetEmpty => ChannelsOK)'
    BY EmptyChannels, PTL
  <2>5. \A src, dst \in Rank : ChannelOK(e, src, dst)'
    BY <1>13, <2>3, <2>4 DEF ChannelsOK
  <2>6. \A q \in Rank : Waiting(e, q)'
    BY <1>11 DEF Waiting
  <2>7. (SendsKnown => AllDue)'
    BY WaitingSum, PTL
  <2>8. \A r \in Rank : SumFunctionOnSet(DueTo(e, r)', Rank) = NumIncoming(r)'
    BY <1>13, <2>6, <2>7 DEF AllDue
  <2>9. ASSUME NEW r \in Rank PROVE Expected(e, r)' = NumIncoming(r)'
    <3> DEFINE st == Start(r)
               n == In(r)
    <3>1. recv'[r] = [at |-> st, end |-> st + n] /\ n \in Nat
      BY <1>1, <1>14
    <3>2. recv'[r] \in [at : Int, end : Int]
      BY <1>15 DEF BuffersOK
    <3> HIDE DEF st, n
    <3>3. st \in Int /\ recv'[r].end - recv'[r].at = n
      <4>1. recv'[r].at = st /\ recv'[r].end = st + n /\ recv'[r].at \in Int
        BY <3>1, <3>2
      <4> QED
        BY <3>1, <4>1
    <3>4. NumIncoming(r)' = n
      BY <1>11 DEF n
    <3>5. CASE e = 0
      BY <1>11, <3>3, <3>4, <3>5 DEF Expected
    <3>6. CASE e = 1
      BY <1>11, <2>6, <3>4, <3>6 DEF Expected
    <3> QED
      BY <3>5, <3>6
  <2>10. \A r \in Rank : CountOK(e, r)'
    BY <2>8, <2>9 DEF CountOK
  <2> QED
    BY <2>5, <2>10 DEF ExchangeOK
<1>18. ArraysOK'
  <2>1. /\ DOMAIN data' = Rank /\ DOMAIN keys' = Rank /\ DOMAIN order' = Rank /\ DOMAIN sends' = Rank
        /\ DOMAIN log' = Rank /\ DOMAIN record' = Rank /\ DOMAIN recv' = Rank /\ pc' \in [Rank -> Phases]
    BY <1>1 DEF Phases, ord, s
  <2> QED
    BY <1>1, <1>2, <2>1 DEF ArraysOK
<1>19. ExchangeOK(0)' /\ ExchangeOK(1)'
  BY <1>17
<1> QED
  BY <1>10, <1>12, <1>15, <1>16, <1>18, <1>19 DEF CountInv, ExchangeOK

-----------------------------------------------------------------------------
(* The invariant of the exchange *)
\* Every step of the exchange keeps the counts.
LEMMA NextInv == CountInv /\ [Next]_vars => CountInv'
<1> SUFFICES ASSUME CountInv, [Next]_vars PROVE CountInv'
  OBVIOUS
<1>1. CASE Assign
  BY <1>1, AssignInv
<1>2. CASE \E r \in Rank : SendParticles(r)
  BY <1>2, SendParticlesInv
<1>3. CASE \E r, src \in Rank : ReceiveParticles(r, src)
  BY <1>3, ReceiveParticlesInv
<1>4. CASE \E r \in Rank : FinishDistribute(r)
  BY <1>4, FinishDistributeInv
<1>5. CASE \E r \in Rank : \E L \in AtMost(MaxHalos[numSync], Below(r)), H \in AtMost(MaxHalos[numSync], Above(r)) : UpdateLayout(r, L, H)
  BY <1>5, UpdateLayoutInv
<1>6. CASE \E r \in Rank : RedoSend(r)
  BY <1>6, RedoSendInv
<1>7. CASE \E r, src \in Rank : RedoReceive(r, src)
  BY <1>7, RedoReceiveInv
<1>8. CASE \E r \in Rank : FinishRedo(r)
  BY <1>8, FinishRedoInv
<1>9. CASE \E r \in Rank : \E to \in [Local(r) -> Key], gone \in AtMost(MaxRemoved, Local(r)) : Integrate(r, to, gone)
  BY <1>9, IntegrateInv
<1>10. CASE Stop \/ UNCHANGED vars
  BY <1>10, StutterInv DEF Stop
<1> QED
  BY <1>1, <1>2, <1>3, <1>4, <1>5, <1>6, <1>7, <1>8, <1>9, <1>10 DEF Next

\* In every state of the exchange, for any number of ranks, particles, keys and syncs, any
\* message size, buffered sends or not and any particles marked for removal: the elements that
\* a rank still waits for in its receive loop are exactly those that the other ranks have sent
\* to it or are still to send, every message has the length that exchangeParticles gives it,
\* numIncoming is never negative, and all indices through which particles are sent, received
\* and gathered lie in the buffers.
THEOREM CountInvariance == Spec => []CountInv
<1>1. Init => CountInv
  BY InitInv
<1>2. CountInv /\ [Next]_vars => CountInv'
  BY NextInv
<1> QED
  BY <1>1, <1>2, PTL DEF Spec

\* A rank leaves an exchange only when every message sent to it in that exchange was consumed,
\* so messages of one sync are never taken for those of the next one, which have the same tag
\* (exchangeParticles), for every value of the constants.
THEOREM NoStrayMessagesHolds == Spec => []NoStrayMessages
BY CountInvariance, CountsImplyNoStray, PTL
=============================================================================
