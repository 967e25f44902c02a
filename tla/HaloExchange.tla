---------------------------- MODULE HaloExchange ----------------------------
(***************************************************************************)
(* The message protocol of class Halos: exchangeRequests tells every owner *)
(* which ranks need its particles, and any number of calls to              *)
(* exchangeHalos then refresh the halo particles of several arrays without *)
(* a collective operation in between.                                      *)
(*                                                                         *)
(* All receives are from MPI_ANY_SOURCE and only count messages, so the    *)
(* protocol relies on tags and on the collectives between sync calls to    *)
(* keep messages of different exchanges apart.  The data of an exchange is *)
(* abstracted to the number of the owner's call it was sent in.            *)
(***************************************************************************)
EXTENDS Integers, FiniteSets

CONSTANTS
    Rank,     \* ranks of the communicator
    Eager,    \* MPI buffers messages, instead of waiting for their receipt
    MaxEpoch  \* bound: number of calls to exchangeHalos

ASSUME HaloAssumption == IsFiniteSet(Rank) /\ MaxEpoch \in Nat /\ Eager \in BOOLEAN

\* numbers of calls to exchangeHalos
Epoch == 0 .. MaxEpoch

VARIABLES
    pc,         \* pc[r]: what rank r is doing
    incoming,   \* incoming[r]: ranks that own halos of r, exteriorPeers_
    outgoing,   \* outgoing[r]: ranks with a non-empty manifest in outgoingHaloIndices_
    numLeft,    \* numLeft[r]: numMessages of the running receive loop
    haloEpoch,  \* haloEpoch[r]: haloEpoch_
    halo,       \* halo[r][q]: number of the call of q whose values r holds
    net,        \* messages in flight
    base        \* haloEpoch_ at the last exchangeRequests (history variable)

vars == <<pc, incoming, outgoing, numLeft, haloEpoch, halo, net, base>>

\* P2pTags::haloRequestKeys
RequestTag == 5000

\* (mutant) the epoch is not part of the tag
SameTag(e) == 7000

\* P2pTags::haloExchange + epoch
HaloTag(e) == 7000 + e

\* no values were received yet from an owner
NoVersion == -1

\* request keys from q to the owner r
RequestMsg(q, r) == [src |-> q, dst |-> r, tag |-> RequestTag, val |-> NoVersion]
\* halo particles in call number e from the owner q to r
HaloMsg(q, r, e) == [src |-> q, dst |-> r, tag |-> HaloTag(e), val |-> e]

\* ranks that asked r for halos, interiorPeers_: the result of MPI_Alltoall
Interior(inc, r) == {q \in Rank : r \in inc[q]}

\* MPI_Waitall on the sends of a rank
SendsComplete(r) == Eager \/ \A m \in net : m.src # r

-----------------------------------------------------------------------------

\* (mutant) the send lists of the previous layout are kept
ExchangePeersKeep(inc) ==
    /\ \A r \in Rank : pc[r] = "idle"
    /\ \A r, q \in Rank : haloEpoch[r] = haloEpoch[q]
    /\ incoming' = inc
    /\ numLeft' = [r \in Rank |-> Cardinality(Interior(inc, r))]
    /\ halo' = [r \in Rank |-> [q \in Rank |-> NoVersion]]
    /\ base' \in {haloEpoch[r] : r \in Rank}
    /\ pc' = [r \in Rank |-> "request"]
    /\ UNCHANGED <<outgoing, haloEpoch, net>>

\* A new layout needs halos from the ranks inc[r] (haloPeers, exchangePeers);
\* MPI_Alltoall is a collective, which all ranks enter after the same number of
\* calls to exchangeHalos
ExchangePeers(inc) ==
    /\ \A r \in Rank : pc[r] = "idle"
    /\ \A r, q \in Rank : haloEpoch[r] = haloEpoch[q]
    /\ incoming' = inc
    /\ outgoing' = [r \in Rank |-> {}]
    /\ numLeft' = [r \in Rank |-> Cardinality(Interior(inc, r))]
    /\ halo' = [r \in Rank |-> [q \in Rank |-> NoVersion]]
    /\ base' \in {haloEpoch[r] : r \in Rank}
    /\ pc' = [r \in Rank |-> "request"]
    /\ UNCHANGED <<haloEpoch, net>>

\* the send loop of exchangeRequestKeys
SendRequests(r) ==
    /\ pc[r] = "request"
    /\ net' = net \cup {RequestMsg(r, q) : q \in incoming[r]}
    /\ pc' = [pc EXCEPT ![r] = "recvRequest"]
    /\ UNCHANGED <<incoming, outgoing, numLeft, haloEpoch, halo, base>>

\* one turn of the receive loop of exchangeRequestKeys
ReceiveRequest(r, m) ==
    /\ pc[r] = "recvRequest"
    /\ numLeft[r] # 0
    /\ m \in net /\ m.dst = r /\ m.tag = RequestTag
    /\ outgoing' = [outgoing EXCEPT ![r] = @ \cup {m.src}]
    /\ numLeft' = [numLeft EXCEPT ![r] = @ - 1]
    /\ net' = net \ {m}
    /\ UNCHANGED <<pc, incoming, haloEpoch, halo, base>>

\* exchangeRequests returns
EndRequests(r) ==
    /\ pc[r] = "recvRequest"
    /\ numLeft[r] = 0
    /\ SendsComplete(r)
    /\ pc' = [pc EXCEPT ![r] = "idle"]
    /\ UNCHANGED <<incoming, outgoing, numLeft, haloEpoch, halo, net, base>>

\* exchangeHalos: the epoch counter and the send loop of haloexchange
SendHalos(r) ==
    /\ pc[r] = "idle"
    /\ haloEpoch[r] < MaxEpoch
    /\ haloEpoch' = [haloEpoch EXCEPT ![r] = @ + 1]
    /\ net' = net \cup {HaloMsg(r, q, haloEpoch[r]) : q \in outgoing[r]}
    /\ numLeft' = [numLeft EXCEPT ![r] = Cardinality(incoming[r])]
    /\ pc' = [pc EXCEPT ![r] = "recvHalos"]
    /\ UNCHANGED <<incoming, outgoing, halo, base>>

\* the tag of the exchange r is in
CurrentTag(r) == HaloTag(haloEpoch[r] - 1)

\* (mutant) the sends block until they are received
ReceiveHalosAfterSends(r, m) ==
    /\ pc[r] = "recvHalos"
    /\ numLeft[r] # 0
    /\ SendsComplete(r)
    /\ m \in net /\ m.dst = r /\ m.tag = CurrentTag(r)
    /\ halo' = [halo EXCEPT ![r][m.src] = m.val]
    /\ numLeft' = [numLeft EXCEPT ![r] = @ - 1]
    /\ net' = net \ {m}
    /\ UNCHANGED <<pc, incoming, outgoing, haloEpoch, base>>

\* one turn of the receive loop of haloexchange
ReceiveHalos(r, m) ==
    /\ pc[r] = "recvHalos"
    /\ numLeft[r] # 0
    /\ m \in net /\ m.dst = r /\ m.tag = CurrentTag(r)
    /\ halo' = [halo EXCEPT ![r][m.src] = m.val]
    /\ numLeft' = [numLeft EXCEPT ![r] = @ - 1]
    /\ net' = net \ {m}
    /\ UNCHANGED <<pc, incoming, outgoing, haloEpoch, base>>

\* exchangeHalos returns
EndHalos(r) ==
    /\ pc[r] = "recvHalos"
    /\ numLeft[r] = 0
    /\ SendsComplete(r)
    /\ pc' = [pc EXCEPT ![r] = "idle"]
    /\ UNCHANGED <<incoming, outgoing, numLeft, haloEpoch, halo, net, base>>

\* which ranks a layout needs halos from, never the own rank
Needs == {inc \in [Rank -> SUBSET Rank] : \A r \in Rank : r \notin inc[r]}

Init ==
    /\ pc = [r \in Rank |-> "idle"]
    /\ incoming = [r \in Rank |-> {}]
    /\ outgoing = [r \in Rank |-> {}]
    /\ numLeft = [r \in Rank |-> 0]
    /\ haloEpoch = [r \in Rank |-> 0]
    /\ halo = [r \in Rank |-> [q \in Rank |-> NoVersion]]
    /\ net = {}
    /\ base = 0

Next ==
    \/ \E inc \in Needs : ExchangePeers(inc)
    \/ \E r \in Rank : SendRequests(r)
    \/ \E r \in Rank, m \in net : ReceiveRequest(r, m)
    \/ \E r \in Rank : EndRequests(r)
    \/ \E r \in Rank : SendHalos(r)
    \/ \E r \in Rank, m \in net : ReceiveHalos(r, m)
    \/ \E r \in Rank : EndHalos(r)

Spec == Init /\ [][Next]_vars

\* every rank keeps executing its program
Fairness ==
    \A r \in Rank :
        /\ WF_vars(SendRequests(r)) /\ WF_vars(EndRequests(r)) /\ WF_vars(EndHalos(r))
        /\ WF_vars(SendHalos(r))
        /\ WF_vars(\E m \in net : ReceiveRequest(r, m))
        /\ WF_vars(\E m \in net : ReceiveHalos(r, m))

FairSpec == Spec /\ Fairness

-----------------------------------------------------------------------------
(* Properties *)

\* Type invariant of the state of class Halos on every rank.
TypeOK ==
    /\ pc \in [Rank -> {"idle", "request", "recvRequest", "recvHalos"}]
    /\ incoming \in [Rank -> SUBSET Rank]
    /\ outgoing \in [Rank -> SUBSET Rank]
    /\ numLeft \in [Rank -> Nat]
    /\ haloEpoch \in [Rank -> Epoch]
    /\ halo \in [Rank -> [Rank -> Int]]
    /\ base \in Epoch
    /\ \A m \in net : \/ \E q, r \in Rank : m = RequestMsg(q, r)
                      \/ \E q, r \in Rank, e \in Epoch : m = HaloMsg(q, r, e)

\* When exchangeHalos returns, all halos of the rank hold the values their
\* owners had in the same call: neither values of an earlier call nor, because
\* owners may run ahead, of a later one.
HaloCurrent ==
    \A r \in Rank : pc[r] = "idle" /\ haloEpoch[r] > base =>
        \A q \in incoming[r] : halo[r][q] = haloEpoch[r] - 1

\* When exchangeRequests returns, the rank will send to exactly the ranks that
\* need its particles, although consecutive calls use the same tag.
PeersMatched ==
    \A r \in Rank : pc[r] \in {"idle", "recvHalos"} => outgoing[r] = Interior(incoming, r)

\* Every exchange a rank has entered completes: the number of messages it waits
\* for are really sent.
ExchangesComplete ==
    \A r \in Rank : /\ pc[r] = "recvHalos" ~> pc[r] = "idle"
                    /\ pc[r] = "request" ~> pc[r] = "idle"

-----------------------------------------------------------------------------
(* The inductive invariant behind HaloCurrent and PeersMatched *)

\* a request is in flight from its sending to its receipt
RequestsInFlight ==
    \A q, r \in Rank :
        RequestMsg(q, r) \in net <=>
            r \in incoming[q] /\ pc[q] # "request" /\ q \notin outgoing[r]

\* the halo messages in flight from q to r are those of the calls q has made
\* since the last exchangeRequests and r has not yet received
HalosInFlight ==
    \A q, r \in Rank, e \in Epoch :
        HaloMsg(q, r, e) \in net <=>
            q \in incoming[r] /\ base <= e /\ e < haloEpoch[q] /\ halo[r][q] < e

\* the number of the call of r before call e, NoVersion before the first one
Before(e) == IF e = base THEN NoVersion ELSE e - 1

\* owners r has not received from in its current call
Awaited(r) == {q \in incoming[r] : halo[r][q] # haloEpoch[r] - 1}
\* ranks whose request r has not received
Unrequested(r) == Interior(incoming, r) \ outgoing[r]

\* which values r holds, and what its receive loop is still waiting for
Progress(r) ==
    /\ base <= haloEpoch[r]
    /\ outgoing[r] \subseteq Interior(incoming, r)
    /\ \A q \in outgoing[r] : pc[q] # "request"
    /\ pc[r] \in {"request", "recvRequest"} =>
         /\ haloEpoch[r] = base
         /\ numLeft[r] = Cardinality(Unrequested(r))
    /\ pc[r] = "request" => outgoing[r] = {}
    /\ pc[r] \in {"idle", "recvHalos"} => outgoing[r] = Interior(incoming, r)
    /\ pc[r] # "recvHalos" => \A q \in incoming[r] : halo[r][q] = Before(haloEpoch[r])
    /\ pc[r] = "recvHalos" =>
         /\ base < haloEpoch[r]
         /\ \A q \in incoming[r] : halo[r][q] \in {haloEpoch[r] - 1, Before(haloEpoch[r] - 1)}
         /\ numLeft[r] = Cardinality(Awaited(r))

\* no rank holds values of a call their owner has not made
NoFutureHalos == \A q, r \in Rank : halo[r][q] < haloEpoch[q]

HaloInv ==
    /\ TypeOK
    /\ RequestsInFlight
    /\ HalosInFlight
    /\ NoFutureHalos
    /\ \A r \in Rank : Progress(r)
=============================================================================
