----------------------------- MODULE MCExchange -----------------------------
(* Instances of DomainExchange for TLC. *)
EXTENDS DomainExchange

\* particles dealt out to the ranks in turn
RoundRobin == [p \in 1 .. NumParticles |-> (p - 1) % NumRanks]
\* all ranks but one start without particles
OnOneRank == [p \in 1 .. NumParticles |-> 1]

\* every send fits into one message
WholeSends == [e \in {0, 1} |-> NumParticles]
\* sends of sync are split into messages of two particles
SplitSends == [e \in {0, 1} |-> IF e = 0 THEN 2 ELSE NumParticles]

\* a halo on either side after every sync, or after all but the last one, which nothing follows
Halos      == [n \in 0 .. MaxSync |-> 1]
HalosMoved == [n \in 0 .. MaxSync |-> IF n < MaxSync THEN 1 ELSE 0]
=============================================================================
