---------------------------- MODULE DomainDecomp ----------------------------
(***************************************************************************)
(* Domain decomposition: the assignment of SFC key ranges to ranks, and    *)
(* what follows from it for particles and for other trees.                 *)
(***************************************************************************)
EXTENDS Octree

CONSTANT NumRanks \* ranks of the communicator

ASSUME NumRanksAssumption == NumRanks \in Nat \ {0}

Rank == 0 .. NumRanks - 1

initialDomainSplits(level) ==
    LET delta == nodeRange(0) \div NumRanks
    IN  [i \in 1 .. NumRanks + 1 |->
            IF i = 1 THEN 0 ELSE IF i = NumRanks + 1 THEN nodeRange(0) ELSE enclosingBoxCode((i - 1) * delta, level)]

binEnd(scan, target) == lower_bound(scan, 0, size(scan), target)

\* i * binCount is a double in the code, rounded down to an integer
uniformBins(nodeCounts) ==
    LET scan == exclusive_scan(nodeCounts)
        n    == size(nodeCounts)
        bins == [i \in 0 .. NumRanks |->
                    IF i = 0 THEN 0 ELSE IF i = NumRanks THEN n ELSE binEnd(scan, (i * scan[n]) \div NumRanks)]
    IN  [bins |-> bins, binCounts |-> [i \in Rank |-> wrap(scan[bins[i + 1]] - scan[bins[i]])]]

assignmentOf(bins, binCounts, csTree) ==
    [treeOffsets     |-> bins,
     counts          |-> binCounts,
     boundaries      |-> [i \in 0 .. NumRanks |-> csTree[bins[i]]],
     numNodesPerRank |-> [i \in Rank |-> bins[i + 1] - bins[i]]]

makeSfcAssignment(nodeCounts, csTree) ==
    LET b == uniformBins(nodeCounts) IN assignmentOf(b.bins, b.binCounts, csTree)

\* (mutant) particles with the first key of a rank go to the one before
createSendRanges_upper(a, particleKeys) ==
    [i \in 0 .. NumRanks |-> upper_bound(particleKeys, 0, size(particleKeys), a.boundaries[i])]

createSendRanges(a, particleKeys) ==
    [i \in 0 .. NumRanks |-> lower_bound(particleKeys, 0, size(particleKeys), a.boundaries[i])]

sendCount(ranges, r) == IF ranges[r + 1] >= ranges[r] THEN ranges[r + 1] - ranges[r] ELSE 0

findRank(a, key) == upper_bound(a.boundaries, 0, NumRanks + 1, key) - 1

(***************************************************************************)
(* Ranges of leaves                                                        *)
(***************************************************************************)
rangeEnd(focusTree, key) == findNodeBelow(focusTree, size(focusTree), key)

\* translateAssignment: the leaves of a focus tree that lie in the range of each rank
translateAssignment(a, focusTree) ==
    [r \in Rank |->
        LET start == findNodeAbove(focusTree, size(focusTree), a.boundaries[r])
        IN  <<start, Max({start, rangeEnd(focusTree, a.boundaries[r + 1])})>>]

\* a set of ranges: the order of the vector is that of their start
extractPeerRanges(peers, myRank, focusAssignment) == {focusAssignment[p] : p \in peers \cup {myRank}}

\* indices from first to before last that are in none of the ranges, in order
invertRanges(first, ranges, last) ==
    {i \in first .. last - 1 : \A range \in ranges : i < range[1] \/ i >= range[2]}

inRange(i, range) == range[1] <= i /\ i < range[2]
=============================================================================
