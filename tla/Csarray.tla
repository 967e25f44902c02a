------------------------------ MODULE Csarray ------------------------------
(***************************************************************************)
(* Cornerstone arrays: the leaves of an octree as an array of SFC keys.    *)
(* Leaf i covers the keys [tree[i]:tree[i+1]).                             *)
(*                                                                         *)
(* Arrays are functions with domain 0 .. n - 1, as in the code.  Binary    *)
(* searches are written as the number of smaller elements, which is what   *)
(* they return on the sorted arrays they are used on.  Particle counts     *)
(* are unsigned integers of CountBits bits (32 in the code).               *)
(***************************************************************************)
EXTENDS SpaceFillingCurve

CONSTANT CountBits

ASSUME CountBitsAssumption == CountBits \in Nat \ {0}

maxUnsigned == 2 ^ CountBits - 1
wrap(n)     == n % 2 ^ CountBits

size(array)  == Cardinality(DOMAIN array)
nNodes(tree) == size(tree) - 1

lower_bound(array, first, last, key) == first + Cardinality({i \in first .. last - 1 : array[i] < key})
upper_bound(array, first, last, key) == first + Cardinality({i \in first .. last - 1 : array[i] <= key})

findNodeBelow(tree, n, key) == upper_bound(tree, 0, n, key) - 1
findNodeAbove(tree, n, key) == lower_bound(tree, 0, n, key)

rangeSum(array, first, last) == sumOver(LAMBDA i : array[i], first, last - 1)

\* scan[i] is the sum of the elements before i
exclusive_scan(array) == tabulated([i \in 0 .. size(array) |-> rangeSum(array, 0, i)])

(***************************************************************************)
(* Counting of particles per leaf                                          *)
(***************************************************************************)
calculateNodeCount(nodeStart, nodeEnd, codes, maxCount) ==
    Min({lower_bound(codes, 0, size(codes), nodeEnd) - lower_bound(codes, 0, size(codes), nodeStart), maxCount})

searchGoesOn(codes, index, d, target) == IF d = 1 THEN codes[index] <= target ELSE codes[index] >= target

\* an interval of indices around target, found in growing steps from firstIdx
searchIndex(first, d, k) == IF k = 0 THEN first + d ELSE first + 2 ^ k * d

\* where the steps from first in direction d end
searchEnd(first, d, target, codes) ==
    LET n == size(codes)
        inside(k) == LET index == searchIndex(first, d, k)
                     IN  index >= 0 /\ index < n /\ searchGoesOn(codes, index, d, target)
        steps == CHOOSE k \in 0 .. n : ~inside(k) /\ \A j \in 0 .. k - 1 : inside(j)
    IN  Min({n, Max({0, searchIndex(first, d, steps)})})

boundsFrom(first, target, codes) ==
    LET second == searchEnd(first, IF codes[first] < target THEN 1 ELSE -1, target, codes)
    IN  <<Min({first, second}), Max({first, second})>>

findSearchBounds(firstIdx, target, codes) ==
    LET n == size(codes)
    IN  CASE n = 0                           -> <<0, 0>>
          [] n # 0 /\ target >= nodeRange(0) -> <<lower_bound(codes, 0, n, target), n>>
          [] OTHER                           -> boundsFrom(Min({n - 1, Max({firstIdx, 0})}), target, codes)

updateNodeCount(nodeStart, nodeEnd, firstGuess, secondGuess, codes, maxCount) ==
    LET search(guess, key) ==
            LET b == findSearchBounds(guess, key, codes) IN lower_bound(codes, b[1], b[2], key)
    IN  Min({wrap(search(secondGuess, nodeEnd) - search(firstGuess, nodeStart)), maxCount})

\* leaves with particles are those from the first to before the second
populatedNodes(tree, keys) ==
    LET n == nNodes(tree) IN
    IF keys = <<>> THEN <<n, n>>
    ELSE <<upper_bound(tree, 0, n, keys[0]) - 1, upper_bound(tree, 0, n, keys[size(keys) - 1])>>

\* guesses for the position of the first particle of each leaf: the counts of
\* an earlier tree, summed up in place; zero outside of the populated leaves
guessPositions(counts, pop) ==
    LET scan == exclusive_scan([i \in 0 .. pop[2] - pop[1] - 1 |-> counts[pop[1] + i]])
    IN  tabulated([i \in DOMAIN counts |-> IF i < pop[1] \/ i >= pop[2] THEN 0 ELSE wrap(scan[i - pop[1]])])

\* The new counts overwrite the guesses while other threads still read them:
\* raced says that the thread of the next leaf came first.
countFromGuesses(tree, guess, keys, pop, lastIdx, maxCount, raced) ==
    LET next(i)  == Min({i + 1, lastIdx})
        count(i, second) == updateNodeCount(tree[i], tree[i + 1], guess[i], second, keys, maxCount)
    IN  [i \in 0 .. nNodes(tree) - 1 |->
            IF i < pop[1] \/ i >= pop[2] THEN 0
            ELSE count(i, IF raced /\ next(i) < pop[2] THEN count(next(i), guess[next(i)]) ELSE guess[next(i)])]

computeNodeCounts(tree, counts, keys, maxCount, raced) ==
    LET pop == populatedNodes(tree, keys)
    IN  countFromGuesses(tree, guessPositions(counts, pop), keys, pop, nNodes(tree) - 1, maxCount, raced)

computeNodeCountsGpu(tree, counts, keys, maxCount, raced) ==
    LET pop == populatedNodes(tree, keys)
    IN  countFromGuesses(tree, guessPositions(counts, pop), keys, pop, pop[2] - 1, maxCount, raced)

(***************************************************************************)
(* Rebalancing                                                             *)
(***************************************************************************)
\* position among eight siblings that are all leaves, or -1, and the level
siblingAndLevel(tree, i) ==
    LET level == treeLevel(tree[i + 1] - tree[i])
        sib   == octalDigit(tree[i], level)
    IN  CASE level = 0 -> <<-1, level>>
          [] level # 0 /\ tree[i - sib + 8] = tree[i - sib] + nodeRange(level - 1) -> <<sib, level>>
          [] OTHER -> <<-1, level>>

\* (mutant) merges the first sibling as well
mayMerge_first(sib) == sib >= 0

mayMerge(sib) == sib > 0

\* number of leaves that replace leaf i: 0 if it is merged into its first sibling
nodeOp(i, sibling, level, counts, bucketSize) ==
    LET parentCount == sumOver(LAMBDA s : counts[i - sibling + s], 0, 7)
        tooMany(n)  == counts[i] > bucketSize * n
    IN  IF mayMerge(sibling) /\ parentCount <= bucketSize THEN 0
        ELSE IF tooMany(512) /\ level + 3 < MaxLevel THEN 4096
        ELSE IF tooMany(64) /\ level + 2 < MaxLevel THEN 512
        ELSE IF tooMany(8) /\ level + 1 < MaxLevel THEN 64
        ELSE IF tooMany(1) /\ level < MaxLevel THEN 8
        ELSE 1

calculateNodeOp(tree, i, counts, bucketSize) ==
    LET sl == siblingAndLevel(tree, i) IN nodeOp(i, sl[1], sl[2], counts, bucketSize)

rebalanceDecision(tree, counts, bucketSize) ==
    [i \in 0 .. nNodes(tree) - 1 |-> calculateNodeOp(tree, i, counts, bucketSize)]

allOne(nodeOps) == \A i \in DOMAIN nodeOps : nodeOps[i] = 1

\* element j of the new leaves that replace leaf i: opCode of them
processNode(tree, i, opCode, j) == tree[i] + j * nodeRange(treeLevel(tree[i + 1] - tree[i]) + log8ceil(opCode))

\* leaf i writes the elements from offset[i] to before offset[i + 1]
processNodes(tree, offset, j) ==
    LET i == CHOOSE i \in 0 .. nNodes(tree) - 1 : offset[i] <= j /\ j < offset[i + 1]
    IN  processNode(tree, i, offset[i + 1] - offset[i], j - offset[i])

rebalanceTree(tree, nodeOps) ==
    LET offset == exclusive_scan(nodeOps)
        n      == nNodes(tree)
    IN  [j \in 0 .. offset[n] |-> IF j = offset[n] THEN tree[n] ELSE processNodes(tree, offset, j)]

\* the two halves of it on a GPU: offsets of the new leaves, then the leaves
computeNodeOpsGpu(nodeOps) == exclusive_scan(nodeOps)

rebalanceTreeGpu(tree, newNumNodes, offset) ==
    [j \in 0 .. newNumNodes |-> IF j = newNumNodes THEN nodeRange(0) ELSE processNodes(tree, offset, j)]

\* counts.resize(nNodes(tree)): elements are kept or value-initialised
resize(array, n) == [i \in 0 .. n - 1 |-> IF i \in DOMAIN array THEN array[i] ELSE 0]

updateTreelet(treelet, counts, bucketSize) == rebalanceTree(treelet, rebalanceDecision(treelet, counts, bucketSize))

makeRootNodeTree == [i \in 0 .. 1 |-> i * nodeRange(0)]

\* the coarsest leaves that contain all of the given keys, a sorted sequence
computeSpanningTree(spanningKeys) ==
    LET spans == [i \in 1 .. Len(spanningKeys) - 1 |-> spanSfcRange(spanningKeys[i], spanningKeys[i + 1])]
        all   == Append(FlattenSeq(spans), nodeRange(0))
    IN  [i \in 0 .. Len(all) - 1 |-> all[i + 1]]

checkOctreeInvariants(tree) ==
    LET n == nNodes(tree) IN
    /\ n >= 1 /\ tree[0] = 0 /\ tree[n] = nodeRange(0)
    /\ \A i \in 0 .. n - 1 : tree[i] < tree[i + 1] /\ isPowerOf8(tree[i + 1] - tree[i])
=============================================================================
