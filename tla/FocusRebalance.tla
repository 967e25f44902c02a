--------------------------- MODULE FocusRebalance ---------------------------
(***************************************************************************)
(* One update of a locally essential tree (LET): an octree of all space    *)
(* that is as fine as the global tree in the range of a rank, its focus,   *)
(* and coarser with distance.  Decisions are made for all nodes, from node *)
(* counts and MAC flags; keys of the global tree are enforced in the       *)
(* focus; leaves are then merged or split like those of the global tree.   *)
(***************************************************************************)
EXTENDS Traversal

\* 0: merge with its siblings into the parent; 1: keep; 8 ^ n: split n times
mergeCountAndMacOp(tree, k, counts, macs, focusStart, focusEnd, bucketSize) ==
    LET p        == parent(tree, k)
        level    == prefixLevel(tree.prefixes[k])
        start    == decodePlaceholderBit(tree.prefixes[k])
        group    == decodePlaceholderBit2K(tree.prefixes[p])
        inFringe == overlapTwoRanges(group[1], group[2], focusStart, focusEnd)
        inFocus  == start >= focusStart /\ start < focusEnd
        maySplit(n, by) == level + n < MaxLevel /\ counts[k] > by * bucketSize
    IN  CASE k # 0 /\ (counts[p] <= bucketSize \/ (~macs[p] /\ ~inFringe)) -> 0
          [] ~(k # 0 /\ (counts[p] <= bucketSize \/ (~macs[p] /\ ~inFringe)))
             /\ tree.childOffsets[k] = 0 /\ (macs[k] \/ inFocus) ->
                IF maySplit(3, 4096) THEN 4096 ELSE IF maySplit(2, 512) THEN 512
                ELSE IF maySplit(1, 64) THEN 64 ELSE IF maySplit(0, 1) THEN 8 ELSE 1
          [] OTHER -> 1

rebalanceDecisionEssential(tree, counts, macs, focusStart, focusEnd, bucketSize) ==
    [k \in 0 .. tree.numNodes - 1 |-> mergeCountAndMacOp(tree, k, counts, macs, focusStart, focusEnd, bucketSize)]

(***************************************************************************)
(* Mandatory keys                                                          *)
(***************************************************************************)
\* ResolutionStatus, in increasing order
converged   == 0
cancelMerge == 1
rebalance   == 2
failed      == 3

ancestors(tree, k) ==
    LET up(s, i) == [node |-> parent(tree, s.node), all |-> s.all \cup {parent(tree, s.node)}]
    IN  foldl(up, [node |-> k, all |-> {}], [i \in 1 .. prefixLevel(tree.prefixes[k]) |-> i]).all

\* what has to be done for one key: merges above its node are undone, and the
\* node is split, by a factor of 8 at most
enforceAtNode(tree, ops, key, k, level) ==
    LET trySplit  == tree.prefixes[k] # makePrefix(key) /\ level < MaxLevel
        undo      == (ops[k] = 0 \/ trySplit) /\ k > 0
        levelDiff == lastNzPlace(key) - level
    IN  [node   |-> k,
         undo   |-> undo,
         op     |-> IF trySplit THEN 8 ^ Min({levelDiff, 1}) ELSE 0,
         status |-> IF trySplit THEN (IF levelDiff > 1 THEN failed ELSE rebalance)
                    ELSE IF undo THEN cancelMerge ELSE converged]

enforceKeySingle(tree, ops, key) ==
    LET k == containingNode(makePrefix(key), tree) IN enforceAtNode(tree, ops, key, k, prefixLevel(tree.prefixes[k]))

\* the node and all siblings of it and of its ancestors
siblingsAbove(tree, k) ==
    LET above == ancestors(tree, k) IN {n \in 1 .. tree.numNodes - 1 : parent(tree, n) \in above}

innerKeys(keys) == ToSet(keys) \ {0, nodeRange(0)}

\* What one key changes does not change what another one asks for: siblings
\* that were kept for a key have the ancestors of its node.
enforceAll(tree, ops, single) ==
    LET kept   == UNION {siblingsAbove(tree, s.node) : s \in {s \in single : s.undo}}
        op(k)  == Max({ops[k], IF k \in kept THEN 1 ELSE 0} \cup {s.op : s \in {s \in single : s.node = k}})
    IN  [ops |-> tabulated([k \in DOMAIN ops |-> op(k)]), status |-> Max({converged} \cup {s.status : s \in single})]

enforceKeys(tree, ops, mandatoryKeys) ==
    enforceAll(tree, ops, {enforceKeySingle(tree, ops, key) : key \in innerKeys(mandatoryKeys)})

\* One thread per key, and no atomics: a thread that keeps the siblings on its
\* path can read 0 and write 1 around the write of another one that splits.
enforceInParallel(tree, ops, single, done, raced) ==
    LET lost(k) == ops[k] = 0 /\ done.ops[k] > 1 /\ \E s \in single : s.undo /\ s.node # k /\ k \in siblingsAbove(tree, s.node)
    IN  IF raced THEN [done EXCEPT !.ops = [k \in DOMAIN ops |-> IF lost(k) THEN 1 ELSE @[k]]] ELSE done

enforceKeysGpu(tree, ops, mandatoryKeys, raced) ==
    LET single == {enforceKeySingle(tree, ops, key) : key \in innerKeys(mandatoryKeys)}
    IN  enforceInParallel(tree, ops, single, enforceKeys(tree, ops, mandatoryKeys), raced)

(***************************************************************************)
(* Decisions of a node hold for all nodes below it.                        *)
(***************************************************************************)
nzAncestorOp(tree, k, ops) ==
    LET up(n, i) == IF ops[n] = 0 THEN parent(tree, n) ELSE n
        closest  == foldl(up, k, [i \in 1 .. MaxLevel |-> i])
    IN  IF decodePlaceholderBit(tree.prefixes[k]) = decodePlaceholderBit(tree.prefixes[closest]) THEN ops[closest] ELSE 0

\* In place and in parallel: ancestorsFirst says that the decisions above were
\* overwritten before a node read them.
protectAncestors(tree, ops, ancestorsFirst) ==
    IF ancestorsFirst
    THEN LET level(o, l) == tabulated([k \in DOMAIN o |->
                                IF k >= tree.levelRange[l] /\ k < tree.levelRange[l + 1] THEN nzAncestorOp(tree, k, o) ELSE o[k]])
         IN  foldl(level, ops, [i \in 1 .. MaxLevel + 1 |-> i - 1])
    ELSE tabulated([k \in DOMAIN ops |-> nzAncestorOp(tree, k, ops)])

(***************************************************************************)
(* Keys the rebalanced leaves still lack are put in.                       *)
(***************************************************************************)
leafKeys(leaves) == {leaves[i] : i \in DOMAIN leaves}
ascending(set)   == [i \in 1 .. Cardinality(set) |-> CHOOSE k \in set : Cardinality({j \in set : j < k}) = i - 1]
sortedArray(set) == [i \in 0 .. Cardinality(set) - 1 |-> ascending(set)[i + 1]]

injectKeys(leaves, keys) ==
    tabulated(sortedArray(leafKeys(leaves) \cup leafKeys(computeSpanningTree(ascending(ToSet(keys) \cup {0, nodeRange(0)})))))

\* number of leaves that cover the gap behind each key; keys that occur twice leave none
countSfcGaps(keys) == [i \in 0 .. size(keys) - 2 |-> Len(spanSfcRange(keys[i], keys[i + 1]))]

fillSfcGaps(keys, offset) ==
    [j \in 0 .. offset[size(keys) - 1] |->
        IF j = offset[size(keys) - 1] THEN nodeRange(0)
        ELSE LET i == CHOOSE i \in 0 .. size(keys) - 2 : offset[i] <= j /\ j < offset[i + 1]
             IN  spanSfcRange(keys[i], keys[i + 1])[j - offset[i] + 1]]

injectKeysGpu(leaves, keys) ==
    LET all == tabulated(sortedArray(leafKeys(leaves) \cup ToSet(keys)))
    IN  tabulated(fillSfcGaps(all, exclusive_scan(tabulated(countSfcGaps(all)))))

(***************************************************************************)
(* CombinedUpdate: new leaves, and whether nothing had to change           *)
(***************************************************************************)
convergence(status, opsAll, leafOps) ==
    CASE status = converged   -> allOne(opsAll)
      [] status = cancelMerge -> allOne(leafOps)
      [] OTHER                -> FALSE

\* leaf operations and new leaves, from the operations of all nodes
rebalanceLeaves(leaves, keys, status, opsAll, leafOps) ==
    LET newLeaves == rebalanceTree(leaves, leafOps)
    IN  [leaves    |-> IF status = failed THEN injectKeys(newLeaves, keys) ELSE newLeaves,
         converged |-> convergence(status, opsAll, leafOps)]

applyOps(tree, leaves, keys, status, opsAll) ==
    rebalanceLeaves(leaves, keys, status, opsAll, tabulated(gatherLeaves(tree, opsAll)))

updateFocus(tree, leaves, bucketSize, focusStart, focusEnd, mandatoryKeys, counts, macs, ancestorsFirst) ==
    LET keys     == <<focusStart, focusEnd>> \o mandatoryKeys
        decision == tabulated(rebalanceDecisionEssential(tree, counts, macs, focusStart, focusEnd, bucketSize))
        enforced == enforceKeys(tree, decision, keys)
    IN  applyOps(tree, leaves, keys, enforced.status, protectAncestors(tree, enforced.ops, ancestorsFirst))

rebalanceLeavesGpu(leaves, keys, status, opsAll, leafOps, offset) ==
    LET newLeaves == rebalanceTreeGpu(leaves, offset[nNodes(leaves)], offset)
    IN  [leaves    |-> IF status = failed THEN injectKeysGpu(newLeaves, keys) ELSE newLeaves,
         converged |-> convergence(status, opsAll, leafOps)]

applyOpsGpu(tree, leaves, keys, status, opsAll) ==
    LET leafOps == tabulated(gatherLeaves(tree, opsAll))
    IN  rebalanceLeavesGpu(leaves, keys, status, opsAll, leafOps, computeNodeOpsGpu(leafOps))

updateFocusGpu(tree, leaves, bucketSize, focusStart, focusEnd, mandatoryKeys, counts, macs, raced) ==
    LET decision == tabulated(rebalanceDecisionEssential(tree, counts, macs, focusStart, focusEnd, bucketSize))
        enforced == enforceKeysGpu(tree, decision, mandatoryKeys, raced)
    IN  applyOpsGpu(tree, leaves, mandatoryKeys, enforced.status, protectAncestors(tree, enforced.ops, FALSE))

\* count of a leaf that consists of leaves of the global tree
rangeCount(gLeaves, gCounts, startKey, endKey) ==
    LET startIdx == findNodeBelow(gLeaves, size(gLeaves), startKey)
        endIdx   == findNodeAbove(gLeaves, size(gLeaves), endKey)
    IN  Min({maxUnsigned, rangeSum(gCounts, startIdx, endIdx)})
=============================================================================
