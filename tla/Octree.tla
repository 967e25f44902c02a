------------------------------- MODULE Octree -------------------------------
(***************************************************************************)
(* The internal octree that is linked on top of a cornerstone array: node  *)
(* prefixes sorted by level and key, offsets of the first child, parents   *)
(* of groups of eight siblings, and the two maps between leaf order and    *)
(* this order.  The kernels for GPUs do the same, one thread per element.  *)
(***************************************************************************)
EXTENDS Csarray

numInternal(leaves) == (nNodes(leaves) - 1) \div 7

\* corrects a leaf index for the internal nodes that start before the key
binaryKeyWeight(key, level) ==
    sumOver(LAMBDA l : digitWeight(octalDigit(key, l)), 1, Min({level + 1, MaxLevel}))

\* leaf i and the next one are the first two keys of no common node: an
\* internal node ends between them, and leaf i writes it
writesInternal(leaves, i) ==
    /\ commonPrefix(leaves[i], leaves[i + 1]) % 3 = 0
    /\ i < nNodes(leaves) - 1

internalIndex(leaves, i) ==
    (i + binaryKeyWeight(leaves[i], commonPrefix(leaves[i], leaves[i + 1]) \div 3)) \div 7

\* prefixes with the internal nodes in front, 0 where no leaf writes one
createUnsortedLayout(leaves) ==
    LET numInt == numInternal(leaves)
        n      == nNodes(leaves)
        index  == tabulated([i \in 0 .. n - 1 |-> IF writesInternal(leaves, i) THEN internalIndex(leaves, i) ELSE -1])
        writer(k) == {i \in 0 .. n - 1 : index[i] = k}
        prefix(i) == encodePlaceholderBit(leaves[i], 3 * treeLevel(leaves[i + 1] - leaves[i]))
        common(i) == encodePlaceholderBit(leaves[i], commonPrefix(leaves[i], leaves[i + 1]))
    IN  [k \in 0 .. numInt + n - 1 |->
            IF k >= numInt THEN prefix(k - numInt)
            ELSE IF writer(k) = {} THEN 0 ELSE common(CHOOSE i \in writer(k) : TRUE)]

getLevelRange(prefixes) ==
    [level \in 0 .. MaxLevel + 1 |->
        IF level = MaxLevel + 1 THEN size(prefixes)
        ELSE lower_bound(prefixes, 0, size(prefixes), encodePlaceholderBit(0, 3 * level))]

\* index of the node with this prefix, or the number of nodes
locateNode(nodeKey, prefixes, levelRange) ==
    LET level == prefixLevel(nodeKey)
        it    == lower_bound(prefixes, levelRange[level], levelRange[level + 1], nodeKey)
    IN  IF it # size(prefixes) /\ prefixes[it] = nodeKey THEN it ELSE size(prefixes)

locateNode2K(startKey, endKey, prefixes, levelRange) ==
    locateNode(encodePlaceholderBit(startKey, leadingZeros(endKey - startKey - 1)), prefixes, levelRange)

\* (mutant) the second child
firstChildPrefix_second(prefix) == prefix * 8 + 1

\* encodePlaceholderBit(nodeKey, prefixLength + 3): the placeholder bit moves on
firstChildPrefix(prefix) == prefix * 8

\* first child of every internal node, 0 for leaves
linkChildren(prefixes, internals, levelRange) ==
    [k \in DOMAIN prefixes |->
        IF k \notin internals THEN 0
        ELSE LET child == locateNode(firstChildPrefix(prefixes[k]), prefixes, levelRange)
             IN  IF child = size(prefixes) THEN 0 ELSE child]

linkParents(children) ==
    [g \in 0 .. Max({1, (size(children) - 1) \div 8}) - 1 |->
        IF \E k \in DOMAIN children : children[k] # 0 /\ (children[k] - 1) \div 8 = g
        THEN CHOOSE k \in DOMAIN children : children[k] # 0 /\ (children[k] - 1) \div 8 = g
        ELSE 0]

\* a permutation and, with leaves counted from 0, its inverse
invertOrder(order, numInt) ==
    [inverse |-> [k \in DOMAIN order |-> CHOOSE i \in DOMAIN order : order[i] = k],
     order   |-> [i \in DOMAIN order |-> order[i] - numInt]]

\* the nodes in ascending order of their prefixes
sortOrder(unsorted) ==
    LET position == tabulated([k \in DOMAIN unsorted |-> Cardinality({j \in DOMAIN unsorted : unsorted[j] < unsorted[k]})])
    IN  tabulated([i \in DOMAIN unsorted |-> CHOOSE k \in DOMAIN unsorted : position[k] = i])

octreeData(leaves, prefixes, levels, children, maps) ==
    [numLeafNodes   |-> nNodes(leaves),
     numInternal    |-> numInternal(leaves),
     numNodes       |-> size(prefixes),
     prefixes       |-> prefixes,
     levelRange     |-> levels,
     childOffsets   |-> children,
     parents        |-> linkParents(children),
     leafToInternal |-> [i \in 0 .. nNodes(leaves) - 1 |-> maps.inverse[numInternal(leaves) + i]],
     internalToLeaf |-> maps.order]

linkTree(leaves, prefixes, levels, maps) ==
    octreeData(leaves, prefixes, levels,
               tabulated(linkChildren(prefixes, {maps.inverse[k] : k \in 0 .. numInternal(leaves) - 1}, levels)), maps)

linkSorted(leaves, prefixes, maps) == linkTree(leaves, prefixes, tabulated(getLevelRange(prefixes)), maps)

linkInOrder(leaves, unsorted, order) ==
    linkSorted(leaves, tabulated([i \in DOMAIN unsorted |-> unsorted[order[i]]]), invertOrder(order, numInternal(leaves)))

linkNodes(leaves, unsorted) == linkInOrder(leaves, unsorted, sortOrder(unsorted))

buildOctree(leaves) == linkNodes(leaves, tabulated(createUnsortedLayout(leaves)))

(***************************************************************************)
(* Use of the octree                                                       *)
(***************************************************************************)
parent(tree, node) == IF node = 0 THEN 0 ELSE tree.parents[(node - 1) \div 8]

\* smallest node that contains the node with this prefix
containingNode(nodeKey, tree) ==
    LET key == decodePlaceholderBit(nodeKey)
        down(node, level) ==
            IF tree.childOffsets[node] = 0 \/ nodeKey = tree.prefixes[node] THEN node
            ELSE tree.childOffsets[node] + octalDigit(key, level)
    IN  foldl(down, 0, [i \in 1 .. prefixLevel(nodeKey) |-> i])

maxDepth(levelRange) ==
    LET levels == {l \in 1 .. MaxLevel + 1 : levelRange[l] # levelRange[l - 1]}
    IN  IF levels = {} THEN 0 ELSE Max(levels) - 1

gatherLeaves(tree, q)  == [i \in 0 .. tree.numLeafNodes - 1 |-> q[tree.leafToInternal[i]]]

\* quantities of the leaves go to their nodes; others keep what they had
scatterLeaves(tree, leafQ, q) ==
    [k \in 0 .. tree.numNodes - 1 |->
        IF tree.internalToLeaf[k] >= 0 THEN leafQ[tree.internalToLeaf[k]] ELSE IF k \in DOMAIN q THEN q[k] ELSE 0]

\* combines the eight children of every internal node, deepest level first
upsweep(tree, q, combine(_, _)) ==
    LET level(p, l) ==
            tabulated([k \in DOMAIN p |->
                IF k >= tree.levelRange[l] /\ k < tree.levelRange[l + 1] /\ tree.childOffsets[k] # 0
                THEN combine(p, tree.childOffsets[k]) ELSE p[k]])
    IN  foldl(level, q, [i \in 1 .. MaxLevel + 1 |-> MaxLevel + 1 - i])

NodeCount(q, child) == Min({maxUnsigned, sumOver(LAMBDA octant : q[child + octant], 0, 7)})
=============================================================================
