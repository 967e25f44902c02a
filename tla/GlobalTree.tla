----------------------------- MODULE GlobalTree -----------------------------
(***************************************************************************)
(* GlobalAssignment: the octree all ranks build together from their        *)
(* particles, and the assignment of key ranges to ranks made from it.      *)
(*                                                                         *)
(* Each rank has its own copy of the leaves and counts.  It rebalances     *)
(* them by itself, counts its own particles, and only the counts are       *)
(* summed over the ranks, in unsigned integers that may overflow.  The     *)
(* copies have to stay equal without ever being compared.                  *)
(*                                                                         *)
(* Allreduce is one joint action of all ranks: nobody leaves it before     *)
(* everyone has entered it.                                                *)
(***************************************************************************)
EXTENDS DomainDecomp

CONSTANTS
    BucketSize,       \* particles per leaf above which it is split
    InitNodesPerRank, \* leaves per rank of the first tree, at least (100)
    ParticleKeys,     \* sorted arrays of keys a rank may have in a sync
    Builds,           \* subset of {"cpu", "gpu"}
    MaxSync           \* bound: number of calls to assign

ASSUME GlobalTreeAssumption ==
    /\ BucketSize \in Nat \ {0} /\ MaxSync \in Nat
    /\ log8ceil(InitNodesPerRank * NumRanks) \in 0 .. MaxLevel
    /\ Builds \subseteq {"cpu", "gpu"}

VARIABLES
    build,      \* Accelerator
    keys,       \* keys[r]: sorted keys of the particles of rank r
    leaves,     \* leaves[r]: copy of the cornerstone array
    tree,       \* tree[r]: the octree linked on top of it
    counts,     \* counts[r]: particles per leaf, own ones until they are reduced
    converged,  \* converged[r]: the update kept all leaves
    firstCall,  \* firstCall_ of each rank
    pc,         \* pc[r]: "sync", "update", "reduce" or "assign"
    inLoop,     \* inLoop[r]: the update is one of the while loop
    assignment, \* assignment[r]: treeOffsets, boundary keys and counts
    exchanges,  \* exchanges[r]: SendRanges
    numSync,    \* calls of assign so far
    numUpdates  \* updates of the octree in this call

treeVars == <<leaves, tree, counts, converged>>
outVars  == <<assignment, exchanges>>
vars     == <<build, keys, treeVars, firstCall, pc, inLoop, outVars, numSync, numUpdates>>

initialLeaves == computeSpanningTree(initialDomainSplits(log8ceil(InitNodesPerRank * NumRanks)))

Init ==
    /\ build \in Builds
    /\ keys = [r \in Rank |-> <<>>]
    /\ leaves = [r \in Rank |-> initialLeaves]
    /\ tree = [r \in Rank |-> buildOctree(initialLeaves)]
    /\ counts = [r \in Rank |-> [i \in 0 .. nNodes(initialLeaves) - 1 |-> BucketSize - 1]]
    /\ converged = [r \in Rank |-> FALSE]
    /\ firstCall = [r \in Rank |-> TRUE]
    /\ pc = [r \in Rank |-> "sync"]
    /\ inLoop = [r \in Rank |-> FALSE]
    /\ assignment = [r \in Rank |-> <<>>] /\ exchanges = [r \in Rank |-> <<>>]
    /\ numSync = 0 /\ numUpdates = 0

\* entry of assign: keys of the particles as they are now, sorted
Assign ==
    /\ \A r \in Rank : pc[r] = "sync"
    /\ numSync < MaxSync
    /\ numSync' = numSync + 1 /\ numUpdates' = 0
    /\ keys' \in [Rank -> ParticleKeys]
    /\ pc' = [r \in Rank |-> "update"]
    /\ inLoop' = [r \in Rank |-> FALSE]
    /\ UNCHANGED <<build, treeVars, firstCall, outVars>>

(***************************************************************************)
(* updateOctreeGlobal                                                      *)
(***************************************************************************)
sumCapped(a, b) == IF wrap(a + b) >= Max({a, b}) THEN wrap(a + b) ELSE maxUnsigned

wrappedSum(a, b) == wrap(a + b)

reduceOp(a, b, expectOverflows) == IF expectOverflows THEN sumCapped(a, b) ELSE wrappedSum(a, b)

allreduce(values, expectOverflows) ==
    foldl(LAMBDA a, b : reduceOp(a, b, expectOverflows), 0, [i \in 1 .. NumRanks |-> values[i - 1]])

globalCount(own, reduced) == Max({own, reduced})

\* rebalance the own copy and count the own particles, starting from the old counts
updateOctreeGlobal(r, nodeOps, raced) ==
    /\ leaves' = [leaves EXCEPT ![r] = rebalanceTree(@, nodeOps)]
    /\ counts' = [counts EXCEPT ![r] =
                     computeNodeCounts(leaves'[r], resize(@, nNodes(leaves'[r])), keys[r], maxUnsigned, raced)]

updateOctreeGlobalGpu(r, nodeOps, raced) ==
    LET offset == computeNodeOpsGpu(nodeOps) IN
    /\ leaves' = [leaves EXCEPT ![r] = rebalanceTreeGpu(@, offset[nNodes(@)], offset)]
    /\ counts' = [counts EXCEPT ![r] =
                     computeNodeCountsGpu(leaves'[r], resize(@, nNodes(leaves'[r])), keys[r], maxUnsigned, raced)]

UpdateTree(r) ==
    /\ pc[r] = "update"
    /\ \E nodeOps \in {rebalanceDecision(leaves[r], counts[r], BucketSize)}, raced \in BOOLEAN :
           /\ IF build = "gpu" THEN updateOctreeGlobalGpu(r, nodeOps, raced) ELSE updateOctreeGlobal(r, nodeOps, raced)
           /\ converged' = [converged EXCEPT ![r] = allOne(nodeOps)]
    /\ tree' = [tree EXCEPT ![r] = buildOctree(leaves'[r])]
    /\ pc' = [pc EXCEPT ![r] = "reduce"]
    /\ UNCHANGED <<build, keys, firstCall, inLoop, outVars, numSync, numUpdates>>

\* (mutant) the largest count even if the tree did not change
updateResult_count(conv, maxCount) == maxCount

\* result of updateOctreeGlobal: 0 once the tree has converged
updateResult(conv, maxCount) == IF conv THEN 0 ELSE maxCount

\* condition of the while loop
loopEnds(ret) == ret <= BucketSize

needsLoop(first, ret) == first \/ ret >= 8 * BucketSize

\* sum of the counts; then everyone decides whether to go on
Reduce ==
    LET n      == nNodes(leaves[0])
        capped == build = "gpu" /\ inLoop[0]
        ret(r) == updateResult(converged[r], Max({counts'[r][i] : i \in 0 .. n - 1}))
        more(r) == IF inLoop[r] THEN ~loopEnds(ret(r)) ELSE needsLoop(firstCall[r], ret(r))
    IN
    /\ \A r \in Rank : pc[r] = "reduce" /\ nNodes(leaves[r]) = n /\ inLoop[r] = inLoop[0]
    /\ counts' = [r \in Rank |-> [i \in 0 .. n - 1 |->
                     globalCount(counts[r][i], allreduce([q \in Rank |-> counts[q][i]], capped))]]
    /\ pc' = [r \in Rank |-> IF more(r) THEN "update" ELSE "assign"]
    /\ inLoop' = [r \in Rank |-> more(r)]
    /\ firstCall' = [r \in Rank |-> firstCall[r] /\ ~more(r)]
    /\ numUpdates' = numUpdates + 1
    /\ UNCHANGED <<build, keys, leaves, tree, converged, outVars, numSync>>

\* end of assign: which keys every rank gets, and which particles go there
MakeAssignment(r) ==
    /\ pc[r] = "assign"
    /\ LET a == makeSfcAssignment(counts[r], leaves[r]) IN
       /\ assignment' = [assignment EXCEPT ![r] = a]
       /\ exchanges' = [exchanges EXCEPT ![r] = createSendRanges(a, keys[r])]
    /\ pc' = [pc EXCEPT ![r] = "sync"]
    /\ UNCHANGED <<build, keys, treeVars, firstCall, inLoop, numSync, numUpdates>>

\* the bound on the calls is reached
Finished == numSync = MaxSync /\ (\A r \in Rank : pc[r] = "sync") /\ UNCHANGED vars

Next == Assign \/ Reduce \/ (\E r \in Rank : UpdateTree(r) \/ MakeAssignment(r)) \/ Finished

Spec == Init /\ [][Next]_vars

-----------------------------------------------------------------------------
(***************************************************************************)
(* Properties                                                              *)
(***************************************************************************)
numInLeaf(r, start, end) == Cardinality({i \in DOMAIN keys[r] : start <= keys[r][i] /\ keys[r][i] < end})

trueCount(start, end) == MapThenSumSet(LAMBDA r : numInLeaf(r, start, end), Rank)

\* the counts are those of the leaves, over all ranks
counted(r) == pc[r] = "assign" \/ (pc[r] = "update" /\ inLoop[r])

\* Every rank rebalances its copy of the tree by itself, from counts that
\* were summed over the ranks: the copies are valid cornerstone arrays and
\* equal, and so are the decisions when to stop (updateOctreeGlobal).  After
\* an update, a leaf whose particles on all ranks are no more than the largest
\* unsigned integer has their number as its count, whatever the guesses that
\* the search for the particles of a leaf started from.
TreesAgree ==
    /\ checkOctreeInvariants(leaves[0])
    /\ \A r \in Rank : pc[r] = pc[0] => leaves[r] = leaves[0] /\ inLoop[r] = inLoop[0] /\ firstCall[r] = firstCall[0]
    /\ \A r \in Rank : counted(r) =>
           \A i \in 0 .. nNodes(leaves[r]) - 1 :
               LET n == trueCount(leaves[r][i], leaves[r][i + 1]) IN n <= maxUnsigned => counts[r][i] = n

\* The largest count after an update is the "maximum number of particles per
\* cell capped to 2^32-1", as updateOctreeGlobal says of what it returns
\* (update_mpi.hpp), also if a sum over the ranks exceeds an unsigned integer.
CountsCapped ==
    \A r \in Rank : counted(r) =>
        LET leaf == 0 .. nNodes(leaves[r]) - 1
        IN  Max({counts[r][i] : i \in leaf}) =
                Min({maxUnsigned, Max({trueCount(leaves[r][i], leaves[r][i + 1]) : i \in leaf})})

\* The loop of the first call ends, after one update for each level that the
\* tree is too coarse by and one more that changes nothing, and then no leaf is
\* above the bucket size, other than leaves of the last level.
FirstTreeResolved ==
    /\ numUpdates <= MaxLevel + 2
    /\ \A r \in Rank : pc[r] = "assign" /\ numSync = 1 =>
           \A i \in 0 .. nNodes(leaves[r]) - 1 :
               counts[r][i] <= BucketSize \/ leaves[r][i + 1] - leaves[r][i] = 1

linked ==
    \A r \in Rank :
        LET o == tree[r] IN
        /\ \A k \in 1 .. o.numNodes - 1 : o.prefixes[k - 1] < o.prefixes[k]
        /\ \A k \in 0 .. o.numNodes - 1 :
               IF o.internalToLeaf[k] >= 0
               THEN /\ o.childOffsets[k] = 0
                    /\ o.leafToInternal[o.internalToLeaf[k]] = k
                    /\ decodePlaceholderBit2K(o.prefixes[k]) =
                           <<leaves[r][o.internalToLeaf[k]], leaves[r][o.internalToLeaf[k] + 1]>>
               ELSE \A octant \in 0 .. 7 :
                        /\ o.prefixes[o.childOffsets[k] + octant] = 8 * o.prefixes[k] + octant
                        /\ parent(o, o.childOffsets[k] + octant) = k

\* node counts go up the tree: every node counts the particles in its keys, if
\* they are no more than an unsigned integer holds
countsSummed ==
    LET o == tree[0]
        q == upsweep(o, scatterLeaves(o, counts[0], <<>>), NodeCount)
    IN  counted(0) =>
            \A k \in 0 .. o.numNodes - 1 :
                LET range == decodePlaceholderBit2K(o.prefixes[k])
                    n     == trueCount(range[1], range[2])
                IN  n <= maxUnsigned => q[k] = n

\* The internal octree on the leaves: the nodes are sorted, every internal
\* node has its eight children where childOffsets says, they have it as
\* their parent, the maps between the two orders are inverse, and an upsweep
\* of the counts of the leaves gives every node its count.
OctreeLinked ==
    /\ countsSummed
    /\ linked

\* no rank gets more than its share of the particles and one leaf
balanced ==
    \A r \in Rank : assignment[r] # <<>> /\ pc[r] = "sync" =>
        \A q \in Rank :
            LET a == assignment[r] IN
            \E leaf \in 0 .. nNodes(leaves[r]) - 1 :
                NumRanks * a.counts[q] < trueCount(0, nodeRange(0)) + NumRanks * (counts[r][leaf] + 1)

\* What rank r expects to own is what all ranks are going to send it, at most
\* its share and one leaf, no particle goes to two ranks, and particles marked
\* for removal to none (makeSfcAssignment works on counts, createSendRanges on
\* keys).
SendsMatchAssignment ==
    balanced /\ ((\A r \in Rank : pc[r] = "sync") /\ numSync > 0 =>
        \A r \in Rank :
            /\ assignment[r].counts[r] = MapThenSumSet(LAMBDA q : sendCount(exchanges[q], r), Rank)
            /\ MapThenSumSet(LAMBDA q : sendCount(exchanges[r], q), Rank) = numInLeaf(r, 0, nodeRange(0)))
=============================================================================
