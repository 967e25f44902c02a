----------------------------- MODULE FocusTree -----------------------------
(***************************************************************************)
(* The locally essential trees (LETs) of all ranks during Domain::sync and *)
(* syncGrav: refinement, agreement with peer ranks on treelets, exchange   *)
(* of counts and expansion centers, and the halo requests that follow.     *)
(*                                                                         *)
(* Ranks run on their own between collective calls.  The steps up to a     *)
(* collective call are those of one rank each; a step of all ranks stands  *)
(* for a collective call and the local work between it and the next        *)
(* message.  The global tree and the assignment are inputs, updated as in  *)
(* module GlobalTree.                                                      *)
(***************************************************************************)
EXTENDS FocusRebalance

CONSTANTS
    BucketSize,      \* bucketSize of the global tree
    BucketSizeFocus, \* bucketSizeFocus
    MaxHaloFactor,   \* 512: particles per halo leaf, in units of BucketSizeFocus
    MaxRep,          \* 10: repetitions of the halo search
    InvTheta,        \* 1 / theta, or what invThetaMinMac makes of it
    DriftInvTheta,   \* centerDriftTol / theta
    SearchRadius,    \* 2 * h * haloSearchExt, in half cells
    Boundaries,      \* pbc: which dimensions are periodic
    Gravity,         \* subset of BOOLEAN: sync and syncGrav
    Builds,          \* subset of {"cpu", "gpu"}
    Distributions,   \* sorted arrays of keys: the particles of all ranks
    MaxSync          \* bound: number of calls to sync

ASSUME FocusTreeAssumption ==
    /\ BucketSize \in Nat \ {0} /\ BucketSizeFocus \in 1 .. BucketSize
    /\ InvTheta \in Nat \ {0} /\ DriftInvTheta >= InvTheta /\ SearchRadius \in Nat
    /\ Gravity \subseteq BOOLEAN /\ Builds \subseteq {"cpu", "gpu"} /\ MaxSync \in Nat

VARIABLES
    build,     \* Accelerator
    grav,      \* syncGrav instead of sync
    particles, \* sorted keys of all particles
    glob,      \* global tree: leaves, counts, assignment
    let,       \* let[r]: FocusedOctree of rank r
    halos,     \* halos[r]: layout, failure, lists of halos to send and to receive
    msgs,      \* messages that were sent and not yet received
    pc,        \* pc[r]: "sync", "refine", "treelets", "rejected", "counts" or "reduce"
    stage,     \* loop the ranks are in: "converge", "gravity" or "halos"
    rep,       \* iterations of the last two loops
    numSync,   \* calls of sync so far
    numUpdates \* calls of updateTree in this sync

vars == <<build, grav, particles, glob, let, halos, msgs, pc, stage, rep, numSync, numUpdates>>

flags(n, set) == [k \in 0 .. n - 1 |-> k \in set]

\* FocusedOctree(): a tree that is the root
emptyLet ==
    [leaves    |-> makeRootNodeTree,
     tree      |-> tabulated(buildOctree(makeRootNodeTree)),
     counts    |-> [k \in 0 .. 0 |-> BucketSizeFocus + 1],
     macs      |-> flags(1, {0}),
     centers   |-> <<>>,
     valid     |-> {"counts", "mac"},
     range     |-> [r \in Rank |-> <<0, 0>>],
     ext       |-> {},
     int       |-> {},
     treelets  |-> [r \in Rank |-> <<>>],
     index     |-> [r \in Rank |-> <<>>],
     globDispl |-> [i \in 0 .. NumRanks |-> 0],
     converged |-> FALSE]

noHalos == [layout |-> <<>>, fail |-> 0, incoming |-> [r \in Rank |-> <<0, 0>>], outgoing |-> [r \in Rank |-> {}]]

Init ==
    /\ build \in Builds /\ grav \in Gravity
    /\ particles = <<>> /\ glob = <<>>
    /\ let = [r \in Rank |-> emptyLet]
    /\ halos = [r \in Rank |-> noHalos]
    /\ msgs = {}
    /\ pc = [r \in Rank |-> "sync"]
    /\ stage = "converge" /\ rep = 0
    /\ numSync = 0 /\ numUpdates = 0

(***************************************************************************)
(* Particles and the global tree                                           *)
(***************************************************************************)
position(key) == vec(LAMBDA i : 2 * curve[key][i] + 1)

numKeys(keys, start, end) == Cardinality({i \in DOMAIN keys : start <= keys[i] /\ keys[i] < end})

exactCounts(leaves, keys) == [i \in 0 .. nNodes(leaves) - 1 |-> numKeys(keys, leaves[i], leaves[i + 1])]

globalTree(leaves, keys) ==
    LET counts == tabulated(exactCounts(leaves, keys))
    IN  [leaves |-> leaves, counts |-> counts, asg |-> makeSfcAssignment(counts, leaves)]

\* one update of the global tree, repeated on the first call and if leaves are far too full
updateGlobal(leaves, counts, keys) ==
    LET decision(l, c) == tabulated(rebalanceDecision(l, c, BucketSize))
        maxCount(l) == Max({numKeys(keys, l[i], l[i + 1]) : i \in 0 .. nNodes(l) - 1})
        again(l, i) == IF maxCount(l) <= BucketSize THEN l ELSE rebalanceTree(l, decision(l, exactCounts(l, keys)))
        once        == rebalanceTree(leaves, decision(leaves, counts))
        full        == maxCount(once) >= 8 * BucketSize /\ ~allOne(decision(leaves, counts))
    IN  IF numSync = 0 \/ full THEN foldl(again, once, [i \in 1 .. MaxLevel + 2 |-> i]) ELSE once

\* Assignment::assign and distribute
Sync ==
    /\ numSync < MaxSync /\ \A r \in Rank : pc[r] = "sync"
    /\ \E keys \in Distributions :
          /\ particles' = keys
          /\ glob' = IF numSync = 0 THEN globalTree(updateGlobal(makeRootNodeTree, exactCounts(makeRootNodeTree, keys), keys), keys)
                     ELSE globalTree(updateGlobal(glob.leaves, glob.counts, keys), keys)
    /\ stage' = IF numSync = 0 THEN "converge" ELSE "halos"
    /\ pc' = [r \in Rank |-> "refine"]
    /\ rep' = 0 /\ numUpdates' = 0 /\ numSync' = numSync + 1
    /\ UNCHANGED <<build, grav, let, halos, msgs>>

focusStart(r) == glob.asg.boundaries[r]
focusEnd(r)   == glob.asg.boundaries[r + 1]

ownKeys(r) ==
    LET own == SelectSeq([i \in 1 .. size(particles) |-> particles[i - 1]],
                         LAMBDA key : focusStart(r) <= key /\ key < focusEnd(r))
    IN  [i \in 0 .. Len(own) - 1 |-> own[i + 1]]

(***************************************************************************)
(* Criteria                                                                *)
(***************************************************************************)
reallocate(macs, n) == [k \in 0 .. n - 1 |-> k \in DOMAIN macs /\ macs[k]]

geoCenters(L) == tabulated(nodeFpCenters(L.tree.prefixes))

\* marks nodes of the LET that its rank may not approximate
updateMacs(r, L, centers, accumulate) ==
    LET n     == L.tree.numNodes
        start == findNodeAbove(L.leaves, nNodes(L.leaves), focusStart(r))
        end   == findNodeAbove(L.leaves, nNodes(L.leaves), focusEnd(r))
        marked == markMacs(L.tree, L.leaves, centers, start, end, FALSE, Boundaries)
        old   == reallocate(L.macs, n)
    IN  [L EXCEPT !.macs = tabulated([k \in DOMAIN old |-> (accumulate /\ old[k]) \/ k \in marked]),
                  !.valid = @ \cup {"mac"}]

updateMinMac(r, L, accumulate) ==
    LET geo == geoCenters(L)
    IN  updateMacs(r, L, tabulated([k \in DOMAIN geo |-> computeMinMacR2(geo[k], InvTheta, 1)]), accumulate)

setMacRadius(L, invTheta) ==
    LET geo == geoCenters(L) IN tabulated([k \in DOMAIN geo |-> computeVecMacR2(geo[k], L.centers[k], invTheta, 1)])

\* the criteria that an iteration starts with
withCriteria(r, L) ==
    CASE stage = "converge"          -> updateMinMac(r, L, FALSE)
      [] stage = "gravity"           -> L
      [] stage = "halos" /\ grav     -> updateMacs(r, L, setMacRadius(L, DriftInvTheta), TRUE)
      [] stage = "halos" /\ ~grav    -> updateMinMac(r, L, TRUE)

(***************************************************************************)
(* Refinement, and the peers that need to agree                            *)
(***************************************************************************)
\* leaves of the global tree in the focus, and its end
mandatoryKeys(r) ==
    LET first == glob.asg.treeOffsets[r] IN [i \in 1 .. glob.asg.numNodesPerRank[r] + 1 |-> glob.leaves[first + i - 1]]

\* (mutant) compares the numbers of leaves only
focusPeer_count(L, range, p, garbage) == range[2] - range[1] > L.globDispl[p + 1] - L.globDispl[p]

\* Does p own leaves that are not leaves of the global tree?  The offsets into
\* the global tree are those of the previous update: beyond its end the answer
\* depends on what is in memory there.
focusPeer(L, range, p, garbage) ==
    LET first == L.globDispl[p]
        last  == L.globDispl[p + 1]
        known == {glob.leaves[i] : i \in first .. Min({last, size(glob.leaves)}) - 1}
    IN  IF range[2] - range[1] > last - first THEN TRUE
        ELSE IF range[1] = range[2] THEN FALSE
        ELSE IF first >= size(glob.leaves) THEN garbage
        ELSE ~({L.leaves[i] : i \in range[1] .. range[2] - 1} \subseteq known)

focusPeers(r, L, range, garbage) == {p \in Rank \ {r} : focusPeer(L, range[p], p, garbage)}

\* the tree with its leaves updated: res of updateFocus
withLeaves(L, res, range) ==
    [L EXCEPT !.leaves = res.leaves, !.tree = tabulated(buildOctree(res.leaves)),
              !.converged = res.converged, !.range = range, !.valid = {}]

refinedTree(r, L, raced) ==
    LET res == IF build = "cpu"
               THEN updateFocus(L.tree, L.leaves, BucketSizeFocus, focusStart(r), focusEnd(r), mandatoryKeys(r),
                                L.counts, L.macs, raced)
               ELSE updateFocusGpu(L.tree, L.leaves, BucketSizeFocus, focusStart(r), focusEnd(r), mandatoryKeys(r),
                                   L.counts, L.macs, raced)
    IN  withLeaves(L, res, tabulated(translateAssignment(glob.asg, res.leaves)))

withPeers(r, L, garbage) == [L EXCEPT !.ext = focusPeers(r, L, L.range, garbage)]

refined(r, raced, garbage) == withPeers(r, refinedTree(r, withCriteria(r, let[r]), raced), garbage)

\* what p sends to q of an array of leaves
message(tag, from, to, data) == [tag |-> tag, from |-> from, to |-> to, data |-> data]

treelet(L, p) == [i \in 0 .. L.range[p][2] - L.range[p][1] |-> L.leaves[L.range[p][1] + i]]

\* up to exchangePeers (MPI_Alltoall), and the messages sent behind it
Refine ==
    /\ \A r \in Rank : pc[r] = "refine"
    /\ \E raced \in BOOLEAN, garbage \in BOOLEAN :
          \E next \in {[r \in Rank |-> refined(r, raced, garbage)]} :
              /\ let' = [r \in Rank |-> [next[r] EXCEPT !.int = {p \in Rank : r \in next[p].ext}]]
              /\ msgs' = {message("treelets", r, p, treelet(next[r], p)) : <<r, p>> \in
                          {rp \in Rank \X Rank : rp[2] \in next[rp[1]].ext}}
    /\ pc' = [r \in Rank |-> "treelets"]
    /\ numUpdates' = numUpdates + 1
    /\ UNCHANGED <<build, grav, particles, glob, halos, stage, rep, numSync>>

(***************************************************************************)
(* Treelets: leaves of a peer in the focus of a rank.  Keys that the rank  *)
(* lacks are rejected; both then hold the same leaves.                     *)
(***************************************************************************)
inbox(r, tag) == {m \in msgs : m.tag = tag /\ m.to = r}

dataFrom(received, p) == (CHOOSE m \in received : m.from = p).data

known(leaves, key) == key = leaves[findNodeAbove(leaves, nNodes(leaves), key)]

\* the last key is the end of the focus and not looked at
checkTreelet(leaves, keys) ==
    [i \in DOMAIN keys |-> IF i = nNodes(keys) \/ known(leaves, keys[i]) THEN keys[i] ELSE maskKey(keys[i])]

rejectedKeys(keys) == {unmaskKey(keys[i]) : i \in {j \in 0 .. nNodes(keys) - 1 : isMasked(keys[j])}}

pruneTreelet(keys) ==
    LET kept == SelectSeq([i \in 1 .. size(keys) |-> keys[i - 1]], LAMBDA key : ~isMasked(key))
    IN  [i \in 0 .. Len(kept) - 1 |-> kept[i + 1]]

\* exchangeTreelets has received a treelet from all interior peers
CheckTreelets(r) ==
    /\ pc[r] = "treelets"
    /\ LET L        == let[r]
           received == inbox(r, "treelets")
           checked  == tabulated([p \in Rank |-> IF p \in L.int THEN checkTreelet(L.leaves, dataFrom(received, p)) ELSE L.treelets[p]])
       IN  /\ Cardinality(received) = Cardinality(L.int)
           /\ let' = [let EXCEPT ![r].treelets = checked]
           /\ msgs' = (msgs \ received) \cup {message("rejected", r, p, rejectedKeys(checked[p])) : p \in L.int}
    /\ pc' = [pc EXCEPT ![r] = "rejected"]
    /\ UNCHANGED <<build, grav, particles, glob, halos, stage, rep, numSync, numUpdates>>

\* (mutant) all leaves are kept
rejectOps_none(leaves, rejected) == [i \in 0 .. nNodes(leaves) - 1 |-> 1]

\* leaves that start at a rejected key are merged into the one before
rejectOps(leaves, rejected) ==
    LET ki == {findNodeAbove(leaves, size(leaves), key) : key \in rejected}
    IN  [i \in 0 .. nNodes(leaves) - 1 |-> IF i \in ki THEN 0 ELSE 1]

indexTreelet(tree, keys) ==
    [i \in 0 .. nNodes(keys) - 1 |-> locateNode2K(keys[i], keys[i + 1], tree.prefixes, tree.levelRange)]

synchronized(r, L, rejected) ==
    LET ops    == tabulated(rejectOps(L.leaves, rejected))
        leaves == IF allOne(ops) THEN L.leaves ELSE rebalanceTree(L.leaves, ops)
        tree   == IF allOne(ops) THEN L.tree ELSE tabulated(buildOctree(leaves))
        pruned == tabulated([p \in Rank |-> IF p \in L.int THEN pruneTreelet(L.treelets[p]) ELSE L.treelets[p]])
    IN  [L EXCEPT !.leaves = leaves, !.tree = tree, !.treelets = pruned,
                  !.index = tabulated([p \in Rank |-> IF p \in L.int THEN indexTreelet(tree, pruned[p]) ELSE <<>>]),
                  !.range = tabulated(translateAssignment(glob.asg, leaves)),
                  !.globDispl = glob.asg.treeOffsets]

(***************************************************************************)
(* Counts of the own leaves come from the particles, those of peers from   *)
(* the peers, all others from the global tree.                             *)
(***************************************************************************)
fromGlobal(r, L) == invertRanges(0, extractPeerRanges(L.ext, r, L.range), nNodes(L.leaves))

localCounts(r, L) ==
    LET outer == fromGlobal(r, L)
        keys  == ownKeys(r)
        leafCounts == [i \in 0 .. nNodes(L.leaves) - 1 |->
                          IF i \in outer THEN rangeCount(glob.leaves, glob.counts, L.leaves[i], L.leaves[i + 1])
                          ELSE numKeys(keys, L.leaves[i], L.leaves[i + 1])]
    IN  tabulated(upsweep(L.tree, scatterLeaves(L.tree, tabulated(leafCounts), <<>>), NodeCount))

\* gather of the nodes of a treelet, in the order of its leaves
treeletQuantity(L, p, q) == [i \in DOMAIN L.index[p] |-> q[L.index[p][i]]]

\* exchangeRejectedKeys has received from all exterior peers; the rest of
\* updateTree and updateCounts up to what is sent in peerExchange
SyncTreelets(r) ==
    /\ pc[r] = "rejected"
    /\ LET received == inbox(r, "rejected") IN
       /\ Cardinality(received) = Cardinality(let[r].ext)
       /\ \E L \in {synchronized(r, let[r], UNION {m.data : m \in received})} :
          \E counts \in {localCounts(r, L)} :
             /\ let' = [let EXCEPT ![r] = [L EXCEPT !.counts = counts]]
             /\ msgs' = (msgs \ received) \cup {message("counts", r, p, treeletQuantity(L, p, counts)) : p \in L.int}
    /\ pc' = [pc EXCEPT ![r] = "counts"]
    /\ UNCHANGED <<build, grav, particles, glob, halos, stage, rep, numSync, numUpdates>>

\* quantities of peers go to the nodes of their leaves
scatterReceived(L, received, q) ==
    LET from(i) == {m \in received : L.range[m.from][1] <= i /\ i < L.range[m.from][1] + size(m.data)}
    IN  [k \in DOMAIN q |->
            LET i == L.tree.internalToLeaf[k] IN
            IF i >= 0 /\ from(i) # {} THEN LET m == CHOOSE m \in from(i) : TRUE IN m.data[i - L.range[m.from][1]] ELSE q[k]]

UpdateCounts(r) ==
    /\ pc[r] = "counts"
    /\ LET received == inbox(r, "counts")
           L        == let[r] IN
       /\ Cardinality(received) = Cardinality(L.ext)
       /\ let' = [let EXCEPT ![r].counts = tabulated(upsweep(L.tree, scatterReceived(L, received, @), NodeCount)),
                             ![r].valid = @ \cup {"counts"}]
       /\ msgs' = msgs \ received
    /\ pc' = [pc EXCEPT ![r] = "reduce"]
    /\ UNCHANGED <<build, grav, particles, glob, halos, stage, rep, numSync, numUpdates>>

(***************************************************************************)
(* Expansion centers.  A center is a mass w and the sum x of mass times    *)
(* position.  The global tree is filled by MPI_Allgatherv.                 *)
(***************************************************************************)
noMass == [x |-> <<0, 0, 0>>, w |-> 0]

addBody(c, d) == [x |-> vec(LAMBDA i : c.x[i] + d.x[i]), w |-> c.w + d.w]

\* particles have mass 1
massCenter(keys, start, end) ==
    LET inside == {i \in DOMAIN keys : start <= keys[i] /\ keys[i] < end}
    IN  MapThenFoldSet(addBody, noMass, LAMBDA i : [x |-> position(keys[i]), w |-> 1], LAMBDA s : CHOOSE i \in s : TRUE, inside)

CombineSourceCenter(q, child) == foldl(addBody, noMass, [i \in 1 .. 8 |-> q[child + i - 1]])

upsweepCenters(tree, leafCenters) ==
    tabulated(upsweep(tree, [k \in 0 .. tree.numNodes - 1 |->
                                IF tree.internalToLeaf[k] >= 0 THEN leafCenters[tree.internalToLeaf[k]] ELSE noMass],
                      CombineSourceCenter))

\* computeLeafMassCenter: leaves outside of the assignment have no particles
localCenters(r, L) ==
    LET keys == ownKeys(r)
    IN  upsweepCenters(L.tree, tabulated([i \in 0 .. nNodes(L.leaves) - 1 |->
            IF inRange(i, L.range[r]) THEN massCenter(keys, L.leaves[i], L.leaves[i + 1]) ELSE noMass]))

\* own leaves of the global tree, located among the nodes of the LET
populateGlobal(r, L, q) ==
    [i \in L.globDispl[r] .. L.globDispl[r + 1] - 1 |->
        q[locateNode2K(glob.leaves[i], glob.leaves[i + 1], L.tree.prefixes, L.tree.levelRange)]]

\* leaves that come from the global tree, located among its nodes
extractGlobal(r, L, gTree, globQ, q) ==
    LET outer == fromGlobal(r, L)
    IN  [k \in DOMAIN q |-> IF L.tree.internalToLeaf[k] \in outer
                            THEN globQ[locateNode(L.tree.prefixes[k], gTree.prefixes, gTree.levelRange)] ELSE q[k]]

\* (mutant) without the quantities of peers
peerCenters_none(L, q, received) == q

peerCenters(L, q, received) == scatterReceived(L, received, q)

\* updateCenters of all ranks
updateCenters ==
    LET gTree  == tabulated(buildOctree(glob.leaves))
        local  == tabulated([r \in Rank |-> localCenters(r, let[r])])
        own    == tabulated([r \in Rank |-> populateGlobal(r, let[r], local[r])])
        all    == [i \in 0 .. nNodes(glob.leaves) - 1 |-> own[CHOOSE r \in Rank : i \in DOMAIN own[r]][i]]
        globQ  == upsweepCenters(gTree, tabulated(all))
        q(r)   == extractGlobal(r, let[r], gTree, globQ, local[r])
        sent   == {message("centers", r, p, treeletQuantity(let[r], p, local[r])) : <<r, p>> \in
                   {rp \in Rank \X Rank : rp[2] \in let[rp[1]].int}}
    IN  [r \in Rank |-> tabulated(upsweep(let[r].tree,
            peerCenters(let[r], tabulated(q(r)), {m \in sent : m.to = r}), CombineSourceCenter))]

(***************************************************************************)
(* Halos                                                                   *)
(***************************************************************************)
\* search box of the leaf i, from its center and its particles
searchBox(L, keys, i) ==
    LET inside == {j \in DOMAIN keys : L.leaves[i] <= keys[j] /\ keys[j] < L.leaves[i + 1]}
    IN  computeBoundingBox([j \in inside |-> position(keys[j])], [j \in inside |-> SearchRadius],
                           centerAndSize(sfcIBox(L.leaves[i], L.leaves[i + 1])).center)

discoverHalos(r, L, accumulate) ==
    LET keys   == ownKeys(r)
        first  == L.range[r][1]
        last   == L.range[r][2]
        boxes  == tabulated([i \in first .. last - 1 |-> searchBox(L, keys, i)])
        marked == findHalos(L.tree, L.leaves, geoCenters(L), boxes, first, last, Boundaries)
        old    == reallocate(L.macs, L.tree.numNodes)
    IN  [L EXCEPT !.macs = tabulated([k \in DOMAIN old |-> (accumulate /\ old[k]) \/ k \in marked])]

leafCounts(L) == gatherLeaves(L.tree, L.counts)

\* index of the first particle of each leaf, in the arrays with halos
computeNodeLayout(r, L) ==
    LET counts == leafCounts(L)
    IN  exclusive_scan(tabulated([i \in DOMAIN counts |->
            IF inRange(i, L.range[r]) \/ L.macs[L.tree.leafToInternal[i]] THEN counts[i] ELSE 0]))

\* values checkLayout may return: 0 if sound, else the one stored last by the
\* threads that check the leaves behind the own ones, or those before them
checkLayout(r, L, layout) ==
    LET number(i) == layout[i + 1] - layout[i]
        stored(i) == IF number(i) > MaxHaloFactor * BucketSizeFocus THEN -1
                     ELSE IF number(i) > 0 /\ \A p \in Rank : ~inRange(i, L.range[p]) THEN 1 ELSE 0
        codes(first, last) == {stored(i) : i \in first .. last - 1} \ {0}
        before == codes(0, L.range[r][1])
        behind == codes(L.range[r][2], nNodes(L.leaves))
    IN  IF behind # {} THEN behind ELSE IF before # {} THEN before ELSE {0}

haloPeers(r, L, layout) == {p \in Rank \ {r} : layout[L.range[p][2]] > layout[L.range[p][1]]}

\* is j the end of the run of leaves with particles that starts at leaf i?
endsRun(layout, i, j, last) == (\A k \in i .. j - 1 : layout[k + 1] > layout[k]) /\ (j = last \/ layout[j + 1] = layout[j])

markedEnd(layout, i, last) == CHOOSE j \in i + 1 .. last : endsRun(layout, i, j, last)

\* ranges of keys of leaves that have particles
extractMarkedElements(L, layout, first, last) ==
    LET begins == {i \in first .. last - 1 : layout[i + 1] > layout[i] /\ (i = first \/ layout[i] = layout[i - 1])}
    IN  {<<L.leaves[i], L.leaves[markedEnd(layout, i, last)]>> : i \in begins}

\* ranges of own particles that were asked for
outgoingHalos(L, layout, requests) ==
    {<<layout[findNodeAbove(L.leaves, size(L.leaves), req[1])], layout[findNodeAbove(L.leaves, size(L.leaves), req[2])]>> :
     req \in requests}

\* Halos::exchangeRequests of all ranks, for their LETs, layouts and results of checkLayout
exchangeRequests(next, layouts, fails) ==
    LET peers(r) == haloPeers(r, next[r], layouts[r])
        requests(p, r) == extractMarkedElements(next[p], layouts[p], next[p].range[r][1], next[p].range[r][2])
    IN  [r \in Rank |->
            [layout   |-> layouts[r],
             fail     |-> fails[r],
             incoming |-> [p \in Rank |-> IF p \in peers(r) THEN <<layouts[r][next[r].range[p][1]], layouts[r][next[r].range[p][2]]>>
                                          ELSE <<0, 0>>],
             outgoing |-> [p \in Rank |-> IF r \in peers(p) /\ p # r THEN outgoingHalos(next[r], layouts[r], requests(p, r)) ELSE {}]]]

(***************************************************************************)
(* Collective calls behind updateCounts                                    *)
(***************************************************************************)
numConverged == Cardinality({r \in Rank : let[r].converged})

allConverged == numConverged = NumRanks

beforeGravity(r, L) == updateMinMac(r, L, FALSE)

\* converge: MPI_Allreduce of the number of ranks that are done
Converge ==
    /\ stage = "converge" /\ \A r \in Rank : pc[r] = "reduce"
    /\ stage' = IF ~allConverged THEN "converge" ELSE IF grav THEN "gravity" ELSE "halos"
    /\ let' = IF allConverged /\ grav THEN [r \in Rank |-> beforeGravity(r, let[r])] ELSE let
    /\ pc' = [r \in Rank |-> "refine"]
    /\ UNCHANGED <<build, grav, particles, glob, halos, msgs, rep, numSync, numUpdates>>

\* the centers of all ranks and the criteria based on them
withCenters ==
    LET centers == updateCenters
        M(r) == [let[r] EXCEPT !.centers = centers[r]]
    IN  [r \in Rank |-> updateMacs(r, M(r), setMacRadius(M(r), InvTheta), FALSE)]

ConvergeGravity ==
    /\ stage = "gravity" /\ \A r \in Rank : pc[r] = "reduce"
    /\ let' = withCenters
    /\ rep' = IF allConverged /\ rep + 1 >= 2 THEN 0 ELSE Min({rep + 1, 2})
    /\ stage' = IF allConverged /\ rep + 1 >= 2 THEN "halos" ELSE "gravity"
    /\ pc' = [r \in Rank |-> "refine"]
    /\ UNCHANGED <<build, grav, particles, glob, halos, msgs, numSync, numUpdates>>

searchAgain(fail, n) == fail # 0 /\ n < MaxRep

SearchHalos ==
    /\ stage = "halos" /\ \A r \in Rank : pc[r] = "reduce"
    /\ \E centered \in {IF grav THEN withCenters ELSE let} :
       \E next \in {[r \in Rank |-> discoverHalos(r, centered[r], grav)]} :
          LET layouts == tabulated([r \in Rank |-> computeNodeLayout(r, next[r])]) IN
          /\ let' = next
          /\ \E fails \in [Rank -> -1 .. 1] :
                /\ \A r \in Rank : fails[r] \in checkLayout(r, next[r], layouts[r])
                /\ halos' = exchangeRequests(next, layouts, fails)
    /\ LET fail  == MapThenSumSet(LAMBDA r : halos'[r].fail, Rank)
           again == searchAgain(fail, rep)
       IN  /\ pc' = [r \in Rank |-> IF again THEN "refine" ELSE "sync"]
           /\ rep' = IF again THEN rep + 1 ELSE 0
    /\ UNCHANGED <<build, grav, particles, glob, msgs, stage, numSync, numUpdates>>

Finished == numSync = MaxSync /\ (\A r \in Rank : pc[r] = "sync") /\ UNCHANGED vars

Next ==
    \/ Sync \/ Refine \/ Converge \/ ConvergeGravity \/ SearchHalos
    \/ \E r \in Rank : CheckTreelets(r) \/ SyncTreelets(r) \/ UpdateCounts(r)
    \/ Finished

Spec == Init /\ [][Next]_vars

(***************************************************************************)
(* Properties                                                              *)
(***************************************************************************)
updated  == \A r \in Rank : pc[r] = "reduce"
finished == numSync > 0 /\ \A r \in Rank : pc[r] = "sync"

\* leaves of ranks that are no peers are nodes of the global tree
coarseOutside ==
    \A r \in Rank : pc[r] \in {"counts", "reduce"} =>
        \A i \in fromGlobal(r, let[r]) : {let[r].leaves[i], let[r].leaves[i + 1]} \subseteq leafKeys(glob.leaves)

\* Each LET is an octree, and once updateTree is done with it the leaves of the
\* global tree in the focus are all among its keys, so that the range of the
\* rank can be located, and leaves of ranks that are no peers are nodes of the
\* global tree, so that their counts and centers can be taken from it (assertion
\* in rangeCount).  The loops around updateTree end after a number of updates
\* that the depth of the tree bounds (converge, syncGrav).
FocusResolved ==
    /\ numUpdates <= 3 * (MaxLevel + 1)
    /\ coarseOutside
    /\ \A r \in Rank :
        /\ checkOctreeInvariants(let[r].leaves)
        /\ pc[r] \in {"counts", "reduce"} =>
               {glob.leaves[i] : i \in glob.asg.treeOffsets[r] .. glob.asg.treeOffsets[r + 1]} \subseteq leafKeys(let[r].leaves)

\* After the exchange of rejected keys (syncTreelets) the treelet that a rank
\* keeps of an interior peer is what the peer has as leaves in that range, and
\* all of it was found among the nodes of the rank (assertion of indexTreelets).
TreeletsAgree ==
    updated => \A r \in Rank : \A p \in let[r].int :
        /\ let[r].treelets[p] = treelet(let[p], r)
        /\ \A i \in DOMAIN let[r].index[p] : let[r].index[p][i] < let[r].tree.numNodes

\* the count of every node of every LET
countsExact ==
    updated => \A r \in Rank : \A k \in DOMAIN let[r].counts :
        LET range == decodePlaceholderBit2K(let[r].tree.prefixes[k])
        IN  let[r].counts[k] = numKeys(particles, range[1], range[2])

\* the mass and its center in every node
centersExact ==
    grav /\ (finished \/ (stage = "gravity" /\ rep > 0 /\ pc[0] = "refine")) => \A r \in Rank : \A k \in DOMAIN let[r].centers :
        LET range == decodePlaceholderBit2K(let[r].tree.prefixes[k])
        IN  let[r].centers[k] = massCenter(particles, range[1], range[2])

\* With what was received from peers and what was taken from the global tree,
\* the count, the mass and its center of every node of every LET are those of
\* the particles of all ranks in it (updateCounts, updateCenters).  When
\* updateTree is called, counts and MAC flags were evaluated for the tree as it
\* is: it would throw.
QuantitiesExact ==
    /\ countsExact
    /\ centersExact
    /\ \A r \in Rank : pc[r] = "refine" =>
        /\ stage = "halos" => size(let[r].macs) = let[r].tree.numNodes
        /\ withCriteria(r, let[r]).valid = {"counts", "mac"}

owner(key) == CHOOSE r \in Rank : focusStart(r) <= key /\ key < focusEnd(r)

\* index of the j-th own particle of p in its arrays
localIndex(p, j) == halos[p].layout[let[p].range[p][1]] + j

received(r) ==
    UNION {{ownKeys(p)[j] : j \in {i \in DOMAIN ownKeys(p) :
                \E range \in halos[p].outgoing[r] : inRange(localIndex(p, i), range)}} : p \in Rank \ {r}}

interact(a, b) ==
    norm2(applyPbc(vec(LAMBDA i : position(a)[i] - position(b)[i]), Boundaries, 1)) < SearchRadius * SearchRadius

noFailure == \A r \in Rank : halos[r].fail = 0

\* what a rank sends of its own particles to a peer is as much as the peer has room for
requestsMatch ==
    \A r \in Rank : \A p \in Rank \ {r} :
        /\ halos[r].incoming[p][2] - halos[r].incoming[p][1] = MapThenSumSet(LAMBDA s : s[2] - s[1], halos[p].outgoing[r])
        /\ \A s \in halos[p].outgoing[r] : /\ s[1] >= localIndex(p, 0)
                                           /\ s[2] <= localIndex(p, size(ownKeys(p)))

\* When the layout is found to be sound on all ranks (checkLayout), every
\* particle within the search radius of a particle of a rank is either its own
\* or sent to it as a halo by its owner, and what is sent is what there is room
\* for (exchangeRequests).
HalosComplete ==
    finished /\ noFailure =>
        /\ requestsMatch
        /\ \A r \in Rank : \A i \in DOMAIN particles : \A j \in DOMAIN particles :
               (owner(particles[i]) = r /\ interact(particles[i], particles[j]))
                   => owner(particles[j]) = r \/ particles[j] \in received(r)
=============================================================================
