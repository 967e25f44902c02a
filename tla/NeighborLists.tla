--------------------------- MODULE NeighborLists ---------------------------
(***************************************************************************)
(* Neighbor lists of the GPU that are built once and used by many loops    *)
(* over pairs of particles: a compressed list per particle, and lists of   *)
(* clusters of particles for superclusters.  A symmetric list has only one *)
(* of the pairs (i, j) and (j, i) of particles, or of superclusters, and   *)
(* the loop adds to the results of both.                                   *)
(*                                                                         *)
(* What a loop does to its results is a set of contributions <<i, j, k>>:  *)
(* the interaction with j was added to the result of i, by entry k of some *)
(* list.                                                                   *)
(***************************************************************************)
EXTENDS ParticleGroups, WarpCompression

CONSTANT SymmetryBlock  \* particles (superclusters) with equal choice of pairs

ASSUME SymmetryBlockAssumption == SymmetryBlock \in 1 .. 1024

\* the radius, multiplied by the search extension, is larger than a distance
withinExt(s, d2, radius) == d2 * s.ext[2] * s.ext[2] < radius * radius * s.ext[1] * s.ext[1]

\* largest search radius of the particles of a leaf
leafRMax(s, node) == Max({0} \cup {s.rad[i] : i \in firstBody(s.p, node) .. lastBody(s.p, node) - 1})

\* of the particles of all children of a node
maxOfChildren(q, child) == Max({q[child + octant] : octant \in 0 .. 7})

\* of the particles below each node
computeNodeRMax(s) ==
    LET tree == s.p.tree
    IN  upsweep(tree, tabulated([k \in 0 .. tree.numNodes - 1 |-> IF isLeaf(s.p, k) THEN leafRMax(s, k) ELSE 0]),
                maxOfChildren)

words(bytes) == iceil(bytes, 4)

(***************************************************************************)
(* Compressed lists, for particles in groups as large as a warp            *)
(***************************************************************************)
\* of two particles first .. last - 1, exactly one has the other in its list
includeNbSymmetric(i, j, first, last) ==
    LET s == ((i - first) \div SymmetryBlock) % 2 = ((j - first) \div SymmetryBlock) % 2
    IN  j < first \/ j >= last \/ i = j \/ (IF i < j THEN s ELSE ~s)

blockBodies(p, g) ==
    LET begin == p.first + g * WarpSize
    IN  begin .. Min({begin + WarpSize, p.last}) - 1

numBlocks(p) == iceil(p.last - p.first, WarpSize)

\* the larger of the radii of i and of others, where pairs count for both
pairRadius(s, symmetric, i, other) == IF symmetric THEN Max({s.rad[i], other}) ELSE s.rad[i]

\* neighbors in the order of the tree, lane by lane; rMax is computeNodeRMax(s)
buildCompressed(s, symmetric, rMax, g) ==
    LET bodies  == blockBodies(s.p, g)
        first   == s.p.first
        last    == s.p.last
        usePbc  == \E i \in bodies : needsPbc(s, i, pairRadius(s, symmetric, i, rMax[0]) * s.ext[1], s.ext[2])
        isClose(k) ==
            \E i \in bodies : withinExt(s, norm2(minDistance(s.x[i], s.p.geo[k], boundary(s.p, usePbc), 1)),
                                        pairRadius(s, symmetric, i, rMax[k]))
        isNeighbor(i, j) ==
            /\ i # j
            /\ symmetric => includeNbSymmetric(i, j, first, last)
            /\ withinExt(s, distanceSq(s, usePbc, j, i), pairRadius(s, symmetric, i, s.rad[j]))
        found == foldl(LAMBDA bs, k : bs \o indices(firstBody(s.p, k), lastBody(s.p, k)), <<>>,
                       depthFirst(s.p.tree, isClose))
    IN  laneValues(LAMBDA lane : LET i == first + g * WarpSize + lane
                                 IN  IF i \in bodies THEN SelectSeq(found, LAMBDA j : isNeighbor(i, j)) ELSE <<>>)

\* words a group's list takes, the lengths of the lists first
compressedSize(codec, blocks) == WarpSize + words(numBytes(codec, blocks))

\* contributions of a group; entries are pairs of particle i and place in its
\* list, other the particle there
pairContributions(s, symmetric, entries, other(_), dist(_)) ==
    LET iClose(e) == dist(e) < s.rad[e[1]] * s.rad[e[1]]
        jClose(e) == symmetric /\ dist(e) < s.rad[other(e)] * s.rad[other(e)] /\ other(e) \in Local(s.p)
    IN  {<<e[1], other(e), 2 * e[2]>> : e \in {e \in entries : iClose(e)}}
            \cup {<<other(e), e[1], 2 * e[2] + 1>> : e \in {e \in entries : jClose(e)}}

valuesLoop(s, symmetric, values, counts, begin, bodies) ==
    LET usePbc(i) == IF symmetric THEN anyPbc(s.p) ELSE needsPbc(s, i, s.rad[i], 1)
        entries   == {<<i, nb>> \in bodies \X (1 .. Len(values)) : nb <= counts[i - begin]}
        other(e)  == values[e[2]][e[1] - begin]
        dist(e)   == distanceSq(s, usePbc(e[1]), e[1], other(e))
    IN  {<<i, i, 0>> : i \in bodies} \cup pairContributions(s, symmetric, entries, other, dist)

\* data has the stored blocks and lengths
compressedLoop(s, symmetric, codec, data, g) ==
    valuesLoop(s, symmetric, decompressed(codec, TRUE, data.blocks, data.counts), data.counts,
               s.p.first + g * WarpSize, blockBodies(s.p, g))

(***************************************************************************)
(* Lists of clusters.  Particles are numbered from firstValid on, so that  *)
(* the first particle to search for begins a supercluster.                 *)
(***************************************************************************)
iSize == 8
jSize == WarpSize \div iSize
superclusterSize == WarpSize
iClustersPerSupercluster == superclusterSize \div iSize

superclusterIndex(i) == i \div superclusterSize
jClusterIndex(j)     == j \div jSize
clusterOffset(p)     == iceil(p.first, superclusterSize) * superclusterSize - p.first

\* numbers of the particles, and particle of a number
Valid(p)  == clusterOffset(p) .. clusterOffset(p) + size(p.bodies) - 1
bodyOf(p, n) == n - clusterOffset(p)
clamped(p, n) == Max({Min({n, Max(Valid(p))}), clusterOffset(p)})

firstISupercluster(p) == superclusterIndex(p.first + clusterOffset(p))
lastISupercluster(p)  == superclusterIndex(p.last + clusterOffset(p) - 1) + 1

masksSize(numJClusters) == iceil(numJClusters * iClustersPerSupercluster, 32)

includeClusterSymmetric(i, j, first, last) ==
    LET s == (i \div SymmetryBlock) % 2 = (j \div SymmetryBlock) % 2
    IN  j < first \/ j >= last \/ i = j \/ (IF i < j THEN s ELSE ~s)

jClusterBodies(p, jCluster) == {bodyOf(p, clamped(p, jCluster * jSize + k)) : k \in 0 .. jSize - 1}

\* boxes around particles, extended by a radius; lengths are multiplied by ext[2]
boxAround(s, bodies, radius(_)) ==
    [low  |-> vec(LAMBDA d : Min({s.x[i][d] * s.ext[2] - radius(i) : i \in bodies})),
     high |-> vec(LAMBDA d : Max({s.x[i][d] * s.ext[2] + radius(i) : i \in bodies}))]

\* the particle of the supercluster in place q; the last one is repeated
superclusterBody(p, index, q) ==
    LET begin == Max({index * superclusterSize, clusterOffset(p)})
        end   == Min({(index + 1) * superclusterSize, Max(Valid(p)) + 1})
    IN  bodyOf(p, Min({begin + q, end - 1}))

\* clusters with a neighbor of the supercluster, and the i-clusters it is in
collectNeighborJClusters(s, symmetric, rMax, index) ==
    LET p      == s.p
        pbc    == boundary(p, anyPbc(p))
        place  == 0 .. superclusterSize - 1
        iBody  == tabulated([q \in place |-> superclusterBody(p, index, q)])
        bodies == {iBody[q] : q \in place}
        maxParticleRadius == Max({s.rad[i] : i \in bodies})
        bBox   == boxAround(s, bodies, LAMBDA i : IF symmetric THEN 0 ELSE s.rad[i] * s.ext[1])
        overlapsInternalNode(k) ==
            \E i \in bodies : withinExt(s, norm2(minDistance(s.x[i], p.geo[k], pbc, 1)), pairRadius(s, symmetric, i, rMax[k]))
        bBoxesOverlap(jc) ==
            LET js    == jClusterBodies(p, jc)
                bound == IF symmetric THEN Max({maxParticleRadius} \cup {s.rad[j] : j \in js}) * s.ext[1] ELSE 0
            IN  boxesOverlap(boxAround(s, js, LAMBDA j : bound), bBox, pbc, s.ext[2])
        mask(jc) ==
            {iBodyPlace \div iSize : iBodyPlace \in {q \in place : \E j \in jClusterBodies(p, jc) :
                withinExt(s, distanceSq(s, TRUE, j, iBody[q]), pairRadius(s, symmetric, iBody[q], s.rad[j]))}}
        candidate(found, jc) ==
            /\ found # <<>> => jc # Last(found).cluster
            /\ symmetric => includeClusterSymmetric(index, superclusterIndex(jc * jSize), firstISupercluster(p), lastISupercluster(p))
            /\ bBoxesOverlap(jc)
        add(found, jc) ==
            IF candidate(found, jc) /\ mask(jc) # {} THEN Append(found, [cluster |-> jc, mask |-> mask(jc)]) ELSE found
        overlapsLeafNode(found, k) ==
            IF firstBody(p, k) = lastBody(p, k) THEN found
            ELSE foldl(add, found, indices(jClusterIndex(firstBody(p, k) + clusterOffset(p)),
                                              jClusterIndex(lastBody(p, k) + clusterOffset(p) - 1) + 1))
    IN  foldl(overlapsLeafNode, <<>>, depthFirst(p.tree, overlapsInternalNode))

clusterSize(codec, blocks, stored) == words(numBytes(codec, blocks)) + masksSize(stored)

\* (mutant) pairs within a supercluster are taken from both sides
oncePerPair_twice(symmetric, index, i, j) == TRUE

oncePerPair(symmetric, index, i, j) == ~symmetric \/ index # superclusterIndex(j) \/ i <= j

superclusterPlaces(index) == index * superclusterSize .. (index + 1) * superclusterSize - 1

\* contributions of pairs <<i, j, nb>> of places in i-clusters and clusters
placeContributions(s, symmetric, pairs) ==
    LET body(n)   == bodyOf(s.p, n)
        dist(e)   == distanceSq(s, TRUE, body(e[1]), body(e[2]))
        close(e, n) == dist(e) < s.rad[body(n)] * s.rad[body(n)]
    IN  {<<body(e[1]), body(e[2]), 2 * e[3]>> : e \in {e \in pairs : close(e, e[1])}}
            \cup {<<body(e[2]), body(e[1]), 2 * e[3] + 1>> : e \in {e \in pairs : symmetric /\ e[1] # e[2] /\ close(e, e[2])}}

\* i-clusters of the mask meet the particles of the cluster
clustersLoop(s, symmetric, list, masks, index) ==
    LET js(nb) == (list[nb] * jSize .. list[nb] * jSize + jSize - 1) \cap Valid(s.p)
        is(nb) == {i \in superclusterPlaces(index) \cap Valid(s.p) : (i % superclusterSize) \div iSize \in masks[nb]}
        pairs  == UNION {{<<i, j, nb>> : <<i, j>> \in {<<i, j>> \in is(nb) \X js(nb) : oncePerPair(symmetric, index, i, j)}} :
                         nb \in DOMAIN list}
    IN  {e \in placeContributions(s, symmetric, pairs) : e[1] \in Local(s.p)}

\* what a loop may add.  With the count of a list that was cut, it reads on
\* behind the data of the list, and meets any clusters with any masks
superclusterLoop(s, symmetric, codec, data, index) ==
    LET nbs      == 1 .. data.count
        clusters == 0 .. jClusterIndex(Max(Valid(s.p))) + 1
        list     == warpList(decompressed(codec, FALSE, data.blocks, data.count), data.count)
    IN  IF data.count = Len(data.masks) THEN {clustersLoop(s, symmetric, list, data.masks, index)}
        ELSE {clustersLoop(s, symmetric, read, masks, index) :
                  read \in [nbs -> clusters], masks \in [nbs -> SUBSET (0 .. iClustersPerSupercluster - 1)]}
=============================================================================
