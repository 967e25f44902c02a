--------------------------- MODULE NeighborSearch ---------------------------
(***************************************************************************)
(* Search of the neighbors of particles in the octree: particle by         *)
(* particle on the host, by groups of particles on the GPU, where a warp   *)
(* walks the tree breadth first with the lanes testing one node each.      *)
(*                                                                         *)
(* A search problem has the leaves of a tree, the particles (bodies) in    *)
(* the order of their keys, their search radii 2h, and the range first ..  *)
(* last - 1 of particles to search for; the others are halos.  A particle  *)
(* is at one of the eight corners of half cells of its last-level cell:    *)
(* body = 8 * key + corner, so that coordinates are integers.              *)
(*                                                                         *)
(* Operators take the state s of the particles: problem p, coordinates x,  *)
(* search radii rad, and the factor ext[1] / ext[2] by which cells are     *)
(* searched in a larger radius, because particles have moved since the     *)
(* tree was built.                                                         *)
(***************************************************************************)
EXTENDS Traversal, WarpScan

CONSTANT MemPerWarp  \* nodes in the queue of a warp

ASSUME MemPerWarpAssumption == \E k \in 0 .. 16 : MemPerWarp = 2 ^ k

pos(body) ==
    LET corner(i) == ((body % 8) \div 2 ^ (3 - i)) % 2
    IN  vec(LAMBDA i : 2 * curve[body \div 8][i] + corner(i))

\* a problem with its octree, boxes of the nodes, first particle of each leaf,
\* and coordinates
problem(q) ==
    LET tree == buildOctree(q.leaves)
    IN  q @@ [tree   |-> tree,
              geo    |-> tabulated(nodeFpCenters(tree.prefixes)),
              layout |-> tabulated([l \in DOMAIN q.leaves |-> lower_bound(q.bodies, 0, size(q.bodies), 8 * q.leaves[l])]),
              coords |-> tabulated([i \in DOMAIN q.bodies |-> pos(q.bodies[i])])]

Body(p)     == DOMAIN p.bodies
Local(p)    == p.first .. p.last - 1
anyPbc(p)   == \E i \in Dim : p.pbc[i]
isLeaf(p, node) == p.tree.childOffsets[node] = 0

\* particles of a leaf node
firstBody(p, node) == p.layout[p.tree.internalToLeaf[node]]
lastBody(p, node)  == p.layout[p.tree.internalToLeaf[node] + 1]

(***************************************************************************)
(* Distances.  Lengths of boxes low .. high are multiplied by w.           *)
(***************************************************************************)
open == <<FALSE, FALSE, FALSE>>

boundary(p, usePbc) == IF usePbc THEN p.pbc ELSE open

distanceSq(s, usePbc, i, j) ==
    norm2(applyPbc(vec(LAMBDA d : s.x[i][d] - s.x[j][d]), boundary(s.p, usePbc), 1))

insideBox(low, high, w) == \A i \in Dim : low[i] >= 0 /\ high[i] <= w * boxLength

\* whether a search around particle i may reach over a periodic boundary
needsPbc(s, i, radius, w) ==
    anyPbc(s.p) /\ ~insideBox(vec(LAMBDA d : w * s.x[i][d] - radius), vec(LAMBDA d : w * s.x[i][d] + radius), w)

\* two boxes touch
boxesOverlap(a, b, pbc, w) ==
    LET dX == absv(applyPbc(vec(LAMBDA i : a.low[i] + a.high[i] - b.low[i] - b.high[i]), pbc, 2 * w))
    IN  \A i \in Dim : dX[i] - (a.high[i] - a.low[i]) - (b.high[i] - b.low[i]) <= 0

\* a node and a box touch
cellOverlap(geo, box, pbc, w) ==
    boxesOverlap([low  |-> vec(LAMBDA i : w * (geo.center[i] - geo.size[i])),
                  high |-> vec(LAMBDA i : w * (geo.center[i] + geo.size[i]))], box, pbc, w)

(***************************************************************************)
(* Depth-first walk without a stack, one node after the other              *)
(***************************************************************************)
\* op applied to state n * n times
iterate(op(_), state, n) ==
    LET inner(s, k) == op(s)
        outer(s, k) == foldl(inner, s, [i \in 1 .. n |-> i])
    IN  foldl(outer, state, [i \in 1 .. n |-> i])

\* the next node after the subtree of node: its sibling, or that of an ancestor
backtrack(tree, node) ==
    LET last(k)  == (k - 1) % 8 = 7
        parentOf(k) == IF k # 0 /\ last(k) THEN tree.parents[(k - 1) \div 8] ELSE k
        level(k, l)  == parentOf(k)
        top == foldl(level, node, [i \in 1 .. MaxLevel |-> i])
    IN  IF top = 0 THEN 0 ELSE top + 1

\* leaves that satisfy the criterion, in the order they are found
depthFirst(tree, continuation(_)) ==
    LET leaf(k)  == tree.childOffsets[k] = 0
        step(s)  ==
            IF s.done THEN s
            ELSE LET go    == continuation(s.node)
                     found == IF go /\ leaf(s.node) THEN Append(s.found, s.node) ELSE s.found
                     next  == IF go /\ ~leaf(s.node) THEN tree.childOffsets[s.node] ELSE backtrack(tree, s.node)
                 IN  [node |-> next, found |-> found, done |-> next = 0]
        n == tree.numNodes
        root == CHOOSE r \in 1 .. n : r * r >= n /\ (r - 1) * (r - 1) < n
    IN  IF leaf(0) THEN (IF continuation(0) THEN <<0>> ELSE <<>>)
        ELSE iterate(step, [node |-> 0, found |-> <<>>, done |-> ~continuation(0)], root).found

\* first .. last - 1, as a sequence
indices(first, last) == [k \in 1 .. last - first |-> first + k - 1]

\* a node within the extended radius of particle i
reaches(s, usePbc, i, k) ==
    norm2(minDistance(s.x[i], s.p.geo[k], boundary(s.p, usePbc), 1)) * s.ext[2] * s.ext[2]
        < s.rad[i] * s.rad[i] * s.ext[1] * s.ext[1]

\* neighbors of particle i in the order they are found; the caller's buffer
\* takes the first ngmax of them, the number returned counts them all
findNeighbors(s, i) ==
    LET usePbc == needsPbc(s, i, s.rad[i], 1)
        overlaps(k)   == reaches(s, usePbc, i, k)
        isNeighbor(j) == j # i /\ distanceSq(s, usePbc, j, i) < s.rad[i] * s.rad[i]
        searchBox(found, k) == found \o SelectSeq(indices(firstBody(s.p, k), lastBody(s.p, k)), isNeighbor)
    IN  foldl(searchBox, <<>>, depthFirst(s.p.tree, overlaps))

\* what a buffer of n entries holds
firstOf(seq, n) == SubSeq(seq, 1, Min({n, Len(seq)}))

(***************************************************************************)
(* Breadth-first walk of a warp.  The queue holds first nodes of sets of   *)
(* eight siblings, numSources of them of the current level from position   *)
(* oldSources on, and newSources of the next level behind.  Particles      *)
(* found in leaves wait in bodyQueue until they fill the warp; bodies is   *)
(* the sequence of particles that have been handed to all lanes.           *)
(***************************************************************************)
ringAddr(i) == i % MemPerWarp

initialQueue ==
    [cellQueue |-> [k \in 0 .. MemPerWarp - 1 |-> IF k = 0 THEN 1 ELSE 0],
     numSources |-> 1, newSources |-> 0, oldSources |-> 0, sourceOffset |-> 0,
     bodyQueue |-> [lane \in Lane |-> 0], fill |-> 0, bodies |-> <<>>,
     p2pCounter |-> 0, maxStack |-> 0, exhausted |-> FALSE]

\* the nodes of the lanes, -1 where the current level has no more
sources(q) ==
    LET queued == laneValues(LAMBDA lane :
                      IF lane < WarpSize \div 8 THEN q.cellQueue[ringAddr(q.oldSources + q.sourceOffset + lane)] ELSE 0)
        spread == spreadSeg8(queued)
    IN  laneValues(LAMBDA lane : IF q.sourceOffset + lane \div 8 < q.numSources THEN spread[lane] ELSE -1)

childIdx(q, numChildLane) == q.oldSources + q.numSources + q.newSources + numChildLane

\* children of the nodes to split go to the queue; exhausted when they do not fit
queueChildren(q, isSplit, childBegin) ==
    LET numChild == exclusiveScanBool(isSplit)
        written(k) == {lane \in ballotSync(isSplit) : ringAddr(childIdx(q, numChild[lane])) = k}
        offset   == q.sourceOffset + Min({WarpSize \div 8, q.numSources - q.sourceOffset})
        new      == q.newSources + reduceBool(isSplit)
        used     == new + q.numSources - offset
    IN  [q EXCEPT !.cellQueue = tabulated([k \in DOMAIN q.cellQueue |->
                                   IF written(k) = {} THEN q.cellQueue[k] ELSE childBegin[Max(written(k))]]),
                  !.sourceOffset = offset,
                  !.newSources = new,
                  !.maxStack = Max({used, q.maxStack}),
                  !.exhausted = used > MemPerWarp]

\* the next level begins when all sources of this one are done
nextLevel(q) ==
    IF q.sourceOffset < q.numSources THEN q
    ELSE [q EXCEPT !.oldSources = q.oldSources + q.numSources, !.numSources = q.newSources,
                   !.sourceOffset = 0, !.newSources = 0]

\* values of the first n lanes, in their order
firstLanes(value, n) == [k \in 1 .. n |-> value[k - 1]]

handOut(q, value, n) ==
    [q EXCEPT !.bodies = q.bodies \o firstLanes(value, n), !.p2pCounter = q.p2pCounter + n]

\* (mutant) the particles that do not fit are taken from the first lanes
spill_unshifted(bodyIdx, numBodiesWarp, fill) == bodyIdx

\* the particles that did not fit, after fill of them remain
spill(bodyIdx, numBodiesWarp, fill) == shflDownSync(bodyIdx, numBodiesWarp - fill)

\* indices of the particles of all lanes' leaves, a warp at a time: a whole warp
\* is handed out at once, the remainder goes through bodyQueue.  b has the scan
\* b.lane of the numbers of particles, b.warp of which are left
queueBodies(q, first, b) ==
    LET starts  == {lane \in b.todo : b.lane[lane] < WarpSize}
        temp    == laneValues(LAMBDA l : IF \E lane \in starts : b.lane[lane] = l
                                         THEN -1 - first[CHOOSE lane \in starts : b.lane[lane] = l] ELSE 1)
        bodyIdx == inclusiveSegscanInt(temp, b.prev)
        topUp   == shflUpSync(bodyIdx, q.fill)
        queue   == laneValues(LAMBDA lane : IF lane < q.fill THEN q.bodyQueue[lane] ELSE topUp[lane])
        fill    == q.fill + b.warp
    IN  IF b.warp >= WarpSize
        THEN [q |-> handOut(q, bodyIdx, WarpSize),
              b |-> [lane |-> laneValues(LAMBDA lane : b.lane[lane] - WarpSize), warp |-> b.warp - WarpSize,
                     todo |-> b.todo \ starts, prev |-> shflSync(bodyIdx, WarpSize - 1)]]
        ELSE [q |-> IF fill < WarpSize THEN [q EXCEPT !.bodyQueue = queue, !.fill = fill]
                    ELSE [handOut(q, queue, WarpSize) EXCEPT
                              !.bodyQueue = spill(bodyIdx, b.warp, fill - WarpSize), !.fill = fill - WarpSize],
              b |-> [b EXCEPT !.warp = 0]]

directBodies(q, first, numBodies) ==
    LET scan  == inclusiveScanInt(numBodies)
        start == [q |-> q,
                  b |-> [lane |-> laneValues(LAMBDA lane : scan[lane] - numBodies[lane]),
                         warp |-> shflSync(scan, WarpSize - 1),
                         todo |-> {lane \in Lane : numBodies[lane] # 0}, prev |-> 0]]
        step(s, k) == IF s.b.warp > 0 THEN queueBodies(s.q, first, s.b) ELSE s
    IN  foldl(step, start, [k \in 1 .. start.b.warp \div WarpSize + 1 |-> k]).q

\* particles left in the queue at the end of the walk
leftOver(q) == IF q.fill > 0 THEN handOut(q, q.bodyQueue, q.fill) ELSE q

\* nodes to split and leaves to search, among the nodes source of the lanes
followSources(p, q, source, isSplit, isDirect) ==
    LET child    == laneValues(LAMBDA lane : IF isSplit[lane] THEN p.tree.childOffsets[source[lane]] ELSE 0)
        first    == laneValues(LAMBDA lane : IF isDirect[lane] THEN firstBody(p, source[lane]) ELSE 0)
        number   == laneValues(LAMBDA lane : IF isDirect[lane] THEN lastBody(p, source[lane]) - first[lane] ELSE 0)
        queued   == queueChildren(q, isSplit, child)
    IN  IF queued.exhausted THEN queued ELSE nextLevel(directBodies(queued, first, number))

\* one set of sources: isClose says which nodes cannot be left out
traverseSources(p, q, source, isClose(_)) ==
    LET isSource == laneValues(LAMBDA lane : source[lane] # -1 /\ isClose(source[lane]))
    IN  followSources(p, q, source, laneValues(LAMBDA lane : isSource[lane] /\ ~isLeaf(p, source[lane])),
                      laneValues(LAMBDA lane : isSource[lane] /\ isLeaf(p, source[lane])))

traverseWarp(p, isClose(_)) ==
    LET step(q, k) == IF q.numSources = 0 \/ q.exhausted THEN q ELSE traverseSources(p, q, sources(q), isClose)
        q == foldl(step, initialQueue, [k \in 1 .. p.tree.numInternal |-> k])
    IN  IF q.exhausted THEN q ELSE leftOver(q)

(***************************************************************************)
(* Search for the particles begin .. end - 1 of a group                    *)
(***************************************************************************)
\* the last particle is repeated in lanes without one
targetOf(begin, end, lane) == Min({begin + lane, end - 1})

warpBbox(s, begin, end) ==
    LET at(lane) == targetOf(begin, end, lane)
    IN  [low  |-> vec(LAMBDA d : warpMin(laneValues(LAMBDA lane : s.x[at(lane)][d] - s.rad[at(lane)]))),
         high |-> vec(LAMBDA d : warpMax(laneValues(LAMBDA lane : s.x[at(lane)][d] + s.rad[at(lane)])))]

\* grown by the search extension about its center; multiplied by 2 * ext[2]
extended(box, ext) ==
    [low  |-> vec(LAMBDA i : ext[2] * (box.low[i] + box.high[i]) - ext[1] * (box.high[i] - box.low[i])),
     high |-> vec(LAMBDA i : ext[2] * (box.low[i] + box.high[i]) + ext[1] * (box.high[i] - box.low[i]))]

\* the walk through the nodes that touch the box
boxWalk(p, box, w) ==
    LET usePbc == anyPbc(p) /\ ~insideBox(box.low, box.high, w)
        isClose(k) == cellOverlap(p.geo[k], box, boundary(p, usePbc), w)
    IN  [walk |-> traverseWarp(p, isClose), usePbc |-> usePbc]

\* the walk of the group, and whether distances are periodic
walkOf(s, begin, end) ==
    boxWalk(s.p, extended(warpBbox(s, begin, end), s.ext), 2 * s.ext[2])

\* neighbors of particle i of a group, among the particles of its walk; unlike
\* on the host, a particle in the same place is none
traverseNeighbors(s, w, i) ==
    LET isNeighbor(j) == LET d2 == distanceSq(s, w.usePbc, j, i) IN d2 < s.rad[i] * s.rad[i] /\ d2 > 0
    IN  SelectSeq(w.walk.bodies, isNeighbor)
=============================================================================
