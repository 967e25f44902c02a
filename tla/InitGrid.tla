------------------------------ MODULE InitGrid ------------------------------
(***************************************************************************)
(* Placement of the particles of an initial condition: regular and         *)
(* face-centered grids cut into index ranges, a template block of          *)
(* particles stacked over a box and cut along the space-filling curve, and *)
(* the redistribution along the curve that follows.                        *)
(*                                                                         *)
(* Lengths are integers.  A box is [lo, len]; coordinates of the template  *)
(* block are in units of 1 / BlockUnits of its edge.                       *)
(***************************************************************************)
EXTENDS SpaceFillingCurve

CONSTANT LeavesPerRank \* global leaves per rank when the box is first divided, 100 in the code

BlockUnits == 8

Dim == 1 .. 3

vec(f(_))     == <<f(1), f(2), f(3)>>
volume(sides) == sides[1] * sides[2] * sides[3]

\* first and last index of segment i of N of a range of length R
partitionRange(R, i, N) ==
    LET s == R \div N
        r == R % N
        start == (s + 1) * Min({i, r}) + s * Max({0, i - r})
    IN  <<start, start + s + (IF i < r THEN 1 ELSE 0)>>

equiDistantSfcSegments(rank, numRanks) ==
    LET level == log8ceil(LeavesPerRank * numRanks)
        delta == nodeRange(0) \div numRanks
        split(i) == IF i = numRanks THEN nodeRange(0) ELSE enclosingBoxCode(i * delta, level)
    IN  <<split(rank), split(rank + 1)>>

(***************************************************************************)
(* Grids: the points with index first .. last - 1                          *)
(***************************************************************************)
gridPoint(box, side, i) ==
    LET idx == <<i % side[1], (i \div side[1]) % side[2], i \div (side[1] * side[2])>>
    IN  vec(LAMBDA d : box.lo[d] + (box.len[d] * (2 * idx[d] + 1)) \div (2 * side[d]))

regularGrid(box, side, first, last) == [i \in 1 .. last - first |-> gridPoint(box, side, first + i - 1)]

\* the overload for a cube of edge 2 * r around the origin
regularGridCube(r, side, first, last) ==
    regularGrid([lo |-> <<-r, -r, -r>>, len |-> <<2 * r, 2 * r, 2 * r>>], <<side, side, side>>, first, last)

fccBasis == <<<<1, 1, 1>>, <<1, 3, 3>>, <<3, 1, 3>>, <<3, 3, 1>>>>

fccGrid(box, cells, first, last) ==
    LET point(p) ==
            LET c == p \div 4
                idx == <<c % cells[1], (c \div cells[1]) % cells[2], c \div (cells[1] * cells[2])>>
            IN  vec(LAMBDA d : box.lo[d] + (box.len[d] * (4 * idx[d] + fccBasis[1 + (p % 4)][d])) \div (4 * cells[d]))
    IN  [i \in 1 .. last - first |-> point(first + i - 1)]

(***************************************************************************)
(* Stacking of the template block                                          *)
(***************************************************************************)
\* integer coordinates of the node [keyStart:keyEnd)
cellBoxAt(cell, edge) ==
    [low |-> vec(LAMBDA d : cell[d] - (cell[d] % edge)), high |-> vec(LAMBDA d : cell[d] - (cell[d] % edge) + edge)]

cellBox(keyStart, keyEnd) == cellBoxAt(decodeHilbert(keyStart), maxCoord \div 2 ^ treeLevel(keyEnd - keyStart))

\* its corners in the coordinates of a box
createFpBox(ibox, box) ==
    [low  |-> vec(LAMBDA d : box.lo[d] + (ibox.low[d] * box.len[d]) \div maxCoord),
     high |-> vec(LAMBDA d : box.lo[d] + (ibox.high[d] * box.len[d]) \div maxCoord)]

\* (mutant) the last copy that reaches into the node is left out
gridIntersection_floor(ibox, m) ==
    [lower |-> vec(LAMBDA d : (ibox.low[d] * m[d]) \div maxCoord),
     upper |-> vec(LAMBDA d : Max({1, (ibox.high[d] * m[d]) \div maxCoord}))]

\* copies of the block that a node overlaps, lower <= copy < upper
gridIntersection(ibox, m) ==
    [lower |-> vec(LAMBDA d : (ibox.low[d] * m[d]) \div maxCoord),
     upper |-> vec(LAMBDA d : (ibox.high[d] * m[d] + maxCoord - 1) \div maxCoord)]

scaleBlockToGlobal(u, gridIdx, m, box) ==
    vec(LAMBDA d : box.lo[d] + ((gridIdx[d] * BlockUnits + u[d]) * box.len[d]) \div (BlockUnits * m[d]))

\* countSelection counts these particles, extractBlock stores them
inBox(selectBox, x) == \A d \in Dim : selectBox.low[d] <= x[d] /\ x[d] < selectBox.high[d]

extractBlock(selectBox, box, gridIdx, m, block) ==
    SelectSeq([i \in 1 .. Len(block) |-> scaleBlockToGlobal(block[i], gridIdx, m, box)],
              LAMBDA x : inBox(selectBox, x))

\* one task per copy of the block that a node of the range overlaps, in the order ix, iy, iz
tasks(g, n) ==
    [t \in 1 .. volume(n) |->
        <<g.lower[1] + (t - 1) \div (n[2] * n[3]), g.lower[2] + (((t - 1) \div n[3]) % n[2]),
          g.lower[3] + ((t - 1) % n[3])>>]

nodeTasks(ibox, m) ==
    LET g == gridIntersection(ibox, m) IN tasks(g, vec(LAMBDA d : g.upper[d] - g.lower[d]))

validBlock(block) == \A i \in 1 .. Len(block) : \A d \in Dim : block[i][d] \in 0 .. BlockUnits - 1

\* the particles x, and those of the copies of the block that a node overlaps
addNode(x, ibox, box, m, block) ==
    LET addTask(y, idx) == y \o extractBlock(createFpBox(ibox, box), box, idx, m, block)
    IN  foldl(addTask, x, nodeTasks(ibox, m))

assembleNodes(cells, box, m, block) ==
    foldl(LAMBDA x, c : addNode(x, cellBox(cells[c], cells[c + 1]), box, m, block), <<>>,
          [c \in 1 .. Len(cells) - 1 |-> c])

assembleCuboid(keys, box, m, block) == assembleNodes(spanSfcRange(keys[1], keys[2]) \o <<keys[2]>>, box, m, block)

(***************************************************************************)
(* Selection of particles                                                  *)
(***************************************************************************)
norm2(x) == x[1] * x[1] + x[2] * x[2] + x[3] * x[3]

selectParticles(x, crit(_)) == SelectSeq(x, crit)

cutSphere(radius, x) == selectParticles(x, LAMBDA p : norm2(p) <= radius * radius)

(***************************************************************************)
(* Redistribution: the key of a position, and syncCoords, after which the  *)
(* particles of all ranks are ordered along the curve and every rank has   *)
(* an interval of keys with its share of the particles.  x[r] are the      *)
(* positions on rank r; the tree that finds the intervals is the subject   *)
(* of GlobalTree, here every key is a leaf.                                *)
(***************************************************************************)
sfc3D(x, box) ==
    LET cell == vec(LAMBDA d : Max({0, Min({maxCoord - 1, ((x[d] - box.lo[d]) * maxCoord) \div box.len[d]})}))
    IN  iHilbert(cell[1], cell[2], cell[3])

keysOf(x, box) == tabulated([i \in DOMAIN x |-> sfc3D(x[i], box)])

\* positions in the order of the curve, the ones with the same key in the order they came in
sfcOrder(keys) ==
    SortSeq([i \in 1 .. Len(keys) |-> i], LAMBDA i, j : keys[i] < keys[j] \/ (keys[i] = keys[j] /\ i < j))

\* sortBySfcKey of the template block
sortBySfcKey(block) ==
    LET box  == [lo |-> <<0, 0, 0>>, len |-> <<BlockUnits, BlockUnits, BlockUnits>>]
        order == sfcOrder(keysOf(block, box))
    IN  [i \in 1 .. Len(block) |-> block[order[i]]]

distributed(sorted, keys, order, numRanks) ==
    LET n == Len(sorted)
        \* particles in front of the key of the i-th sorted one
        before(i) == Cardinality({j \in 1 .. n : keys[j] < keys[order[i]]})
        rankOf(i) == Cardinality({r \in 1 .. numRanks - 1 : before(i) >= (r * n) \div numRanks})
        mine(r)   == {i \in 1 .. n : rankOf(i) = r}
    IN  [r \in 0 .. numRanks - 1 |->
            IF mine(r) = {} THEN <<>> ELSE SubSeq(sorted, Min(mine(r)), Max(mine(r)))]

redistributed(all, keys, numRanks) ==
    LET order == sfcOrder(keys) IN distributed([i \in 1 .. Len(all) |-> all[order[i]]], keys, order, numRanks)

ordered(all, numRanks, box) == redistributed(all, keysOf(all, box), numRanks)

syncCoords(x, box) ==
    LET numRanks == Cardinality(DOMAIN x)
    IN  ordered(foldl(LAMBDA s, r : s \o x[r], <<>>, [r \in 1 .. numRanks |-> r - 1]), numRanks, box)
=============================================================================
