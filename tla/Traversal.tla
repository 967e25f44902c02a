----------------------------- MODULE Traversal -----------------------------
(***************************************************************************)
(* Geometry of octree nodes, traversal of the octree, and the two searches *)
(* built on it: nodes too close to be approximated (multipole acceptance   *)
(* criterion, MAC) and halo leaves.                                        *)
(*                                                                         *)
(* The bounding box is a cube.  Integer coordinates of cells of the last   *)
(* level are 0 .. maxCoord - 1; lengths are in halves of such a cell, so   *)
(* that centers are integers too.  pbc[i] says that dimension i is         *)
(* periodic.                                                               *)
(***************************************************************************)
EXTENDS DomainDecomp

Dim == 1 .. 3

vec(f(_)) == <<f(1), f(2), f(3)>>
absv(v)   == vec(LAMBDA i : IF v[i] < 0 THEN -v[i] ELSE v[i])
norm2(v)  == v[1] * v[1] + v[2] * v[2] + v[3] * v[3]

boxLength == 2 * maxCoord

(***************************************************************************)
(* Boxes of keys                                                           *)
(***************************************************************************)
\* values of iSfcKey and decodeSfc, in tables
curve == [key \in Key |-> decodeHilbert(key)]

iSfcKey(cell) == iHilbert(cell[1], cell[2], cell[3])

\* the cube of a grid with this spacing that a cell is in
cubeAround(cell, cubeLength) ==
    [low  |-> vec(LAMBDA i : cell[i] - (cell[i] % cubeLength)),
     high |-> vec(LAMBDA i : cell[i] - (cell[i] % cubeLength) + cubeLength)]

hilbertIBox(keyStart, level) == cubeAround(curve[keyStart], maxCoord \div 2 ^ level)

mortonIBox(keyStart, level) ==
    LET low == decodeMorton(keyStart)
    IN  [low |-> low, high |-> vec(LAMBDA i : low[i] + maxCoord \div 2 ^ level)]

sfcIBox(keyStart, keyEnd) == hilbertIBox(keyStart, treeLevel(keyEnd - keyStart))

\* center and half the edge
centerAndSize(ibox) ==
    [center |-> vec(LAMBDA i : ibox.low[i] + ibox.high[i]), size |-> vec(LAMBDA i : ibox.high[i] - ibox.low[i])]

nodeFpCenters(prefixes) ==
    [k \in DOMAIN prefixes |->
        LET r == decodePlaceholderBit2K(prefixes[k]) IN centerAndSize(sfcIBox(r[1], r[2]))]

\* a coordinate of 0 .. boxLength, the upper end belongs to the last cell
sfc3D(x) == iSfcKey(vec(LAMBDA i : Min({x[i] \div 2, maxCoord - 1})))

\* n / d rounded to the nearest integer, to the even one in between
rint(n, d) ==
    LET q == n \div d
        r == 2 * (n % d)
    IN  IF r < d \/ (r = d /\ q % 2 = 0) THEN q ELSE q + 1

\* closest periodic image of a difference; lengths are multiplied by w
applyPbc(dX, pbc, w) ==
    vec(LAMBDA i : IF pbc[i] THEN dX[i] - boxLength * w * rint(dX[i], boxLength * w) ELSE dX[i])

overlapTwoRanges(a, b, c, d) == b > c /\ d > a

\* (mutant) compares the differences of the centers in the box as it is
overlap_open(node, box, pbc) ==
    \A i \in Dim : overlapTwoRanges(node.center[i] - node.size[i], node.center[i] + node.size[i], box.low[i], box.high[i])

\* of a node and a box low .. high, whose center and size are multiplied by 2
overlap(node, box, pbc) ==
    LET dX == absv(applyPbc(vec(LAMBDA i : box.low[i] + box.high[i] - 2 * node.center[i]), pbc, 2))
    IN  \A i \in Dim : dX[i] - 2 * node.size[i] - (box.high[i] - box.low[i]) < 0

\* distance from a point to a box, 0 inside; all multiplied by w
minDistance(x, box, pbc, w) ==
    LET dX == absv(applyPbc(vec(LAMBDA i : w * box.center[i] - x[i]), pbc, w))
    IN  vec(LAMBDA i : Max({0, dX[i] - w * box.size[i]}))

\* three meanings of containedIn: of keys, of an integer box and of a box in space
containedInKeys(nodeStart, nodeEnd, codeStart, codeEnd) == nodeStart >= codeStart /\ nodeEnd <= codeEnd

envelopeIn(codeStart, codeEnd, lowCode, highCode) ==
    LET envelope == smallestCommonBox(lowCode, highCode)
    IN  envelope[1] >= codeStart /\ envelope[2] <= codeEnd

\* boxes that reach over a border are in the range of the whole tree only
wholeBox(codeStart, codeEnd) == codeStart = 0 /\ codeEnd = nodeRange(0)

containedInIBox(codeStart, codeEnd, ibox) ==
    IF \E i \in Dim : ibox.low[i] < 0 \/ ibox.high[i] > maxCoord THEN wholeBox(codeStart, codeEnd)
    ELSE envelopeIn(codeStart, codeEnd, iSfcKey(ibox.low), iSfcKey(vec(LAMBDA i : ibox.high[i] - 1)))

containedInBox(codeStart, codeEnd, box) ==
    IF \E i \in Dim : box.low[i] < 0 \/ box.high[i] > boxLength THEN wholeBox(codeStart, codeEnd)
    ELSE envelopeIn(codeStart, codeEnd, sfc3D(box.low), sfc3D(vec(LAMBDA i : box.high[i] + 2)))

(***************************************************************************)
(* Traversal: nodes that satisfy a criterion, and all nodes above do       *)
(***************************************************************************)
singleTraversal(tree, continuation(_)) ==
    LET down(s, level) ==
            s \cup {k \in tree.levelRange[level] .. tree.levelRange[level + 1] - 1 :
                       parent(tree, k) \in s /\ continuation(k)}
    IN  foldl(down, IF continuation(0) THEN {0} ELSE {}, [i \in 1 .. MaxLevel |-> i])

(***************************************************************************)
(* Multipole acceptance.  A center is a point x / w; its criterion is the  *)
(* distance (a + sqrt(s2)) / w from it.                                    *)
(***************************************************************************)
\* invTheta is the fraction p / q
computeMinMacR2(geo, p, q) ==
    [x |-> vec(LAMBDA i : q * geo.center[i]), w |-> q, a |-> 2 * geo.size[1] * p, s2 |-> 0]

\* with the center of mass c.x / c.w: nodes without mass have no criterion
computeVecMacR2(geo, c, p, q) ==
    [x |-> vec(LAMBDA i : q * c.x[i]), w |-> q * c.w, a |-> 2 * geo.size[1] * p * c.w,
     s2 |-> norm2(vec(LAMBDA i : q * (c.x[i] - c.w * geo.center[i])))]

evaluateMacPbc(c, target, pbc) ==
    LET d == norm2(minDistance(c.x, target, pbc, c.w)) - c.a * c.a - c.s2
    IN  c.w # 0 /\ (d < 0 \/ d * d < 4 * c.a * c.a * c.s2)

markMacPerBox(tree, centers, target, maxSourceLevel, focusStart, focusEnd, pbc) ==
    LET violatesMac(k) ==
            LET r == decodePlaceholderBit2K(tree.prefixes[k])
            IN  /\ ~containedInKeys(r[1], r[2], focusStart, focusEnd)
                /\ evaluateMacPbc(centers[k], target, pbc)
                /\ prefixLevel(tree.prefixes[k]) <= maxSourceLevel
    IN  singleTraversal(tree, violatesMac)

\* one more cell on all sides
grow(ibox) == [low |-> vec(LAMBDA i : ibox.low[i] - 1), high |-> vec(LAMBDA i : ibox.high[i] + 1)]

\* set of nodes marked from the leaves first .. last - 1
markMacs(tree, leaves, centers, first, last, limitSource, pbc) ==
    LET target(i) == sfcIBox(leaves[i], leaves[i + 1])
        maxLevel(i) == IF limitSource THEN Max({0, treeLevel(leaves[i + 1] - leaves[i]) - 1}) ELSE MaxLevel
    IN  UNION {markMacPerBox(tree, centers, centerAndSize(target(i)), maxLevel(i), leaves[first], leaves[last], pbc) :
               i \in {j \in first .. last - 1 : ~containedInIBox(leaves[first], leaves[last], grow(target(j)))}}

(***************************************************************************)
(* Halos                                                                   *)
(***************************************************************************)
\* box around spheres and a point
computeBoundingBox(points, radii, init) ==
    LET low(i)  == Min({init[i]} \cup {points[p][i] - radii[p] : p \in DOMAIN points})
        high(i) == Max({init[i]} \cup {points[p][i] + radii[p] : p \in DOMAIN points})
    IN  [low |-> vec(low), high |-> vec(high)]

findCollisions(tree, geo, search, excludeStart, excludeEnd, pbc) ==
    LET overlaps(k) ==
            LET r == decodePlaceholderBit2K(tree.prefixes[k])
            IN  ~containedInKeys(r[1], r[2], excludeStart, excludeEnd) /\ overlap(geo[k], search, pbc)
    IN  singleTraversal(tree, overlaps)

findHalos(tree, leaves, geo, searchBoxes, first, last, pbc) ==
    UNION {findCollisions(tree, geo, searchBoxes[i], leaves[first], leaves[last], pbc) :
           i \in {j \in first .. last - 1 : ~containedInBox(leaves[first], leaves[last], searchBoxes[j])}}
=============================================================================
