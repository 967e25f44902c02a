--------------------------- MODULE ParticleGroups ---------------------------
(***************************************************************************)
(* Groups of consecutive particles that a warp searches for together.      *)
(* Fixed groups have as many particles as the warp has targets; spatial    *)
(* groups are fixed groups split where consecutive particles are far from  *)
(* each other.                                                             *)
(***************************************************************************)
EXTENDS NeighborSearch

\* groups as the array of their first particles, with the end of the last one
groupStart(groups, g) == groups[g]
groupEnd(groups, g)   == groups[g + 1]
numGroups(groups)     == size(groups) - 1

iceil(n, d) == (n + d - 1) \div d

computeFixedGroups(first, last, groupSize) ==
    LET n == iceil(last - first, groupSize)
    IN  [g \in 0 .. n |-> IF g = n THEN last ELSE first + g * groupSize]

\* of a fixed group, particle by particle; the last particle fills the group up
groupBody(first, last, groupSize, g, k) == Min({first + g * groupSize + k, last - 1})

\* smallest edge of the leaves of the particles in the first warp of the group,
\* twice as many half cells as the leaf's size
distCrit(p, first, last, groupSize, g) ==
    LET leafOf(body) == upper_bound(p.layout, 0, p.tree.numLeafNodes, body) - 1
        edge(lane)   == p.geo[p.tree.leafToInternal[leafOf(groupBody(first, last, groupSize, g, lane))]].size[1]
    IN  2 * 2 * warpMin(laneValues(edge))

\* the following particle; in the last lane of the group the particle itself
Xnext(X, nwt) == [k \in DOMAIN X |-> X[Min({k + 1, nwt * WarpSize - 1})]]

\* particles at the end of a part of the group
findSplits(s, body, nwt, crit) ==
    LET next == Xnext(body, nwt)
    IN  {k \in DOMAIN body :
            distanceSq(s, FALSE, next[k], body[k]) > Min({crit * crit, s.rad[body[k]] * s.rad[body[k]]})}

\* mask >>= length.  A warp whose only split is its last lane shifts by the
\* whole width, which the language leaves undefined; masks that can have it,
\* those of groups of several warps, are shifted by an instruction that gives 0
shiftedMask(mask, length) == {b - length : b \in {c \in mask : c >= length}}

\* lengths of the parts that end at the splits of a warp, and what remains
RECURSIVE readSegment(_, _, _, _)
readSegment(lengths, carry, mask, bitsRemaining) ==
    IF mask = {} THEN [lengths |-> lengths, carry |-> carry + bitsRemaining]
    ELSE LET length == Min(mask) + 1
         IN  readSegment(Append(lengths, length + carry), 0, shiftedMask(mask, length), bitsRemaining - length)

\* lengths of the parts of a group of nwt warps
makeSplits(splits, nwt) ==
    LET mask(k) == {b \in 0 .. WarpSize - 1 : k * WarpSize + b \in splits}
        parts   == foldl(LAMBDA t, k : readSegment(t.lengths, t.carry, mask(k), WarpSize),
                         [lengths |-> <<>>, carry |-> 0], indices(0, nwt))
        lengths == Append(parts.lengths, parts.carry)
    IN  [k \in 0 .. Len(lengths) - 1 |-> lengths[k + 1]]

\* (mutant) the last group ends where its parts do, past the last particle
lastGroupEnd_scanned(scan, last) == scan

\* the end of the last group is written over
lastGroupEnd(scan, last) == last

\* lengths of the parts of each fixed group
splitLengths(s, first, last, nwt) ==
    LET groupSize == nwt * WarpSize
        body(g)   == tabulated([k \in 0 .. groupSize - 1 |-> groupBody(first, last, groupSize, g, k)])
    IN  [g \in 0 .. iceil(last - first, groupSize) - 1 |->
            tabulated(makeSplits(findSplits(s, body(g), nwt, distCrit(s.p, first, last, groupSize, g)), nwt))]

\* parts of all groups one after the other
concatenated(lengths, offsets) ==
    LET fixedOf(k) == CHOOSE g \in DOMAIN lengths : offsets[g] <= k /\ k < offsets[g + 1]
    IN  [k \in 0 .. offsets[size(lengths)] - 1 |-> lengths[fixedOf(k)][k - offsets[fixedOf(k)]]]

groupsFrom(first, last, scan) ==
    [k \in DOMAIN scan |-> IF k = size(scan) - 1 THEN lastGroupEnd(first + scan[k], last) ELSE first + scan[k]]

splitGroups(first, last, lengths) ==
    LET offsets == exclusive_scan([g \in DOMAIN lengths |-> size(lengths[g])])
    IN  groupsFrom(first, last, exclusive_scan(tabulated(concatenated(lengths, offsets))))

computeGroupSplits(s, first, last, nwt) == splitGroups(first, last, tabulated(splitLengths(s, first, last, nwt)))
=============================================================================
