--------------------------- MODULE ParticleLoops ---------------------------
(***************************************************************************)
(* The neighbor search of a time step: groups of particles are formed,     *)
(* smoothing lengths are iterated until the number of neighbors is right,  *)
(* a neighborhood is built and loops over pairs of particles run on it.    *)
(* With block time steps particles then drift, and the groups that are due *)
(* are searched again and looped over on a part of the neighborhood that   *)
(* was built before the drift.                                             *)
(*                                                                         *)
(* On the GPU, warps take groups from a counter; each step of a warp that  *)
(* touches memory it shares with other warps is an action.                 *)
(***************************************************************************)
EXTENDS NeighborLists

CONSTANTS
    Problems,        \* sequence of search problems
    Configurations,  \* what is run: problem p, kind of neighborhood, codec,
                     \* sub: neighborhoods are used for parts of the groups
    Warps,           \* warps that run at the same time
    SearchExt        \* factor of the search radius of cells after the drift

VARIABLES
    conf,      \* the configuration
    s,         \* particles: problem p, coordinates x, radii rad, extension ext
    host,      \* what the host does next
    drifted,   \* the particles have drifted since the full step
    groups,    \* first particles of the groups
    active,    \* groups to search for
    counter,   \* groups taken by warps
    warp,      \* what each warp does
    stats,     \* statistics of the tree walks
    nc,        \* numbers of neighbors, with the particle itself
    nbh,       \* the neighborhood
    build,     \* shared words of the build: data size and status
    pending,   \* lists the loop has not used yet
    out,       \* results of the loop: particles added
    twice,     \* something has been added twice
    posted,    \* particles whose result has been completed
    removed    \* particles with a key that says so

loopVars == <<pending, out, twice, posted, removed>>
vars == <<conf, s, host, drifted, groups, active, counter, warp, stats, nc, nbh, build, loopVars>>

(***************************************************************************)
(* The parts of a configuration                                            *)
(***************************************************************************)
cpu       == conf.kind \in {"cpuTraverse", "cpuFull"}
traverses == conf.kind \in {"cpuTraverse", "traverse"}
symmetric == conf.kind = "compressedHalf" \/ (conf.kind = "clustered" /\ ~conf.sub)
compressed == conf.kind \in {"compressedFull", "compressedHalf"}
clustered == conf.kind = "clustered"
ngmax     == s.p.ngmax
ncmax     == 3 * ngmax

\* groups that are searched for, in their order
target(g)   == CHOOSE a \in active : Cardinality({b \in active : b < a}) = g
bodiesOf(a) == groupStart(groups, a) .. groupEnd(groups, a) - 1
targets     == UNION {bodiesOf(a) : a \in active}

\* the work of the build and of the loops over clusters and compressed lists
numLists == IF clustered THEN lastISupercluster(s.p) - firstISupercluster(s.p) ELSE numBlocks(s.p)

idle == [at |-> "fetch"]
resetTraversalCounters == counter' = 0 /\ warp' = [w \in Warps |-> idle]
allDone == \A w \in Warps : warp[w].at = "done"

noStats == [maxP2P |-> 0, maxStack |-> 0]
noBuild == [size |-> 0, status |-> "success", maxNeighbors |-> 0]
noNeighborhood == [lists |-> <<>>, ext |-> <<1, 1>>, warned |-> FALSE]

Init ==
    \E c \in Configurations : \E p \in {problem(Problems[c.p])} :
        /\ conf = c
        /\ s = [p |-> p, x |-> p.coords, rad |-> p.rad, ext |-> <<1, 1>>]
        /\ host = "groups"
        /\ drifted = FALSE
        /\ groups = <<>>
        /\ active = {}
        /\ counter = 0
        /\ warp = [w \in Warps |-> idle]
        /\ stats = noStats
        /\ nc = [i \in Local(p) |-> 0]
        /\ nbh = noNeighborhood
        /\ build = noBuild
        /\ pending = {}
        /\ out = [i \in Local(p) |-> {}]
        /\ twice = FALSE
        /\ posted = {}
        /\ removed = {}

\* one group with all particles on the host
computeGroups ==
    /\ host = "groups"
    /\ groups' = IF cpu THEN computeFixedGroups(s.p.first, s.p.last,
                                                s.p.last - s.p.first)
                 ELSE tabulated(computeGroupSplits(s, s.p.first, s.p.last, 1))
    /\ active' = 0 .. numGroups(groups') - 1
    /\ host' = "iterate"
    /\ resetTraversalCounters
    /\ stats' = noStats
    /\ UNCHANGED <<conf, s, drifted, nc, nbh, build, loopVars>>

(***************************************************************************)
(* Smoothing lengths.  updateH moves the radius by one unit towards the    *)
(* wanted number of neighbors.                                             *)
(***************************************************************************)
updateH(ng0, ncSph, radius) ==
    IF ncSph < ng0 THEN radius + 1 ELSE IF ncSph > ng0 THEN Max({1, radius - 1}) ELSE radius

\* the number of neighbors is out of range
unconverged(ncSph) == s.p.ng0 \div 4 > ncSph \/ ncSph - 1 > ngmax

maxIteration   == 10
ncMaxIteration == 9

withRadius(i, radius) == [s EXCEPT !.rad[i] = radius]

\* the radius and the count of a particle on the host; the loop counts one
\* iteration more than it makes when it gives up
updateSmoothingLengthCpu(i) ==
    LET count(radius) == 1 + Len(findNeighbors(withRadius(i, radius), i))
        start == [rad |-> s.rad[i], nc |-> count(s.rad[i]), iteration |-> 0, done |-> FALSE]
        step(t, k) ==
            IF t.done \/ ~unconverged(t.nc) THEN [t EXCEPT !.done = TRUE]
            ELSE IF t.iteration >= maxIteration THEN [t EXCEPT !.iteration = t.iteration + 1, !.done = TRUE]
            ELSE LET r == updateH(s.p.ng0, t.nc, t.rad)
                 IN  [t EXCEPT !.rad = r, !.nc = count(r), !.iteration = t.iteration + 1]
        end == foldl(step, start, [k \in 1 .. maxIteration + 1 |-> k])
    IN  [rad |-> end.rad,
         nc |-> IF end.iteration = maxIteration /\ unconverged(end.nc) THEN 1 ELSE end.nc]

updateSmoothingLengthIterativeCpu ==
    /\ host = "iterate" /\ cpu
    /\ \E u \in {[i \in targets |-> updateSmoothingLengthCpu(i)]} :
        /\ s' = [s EXCEPT !.rad = [i \in DOMAIN @ |-> IF i \in targets THEN u[i].rad ELSE @[i]]]
        /\ nc' = [i \in DOMAIN nc |-> IF i \in targets THEN u[i].nc ELSE nc[i]]
    /\ host' = "build"
    /\ UNCHANGED <<conf, drifted, groups, active, counter, warp, stats, nbh, build, loopVars>>

\* an exhausted queue counts as the largest number of particles
sentinel == 1000000

p2p(q) == IF q.exhausted THEN sentinel ELSE q.p2pCounter

\* a warp takes the next group
fetchTarget(w, n) ==
    /\ warp[w].at = "fetch"
    /\ counter' = counter + 1
    /\ warp' = [warp EXCEPT ![w] = IF counter >= n THEN [at |-> "done"] ELSE [at |-> "work", g |-> counter]]

iterateFetch(w) ==
    /\ host = "iterate" /\ ~cpu
    /\ fetchTarget(w, Cardinality(active))
    /\ UNCHANGED <<conf, s, host, drifted, groups, active, stats, nc, nbh, build, loopVars>>

\* (mutant) particles that do not converge keep their number of neighbors
giveUp_keep(ncIt, ncFail, ncSph) == ncSph

giveUp(ncIt, ncFail, ncSph) == IF ncIt = ncMaxIteration /\ ncFail THEN 1 ELSE ncSph

\* counts of the particles of group a with radii t.rad, from the walk k
countedOf(t, k, a) ==
    [rad |-> t.rad, nc |-> tabulated([i \in bodiesOf(a) |-> 1 + Len(traverseNeighbors(t, k, i))]),
     maxP2P |-> p2p(k.walk), maxStack |-> k.walk.maxStack, done |-> FALSE]

searchGroup(a, rad) ==
    LET t == [s EXCEPT !.rad = rad] IN countedOf(t, walkOf(t, groupStart(groups, a), groupEnd(groups, a)), a)

\* the result after the next search
searchedAgain(t, next, ncIt) ==
    [next EXCEPT !.nc = tabulated([i \in DOMAIN @ |-> giveUp(ncIt, unconverged(@[i]), @[i])]),
                 !.maxP2P = Max({@, t.maxP2P}), !.maxStack = Max({@, t.maxStack})]

\* all lanes search again as long as one of them has to
searchUntilConverged(a) ==
    LET newRadius(t, i) == IF unconverged(t.nc[i]) THEN updateH(s.p.ng0, t.nc[i], t.rad[i]) ELSE t.rad[i]
        newRadii(t) == tabulated([i \in DOMAIN t.rad |-> IF i \in bodiesOf(a) THEN newRadius(t, i) ELSE t.rad[i]])
        again(t, ncIt) ==
            IF t.done \/ \A i \in bodiesOf(a) : ~unconverged(t.nc[i]) THEN [t EXCEPT !.done = TRUE]
            ELSE searchedAgain(t, searchGroup(a, newRadii(t)), ncIt)
    IN  foldl(again, searchGroup(a, s.rad), [k \in 1 .. ncMaxIteration + 1 |-> k - 1])

iterateGroup(w) ==
    /\ host = "iterate" /\ ~cpu
    /\ warp[w].at = "work"
    /\ \E bodies \in {bodiesOf(target(warp[w].g))} : \E u \in {searchUntilConverged(target(warp[w].g))} :
        /\ s' = [s EXCEPT !.rad = [i \in DOMAIN @ |-> IF i \in bodies THEN u.rad[i] ELSE @[i]]]
        /\ nc' = [i \in DOMAIN nc |-> IF i \in bodies THEN u.nc[i] ELSE nc[i]]
        /\ stats' = [maxP2P |-> Max({stats.maxP2P, u.maxP2P}), maxStack |-> Max({stats.maxStack, u.maxStack})]
    /\ warp' = [warp EXCEPT ![w] = idle]
    /\ UNCHANGED <<conf, host, drifted, groups, active, counter, nbh, build, loopVars>>

stackExhausted(st) == st.maxP2P = sentinel

iterateEnd ==
    /\ host = "iterate" /\ ~cpu
    /\ allDone
    /\ host' = IF stackExhausted(stats) THEN "threw" ELSE "build"
    /\ UNCHANGED <<conf, s, drifted, groups, active, counter, warp, stats, nc, nbh, build, loopVars>>

(***************************************************************************)
(* The neighborhood.  It is built with the extension of a full step, one;  *)
(* for groups of a substep the one of the full step is used again.         *)
(***************************************************************************)
ofSubgroup == conf.sub /\ drifted

\* the tree to search in every loop
buildAlwaysTraverse == [noNeighborhood EXCEPT !.ext = s.ext]

\* lists on the host, of at most ngmax neighbors; the count is cut as well, so
\* that the largest one never is above the limit that it is compared to
buildCpuFull ==
    [noNeighborhood EXCEPT !.lists = [i \in Local(s.p) |-> firstOf(findNeighbors(s, i), ngmax)]]

\* lists are allocated for warps to fill; other neighborhoods keep the tree
buildNeighborhood ==
    /\ host = "build"
    /\ ~ofSubgroup
    /\ \/ traverses /\ nbh' = buildAlwaysTraverse /\ host' = "loop"
       \/ conf.kind = "cpuFull" /\ nbh' = buildCpuFull /\ host' = "loop"
       \/ ~traverses /\ ~cpu /\ nbh' = noNeighborhood /\ host' = "list"
    /\ build' = noBuild
    /\ resetTraversalCounters
    /\ UNCHANGED <<conf, s, drifted, groups, active, stats, nc, loopVars>>

buildSubgroup ==
    /\ host = "build"
    /\ ofSubgroup
    /\ host' = IF compressed \/ symmetric THEN "threw" ELSE "loop"
    /\ UNCHANGED <<conf, s, drifted, groups, active, counter, warp, stats, nc, nbh, build, loopVars>>

listFetch(w) ==
    /\ host = "list"
    /\ fetchTarget(w, IF conf.kind = "full" THEN Cardinality(active) ELSE numLists)
    /\ UNCHANGED <<conf, s, host, drifted, groups, active, stats, nc, nbh, build, loopVars>>

\* f with f[key] = value, for a key it has or not
extendedBy(f, more) == [k \in DOMAIN f \cup DOMAIN more |-> IF k \in DOMAIN more THEN more[k] ELSE f[k]]

\* lists of the particles of a group, the first ngmax neighbors of each
buildFullGroup(w) ==
    LET a == target(warp[w].g)
    IN  /\ host = "list" /\ conf.kind = "full"
        /\ warp[w].at = "work"
        /\ \E k \in {walkOf(s, groupStart(groups, a), groupEnd(groups, a))} :
           \E found \in {[i \in bodiesOf(a) |-> traverseNeighbors(s, k, i)]} :
            /\ nbh' = [nbh EXCEPT !.lists = extendedBy(@, [i \in bodiesOf(a) |-> firstOf(found[i], ngmax)])]
            /\ build' = [build EXCEPT !.maxNeighbors = Max({@} \cup {Len(found[i]) : i \in bodiesOf(a)})]
        /\ warp' = [warp EXCEPT ![w] = idle]
        /\ UNCHANGED <<conf, s, host, drifted, groups, active, counter, stats, nc, loopVars>>

\* words for the data of all lists
clusterDataVirtualSize == (s.p.bytesPerParticle * (size(s.p.bodies) + clusterOffset(s.p))) \div 4

neighborDataVirtualSize == WarpSize * ngmax * numBlocks(s.p)

maxNeighborDataSize == IF clustered THEN clusterDataVirtualSize ELSE neighborDataVirtualSize

\* what a warp finds for its list: data to store, longest list, limit, words.
\* Past the limit a compressed list holds whatever the warp's buffer did; here
\* it goes on, and nothing is said about loops on it
compressedData(counts, blocks) ==
    [data |-> [blocks |-> blocks, counts |-> counts],
     found |-> warpMax(counts), limit |-> ngmax, size |-> compressedSize(conf.codec, blocks)]

compressedLists(lists) ==
    compressedData(laneValues(LAMBDA lane : Len(lists[lane])),
                   warpCompressNeighbors(conf.codec, TRUE, threadAdds(lists)))

\* a list of clusters is cut, its count is not
clusterData(found, stored, blocks) ==
    [data |-> [blocks |-> blocks, count |-> found, masks |-> [k \in DOMAIN stored |-> stored[k].mask]],
     found |-> found, limit |-> ncmax, size |-> clusterSize(conf.codec, blocks, Len(stored))]

clusterLists(found, stored) ==
    clusterData(found, stored,
                warpCompressNeighbors(conf.codec, FALSE, warpAdds([k \in DOMAIN stored |-> stored[k].cluster])))

listOf(g, rMax) ==
    IF ~clustered THEN compressedLists(buildCompressed(s, symmetric, rMax, g))
    ELSE LET list == collectNeighborJClusters(s, symmetric, rMax, g + firstISupercluster(s.p))
         IN  clusterLists(Len(list), firstOf(list, ncmax))

\* a list that is too long is noted in the status
collectList(w) ==
    /\ host = "list" /\ (compressed \/ clustered)
    /\ warp[w].at = "work"
    /\ \E l \in {listOf(warp[w].g, computeNodeRMax(s))} :
        /\ warp' = [warp EXCEPT ![w] = [at |-> "reserve", g |-> warp[w].g, data |-> l.data, size |-> l.size]]
        /\ build' = [build EXCEPT !.status = IF l.found > l.limit THEN "list overflow" ELSE @,
                                  !.maxNeighbors = Max({@, l.found})]
    /\ UNCHANGED <<conf, s, host, drifted, groups, active, counter, stats, nc, nbh, loopVars>>

\* (mutant) reads the size, and adds to it only when the data is stored
nextDataSize_later(dataSize, more) == dataSize

nextDataSize(dataSize, more) == dataSize + more

reserveData(w) ==
    /\ host = "list"
    /\ warp[w].at = "reserve"
    /\ warp' = [warp EXCEPT ![w] = [at |-> "store", g |-> warp[w].g, data |-> warp[w].data, size |-> warp[w].size,
                                     start |-> build.size]]
    /\ build' = [build EXCEPT !.size = nextDataSize(@, warp[w].size)]
    /\ UNCHANGED <<conf, s, host, drifted, groups, active, counter, stats, nc, nbh, loopVars>>

\* the status is written whatever it was
storeList(w) ==
    /\ host = "list"
    /\ warp[w].at = "store"
    /\ \/ /\ warp[w].start + warp[w].size > maxNeighborDataSize
          /\ build' = [build EXCEPT !.status = "data overflow"]
          /\ warp' = [warp EXCEPT ![w] = [at |-> "done"]]
          /\ UNCHANGED nbh
       \/ /\ warp[w].start + warp[w].size <= maxNeighborDataSize
          /\ nbh' = [nbh EXCEPT !.lists = extendedBy(@, [g \in {warp[w].g} |->
                         [data |-> warp[w].data, start |-> warp[w].start, size |-> warp[w].size]])]
          /\ warp' = [warp EXCEPT ![w] = idle]
          /\ UNCHANGED build
    /\ UNCHANGED <<conf, s, host, drifted, groups, active, counter, stats, nc, loopVars>>

\* lists that are too long give a warning, missing ones an exception
fullListsTooLong == build.maxNeighbors > ngmax

compressedListsTooLong == build.status = "list overflow"

listEnd ==
    /\ host = "list"
    /\ allDone
    /\ nbh' = [nbh EXCEPT !.warned = IF conf.kind = "full" THEN fullListsTooLong ELSE compressedListsTooLong]
    /\ host' = IF build.status = "data overflow" THEN "threw" ELSE "loop"
    /\ UNCHANGED <<conf, s, drifted, groups, active, counter, warp, stats, nc, build, loopVars>>

(***************************************************************************)
(* Loops over pairs of particles                                           *)
(***************************************************************************)
\* results that are added to begin with nothing
initResult(results) == [i \in DOMAIN results |-> {}]

\* lists with a particle that is looped over
activeLists ==
    IF ~clustered THEN 0 .. numLists - 1
    ELSE {superclusterIndex(i + clusterOffset(s.p)) - firstISupercluster(s.p) : i \in targets}

startLoop ==
    /\ host = "loop"
    /\ host' = "looping"
    /\ out' = IF symmetric THEN initResult(out) ELSE out
    /\ twice' = FALSE
    /\ posted' = {}
    /\ pending' = IF compressed \/ clustered THEN activeLists ELSE {}
    /\ resetTraversalCounters
    /\ UNCHANGED <<conf, s, drifted, groups, active, stats, nc, nbh, build, removed>>

sourcesOf(c, i) == {e[2] : e \in {e \in c : e[1] = i}}
anyTwice(c) == Cardinality({<<e[1], e[2]>> : e \in c}) # Cardinality(c)

\* results of the particles are written, with the last part of the computation
storeParticleData(c, bodies) ==
    /\ out' = [i \in DOMAIN out |-> IF i \in bodies THEN sourcesOf(c, i) ELSE out[i]]
    /\ twice' = (twice \/ anyTwice(c))
    /\ posted' = posted \cup bodies

\* contributions are added to the results
atomicUpdate(c) ==
    /\ out' = [i \in DOMAIN out |-> out[i] \cup sourcesOf(c, i)]
    /\ twice' = (twice \/ anyTwice(c) \/ \E i \in DOMAIN out : out[i] \cap sourcesOf(c, i) # {})
    /\ UNCHANGED posted

\* a particle with itself and with those of its list
listContributions(i, list) == {<<i, i, 0>>} \cup {<<i, list[nb], nb>> : nb \in DOMAIN list}

closeOf(i, list) == SelectSeq(list, LAMBDA j : distanceSq(s, needsPbc(s, i, s.rad[i], 1), i, j) < s.rad[i] * s.rad[i])

\* the host searches anew in every loop, or uses lists of all particles, as the
\* GPU does; the lists may be older than the coordinates
jLoopTraverse(i) == listContributions(i, firstOf(findNeighbors([s EXCEPT !.ext = nbh.ext], i), ngmax))

jLoop(i) == listContributions(i, closeOf(i, nbh.lists[i]))

jLoopGpu(i) == listContributions(i, closeOf(i, firstOf(nbh.lists[i], ngmax)))

\* one thread for each particle: of all, or of the groups of a substep
loopOver(bodies, result(_)) ==
    /\ \E c \in {UNION {result(i) : i \in bodies}} : storeParticleData(c, bodies)
    /\ host' = "looped"
    /\ UNCHANGED <<conf, s, drifted, groups, active, counter, warp, stats, nc, nbh, build, pending, removed>>

ijLoopCpuTraverse == host = "looping" /\ conf.kind = "cpuTraverse" /\ loopOver(targets, jLoopTraverse)

ijLoopCpuFull == host = "looping" /\ conf.kind = "cpuFull" /\ loopOver(targets, jLoop)

ijLoopFull == host = "looping" /\ conf.kind = "full" /\ loopOver(targets, jLoopGpu)

\* the GPU searches the tree of the neighborhood anew in every loop
loopFetch(w) ==
    /\ host = "looping" /\ conf.kind = "traverse"
    /\ fetchTarget(w, Cardinality(active))
    /\ UNCHANGED <<conf, s, host, drifted, groups, active, stats, nc, nbh, build, loopVars>>

loopTraverse(w) ==
    LET a == target(warp[w].g)
        t == [s EXCEPT !.ext = nbh.ext]
    IN  /\ host = "looping" /\ conf.kind = "traverse"
        /\ warp[w].at = "work"
        /\ \E k \in {walkOf(t, groupStart(groups, a), groupEnd(groups, a))} :
            storeParticleData(UNION {listContributions(i, firstOf(traverseNeighbors(t, k, i), ngmax)) : i \in bodiesOf(a)},
                              bodiesOf(a))
        /\ warp' = [warp EXCEPT ![w] = idle]
        /\ UNCHANGED <<conf, s, host, drifted, groups, active, counter, stats, nc, nbh, build, pending, removed>>

\* (mutant) the results of all particles of the supercluster are written
activeMask_all(bodies) == bodies

activeMask(bodies) == bodies \cap targets

\* particles of a list, and what its loop may add
listBodies(g) ==
    IF clustered THEN {bodyOf(s.p, n) : n \in superclusterPlaces(g + firstISupercluster(s.p))} ELSE blockBodies(s.p, g)

loopOf(g, data) ==
    IF clustered THEN superclusterLoop(s, symmetric, conf.codec, data, g + firstISupercluster(s.p))
    ELSE {compressedLoop(s, symmetric, conf.codec, data, g)}

\* one list after the other, in any order
loopList(g) ==
    /\ host = "looping"
    /\ g \in pending
    /\ pending' = pending \ {g}
    /\ \E c \in loopOf(g, nbh.lists[g].data) :
        \/ symmetric /\ atomicUpdate(c)
        \/ ~symmetric /\ storeParticleData(c, activeMask(listBodies(g) \cap Local(s.p)))
    /\ UNCHANGED <<conf, s, host, drifted, groups, active, counter, warp, stats, nc, nbh, build, removed>>

applyPostamble(done) == Local(s.p)

loopEnd ==
    /\ host = "looping"
    /\ \/ conf.kind = "traverse" /\ allDone
       \/ (compressed \/ clustered) /\ pending = {}
    /\ posted' = IF symmetric THEN applyPostamble(posted) ELSE posted
    /\ host' = "looped"
    /\ UNCHANGED <<conf, s, drifted, groups, active, counter, warp, stats, nc, nbh, build, pending, out, twice, removed>>

(***************************************************************************)
(* The end of a step                                                       *)
(***************************************************************************)
\* particles without neighbors, or marked so, are to be removed
updateSmoothingLength ==
    /\ host = "looped"
    /\ removed' = removed \cup {i \in targets : nc[i] <= 1}
    /\ s' = [s EXCEPT !.rad = [i \in DOMAIN @ |-> IF i \in targets THEN updateH(s.p.ng0, nc[i], @[i]) ELSE @[i]]]
    /\ host' = "ended"
    /\ UNCHANGED <<conf, drifted, groups, active, counter, warp, stats, nc, nbh, build, pending, out, twice, posted>>

\* a substep: particles have moved, some of the groups are due, cells are
\* searched in a larger radius; tree, groups and neighborhood stay
substep ==
    /\ host = "ended"
    /\ conf.sub /\ ~cpu /\ ~drifted
    /\ drifted' = TRUE
    /\ s' = [s EXCEPT !.x = [i \in DOMAIN @ |-> vec(LAMBDA d : @[i][d] + s.p.drift[i][d])], !.ext = SearchExt]
    /\ active' \in SUBSET (0 .. numGroups(groups) - 1) \ {{}}
    /\ host' = "iterate"
    /\ resetTraversalCounters
    /\ stats' = noStats
    /\ UNCHANGED <<conf, groups, nc, nbh, build, loopVars>>

finished == host = "threw" \/ (host = "ended" /\ (drifted \/ cpu \/ ~conf.sub))

Next ==
    \/ computeGroups
    \/ updateSmoothingLengthIterativeCpu
    \/ \E w \in Warps : iterateFetch(w) \/ iterateGroup(w) \/ listFetch(w) \/ buildFullGroup(w)
                        \/ collectList(w) \/ reserveData(w) \/ storeList(w) \/ loopFetch(w) \/ loopTraverse(w)
    \/ iterateEnd
    \/ buildNeighborhood
    \/ buildSubgroup
    \/ listEnd
    \/ startLoop
    \/ ijLoopCpuTraverse
    \/ ijLoopCpuFull
    \/ ijLoopFull
    \/ \E g \in pending : loopList(g)
    \/ loopEnd
    \/ updateSmoothingLength
    \/ substep
    \/ finished /\ UNCHANGED vars

Spec == Init /\ [][Next]_vars

(***************************************************************************)
(* Properties                                                              *)
(***************************************************************************)
\* the particles within the search radius of i
neighbors(i) == {j \in Body(s.p) \ {i} : distanceSq(s, TRUE, i, j) < s.rad[i] * s.rad[i]}

\* Groups follow each other without gaps, and fit in a warp
\* (computeGroupSplits, makeSplits, lastGroupEnd).
GroupsPartition ==
    host # "groups" =>
        /\ groups[0] = s.p.first
        /\ groups[numGroups(groups)] = s.p.last
        /\ \A g \in 0 .. numGroups(groups) - 1 :
               groups[g] <= groups[g + 1] /\ (~cpu => groups[g + 1] - groups[g] <= WarpSize)

\* After the iteration, counts are those of all particles within the radius, or
\* the particle is marked: also when particles have left their cells in a
\* substep, across periodic boundaries, and with a queue that wraps around;
\* a queue that overflows raises an exception.
SearchExact ==
    host \in {"build", "loop", "looped"} =>
        \A i \in targets : nc[i] = 1 + Cardinality(neighbors(i)) \/ nc[i] = 1

\* Particles whose count is still out of range are marked, to be removed at the
\* end of the step (updateSmoothingLengthIterativeGpuKernel).
UnconvergedRemoved ==
    host = "ended" /\ ~drifted =>
        \A i \in targets : unconverged(nc[i]) => i \in removed

\* A loop never runs on a neighborhood with a list that could not be stored,
\* whatever the order in which warps write the status, and lists do not overlap
\* in the data.
ListsStored ==
    host = "loop" /\ (compressed \/ clustered) =>
        /\ DOMAIN nbh.lists = 0 .. numLists - 1
        /\ \A g, h \in DOMAIN nbh.lists :
               /\ nbh.lists[g].start + nbh.lists[g].size <= maxNeighborDataSize
               /\ g # h => \/ nbh.lists[g].start + nbh.lists[g].size <= nbh.lists[h].start
                           \/ nbh.lists[h].start + nbh.lists[h].size <= nbh.lists[g].start

\* All neighborhoods give every particle the interactions with itself and with
\* its neighbors once, and the final computation: loops that cut the list of a
\* particle without notice, if it has at most ngmax neighbors; the others,
\* unless the build has given a warning.
LoopComplete ==
    host = "looped" /\ ~drifted /\ ~nbh.warned =>
        /\ ~twice
        /\ posted = Local(s.p)
        /\ \A i \in Local(s.p) :
               (cpu \/ traverses => Cardinality(neighbors(i)) <= ngmax) => out[i] = {i} \cup neighbors(i)

\* A loop in a substep leaves the results of particles alone that are not due.
SubgroupOnly ==
    [][drifted /\ drifted' => \A i \in Local(s.p) \ targets : out'[i] = out[i]]_vars

=============================================================================
