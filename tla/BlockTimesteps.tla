--------------------------- MODULE BlockTimesteps ---------------------------
(***************************************************************************)
(* The block time-steps of HydroVeBdtProp.  A hierarchy has 2^(numRungs-1) *)
(* sub-steps; the groups of particles of rung i take part in every 2^i-th  *)
(* of them.  In between their positions are drifted, from the position and *)
(* acceleration of their own last step.                                    *)
(*                                                                         *)
(* Times are integers and a group is one particle: all particles of a      *)
(* group share their rung from one domain sync to the next, while what     *)
(* they did before the sync is stored per particle.  The time-step limits  *)
(* that the kernels compute are inputs.                                    *)
(***************************************************************************)
EXTENDS Integers, Sequences, FiniteSets

CONSTANTS
    Rank,          \* ranks of the communicator
    Groups,        \* Groups[r]: the groups of rank r in SFC order
    Limits,        \* values of the time-step limits that the kernels compute
    Varying,       \* bound: the groups whose limit varies, the others have the largest one
    MaxNumRungs,   \* Timestep::maxNumRungs
    MaxDtIncrease, \* maxDtIncrease, as an integer
    MinDt          \* minDt of the initial conditions

Particle == UNION {{Groups[r][k] : k \in DOMAIN Groups[r]} : r \in Rank}

\* every rank has groups, and no particle is in two of them
ASSUME BlockAssumption ==
    /\ Rank # {} /\ IsFiniteSet(Rank)
    /\ Groups \in [Rank -> Seq(Particle) \ {<<>>}]
    /\ \A q, r \in Rank : \A j \in DOMAIN Groups[q], k \in DOMAIN Groups[r] :
           Groups[q][j] = Groups[r][k] => q = r /\ j = k
    /\ Limits \subseteq Nat \ {0} /\ Limits # {} /\ IsFiniteSet(Limits)
    /\ MaxNumRungs \in Nat \ {0} /\ MaxDtIncrease \in Nat \ {0} /\ MinDt \in Nat \ {0}

VARIABLES
    phase,     \* what the main loop does next
    ts,        \* timestep_
    prevDt,    \* prevTimestep_.dt_m1
    groupDt,   \* groupDt[r]: groupDt_
    groups,    \* groups[r]: groups_
    tsGroups,  \* tsGroups[r]: tsGroups_
    rung,      \* rung[p]: field rung, the rung of p in its last own step
    drifted,   \* drifted[p]: time from the last own step of p to its present position
    last,      \* last[p]: length of the last own step of p (history variable)
    lag,       \* lag[p]: time since the last own step of p (history variable)
    limit      \* limit[p]: limit that the kernels gave p in its last active step (history variable)

bvars == <<phase, ts, prevDt, groupDt, groups, tsGroups, rung, drifted, last, lag, limit>>

NumGroups(r) == Len(Groups[r])

Rungs == 0 .. MaxNumRungs - 1

\* std::numeric_limits<float>::max()
FloatMax == 1000000

MinOf(S) == CHOOSE m \in S : \A n \in S : m <= n

-----------------------------------------------------------------------------
(* Schedule of the rungs *)

\* 1, 2, 1, 3, 1, 2, 1, 4, ...: number of trailing zeros plus one
Butterfly(n) ==
    IF n = 0 THEN 0 ELSE CHOOSE i \in 1 .. n + 1 : n % (2 ^ (i - 1)) = 0 /\ n % (2 ^ i) # 0

\* activeRung: rungs below it take part in the sub-step, all of them if it is 0
ActiveRung(substep, numRungs) ==
    IF substep = 0 \/ substep >= 2 ^ (numRungs - 1) THEN 0 ELSE Butterfly(substep)

IsSynced == ActiveRung(ts.substep, ts.numRungs) = 0

\* activeRungs_: number of groups at the front of the active list
NumActive(r) == IF IsSynced THEN NumGroups(r) ELSE ts.rungRanges[r][Butterfly(ts.substep)]

\* the list activeRungs_ is a view of
ActiveList(r) == IF IsSynced THEN Groups[r] ELSE tsGroups[r]

\* rungs_[i]: the groups of rung i
InRung(r, i) == {tsGroups[r][k] : k \in ts.rungRanges[r][i] + 1 .. ts.rungRanges[r][i + 1]}

-----------------------------------------------------------------------------
(* Choice of the rungs *)

\* sortGroupDt on the first n elements: the order, stable, as indices
SortedIndices(dts, n) ==
    LET Before(j, k) == dts[j] < dts[k] \/ (dts[j] = dts[k] /\ j < k)
        Place(k)     == 1 + Cardinality({j \in 1 .. n : Before(j, k)})
    IN  [i \in DOMAIN dts |-> IF i <= n THEN CHOOSE k \in 1 .. n : Place(k) = i ELSE i]

Gathered(s, idx) == [i \in DOMAIN s |-> s[idx[i]]]

\* timestepRangeGpu: the element at fastFraction = 0.4 of n
FastIndex(n) == 1 + (4 * n) \div 10

\* findRungRanges in the first n elements of the sorted dts
FindRungRanges(minDt, dts, n, numRungs) ==
    [i \in 0 .. MaxNumRungs |->
        IF i = 0 THEN 0
        ELSE IF i < numRungs THEN Cardinality({k \in 1 .. n : dts[k] < 2 ^ i * minDt})
        ELSE n]

\* number of rungs between the smallest time-step lo and the one at the fast fraction hi
NumRungs(lo, hi) == 1 + Cardinality({k \in 1 .. MaxNumRungs - 1 : 2 ^ k * lo <= hi})

-----------------------------------------------------------------------------
(* The phases of the main loop *)

\* Timestep as constructed, with the members that loadOrStore knows
NewTimestep(numRungs, dt_m1) ==
    [nextDt |-> 0, elapsedDt |-> 0, totDt |-> 0, numRungs |-> numRungs, substep |-> 0,
     rungRanges |-> [r \in Rank |-> [i \in 0 .. MaxNumRungs |-> 0]],
     dt_m1 |-> dt_m1, dt_drift |-> [i \in Rungs |-> 0]]

\* a start from initial conditions
BlockInit ==
    /\ phase = "forces"
    /\ ts = NewTimestep(1, [i \in Rungs |-> IF i = 0 THEN MinDt ELSE 0])
    /\ prevDt = [i \in Rungs |-> 0]
    /\ groupDt = [r \in Rank |-> [k \in 1 .. NumGroups(r) |-> FloatMax]]
    /\ groups = Groups
    /\ tsGroups = Groups
    /\ rung = [p \in Particle |-> 0]
    /\ drifted = [p \in Particle |-> 0]
    /\ last = [p \in Particle |-> MinDt]
    /\ lag = [p \in Particle |-> 0]
    /\ limit = [p \in Particle |-> FloatMax]

\* the particles that take part in the sub-step
Active == UNION {{ActiveList(r)[k] : k \in 1 .. NumActive(r)} : r \in Rank}

\* the results of the kernels for the active groups
KernelLimits ==
    LET largest == CHOOSE m \in Limits : \A l \in Limits : l <= m
    IN  {[p \in Active |-> IF p \in Varying THEN lim[p] ELSE largest] : lim \in [Active \cap Varying -> Limits]}

\* (mutant) the kernels overwrite the time-steps of the active groups
ComputeForcesSet(lim) ==
    /\ phase = "forces"
    /\ limit' = [p \in Particle |-> IF p \in DOMAIN lim THEN lim[p] ELSE limit[p]]
    /\ groups' = IF IsSynced THEN Groups ELSE groups
    /\ groupDt' = [r \in Rank |-> [k \in 1 .. NumGroups(r) |->
           IF k <= NumActive(r) THEN lim[ActiveList(r)[k]] ELSE groupDt[r][k]]]
    /\ phase' = "loop"
    /\ UNCHANGED <<ts, prevDt, tsGroups, rung, drifted, last, lag>>

\* computeForces: sync, then groupDivvTimestep, computeMomentumEnergy and groupAccTimestep
\* lower the time-step of the active groups, which only a full sync has reset
ComputeForces(lim) ==
    LET old(r, k) == IF IsSynced THEN FloatMax ELSE groupDt[r][k]
    IN  /\ phase = "forces"
        /\ limit' = [p \in Particle |-> IF p \in DOMAIN lim THEN lim[p] ELSE limit[p]]
        /\ groups' = IF IsSynced THEN Groups ELSE groups
        /\ groupDt' = [r \in Rank |-> [k \in 1 .. NumGroups(r) |->
               IF k <= NumActive(r) THEN MinOf({old(r, k), lim[ActiveList(r)[k]]}) ELSE old(r, k)]]
        /\ phase' = "loop"
        /\ UNCHANGED <<ts, prevDt, tsGroups, rung, drifted, last, lag>>

\* computeRungs at a synchronised state: rungTimestep starts a new hierarchy
NewHierarchy ==
    LET idx    == [r \in Rank |-> SortedIndices(groupDt[r], NumGroups(r))]
        sorted == [r \in Rank |-> Gathered(groupDt[r], idx[r])]
        lo     == MinOf({sorted[r][1] : r \in Rank})
        hi     == MinOf({sorted[r][FastIndex(NumGroups(r))] : r \in Rank})
        n      == NumRungs(lo, hi)
        dt     == MinOf({MaxDtIncrease * ts.dt_m1[0], lo})
    IN  /\ phase = "rungs" /\ IsSynced
        /\ prevDt' = ts.dt_m1
        /\ ts' = [NewTimestep(n, [i \in Rungs |-> 0]) EXCEPT
                    !.nextDt = dt, !.totDt = dt * 2 ^ n,
                    !.rungRanges = [r \in Rank |-> FindRungRanges(lo, sorted[r], NumGroups(r), n)]]
        /\ groupDt' = sorted
        /\ tsGroups' = [r \in Rank |-> Gathered(groups[r], idx[r])]
        /\ phase' = "integrate"
        /\ UNCHANGED <<groups, rung, drifted, last, lag, limit>>

\* computeRungs in a hierarchy: minimumGroupDt sorts the active groups into their rungs
\* again.  A single active rung keeps its order, but not that of the sorted time-steps.
ResortRungs ==
    LET high   == ActiveRung(ts.substep, ts.numRungs)
        num(r) == ts.rungRanges[r][high]
        idx    == [r \in Rank |-> SortedIndices(groupDt[r], num(r))]
        sorted == [r \in Rank |-> Gathered(groupDt[r], idx[r])]
        lo     == MinOf({sorted[r][1] : r \in Rank})
        found  == [r \in Rank |-> FindRungRanges(lo, sorted[r], num(r), MaxNumRungs)]
        share  == (ts.totDt - ts.elapsedDt) \div (2 ^ ts.numRungs - ts.substep)
    IN  /\ phase = "rungs" /\ ~IsSynced
        /\ ts' = [ts EXCEPT
                    !.nextDt = MinOf({lo, share}),
                    !.rungRanges = [r \in Rank |-> [i \in 0 .. MaxNumRungs |->
                                       IF i < high THEN found[r][i] ELSE ts.rungRanges[r][i]]]]
        /\ groupDt' = sorted
        /\ IF high > 1
           THEN /\ groups' = tsGroups
                /\ tsGroups' = [r \in Rank |-> Gathered(tsGroups[r], idx[r])]
           ELSE UNCHANGED <<groups, tsGroups>>
        /\ phase' = "integrate"
        /\ UNCHANGED <<prevDt, rung, drifted, last, lag, limit>>

-----------------------------------------------------------------------------
(* integrate *)

\* rungs that are advanced to the end of their time-step
Advances(i) == i < Butterfly(ts.substep + 1)

\* length of the time-step of rung i if it ends now
StepLength(i) == ts.dt_drift[i] + ts.nextDt

\* the argument dt_m1 of driftPositions and computePositions for rung i: the loop has
\* already stored the new time-steps of the rungs below i
DtM1(i) ==
    IF ts.substep = ts.substep % (2 ^ i) THEN prevDt
    ELSE [j \in Rungs |-> IF j < i /\ Advances(j) THEN StepLength(j) ELSE ts.dt_m1[j]]

\* rungs_[i] on all ranks
RungGroups(i) == IF i < ts.numRungs THEN UNION {InRung(r, i) : r \in Rank} ELSE {}

\* the loop over the rungs, and the end of the sub-step
IntegrateRungs ==
    LET members    == [i \in Rungs |-> RungGroups(i)]
        rungOf     == [p \in UNION {members[i] : i \in Rungs} |-> CHOOSE i \in Rungs : p \in members[i]]
        integrated == DOMAIN rungOf
        advanced   == {p \in integrated : Advances(rungOf[p])}
        drift      == [i \in Rungs |-> IF Advances(i) THEN 0 ELSE StepLength(i)]
    IN  /\ phase = "integrate"
        /\ drifted' = [p \in Particle |->
               IF p \in integrated THEN drifted[p] - ts.dt_drift[rungOf[p]] + drift[rungOf[p]] ELSE drifted[p]]
        /\ last' = [p \in Particle |-> IF p \in advanced THEN StepLength(rungOf[p]) ELSE last[p]]
        /\ lag' = [p \in Particle |-> IF p \in advanced THEN 0 ELSE lag[p] + ts.nextDt]
        /\ rung' = [p \in Particle |-> IF p \in advanced THEN rungOf[p] ELSE rung[p]]
        /\ ts' = [ts EXCEPT
               !.dt_m1 = [i \in Rungs |-> IF i < ts.numRungs /\ Advances(i) THEN StepLength(i) ELSE @[i]],
               !.dt_drift = [i \in Rungs |-> IF i < ts.numRungs THEN drift[i] ELSE @[i]],
               !.substep = @ + 1,
               !.elapsedDt = @ + ts.nextDt]
        /\ UNCHANGED <<prevDt, groupDt, groups, tsGroups, limit>>

-----------------------------------------------------------------------------
(* Properties *)

\* In every sub-step the positions of all particles are those of the same time, although
\* they come from steps of different length, drifts forward and drifts back; at a
\* synchronised state, also one that a snapshot was restarted from, nothing is drifted.
TimesAgree ==
    phase = "forces" =>
        \A p \in Particle : drifted[p] = lag[p] /\ (IsSynced => lag[p] = 0)

\* No particle takes a step longer than the kernels allowed at its beginning, although the
\* rungs and the length of the sub-steps change on the way.
StepWithinLimit ==
    phase = "integrate" =>
        \A i \in Rungs : Advances(i) => \A p \in RungGroups(i) : StepLength(i) <= limit[p]

\* A hierarchy starts, also after a restart, with the length of the last step of every
\* particle in the array that field rung indexes.
PrevStepKnown ==
    phase = "rungs" /\ IsSynced => \A p \in Particle : ts.dt_m1[rung[p]] = last[p]

\* What positionUpdate expects, "dt_m1 time delta from step n-1 to n": the previous time-step
\* that integrate looks up for a particle is the length of its last own step.
StepLengths ==
    phase = "integrate" =>
        \A i \in Rungs : \A p \in RungGroups(i) : DtM1(i)[rung[p]] = last[p]
=============================================================================
