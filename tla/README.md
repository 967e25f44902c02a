# Verification of SPH-EXA

TLA+ models of the parts of SPH-EXA in which a mistake is hard to reach with a
test: the octrees that ranks build together and on their own, the messages
between them, the memory that particle fields lend to each other, the order of
kernels and halo exchanges in a time-step, block time-steps, the neighbour search
of hosts and GPUs, and the start, output and restart of jobs. TLC checks small
instances; TLAPS proves the main properties of the particle and halo exchanges, the
particle fields, the propagators and the main loop for all sizes.

`PROJECT.json` lists components, runs, the source lines behind every definition,
the hazards, and the theorems.

## The system

A simulation is one MPI program. Every rank owns the particles of a segment of a
space-filling curve (SFC), and copies (halos) of the particles near its segment.

    sphexa.cpp      main loop: forces, output, stop conditions, integration
      propagators   sequence of domain syncs, halo exchanges and kernels of a step
        domain      sync: keys -> global tree -> assignment -> particle exchange
                          -> focus tree -> halo discovery -> layout -> halos
        sph, ryoanji, physics   kernels: SPH sums, gravity, cooling, driving
        traversal, ijloop       neighbour search and loops over pairs
        particles_data, field_states   the particle fields and their memory
      init, io, observables     initial conditions, HDF5 and text files, global sums

| part | source | modules |
|---|---|---|
| SFC keys, boxes | `cstone/sfc` | `SpaceFillingCurve` |
| cornerstone trees, internal octree | `cstone/tree` | `Csarray`, `Octree` |
| global tree and assignment | `domain/assignment.hpp`, `domaindecomp.hpp`, `tree/update_mpi.hpp` | `DomainDecomp`, `GlobalTree` |
| traversal, acceptance criteria, layout, halo discovery | `cstone/traversal`, `halos`, `domain/layout.hpp` | `Traversal`, `FocusTree` |
| locally essential (focus) trees | `cstone/focus` | `FocusRebalance`, `FocusTree` |
| particle exchange of `Domain::sync`, `reapplySync` | `domain/domain.hpp`, `domaindecomp_mpi.hpp`, `buffer_description.hpp`, `index_ranges.hpp` | `DomainExchange`, `ExchangeProofs`, `SfcOrderProofs` |
| halo requests and halo exchange | `halos/`, `exchange_keys.hpp`, `peer_flags.hpp` | `HaloExchange`, `ParticleDataProofs` |
| neighbour search, groups of particles, smoothing lengths | `traversal/find_neighbors*`, `groups*`, `findneighbors.hpp`, `primitives/warpscan.cuh`, `sph/update_h*` | `NeighborSearch`, `ParticleGroups`, `WarpScan` |
| neighbour lists and loops over pairs | `traversal/ijloop` | `WarpCompression`, `NeighborLists`, `ParticleLoops` |
| field states, `release`, `acquire`, `resize` | `fields/field_states.hpp`, `particles_data.hpp` | `FieldStates`, `ParticleDataProofs` |
| kernels and propagators | `sph/`, `physics/`, `main/src/propagator` | `Kernels`, `Propagators`, `PropagatorsProofs`, `FieldMemoryProofs` |
| block time-steps | `ve_hydro_bdt.hpp`, `ts_rungs.hpp`, `timestep.h` | `BlockTimesteps`, `BlockTimestepsProofs` |
| main loop | `sphexa.cpp` | `MainLoop`, `BlockTimestepsProofs` |
| initial conditions | `main/src/init` | `InitGrid`, `TestCases`, `SimInit`, `ParticleDataProofs` |
| files, jobs and restarts | `main/src/io`, `init/file_init.hpp`, `sphexa.cpp` | `SnapshotFile`, `Startup`, `Checkpoint` |

`Tabulation` has forms of functions and folds that TLC evaluates once. The modules
whose name begins with `MC` hold the instances of the runs.

The modules fit together as follows. `GlobalTree` and `FocusTree` are built on the same
operators (`SpaceFillingCurve`, `Csarray`, `Octree`, `DomainDecomp`), so that the tree
of a focus is rebalanced and linked by the definitions that the run `tree` checks.
`DomainExchange` moves the particles after an assignment, `HaloExchange` serves the
halos that `FocusTree` asks for. `Propagators` is built from `Kernels` and takes
`release` and `acquire` from an instance of `FieldStates`. Its ranks run in lockstep:
what a field holds is kept for the particles a rank owns and for their images in the
halos of others, and an exchange copies the one to the other. `HaloExchange` is why that
is enough, since an exchange returns the values the owners had in the same call.
`MainLoop` extends `BlockTimesteps`, so that output and restarts happen between the
sub-steps of a hierarchy. `Startup` runs whole jobs on the particles that `InitGrid` and
`TestCases` place and on the files of `SnapshotFile`, and implements `Checkpoint`.

## The modules

Operators that take operators as arguments (a criterion, a combination of children)
have their lines here instead of in `PROJECT.json`.

| operator | models |
|---|---|
| `upsweep` of `Octree` | `src/domain/include/cstone/tree/octree.hpp:572-591` |
| `singleTraversal` of `Traversal` | `src/domain/include/cstone/traversal/traversal.hpp:26-68` |
| `depthFirst` of `NeighborSearch` | `src/domain/include/cstone/traversal/traversal.hpp:26-68` |
| `traverseWarp` of `NeighborSearch` | `src/domain/include/cstone/traversal/find_neighbors.cuh:169-310` |
| `traverseSources` of `NeighborSearch` | `src/domain/include/cstone/traversal/find_neighbors.cuh:205-297` |
| `iterate` of `NeighborSearch` | `src/domain/include/cstone/traversal/find_neighbors.cuh:205-297` |
| `butterfly` of `WarpScan` | `src/domain/include/cstone/primitives/warpscan.cuh:194-204` |
| `boxAround` of `NeighborLists` | `src/domain/include/cstone/traversal/ijloop/gpu_superclusternblist/build.cuh:87-164` |
| `pairContributions` of `NeighborLists` | `src/domain/include/cstone/traversal/ijloop/gpu_compressednblist.cuh:289-312` |
| `loopOver` of `ParticleLoops` | `src/domain/include/cstone/traversal/ijloop/cpu_alwaystraverse.hpp:62-87` |
| `selectParticles` of `InitGrid` | `src/main/src/init/grid.hpp:417-449` |
| `children` of `SimInit` | `src/main/src/init/file_init.hpp:195-222` |

### Keys and trees

`SpaceFillingCurve` has the key arithmetic, placeholder-bit prefixes and the Morton
and Hilbert curves as functions of `MaxLevel`, which is 21 or 10 in the code. `Csarray`
rebalances a cornerstone array and counts particles in its leaves, with counts of
`CountBits` bits. It has the variants of hosts and GPUs, and the race in which a guess
for the count of a leaf may be the new count of its neighbour. `Octree` lays out, sorts
and links the internal nodes.

`GlobalTree` is `GlobalAssignment::assign`. Each rank has its own leaves and counts.
`Assign` is a new call with new particles, `UpdateTree` the rebalancing and the
counting of one rank, `Reduce` the collective sum of the counts with the decision
whether to go on, and `MakeAssignment` the split of the curve with the send ranges.

`FocusTree` is `Domain::sync` and `syncGrav` from the global tree to the halo requests.
`Refine` is `updateFocus` of all ranks up to the exchange of peer flags. Then every rank
runs at its own pace through `CheckTreelets` (compare the treelets of peers with its own
leaves), `SyncTreelets` (merge what was rejected, count), and `UpdateCounts`. `Converge`,
`ConvergeGravity` and `SearchHalos` are the collective ends of the three loops. Threads
that enforce keys on a GPU may lose each other's updates (`raced`), and what is read
behind the end of an array is arbitrary (`garbage`). Coordinates are integers, in half
cells of the last level, so that the acceptance criteria and the halo boxes are exact.

### DomainExchange

State: per rank the buffer (`data`, `keys`, `aux`), `bufDesc_` and `prevBufDesc_`,
the SFC order, the send ranges, the receive log, and the messages in flight.
`Assign` is the collective part of a sync (keys, sort, counts, `uniformBins`,
send ranges, reallocation). `SendParticles`, `ReceiveParticles` and
`FinishDistribute` are `exchangeParticles` and the code after it; a receive takes
a message of any source. `UpdateLayout` places assigned particles and halos.
`RedoSend`, `RedoReceive` and `FinishRedo` are `reapplySync`. `Integrate` moves
particles and marks some for removal.

Abstractions: a particle is an identity, its coordinates are a key, the tree has
one leaf per key, and halos are any particles of other ranks.

### HaloExchange

State: per rank the position in the code, `exteriorPeers_`, the ranks it serves,
the number of messages it waits for, `haloEpoch_`, and the version of the halos.
`ExchangePeers` is `MPI_Alltoall` of the peer flags, `SendRequests`,
`ReceiveRequest` and `EndRequests` are `exchangeRequestKeys`, and `SendHalos`,
`ReceiveHalos` and `EndHalos` are `exchangeHalos`. Ranks are not synchronised
between two calls. A value is abstracted to the number of the call it was sent in.

The constant `Eager`, here and in `DomainExchange`, says whether MPI buffers
messages or a send completes only with its receipt. Both occur, depending on the
size of the message. The theorems hold for either value.

### FieldStates

A field has a state (unused, conserved, dependent, released) and holds a buffer.
`acquire` swaps the vectors of the field and of the first released field of the
same type, in the order of `data()`. `resize` may free and reallocate fields that
are not conserved.

### Kernels and Propagators

A kernel is a record: the fields it reads at its particles, the ones it reads at
their neighbours, the fields it assigns, those it adds to, and the particles it is
called for. The phases of a propagator are sequences of kernels, syncs, halo
exchanges, `release`, `acquire` and `output`. They depend on the configuration:
propagator, gravity, SLR, artificial viscosity switches, GPU, equation of state
and requested output. A value records the field it was computed for, which
kernels contributed, and the step. A sync and the use as scratch leave garbage.

### BlockTimesteps and MainLoop

`ComputeForces`, `NewHierarchy`, `ResortRungs` and `IntegrateRungs` are
`computeForces`, the two cases of `computeRungs`, and `integrate` of
`HydroVeBdtProp`. A group is one particle; times are integers; the limits that the
kernels give are inputs. For each particle the model has the rung stored in field
`rung` and how far its position is drifted, and as history variables the time
since its last own step, the length of that step, and the limit at its start.
`MainLoop` adds the decisions of the main loop (`Decide`), the snapshot, and a
crash at any time followed by a restart from the last snapshot. `safetySteps`,
which keeps a single rung after a restart with particle splitting, is left out.

### Neighbour search

`NeighborSearch` has both searches: particle by particle on the host, and by a warp
that walks the tree breadth first for a group, with the ring of nodes, the queue of
bodies and their limits. The lanes of a warp run in lockstep. `ParticleGroups` makes
fixed groups and splits them in space. `NeighborLists` has the lists of the GPU: one
per particle, compressed (`WarpCompression`, in nibbles, bytes or not at all), and
lists of clusters for superclusters, each complete or with one of the two directions
of a pair.

`ParticleLoops` is what a step does with them. `computeGroups`, the iteration of
smoothing lengths, `buildNeighborhood`, the loop over pairs and `updateSmoothingLength`
follow each other, and then a `substep`, in which particles have drifted and only some
groups are due. Warps
take groups from a counter, reserve room in a shared array and write a shared status
word; every such access is an action, so that two warps interleave in all ways. A pair
loop is what it adds to which result; the terms themselves are left out.

### Start, files and restarts

`InitGrid` cuts grids and stacks of a template block into the parts of the ranks.
`TestCases` is a table of the test cases: the parts they consist of, whether they
redistribute, the fields they fill and the settings they read. `SnapshotFile` has the
collective writer of H5Part files, the text writer and the reader. `SimInit` makes the
particle data of a test case, a snapshot, a split snapshot or a star on an orbit, and
the tags in particle ids.

`Startup` is a chain of jobs. `Launch` and `Relaunch` choose an initializer from the
command line and construct the propagator, `Load` reads its state, `InitCase`, `InitFile`, `InitSplit`
and `InitOrbit` fill the particles, `Configure` writes the settings to a new file. Then
`Forces`, `Write` and `Integrate` repeat, where every `Write` is one of the parts of a
step (step, attributes, a field, the state of the propagator), and `Crash` may come
between any two. An iteration gives every value a new stamp and moves particles between
ranks. The state of a propagator has parts (`stateParts`): the time-steps of a hierarchy,
the phases of the stirring, the star of a disk, or parameters of cooling and relaxation.
A constructor throws without the settings it needs, `Load` without a part that is not
optional, and after a split the last time-step is shortened.

`Checkpoint` is the abstract specification: a simulation begins fresh, advances, is
saved and stops, and what is resumed is one of the saved states as a whole. `Startup`
maps the columns of all ranks to a set of rows, and `Restarts` says that it implements
`Checkpoint`.

## Runs

All passing runs finish within five minutes with two workers.

| run | instance | checks |
|---|---|---|
| `tree` | 2 ranks, 3 levels, buckets of 2, hosts and GPUs, two syncs with any of five sets of keys per rank | `TreesAgree`, `FirstTreeResolved`, `OctreeLinked`, `SendsMatchAssignment` |
| `focus` | 3 ranks, 3 levels, hosts and GPUs, with and without gravity, one periodic dimension, three syncs with any of three distributions | `FocusResolved`, `TreeletsAgree`, `QuantitiesExact`, `HalosComplete` |
| `exchange` | 3 ranks, 3 particles, 2 keys, two syncs with `reapplySync`, one removal, messages of up to two particles in the sync, sends that wait; one rank starts with all particles | `NoStrayMessages`, `ReapplyMatches`, `SfcSorted`, `ParticlesConserved` |
| `halo_exchange` | 3 ranks, all patterns of needs, two exchanges, repeated requests, sends that wait | `HaloCurrent`, `PeersMatched`, `ExchangesComplete` |
| `search` | 4 problems of up to 37 particles, warps of 16 lanes, two warps, 14 combinations of neighbourhood, codec and sub-step | `GroupsPartition`, `SearchExact`, `UnconvergedRemoved`, `ListsStored`, `LoopComplete`, `SubgroupOnly` |
| `field_states` | 4 fields of two types, 2 sizes | `ActiveFieldsSized`, `ConservedKept` |
| `propagators` | all propagators, 3 steps with one time-step for all particles, or 6 sub-steps of up to 3 rungs, with and without output | `AccessAllocated`, `FieldsReturned`, `NeighborsCurrent`, `InputsComputed`, `ForcesComplete`, `OutputCurrent`, `RemovalsKept`, `AllAdvanced` |
| `main_loop` | 2 ranks with 3 groups, up to 3 rungs, limits 1, 2, 8, one crash, output at any time | `TimesAgree`, `StepWithinLimit`, `PrevStepKnown`, `EndsSynchronised` |
| `startup` | all test cases on 1 to 3 ranks, chains of up to three jobs with crashes, restarts on 1 or 2 ranks | `InitPartition`, `SettingsInForce`, `TagsApplied`, `OutputAligned`, `Restarts` |

Three more runs, `exchange_stale_removal`, `count_overflow` and `cpu_convergence`, are
expected to be violated (see below).

Why the bounds are enough to meet the interesting cases:

- Trees of three levels have leaves of all levels next to each other, so that merges
  and splits of two levels in one update, and the limit of the last level, occur. The
  keys of `tree` include none, equal ones, and marks for removal. Its counts are 6 bits
  wide, which the sums of both ranks fit in; those of `count_overflow` are 4 bits wide,
  which they do not fit in.
- The distributions of `focus` make the global tree grow, shrink and be divided at other
  places from one sync to the next. With three ranks there are peers that are not
  mutual and ranks that are no peers at all.
- Three ranks are the least for which messages of two sources race, and for which
  a rank runs ahead of one peer while another waits.
- Two exchanges are the least for which a message of the next one can be taken
  for the current one. The theorems cover any number.
- `exchange` stops after two syncs because `ParticlesConserved` fails in the third one;
  that is the run `exchange_stale_removal`. Two keys give equal keys, empty ranks and empty
  segments. Since one rank starts with all particles, three may go to one other rank, in
  two messages. The last sync adds no halos, which nothing would use.
- The problems of `search` are: particles on both sides of a periodic boundary that
  drift out of the order of their keys; particles that never get enough neighbours;
  more nodes than a warp has lanes, so that the ring wraps and overflows; and more
  neighbours than lists have room for. The warps are interchangeable (symmetry).
- Three steps include the first one, which writes no output, one that may, and the
  step after it. Six steps cover a whole hierarchy of three rungs (four sub-steps)
  and the start of the next.
- Three rungs are the least with a particle that changes between two rungs while
  a third one is drifting. Limits 2 and 1 make the smallest time-step shrink within
  a hierarchy. The code has four rungs. With two ranks there are sub-steps in which
  one rank has no active group.
- The chains of `startup` have a crash between any two parts of a snapshot, restarts
  with another number of ranks, splitting, and a restart of a restarted job. There is one
  for every kind of state that a propagator has.

### Configurations the instances leave out

Each of these was met while choosing instances, and what happens in it is a note of
a hazard in `PROJECT.json`, if it is a flaw.

- Standard SPH on hosts with the isothermal equation of state, which leaves the speed of
  sound unset: `InputsComputed` does not hold. The polytropic equation of state is only
  combined with standard SPH.
- With output from block time-steps, `ForcesComplete` admits accelerations that are the
  hydrodynamic part alone: `saveFields` restores no more, also with gravity or stirring.
- `AccessAllocated` exempts `dtCourant` of the cooling propagator, which is not allocated.
- `RemovalsKept` is stated, with block time-steps, for the rungs that were active in the
  last sub-step; the keys are scratch of the sub-steps before it.
- `NeighborsCurrent` leaves out the smoothing length, which is not exchanged again after
  it was updated.
- `ReapplyMatches` is stated for ranks that received one message per source: all messages
  of a split send are put where the first one was.
- `TreesAgree` and `OctreeLinked` say nothing of the count of a leaf or node with more
  particles than the width of the counts allows (see `count_overflow`).
- A global tree that shrinks so far that the old offset of a rank lies behind its end
  violates `FocusResolved`.
- `HalosComplete` is about syncs in which no rank fails. Failure codes of opposite sign
  cancel in the sum over the ranks, and after `maxRep` repetitions a sync goes on anyway.
- `ClockSkew` = TRUE lets the clocks of the ranks differ at the wall-clock limit: some
  ranks enter a reduction that others do not, and TLC reports the deadlock.
- `StepLengths`, that a particle which changes its rung is advanced with the length of its
  own last step, is defined in `BlockTimesteps` and does not hold.
- Ranks of `Startup` have particles: a rank without any skips collectives of the writers.
- `SedovGrid`, `SedovMagneto` and `MagneticKelvinHelmholtz` do not read all of a settings
  file and get none; magnetic and chemistry fields are not split; the propagators of disks
  and of cooling, which accept a step without their own state, run without crashes.

### Deadlock and fairness

Deadlock is checked, with two exceptions. The instances of `Propagators` end after
their last step; a `release` or `acquire` that throws violates `AccessAllocated`. In
`Halo`, ranks that wait for each other violate `ExchangesComplete`. In the other modules
the end of the behaviour is an action of its own that changes nothing, so that a rank
or a warp that waits for ever is a deadlock.

Fairness is assumed in `halo_exchange` only. `Fairness` says that a rank whose next
step is possible takes it, and that all ranks make the same calls of
`exchangeHalos`. Each rank is a sequential program and all run the same one, and MPI
delivers messages; nothing more is assumed. It is weak fairness of every step. That the
loops of `GlobalTree` and `FocusTree` end is checked as a bound on their iterations
(`FirstTreeResolved`, `FocusResolved`), which needs no fairness.

### What the runs found

Three runs check what a comment or a test says and find that the code does something
else. `PROJECT.json` quotes the lines.

| run | what happens |
|---|---|
| `exchange_stale_removal` | The mark of a removed particle survives in a halo slot of the keys. A particle received in that slot by a later sync is dropped. |
| `count_overflow` | On hosts, the counts of the ranks are summed in 32 bits and the maximum of the sum and the own count is taken. A sum of 2^32 or more wraps around instead of being capped. |
| `cpu_convergence` | On hosts, the test for particles whose number of neighbours did not converge compares the iteration with its limit after one more increment, and never marks one. On GPUs they are marked and removed. |

## Proofs

Eight modules hold theorems and the lemmas they rest on. They use only the assumptions
named in the components: `HaloAssumption` (finitely many ranks, a natural number of
exchanges, `Eager` a Boolean), `FieldAssumption` (field names are a sequence without
repetition, a natural bound on the number of particles), `BlockAssumption` (every rank
has groups, no group twice, positive limits), `LoopAssumption` (a positive last
iteration), `ExchangeAssumption` (ranks and keys exist, every particle has a first
owner, a message takes at least one element) and `PropagatorAssumption` (the fields that
the propagators name exist, those that `saveFields` releases and acquires have one type,
and there is at least one rung). Every inductive invariant below was also checked by TLC on the instance of
the run with the property.

| theorem | module | property of a run |
|---|---|---|
| `HaloCurrentHolds`, `PeersMatchedHolds` | `ParticleDataProofs` | `HaloCurrent`, `PeersMatched` |
| `ActiveFieldsSizedHolds`, `ConservedKeptHolds` | `ParticleDataProofs` | `ActiveFieldsSized`, `ConservedKept` |
| `TimesAgreeHolds`, `StepWithinLimitHolds`, `PrevStepKnownHolds`, `EndsSynchronisedHolds` | `BlockTimestepsProofs` | `TimesAgree`, `StepWithinLimit`, `PrevStepKnown`, `EndsSynchronised` |
| `NoStrayMessagesHolds` | `ExchangeProofs` | `NoStrayMessages` |
| `SfcSortedHolds` | `SfcOrderProofs` | `SfcSorted` |
| `AllAdvancedHolds`, `RemovalsKeptHolds` | `PropagatorsProofs` | `AllAdvanced`, `RemovalsKept` |
| `AccessAllocatedHolds`, `FieldsReturnedHolds` | `FieldMemoryProofs` | `AccessAllocated`, `FieldsReturned` |
| `ReceivedBesideAssigned` | `ExchangeProofs` | none (a fact about operators) |
| `RangesPartition` | `ParticleDataProofs` | none (a fact about operators) |

`ParticleDataProofs` proves `TypeOK`, `HaloCurrent` and `PeersMatched` for any set of ranks,
any number of exchanges, and either kind of send. Neither property is inductive: that
the received values are the current ones depends on which messages are in flight, and
the receive loop only counts. `HaloInv` says exactly which messages are in flight (a
request until it is received; the halos of call `e` from `q` to `r` while `q` has made
the call and `r` has older values) and that the number a rank waits for is the number of
peers it has not heard of. So the loop ends only when all have been heard, and a tag
selects one message per peer. The proof has one step per action, with lemmas for the
cardinalities and for the distinctness of tags.

`ParticleDataProofs` also proves `FieldTypeOK`, `ActiveFieldsSized` and the action
property `ConservedKept` for any fields, types and sizes. `FieldInv` extends the size
property to states before the first `resize` and adds that the vectors are permuted among
the fields of a type (`VectorsPermuted`). This is needed because `resize` works on vectors:
if two fields held the same one, resizing an active field would also resize an unused
one, and dropping a dependent field would drop a conserved one.

`BlockTimestepsProofs` proves `TimesAgree`, `StepWithinLimit` and `PrevStepKnown` for
any ranks, groups, rungs and limits, any number of iterations and any number of
restarts. The three are about single phases and say little about the others, so
`StepInv` carries them through a hierarchy. It says

- that the sub-step lies in the hierarchy, and that the ranges of the rungs cut the
  sorted list of a rank's groups, a permutation of the groups it began with
  (`SubstepInHierarchy`, `RangesDivide`);
- how far every rung has drifted, by whether its step starts at the sub-step, and that
  the particles of its range are there (`DriftKnown`, from which `TimesAgree` follows);
- that the last steps are stored for the groups at the start of a hierarchy
  (`LastStepsStored`);
- that the drift of a rung, plus what is left of its step if all sub-steps are as long as
  the first time-step of some rank, fits the limit of its particles (`LimitsHold`, from
  which `StepWithinLimit` follows). One rank is enough, because the length of a sub-step
  is the minimum over the ranks.

The lemmas are about `2 ^ i` and `%` (which rungs are active after a sub-step, that a
step is not cut off by the end of the hierarchy) and about the sort and the
`upper_bound` that make the ranges. A snapshot is written between hierarchies only
(`FileSynchronised`), so that a restart begins in a state of `StepInv`.

`BlockTimestepsProofs` also proves `EndsSynchronised`. The loop may pass its last iteration
while a hierarchy is not finished, by less than the number of its sub-steps. This is not
inductive: `LoopInv` adds that beyond the last iteration the sub-step is ahead of the
excess (`Overrun`), so that the hierarchy was entered before the last iteration and no new
one is begun, and that the iteration of the snapshot fits into the hierarchy stored with
it (`FileInTime`), since a restart goes on from there.

`ExchangeLemmas` and `ExchangeProofs` prove `NoStrayMessages` for any number of ranks,
particles, keys, halos, syncs and removed particles, any size of a message and either kind
of send. A receiver does not know which messages to expect. It knows how many particles
it is assigned and how many of these it has, and `exchangeParticles` returns when the
others have come. `CountInv` (module `ExchangeInvariant`) is the account of this: the
elements in flight to a rank, plus those that ranks before their send will send to it,
are the elements it still expects, in the exchange and in its repetition by `reapplySync`
(`CountOK`). It needs

- that the counts of the assignment are the sums over ranks of what they send
  (`AssignmentOK`): `createSendRanges` cuts the sorted keys of every rank at the same
  boundaries at which the global counts were cut (`CountsAgree`);
- that a channel holds the last chunks of the send, none lost and none twice
  (`ChannelOK`, `ChunkFacts`);
- that buffers, their descriptions and the orderings fit each other, also after halos
  were added and particles moved or dropped (`BuffersOK`, `OrderOK`, `SendsOK`).

When a rank leaves an exchange it expects nothing, so nothing addressed to it is left, and
the next sync, which uses the same tag, does not meet messages of the last.
`ReceivedBesideAssigned` is used on the way: for every buffer, the received particles fit,
do not touch the assigned ones, and fill the range that is sorted next, although three
functions choose the side on which they are put, each by itself.

`SfcOrderProofs` proves `SfcSorted` for the same constants. `CountInv` says how many
elements are where, not which, and `SfcSorted` speaks of the end of a sync only: keys are
computed, sorted and cut before the exchange, the particles travel without them, and they
are put together again by index. `SortInv` follows both. It says

- that the order of the sorter still leads from a key to its particle, and that the send
  ranges cut the sorted keys exactly at the boundaries of the segments (`OwnOK`), so that
  what is sent to a rank lies in its segment (`InFlightOK`);
- that the received particles fill their range from its start (`ReceivedOK`). Then the
  keys computed for it are keys of the segment, and the sort of the envelope puts nothing
  between the particles below the segment and the first one of it;
- that the view of the sorted envelope begins in the segment (`ViewOK`). It need not end
  there: keys marked for removal follow, and `updateLayout` counts them out;
- that no rank moves its particles while another one still exchanges (`Together`), and
  that no two ranks hold the same particle (`Apart`). Without these a step of one rank
  would change positions under the keys of another. `Apart` holds since the segments are
  disjoint and a position has one key.

`PropagatorsProofs` proves `AllAdvanced` and `RemovalsKept` for every propagator and
combination of options, with or without output, and for any number of time-steps and
rungs. The first part is about the programs: which operations each of them has, that a
domain sync can only be the first operation of `computeForces`, and that `integrate`
begins with `computeRungs` if there are block time-steps and else has kernels only. No
kernel of it assigns keys (`updateSmoothingLength` and the accretion add marks to them),
and positions are assigned by `computePositions` for the rungs that advance and by
`driftPositions` for the others (`IntegrateKernel`). `StepInv` is the second part. It says

- that the vectors are permuted among the fields, so that a kernel that writes one field
  leaves the others (`ShapeOK`);
- that the rungs that advance are moved once `computePositions` was called in this step,
  and the active ones marked once `updateSmoothingLength` was (`MovedOK`, `MarkedOK`);
- that the sub-step lies in its hierarchy (`SubstepOK`);
- that the next step finds the rungs of the last one marked and, if it begins a hierarchy,
  all particles moved (`ReadyOK`).

The last point is a question about numbers: a hierarchy of `n` rungs ends with sub-step
`2 ^ (n - 1)`, and `butterfly`, the exponent of the first power of two that does not divide
a number, is `n` there, so that all rungs advance. That such a power exists for every
number, as the `CHOOSE` in `butterfly` needs, is proved in `NumberLemmas`
(`PowerBeyond`, `PowersDividing`).

`FieldMemoryProofs` proves `AccessAllocated` and `FieldsReturned` for every propagator,
combination of options and set of fields to be written. The programs of `computeForces`
and `integrate` only need the fields that `activateFields` declares, operation by
operation (`Fits`, `Fitting`). `saveFields` also releases and acquires. `AllocInv` says
which memory is lent after each of its operations: in every stage the temporaries are
those that the lists of that stage name and their lenders are released, and after the
last one nothing is. An `acquire` finds a suitable vector since a field of the same type
was released just before.

`ParticleDataProofs` finally proves `RangesPartition`: `partitionRange` loses no index and gives none
to two ranks, and the parts differ in length by one at most. Readers of files and the
grids of test cases rest on it.

`NumberLemmas` holds what several proofs need: division and remainder, powers of two,
least and greatest elements, injections and orders of finite sets. The provers cannot
use the induction theorems of the library, which take an operator as a parameter. What
needs induction over numbers here is proved from the set of counterexamples, which has a
least element if it is not empty (`LeastElement`, `InductionOverNat`).

Only model-checked:

- liveness (`ExchangesComplete`), which the prover does not handle;
- `ReapplyMatches`: where a particle of the repetition goes is followed through two
  exchanges and two orderings, for which `CountInv` and `SortInv` know too little;
- `ParticlesConserved`: it does not hold for every value of the constants, since a late
  removal drops particles (see the findings);
- the refinement `Restarts` and the other properties of `Startup`: columns of ranks are
  joined, dealt out and summed by folds;
- the trees, the focus, the searches and the files (`GlobalTree`, `FocusTree`,
  `NeighborSearch`, `ParticleLoops` and the modules they use): their properties compare the
  results of folds over trees and lists with reference definitions, and a proof would be
  an induction over each of these structures;
- the other properties of `Propagators`, which follow every field through every kernel
  of a program. Nothing in them is unbounded but the number of steps.

## Not modelled

- Floating-point arithmetic: kernels, equation of state, cooling, stirring, the fit of
  the bounding box. Kernels appear with the fields they touch.
- Gravity beyond mass centers and acceptance criteria: multipoles, the traversals that
  evaluate them, Ewald sums. Their results are sums of floating-point terms without
  state of their own.
- Curves in two and in mixed dimensions.
- Observables, analytical solutions, visualisation, timers, profiling and scripts: they
  change no state of the simulation.
- The GPU variants of the particle exchange and of kernels that implement the same
  operation as the host. Where hosts and GPUs differ for the caller (rebalancing,
  searches, scratch buffers, block time-steps) both are modelled.
- `safetySteps` of block time-steps, and the sequential writer of profiling data.
- Atomicity below a step of a warp: its lanes run in lockstep.
