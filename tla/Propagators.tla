---------------------------- MODULE Propagators ----------------------------
(***************************************************************************)
(* The time-step of the propagators: the order in which computeForces,     *)
(* saveFields and integrate synchronise the domain, exchange halos, call   *)
(* the kernels, and release and acquire fields.                            *)
(*                                                                         *)
(* A propagator is a sequence of operations per phase of the main loop.    *)
(* The ranks run it in lockstep: HaloExchange shows that the halos an      *)
(* exchange returns are those the owners had in the same call.  A value    *)
(* records the field it was computed for, the kernels that contributed to  *)
(* it, and the step.  Values are held per buffer, for the particles a rank *)
(* owns and for their images in the halos of other ranks, and for each     *)
(* rung of the block time-steps.                                           *)
(***************************************************************************)
EXTENDS Kernels, Integers, FiniteSets

CONSTANTS
    FieldNames,   \* names of the fields, in the order of data()
    Type,         \* Type[f]: element type of the vector of field f
    Confs,        \* configurations of a run: propagator and options
    MaxRungs      \* Timestep::maxNumRungs

VARIABLES
    conf,          \* [prop, g, slr, mhdSlr, av, gpu, eos, out, steps], out: the fields to be written,
                   \* steps: a bound, the number of time-steps
    phase,         \* "forces", "save", "integrate" or "done"
    pc,            \* number of the next operation of the phase
    step,          \* d.iteration
    fieldStates,   \* states of the fields, see FieldStates
    data,          \* the buffer each field holds, see FieldStates
    content,       \* content[b]: the values in buffer b
    pending,       \* indicesDone: fields that saveFields has not written yet
    substep,       \* timestep_.substep
    numRungs       \* timestep_.numRungs

vars == <<conf, phase, pc, step, fieldStates, data, content, pending, substep, numRungs>>

\* every buffer has the size of the data set between two calls of resize
FS == INSTANCE FieldStates WITH MaxSize <- 1, size <- <<>>, numPart <- 1

Field == FS!Field

\* fields that saveFields releases, and fields that it acquires in their memory
Borrowed == {"c11", "c12", "ay", "az", "rho", "p"}

\* the fields of the propagators
Named ==
    {"x", "h", "m", "vx", "x_m1", "u", "temp", "du_m1", "alpha", "rung", "chem", "keys",
     "ax", "ay", "az", "du", "c", "nc", "dtCourant", "c11", "c12", "c13", "rho", "p",
     "prho", "xm", "kx", "divv", "curlv", "gradh", "dV11",
     "Bx", "dBx", "dBx_m1", "psi_ch", "d_psi_ch", "d_psi_ch_m1", "dvxdx", "divB", "divB_conj",
     "curlB_x", "gradB_norm", "alpha_B", "dB_diss_x", "du_diss", "dBxdx"}

ASSUME PropagatorAssumption ==
    /\ Named \subseteq Field
    /\ \A f, g \in Borrowed : Type[f] = Type[g]
    /\ MaxRungs \in Nat \ {0}

\* a value that was not computed for any field
Garbage == [of |-> "none", by |-> <<>>, step |-> 0]

\* 1, 2, 1, 3, 1, 2, 1, 4, ...: the number of trailing zeros plus one
butterfly(n) ==
    IF n = 0 THEN 0 ELSE CHOOSE r \in 1 .. n + 1 : n % (2 ^ (r - 1)) = 0 /\ n % (2 ^ r) # 0

-----------------------------------------------------------------------------
(* Properties of the configurations *)

isStd == conf.prop \in {"std", "std-relax", "std-disk", "std-cooling"}

isBdt == conf.prop \in {"ve-bdt", "turbulence"}

\* particles are told apart by their rung
Class == IF isBdt THEN 0 .. MaxRungs - 1 ELSE {0}

isMhd == conf.prop \in {"magneto-ve", "magneto-turb-ve"}

isTurb == conf.prop \in {"turbulence", "turbulence-ve", "magneto-turb-ve"}

\* the energy variable that is integrated
Energy == IF conf.prop = "nbody" THEN {} ELSE IF isStd THEN {"u"} ELSE {"temp"}

\* ConservedFields and the fields that are always conserved
Conserved ==
    {"x", "h", "m", "vx", "x_m1"} \cup Energy
    \cup (IF conf.prop = "nbody" THEN {} ELSE {"du_m1"})
    \cup (IF isStd \/ conf.prop = "nbody" THEN {} ELSE {"alpha"})
    \cup (IF isBdt THEN {"rung"} ELSE {})
    \cup (IF conf.prop = "std-cooling" THEN {"chem"} ELSE {})
    \cup (IF isMhd THEN {"Bx", "dBx", "dBx_m1", "psi_ch", "d_psi_ch", "d_psi_ch_m1"} ELSE {})

DependentStd ==
    {"rho", "p", "c", "du", "nc"} \cup Acc \cup Cij
    \cup (IF conf.prop = "std-cooling" THEN {} ELSE {"dtCourant"})

\* (mutant) gradh is not among the dependent fields
DependentVeNoGradh ==
    {"prho", "c", "du", "xm", "kx", "nc", "dtCourant", "divv", "curlv"} \cup Acc \cup Cij

DependentVe ==
    {"prho", "c", "du", "xm", "kx", "nc", "dtCourant", "divv", "curlv", "gradh"} \cup Acc \cup Cij
    \cup (IF conf.slr /\ ~isMhd THEN {"dV11"} ELSE {})

DependentMhd ==
    {"p", "dvxdx", "divB", "divB_conj", "curlB_x", "gradB_norm", "alpha_B", "dB_diss_x", "du_diss"}
    \cup (IF conf.mhdSlr THEN {"dBxdx"} ELSE {})

\* DependentFields and the keys
Dependent ==
    {"keys"} \cup
    (CASE conf.prop = "nbody" -> Acc \cup {"du", "du_m1"}
       [] isStd               -> DependentStd
       [] isMhd               -> DependentVe \cup DependentMhd
       [] OTHER               -> DependentVe)

\* activateFields
activateFields ==
    [f \in Field |-> CASE f \in Conserved -> "conserved"
                       [] f \in Dependent -> "dependent"
                       [] OTHER           -> "unused"]

-----------------------------------------------------------------------------
(* Block time-steps *)

\* activeRung; 0 at the start of a hierarchy, and always without block time-steps
activeRung ==
    IF ~isBdt \/ substep = 0 \/ substep >= 2 ^ (numRungs - 1) THEN 0 ELSE butterfly(substep)

isSynced == activeRung = 0

\* rungs of the current hierarchy
Rungs == 0 .. numRungs - 1

\* activeRungs_
ActiveRungs == IF isSynced THEN Class ELSE 0 .. activeRung - 1

\* (mutant) the rungs of this sub-step instead of those whose time-step ends with it
AdvancingActive == IF isBdt THEN {i \in Rungs : i < butterfly(substep)} ELSE Class

\* rungs that integrate advances to the end of their time-step
Advancing == IF isBdt THEN {i \in Rungs : i < butterfly(substep + 1)} ELSE Class

\* the rungs a kernel is called for
Rung(grp) ==
    CASE grp = "active"  -> ActiveRungs
      [] grp = "all"     -> Class
      [] grp = "advance" -> Advancing
      [] grp = "drift"   -> Rungs \ Advancing

\* rungs with particles while a step is computed
Live == IF isSynced THEN Class ELSE Rungs

-----------------------------------------------------------------------------
(* The operations of computeForces *)

Sync == [op |-> "sync"]

Halo(fields, scratch) == [op |-> "halo", fields |-> fields, scratch |-> scratch]

fillMassHalos == [op |-> "fillMassHalos"]

Opt(cond, ops) == IF cond THEN ops ELSE <<>>

gravity == <<upsweep, traverse(IF isBdt /\ ~isSynced THEN "active" ELSE "all")>>

stirring == Opt(isTurb, <<driveTurbulence>>)

StdScratch == {"ax", "ay"}

forcesStd ==
    <<Sync, Halo({"m"}, StdScratch), updateSmoothingLengthIterative, findNeighborsSfc, computeDensity,
      IF conf.prop = "std-cooling" THEN eos_cooling ELSE computeEOS_HydroStd(conf.eos, conf.gpu, Energy),
      Halo({"vx", "rho", "p", "c"}, StdScratch), computeIAD, Halo(Cij, StdScratch),
      computeMomentumEnergySTD(conf.gpu)>>
    \o Opt(conf.g, gravity)
    \o Opt(conf.prop = "std-relax", <<relaxSystem>>)
    \o Opt(conf.prop = "std-disk", <<betaCooling, computeCentralForce>>)

VeScratch == {"ax", "keys"}

\* (mutant) kx is not exchanged
exchangeVelocities == Halo({"vx"}, VeScratch)

exchangeVolumes == Halo({"vx", "kx"}, VeScratch)

forcesVe ==
    <<Sync, fillMassHalos, updateSmoothingLengthIterative, findNeighborsSfc,
      computeXMass, Halo({"xm"}, VeScratch), computeVe, exchangeVolumes,
      computeIadDivvCurlvGradh, rhoTimestep, computeEOS(conf.eos, Energy),
      Halo(Cij \cup {"divv", "curlv", "c"}, VeScratch)>>
    \o Opt(conf.av, <<computeAVswitches>>)
    \o <<Halo({"prho", "alpha"} \cup (IF conf.slr THEN {"dV11"} ELSE {}), VeScratch),
         computeMomentumEnergy(conf.slr)>>
    \o Opt(conf.g, gravity) \o stirring

\* the second scratch buffer of the halo exchanges, haloRecvScratch, is not a field
BdtScratch == {"keys"}

partialSync == <<Halo({"x", "h"}, BdtScratch)>>

forcesBdt ==
    (IF isSynced THEN <<Sync>> ELSE partialSync)
    \o <<fillMassHalos, updateSmoothingLengthIterative, findNeighborsSfc,
         computeXMass, Halo({"xm"}, BdtScratch), computeVe, Halo({"vx", "kx"}, BdtScratch),
         computeIadDivvCurlvGradh, groupDivvTimestep,
         Halo(Cij \cup {"divv", "curlv", "gradh"}, BdtScratch),
         computeEOS(conf.eos, Energy), Halo({"prho", "c"}, BdtScratch)>>
    \o Opt(conf.av, <<computeAVswitches>>)
    \o <<Halo({"alpha"} \cup (IF conf.slr THEN {"dV11"} ELSE {}), BdtScratch),
         computeMomentumEnergy(conf.slr)>>
    \o Opt(conf.g, gravity) \o <<groupAccTimestep>> \o stirring

\* ax holds the accelerations by then, prho stands in
MhdScratch == {"prho", "keys"}

forcesMhd ==
    <<Sync, fillMassHalos, updateSmoothingLengthIterative, findNeighborsSfc,
      computeXMass, Halo({"xm"}, VeScratch), computeVe, exchangeVolumes, Halo({"Bx"}, VeScratch),
      computeIadFullDivvCurlv(conf.mhdSlr), rhoTimestep, computeEOS(conf.eos, Energy),
      Halo(Cij \cup {"divv", "curlv", "c"}, VeScratch)>>
    \o Opt(conf.av, <<computeAVswitches>>)
    \o <<Halo({"alpha", "gradh", "p"}, VeScratch), Halo({"dvxdx"}, VeScratch),
         computeMagneticMomentumEnergy(conf.slr),
         Halo({"divB_conj", "curlB_x", "psi_ch", "alpha_B"} \cup (IF conf.mhdSlr THEN {"dBxdx"} ELSE {}), MhdScratch),
         computeInductionAndDissipation(conf.mhdSlr)>>
    \o Opt(conf.g, gravity) \o stirring

forcesNbody == <<Sync, Halo({"m"}, StdScratch), fillAcc>> \o gravity

\* computeForces, and the observables of the main loop in a synchronised state
computeForces ==
    (CASE conf.prop = "nbody" -> forcesNbody
       [] isStd               -> forcesStd
       [] isBdt               -> forcesBdt
       [] isMhd               -> forcesMhd
       [] OTHER               -> forcesVe)
    \o Opt(isSynced, <<computeConservedQuantities(Energy, isMhd)>>)

-----------------------------------------------------------------------------
(* The operations of saveFields *)

release(f) == [op |-> "release", field |-> f]

acquire(f) == [op |-> "acquire", field |-> f]

output == [op |-> "output"]

\* recovery of the temporaries, if there is anything left to write
recoverIad == [computeIadDivvCurlvGradh EXCEPT !.ifPending = TRUE]

\* memory for the temporaries of the second output pass
borrow == <<release("c11"), release("c12"), acquire("rho"), acquire("p")>>

giveBack == <<release("rho"), release("p"), acquire("c11"), acquire("c12")>>

\* (mutant) the temporaries of the second pass stay
saveVeTwoPasses == <<output>> \o borrow \o <<computeEOS(conf.eos, Energy), output>>

saveVe ==
    <<output>> \o borrow \o <<computeEOS(conf.eos, Energy), output>> \o giveBack \o <<recoverIad, output>>

saveBdt ==
    <<output, release("ay"), release("az"), acquire("rho"), acquire("p"), computeEOS(conf.eos, Energy), output,
      release("rho"), release("p"), recoverIad, output, acquire("ay"), acquire("az"),
      computeMomentumEnergy(conf.slr)>>

saveMhd ==
    <<output, release("c11"), acquire("rho"), computeEOS(conf.eos, Energy), output,
      release("rho"), acquire("c11"), recoverIad, output>>

\* outputAllocatedFields
saveAllocated == <<output>>

saveFields ==
    CASE isStd \/ conf.prop = "nbody" -> saveAllocated
      [] isBdt                        -> saveBdt
      [] isMhd                        -> saveMhd
      [] OTHER                        -> saveVe

-----------------------------------------------------------------------------
(* The operations of integrate *)

\* choice of the rungs, keys are scratch of the sort by time-step
computeRungs == [op |-> "computeRungs"]

storeRung == [Loop("storeRung", {}, {"rung"}) EXCEPT !.grp = "advance"]

integrateStd ==
    Opt(conf.prop = "std-disk", <<duTimestep>>)
    \o Opt(conf.prop = "std-cooling", <<coolingTimestep>>)
    \o <<computeTimestep(conf.g)>>
    \o Opt(conf.prop = "std-cooling", <<cool_particles>>)
    \o <<computePositions(Energy, "active"), updateSmoothingLength>>
    \o Opt(conf.prop = "std-disk", <<computeAccretionCondition>>)

integrateVe == <<computeTimestep(conf.g), computePositions(Energy, "active"), updateSmoothingLength>>

\* (mutant) particles are marked for removal before the sort that has keys as scratch
integrateBdtMarkFirst ==
    <<updateSmoothingLength, computeRungs, computePositions(Energy, "advance"), storeRung, driftPositions(Energy)>>

\* advancing starts with a drift back to the start of the time-step of the rung
integrateBdt ==
    <<computeRungs, [computePositions(Energy, "advance") EXCEPT !.own = @ \cup {"rung"}], storeRung,
      [driftPositions(Energy) EXCEPT !.own = @ \cup {"rung"}], updateSmoothingLength>>

integrateMhd ==
    <<computeTimestep(conf.g), computePositions(Energy, "active"), integrateMagneticQuantities,
      updateSmoothingLength>>

integrateNbody == <<computeTimestep(conf.g), computePositions(Energy, "active")>>

integrate ==
    CASE conf.prop = "nbody" -> integrateNbody
      [] isStd               -> integrateStd
      [] isBdt               -> integrateBdt
      [] isMhd               -> integrateMhd
      [] OTHER               -> integrateVe

-----------------------------------------------------------------------------
(* Execution *)

Program ==
    CASE phase = "forces"    -> computeForces
      [] phase = "save"      -> saveFields
      [] phase = "integrate" -> integrate
      [] OTHER               -> <<>>

\* the phase has an operation of kind k next
AtOp(k) == pc <= Len(Program) /\ Program[pc].op = k

Op == Program[pc]

own(f, c) == content[data[f]].own[c]

halo(f, c) == content[data[f]].halo[c]

\* the field whose vector is buffer b
Holder(b) == CHOOSE f \in Field : data[f] = b

\* the new content of every buffer from that of the field that holds it
Assign(F(_)) == content' = [b \in Field |-> F(Holder(b))]

GarbageBuffer == [own |-> [c \in Class |-> Garbage], halo |-> [c \in Class |-> Garbage]]

Fresh(f, by) == [c \in Class |-> [of |-> f, by |-> <<by>>, step |-> 0]]

Proceed ==
    /\ pc' = pc + 1
    /\ UNCHANGED <<conf, phase, step>>

Init ==
    /\ conf \in Confs
    /\ phase = "forces" /\ pc = 1 /\ step = 1
    /\ fieldStates = activateFields
    /\ data = [f \in Field |-> f]
    /\ content = [f \in Field |->
           IF f \in Conserved \cup {"keys"}
           THEN [own |-> Fresh(f, "init"), halo |-> [c \in Class |-> Garbage]]
           ELSE GarbageBuffer]
    /\ pending = {}
    /\ substep = 0 /\ numRungs = 1

\* domain.sync or domain.syncGrav, then resize: particles move between ranks with their
\* conserved fields, everything else is scratch.  x, h and keys have halos afterwards,
\* with gravity also m.
SyncStep ==
    /\ AtOp("sync")
    /\ LET halos == {"x", "h", "keys"} \cup (IF conf.g \/ conf.prop = "nbody" THEN {"m"} ELSE {})
           synced(f) ==
             IF f = "keys" \/ (f \in Conserved /\ \A c \in Rungs : own(f, c).of = f)
             THEN [own |-> Fresh(f, "sync"), halo |-> IF f \in halos THEN Fresh(f, "sync") ELSE GarbageBuffer.halo]
             ELSE GarbageBuffer
       IN  Assign(synced)
    /\ Proceed
    /\ UNCHANGED <<fieldStates, data, pending, substep, numRungs>>

\* domain.exchangeHalos; on GPUs messages are packed and unpacked in the scratch fields
HaloStep ==
    /\ AtOp("halo")
    /\ LET exchanged(f) ==
             CASE f \in Op.fields               -> [content[data[f]] EXCEPT !.halo = content[data[f]].own]
               [] f \in Op.scratch /\ conf.gpu  -> GarbageBuffer
               [] OTHER                         -> content[data[f]]
       IN  Assign(exchanged)
    /\ Proceed
    /\ UNCHANGED <<fieldStates, data, pending, substep, numRungs>>

\* fillMassHalos: particles have the same mass
MassStep ==
    /\ AtOp("fillMassHalos")
    /\ LET filled(f) == IF f = "m" THEN [content[data[f]] EXCEPT !.halo = content[data[f]].own]
                        ELSE content[data[f]]
       IN  Assign(filled)
    /\ Proceed
    /\ UNCHANGED <<fieldStates, data, pending, substep, numRungs>>

\* is the kernel to be called at all
Called(k) == k.ifPending => pending # {}

\* a kernel assigns and increments the fields of the particles it is called for
KernelStep ==
    /\ AtOp("kernel")
    /\ LET sets == Op.set \cup {f \in Op.opt : FS!isAllocated(f)}
           value(f, c) ==
             IF f \in sets
             THEN [of |-> f, by |-> <<Op.name>>, step |-> step]
             ELSE [own(f, c) EXCEPT !.by = Append(@, Op.name)]
           computed(f) ==
             IF Called(Op) /\ f \in sets \cup Op.add
             THEN [content[data[f]] EXCEPT !.own =
                     [c \in Class |-> IF c \in Rung(Op.grp) THEN value(f, c) ELSE own(f, c)]]
             ELSE content[data[f]]
       IN  Assign(computed)
    /\ Proceed
    /\ UNCHANGED <<fieldStates, data, pending, substep, numRungs>>

ReleaseStep ==
    /\ AtOp("release")
    /\ FS!Release(Op.field)
    /\ Proceed
    /\ UNCHANGED <<pending, substep, numRungs>>

AcquireStep ==
    /\ AtOp("acquire")
    /\ \E g \in Field : FS!Acquire(Op.field, g)
    /\ Proceed
    /\ UNCHANGED <<pending, substep, numRungs>>

\* every field that is allocated now is written
OutputStep ==
    /\ AtOp("output")
    /\ pending' = {f \in pending : ~FS!isAllocated(f)}
    /\ Proceed
    /\ UNCHANGED <<fieldStates, data, content, substep, numRungs>>

\* computeRungs: a new hierarchy at a synchronised state, else the active groups are
\* sorted into their rungs again
RungsStep ==
    /\ AtOp("computeRungs")
    /\ IF isSynced
       THEN numRungs' \in 1 .. MaxRungs /\ substep' = 0
       ELSE UNCHANGED <<numRungs, substep>>
    /\ LET sorted(f) == IF f = "keys" THEN [content[data[f]] EXCEPT !.own = GarbageBuffer.own]
                        ELSE content[data[f]]
       IN  Assign(sorted)
    /\ Proceed
    /\ UNCHANGED <<fieldStates, data, pending>>

\* the main loop after computeForces: output may be due in a synchronised state, but not in
\* the first iteration
EndForces ==
    /\ phase = "forces" /\ pc > Len(Program)
    /\ \/ /\ isSynced /\ step > 1 /\ conf.out # {}
          /\ phase' = "save" /\ pending' = conf.out
       \/ phase' = "integrate" /\ pending' = {}
    /\ pc' = 1
    /\ UNCHANGED <<conf, step, fieldStates, data, content, substep, numRungs>>

EndSave ==
    /\ phase = "save" /\ pc > Len(Program)
    /\ phase' = "integrate" /\ pc' = 1 /\ pending' = {}
    /\ UNCHANGED <<conf, step, fieldStates, data, content, substep, numRungs>>

\* the next time-step
EndIntegrate ==
    /\ phase = "integrate" /\ pc > Len(Program)
    /\ substep' = IF isBdt THEN substep + 1 ELSE substep
    /\ step' = step + 1
    /\ phase' = IF step < conf.steps THEN "forces" ELSE "done"
    /\ pc' = 1
    /\ UNCHANGED <<conf, fieldStates, data, content, pending, numRungs>>

Next ==
    \/ SyncStep \/ HaloStep \/ MassStep \/ KernelStep \/ RungsStep
    \/ ReleaseStep \/ AcquireStep \/ OutputStep
    \/ EndForces \/ EndSave \/ EndIntegrate

Spec == Init /\ [][Next]_vars

-----------------------------------------------------------------------------
(* Properties, stated of the operation that is next *)

AtKernel == AtOp("kernel") /\ Called(Op)

\* Whatever a kernel reads at a neighbour is the same on the rank that owns the neighbour
\* and on the ranks that have it as a halo: every field was exchanged after it was last
\* computed, before the first kernel that reads it, and not used as scratch in between.
\* The smoothing length is left out: updateSmoothingLengthIterative changes it after its
\* halos have been set up, and it is not exchanged again.
NeighborsCurrent ==
    AtKernel =>
        \A f \in Op.nbr \ {"h"}, c \in Live : halo(f, c) = own(f, c) /\ own(f, c).of = f

\* Whatever a kernel reads at the particles it is called for is a value of that field, and
\* within computeForces and saveFields a dependent field was computed in the same step:
\* no value survives a sync, the use as scratch, or a release by accident.
InputsComputed ==
    AtKernel =>
        \A f \in Op.own, c \in Rung(Op.grp) \cap Live :
            /\ own(f, c).of = f
            /\ phase # "integrate" /\ f \notin Conserved /\ c \in ActiveRungs => own(f, c).step = step

\* The exemption of AccessAllocated: computeMomentumEnergySTD writes dtCourant, and it is not among the
\* fields that the cooling propagator activates.
Unallocated == IF conf.prop = "std-cooling" THEN {"dtCourant"} ELSE {}

\* No kernel and no exchange touches a field without memory, with one exception, dtCourant of std-cooling
\* (Unallocated), and release and acquire of saveFields never throw.
AccessAllocated ==
    /\ AtKernel => \A f \in (Op.own \cup Op.nbr \cup Op.set \cup Op.add) \ Unallocated : FS!isAllocated(f)
    /\ AtOp("halo") => \A f \in Op.fields \cup Op.scratch : FS!isAllocated(f)
    /\ AtOp("release") => fieldStates[Op.field] = "dependent"
    /\ AtOp("acquire") => fieldStates[Op.field] = "unused" /\ FS!Suitable(Op.field) # {}

\* saveFields gives back what it borrows: outside of it exactly the fields of activateFields have memory,
\* each in its state, whatever the fields that are written and the passes it takes to write them.
FieldsReturned == phase # "save" => fieldStates = activateFields

\* the terms of the equation of motion and of the energy equation
AccelerationTerms ==
    (CASE conf.prop = "nbody" -> {"fill"}
       [] isStd               -> {"computeMomentumEnergySTD"}
       [] isMhd               -> {"computeMagneticMomentumEnergy"}
       [] OTHER               -> {"computeMomentumEnergy"})
    \cup (IF conf.g \/ conf.prop = "nbody" THEN {"traverse"} ELSE {})
    \cup (IF isTurb THEN {"driveTurbulence"} ELSE {})
    \cup (IF conf.prop = "std-relax" THEN {"relaxSystem"} ELSE {})
    \cup (IF conf.prop = "std-disk" THEN {"computeCentralForce"} ELSE {})

HeatingTerms ==
    (IF isStd THEN {"computeMomentumEnergySTD"}
     ELSE IF isMhd THEN {"computeMagneticMomentumEnergy", "computeInductionAndDissipation"}
     ELSE {"computeMomentumEnergy"})
    \cup (IF conf.prop = "std-disk" THEN {"betaCooling"} ELSE {})
    \cup (IF conf.prop = "std-cooling" THEN {"cool_particles"} ELSE {})

\* the value of field f is the sum of these terms, each counted once
SumOf(f, c, terms) ==
    LET by == own(f, c).by
    IN  /\ own(f, c).of = f
        /\ {by[i] : i \in DOMAIN by} = terms /\ Len(by) = Cardinality(terms)

\* what saveFields leaves in the accelerations of block time-steps, which have lent their memory: it calls
\* computeMomentumEnergy again, but neither gravity nor the stirring
RestoredTerms == {"computeMomentumEnergy"}

\* When positions are integrated or drifted, the accelerations and the heating of every particle are sums
\* to which each term that the propagator has was added exactly once.  The accelerations of block
\* time-steps in a run that writes fields are an exception: they may be the RestoredTerms alone.  The
\* other propagators have complete sums also if fields were written in between.
ForcesComplete ==
    AtKernel /\ Op.name \in {"computePositions", "driftPositions"} =>
        \A c \in Rung(Op.grp) :
            /\ \A f \in Acc :
                 \/ SumOf(f, c, AccelerationTerms)
                 \/ isBdt /\ conf.out # {} /\ SumOf(f, c, RestoredTerms)
            /\ Energy # {} => SumOf("du", c, HeatingTerms)

\* fields without values to write: keys are scratch, and so is prho in the magnetic
\* propagators; the energy derivatives of nbody are allocated, but never computed
NoOutput ==
    {"keys"} \cup (IF isMhd THEN {"prho"} ELSE {}) \cup (IF conf.prop = "nbody" THEN {"du", "du_m1"} ELSE {})

\* A field that is written to a file has the values of that field of the current step,
\* whichever of the output passes writes it.
OutputCurrent ==
    AtOp("output") =>
        \A f \in pending \ NoOutput, c \in Class :
            FS!isAllocated(f) =>
                own(f, c).of = f /\ (f \in Conserved \/ own(f, c).step = step)

\* At a domain sync all particles are at the end of their time-step, at the same time, and
\* none of them is where a drift of a sub-step has put it.
AllAdvanced ==
    AtOp("sync") /\ step > 1 =>
        \A c \in Rungs : own("x", c) = [of |-> "x", by |-> <<"computePositions">>, step |-> step - 1]

\* rungs whose particles were active in the last time-step
LastActive == IF isBdt /\ substep > 1 THEN 0 .. butterfly(substep - 1) - 1 ELSE Rungs

\* The marks that updateSmoothingLength puts on unconverged particles, in their keys, in the last step in
\* front of a domain sync are still there when the sync looks for them.  Marks of earlier sub-steps of a
\* hierarchy are not: keys is scratch of the exchanges in between.
RemovalsKept ==
    AtOp("sync") /\ step > 1 /\ conf.prop # "nbody" =>
        \A c \in LastActive : "updateSmoothingLength" \in {own("keys", c).by[i] : i \in DOMAIN own("keys", c).by}
=============================================================================
