------------------------- MODULE PropagatorsProofs -------------------------
(***************************************************************************)
(* Proofs for Propagators, for every propagator and option, any number of  *)
(* time-steps and any number of rungs: what the operations of the programs *)
(* are, the inductive invariant StepInv, and from it that every particle   *)
(* is moved as often as its rung demands and that no mark for removal is   *)
(* lost before the next domain sync.                                       *)
(***************************************************************************)
EXTENDS Propagators, NumberLemmas, SequenceTheorems

\* Zenon first: in a context as large as this one it is the faster of the two provers.
USE ZenonT(10), SMTT(30)

-----------------------------------------------------------------------------
(* The fields *)

\* The fields that the proofs single out.
LEMMA KnownFields == {"x", "keys"} \cup Borrowed \subseteq Field /\ MaxRungs \in Nat \ {0}
<1>1. {"x", "keys"} \cup Borrowed \subseteq Named
  BY DEF Named, Borrowed
<1> QED
  BY <1>1, PropagatorAssumption

-----------------------------------------------------------------------------
(* The operations of the programs *)

OpKinds == {"sync", "halo", "fillMassHalos", "kernel", "release", "acquire", "output"}

\* an operation of computeForces or saveFields
OpKnown(o) == o.op \in OpKinds /\ (o.op = "acquire" => o.field \in Borrowed)

\* one that is not a domain sync
CalmOp(o) == OpKnown(o) /\ o.op # "sync"

\* a sequence of operations
Known(q) == \E S : q \in Seq(S) /\ \A o \in S : OpKnown(o)

\* one without a domain sync
Calm(q) == \E S : q \in Seq(S) /\ \A o \in S : CalmOp(o)

\* one in which nothing but the beginning may be a domain sync
Opens(q) == Known(q) /\ q # << >> /\ \A i \in 2 .. Len(q) : CalmOp(q[i])

\* the first operation of a program
First(q) == q[1]

\* A sequence is calm if its operations are.
LEMMA CalmTuple ==
    ASSUME NEW n \in Nat, NEW q, q = [i \in 1 .. n |-> q[i]], \A i \in 1 .. n : CalmOp(q[i])
    PROVE  Calm(q)
<1> DEFINE S == {q[i] : i \in 1 .. n}
<1>1. q \in Seq(S)
  <2>1. q \in [1 .. n -> S]
    BY Zenon
  <2> HIDE DEF S
  <2> QED
    BY <2>1, SeqDef
<1>2. \A o \in S : CalmOp(o)
  OBVIOUS
<1> HIDE DEF S
<1> QED
  BY <1>1, <1>2 DEF Calm

\* A program that begins with a domain sync, or with an exchange.
LEMMA OpensTuple ==
    ASSUME NEW n \in Nat \ {0}, NEW q, q = [i \in 1 .. n |-> q[i]],
           OpKnown(q[1]), \A i \in 2 .. n : CalmOp(q[i])
    PROVE  Opens(q)
<1> DEFINE S == {q[i] : i \in 1 .. n}
<1>1. q \in Seq(S) /\ Len(q) = n
  <2>1. q \in [1 .. n -> S] /\ DOMAIN q = 1 .. n
    BY Zenon
  <2> HIDE DEF S
  <2>2. q \in Seq(S)
    BY <2>1, SeqDef
  <2> QED
    BY <2>1, <2>2
<1>2. \A o \in S : OpKnown(o)
  <2> SUFFICES ASSUME NEW i \in 1 .. n PROVE OpKnown(q[i])
    OBVIOUS
  <2>1. i = 1 \/ i \in 2 .. n
    OBVIOUS
  <2> QED
    BY <2>1 DEF CalmOp
<1> HIDE DEF S
<1>3. Known(q)
  BY <1>1, <1>2 DEF Known
<1>4. q # << >>
  BY <1>1
<1> QED
  BY <1>1, <1>3, <1>4 DEF Opens

\* Programs are put together of parts.
LEMMA CalmConcat ==
    ASSUME NEW q, NEW r, Calm(q), Calm(r)
    PROVE  Calm(q \o r)
<1>1. PICK S : q \in Seq(S) /\ \A o \in S : CalmOp(o)
  BY DEF Calm
<1>2. PICK T : r \in Seq(T) /\ \A o \in T : CalmOp(o)
  BY DEF Calm
<1>3. q \in Seq(S \cup T) /\ r \in Seq(S \cup T)
  BY <1>1, <1>2
<1>4. q \o r \in Seq(S \cup T)
  BY <1>3, ConcatProperties
<1>5. \A o \in S \cup T : CalmOp(o)
  BY <1>1, <1>2
<1> QED
  BY <1>4, <1>5 DEF Calm

\* The domain sync stays at the beginning.
LEMMA OpensConcat ==
    ASSUME NEW q, NEW r, Opens(q), Calm(r)
    PROVE  Opens(q \o r) /\ First(q \o r) = First(q)
<1>1. PICK S : q \in Seq(S) /\ \A o \in S : OpKnown(o)
  BY DEF Opens, Known
<1>2. PICK T : r \in Seq(T) /\ \A o \in T : CalmOp(o)
  BY DEF Calm
<1> DEFINE U == S \cup T
           p == q \o r
<1>3. q \in Seq(U) /\ r \in Seq(U)
  BY <1>1, <1>2
<1>4. /\ p \in Seq(U) /\ Len(p) = Len(q) + Len(r) /\ Len(q) \in Nat /\ Len(r) \in Nat
      /\ \A i \in 1 .. Len(p) : p[i] = IF i <= Len(q) THEN q[i] ELSE r[i - Len(q)]
  BY <1>3, ConcatProperties, LenProperties
<1>5. Known(p)
  BY <1>1, <1>2, <1>4 DEF Known, CalmOp
<1>6. Len(q) >= 1
  BY <1>3, <1>4, EmptySeq DEF Opens
<1>7. ASSUME NEW i \in 2 .. Len(p) PROVE CalmOp(p[i])
  <2>1. CASE i <= Len(q)
    <3>1. i \in 2 .. Len(q) /\ p[i] = q[i]
      BY <1>4, <2>1
    <3> QED
      BY <3>1 DEF Opens
  <2>2. CASE ~(i <= Len(q))
    <3>1. i - Len(q) \in 1 .. Len(r) /\ p[i] = r[i - Len(q)]
      BY <1>4, <2>2
    <3>2. r[i - Len(q)] \in T
      BY <1>2, <3>1, ElementOfSeq
    <3> QED
      BY <1>2, <3>1, <3>2
  <2> QED
    BY <2>1, <2>2
<1>8. p # << >>
  <2> HIDE DEF p
  <2> QED
    BY <1>4, <1>6
<1>9. p[1] = q[1]
  <2> HIDE DEF p
  <2> QED
    BY <1>4, <1>6
<1> QED
  BY <1>5, <1>7, <1>8, <1>9 DEF Opens, First

\* The kernels of computeForces and saveFields.
LEMMA ForceKernels ==
    /\ CalmOp(updateSmoothingLengthIterative) /\ CalmOp(findNeighborsSfc)
    /\ CalmOp(computeDensity) /\ CalmOp(computeIAD) /\ CalmOp(eos_cooling)
    /\ CalmOp(computeXMass) /\ CalmOp(computeVe) /\ CalmOp(computeIadDivvCurlvGradh)
    /\ CalmOp(rhoTimestep) /\ CalmOp(computeAVswitches)
    /\ CalmOp(upsweep) /\ CalmOp(fillAcc) /\ CalmOp(driveTurbulence) /\ CalmOp(relaxSystem)
    /\ CalmOp(betaCooling) /\ CalmOp(computeCentralForce)
    /\ CalmOp(groupDivvTimestep) /\ CalmOp(groupAccTimestep) /\ CalmOp(recoverIad)
<1>1. CalmOp(updateSmoothingLengthIterative) /\ CalmOp(findNeighborsSfc)
  BY DEF CalmOp, OpKnown, OpKinds, updateSmoothingLengthIterative, findNeighborsSfc, IjLoop, Loop
<1>2. CalmOp(computeDensity) /\ CalmOp(computeIAD) /\ CalmOp(eos_cooling)
  BY DEF CalmOp, OpKnown, OpKinds, computeDensity, computeIAD, eos_cooling, IjLoop, Loop
<1>3. CalmOp(computeXMass) /\ CalmOp(computeVe) /\ CalmOp(computeIadDivvCurlvGradh)
  BY DEF CalmOp, OpKnown, OpKinds, computeXMass, computeVe, computeIadDivvCurlvGradh, IjLoop, Loop
<1>4. CalmOp(rhoTimestep) /\ CalmOp(computeAVswitches)
  BY DEF CalmOp, OpKnown, OpKinds, rhoTimestep, computeAVswitches, IjLoop, Loop
<1>5. CalmOp(upsweep) /\ CalmOp(fillAcc) /\ CalmOp(driveTurbulence) /\ CalmOp(relaxSystem)
  BY DEF CalmOp, OpKnown, OpKinds, upsweep, fillAcc, driveTurbulence, relaxSystem, Loop
<1>6. CalmOp(betaCooling) /\ CalmOp(computeCentralForce)
  BY DEF CalmOp, OpKnown, OpKinds, betaCooling, computeCentralForce, Loop
<1>7. CalmOp(groupDivvTimestep) /\ CalmOp(groupAccTimestep) /\ CalmOp(recoverIad)
  BY DEF CalmOp, OpKnown, OpKinds, groupDivvTimestep, rhoTimestep, groupAccTimestep, recoverIad, computeIadDivvCurlvGradh, IjLoop, Loop
<1> QED
  BY <1>1, <1>2, <1>3, <1>4, <1>5, <1>6, <1>7

\* Kernels that depend on options.
LEMMA OptionKernels ==
    ASSUME NEW a, NEW b, NEW c
    PROVE  /\ CalmOp(computeEOS_HydroStd(a, b, c)) /\ CalmOp(computeEOS(a, c))
           /\ CalmOp(computeMomentumEnergySTD(a)) /\ CalmOp(computeMomentumEnergy(a))
           /\ CalmOp(computeIadFullDivvCurlv(a)) /\ CalmOp(computeMagneticMomentumEnergy(a))
           /\ CalmOp(computeInductionAndDissipation(a)) /\ CalmOp(traverse(a))
           /\ CalmOp(computeConservedQuantities(a, b))
<1>1. CalmOp(computeEOS_HydroStd(a, b, c)) /\ CalmOp(computeEOS(a, c))
  BY DEF CalmOp, OpKnown, OpKinds, computeEOS_HydroStd, computeEOS, Loop
<1>2. CalmOp(computeMomentumEnergySTD(a)) /\ CalmOp(computeMomentumEnergy(a))
  BY DEF CalmOp, OpKnown, OpKinds, computeMomentumEnergySTD, computeMomentumEnergy, IjLoop, Loop
<1>3. CalmOp(computeIadFullDivvCurlv(a)) /\ CalmOp(computeMagneticMomentumEnergy(a))
  BY DEF CalmOp, OpKnown, OpKinds, computeIadFullDivvCurlv, computeMagneticMomentumEnergy, IjLoop, Loop
<1>4. CalmOp(computeInductionAndDissipation(a)) /\ CalmOp(traverse(a))
  BY DEF CalmOp, OpKnown, OpKinds, computeInductionAndDissipation, traverse, IjLoop, Loop
<1>5. CalmOp(computeConservedQuantities(a, b))
  BY DEF CalmOp, OpKnown, OpKinds, computeConservedQuantities, Loop
<1> QED
  BY <1>1, <1>2, <1>3, <1>4, <1>5

\* Exchanges and the parts of the output.
LEMMA OtherOps ==
    /\ \A fields, scratch : CalmOp(Halo(fields, scratch))
    /\ CalmOp(fillMassHalos) /\ CalmOp(output) /\ OpKnown(Sync)
    /\ \A f \in Borrowed : CalmOp(release(f)) /\ CalmOp(acquire(f))
<1>1. \A fields, scratch : CalmOp(Halo(fields, scratch))
  BY DEF Halo, CalmOp, OpKnown, OpKinds
<1>2. CalmOp(fillMassHalos) /\ CalmOp(output) /\ OpKnown(Sync)
  BY DEF fillMassHalos, output, Sync, CalmOp, OpKnown, OpKinds
<1>3. \A f \in Borrowed : CalmOp(release(f)) /\ CalmOp(acquire(f))
  BY DEF release, acquire, CalmOp, OpKnown, OpKinds
<1> QED
  BY <1>1, <1>2, <1>3

\* Parts of programs that depend on an option.
LEMMA CalmParts ==
    ASSUME NEW cond
    PROVE  /\ Calm(<<>>)
           /\ \A o : CalmOp(o) => Calm(<<o>>) /\ Calm(Opt(cond, <<o>>))
           /\ \A o, u : CalmOp(o) /\ CalmOp(u) => Calm(<<o, u>>) /\ Calm(Opt(cond, <<o, u>>))
<1>1. Calm(<<>>)
  <2> DEFINE q == << >>
  <2>1. q = [i \in 1 .. 0 |-> q[i]] /\ \A i \in 1 .. 0 : CalmOp(q[i])
    OBVIOUS
  <2> HIDE DEF q
  <2>2. Calm(q)
    BY <2>1, CalmTuple
  <2> QED
    BY <2>2 DEF q
<1>2. ASSUME NEW o, CalmOp(o) PROVE Calm(<<o>>)
  <2> DEFINE q == <<o>>
  <2>1. q = [i \in 1 .. 1 |-> q[i]] /\ \A i \in 1 .. 1 : CalmOp(q[i])
    BY <1>2
  <2> HIDE DEF q
  <2>2. Calm(q)
    BY <2>1, CalmTuple
  <2> QED
    BY <2>2 DEF q
<1>3. ASSUME NEW o, NEW u, CalmOp(o), CalmOp(u) PROVE Calm(<<o, u>>)
  <2> DEFINE q == <<o, u>>
  <2>1. q = [i \in 1 .. 2 |-> q[i]] /\ \A i \in 1 .. 2 : CalmOp(q[i])
    BY <1>3
  <2> HIDE DEF q
  <2>2. Calm(q)
    BY <2>1, CalmTuple
  <2> QED
    BY <2>2 DEF q
<1> QED
  BY <1>1, <1>2, <1>3 DEF Opt

\* computeForces of the standard propagators.
LEMMA StdOpens == Opens(forcesStd)
<1> DEFINE e == IF conf.prop = "std-cooling" THEN eos_cooling ELSE computeEOS_HydroStd(conf.eos, conf.gpu, Energy)
           t == <<Sync, Halo({"m"}, StdScratch), updateSmoothingLengthIterative, findNeighborsSfc, computeDensity,
                  e, Halo({"vx", "rho", "p", "c"}, StdScratch), computeIAD, Halo(Cij, StdScratch),
                  computeMomentumEnergySTD(conf.gpu)>>
<1>1. CalmOp(e) /\ CalmOp(computeMomentumEnergySTD(conf.gpu))
  BY ForceKernels, OptionKernels, Zenon
<1>2. forcesStd = t \o Opt(conf.g, gravity) \o Opt(conf.prop = "std-relax", <<relaxSystem>>)
                  \o Opt(conf.prop = "std-disk", <<betaCooling, computeCentralForce>>)
  BY DEF forcesStd
<1> HIDE DEF e
<1>3. t = [i \in 1 .. 10 |-> t[i]] /\ t[1] = Sync
  OBVIOUS
<1>4. \A i \in 2 .. 10 : CalmOp(t[i])
  BY <1>1, ForceKernels, OtherOps
<1>5. Calm(Opt(conf.g, gravity)) /\ Calm(Opt(conf.prop = "std-relax", <<relaxSystem>>))
      /\ Calm(Opt(conf.prop = "std-disk", <<betaCooling, computeCentralForce>>))
  BY ForceKernels, OptionKernels, CalmParts, Zenon DEF gravity
<1> HIDE DEF t
<1>6. Opens(t)
  <2>1. OpKnown(t[1]) /\ 10 \in Nat \ {0}
    BY <1>3, OtherOps
  <2> QED
    BY <1>3, <1>4, <2>1, OpensTuple
<1> QED
  BY <1>2, <1>5, <1>6, OpensConcat, Zenon

\* computeForces with generalised volume elements.
LEMMA VeOpens == Opens(forcesVe)
<1> DEFINE t == <<Sync, fillMassHalos, updateSmoothingLengthIterative, findNeighborsSfc,
                  computeXMass, Halo({"xm"}, VeScratch), computeVe, exchangeVolumes,
                  computeIadDivvCurlvGradh, rhoTimestep, computeEOS(conf.eos, Energy),
                  Halo(Cij \cup {"divv", "curlv", "c"}, VeScratch)>>
           u == <<Halo({"prho", "alpha"} \cup (IF conf.slr THEN {"dV11"} ELSE {}), VeScratch),
                  computeMomentumEnergy(conf.slr)>>
<1>1. CalmOp(exchangeVolumes) /\ CalmOp(computeEOS(conf.eos, Energy)) /\ CalmOp(computeMomentumEnergy(conf.slr))
  BY OtherOps, OptionKernels, Zenon DEF exchangeVolumes
<1>2. forcesVe = t \o Opt(conf.av, <<computeAVswitches>>) \o u \o Opt(conf.g, gravity) \o stirring
  BY DEF forcesVe
<1>3. t = [i \in 1 .. 12 |-> t[i]] /\ t[1] = Sync
  OBVIOUS
<1>4. \A i \in 2 .. 12 : CalmOp(t[i])
  BY <1>1, ForceKernels, OtherOps
<1>5. /\ Calm(Opt(conf.av, <<computeAVswitches>>)) /\ Calm(u)
      /\ Calm(Opt(conf.g, gravity)) /\ Calm(stirring)
  BY <1>1, ForceKernels, OptionKernels, OtherOps, CalmParts, Zenon DEF gravity, stirring
<1> HIDE DEF t, u
<1>6. Opens(t)
  <2>1. OpKnown(t[1]) /\ 12 \in Nat \ {0}
    BY <1>3, OtherOps
  <2> QED
    BY <1>3, <1>4, <2>1, OpensTuple
<1> QED
  BY <1>2, <1>5, <1>6, OpensConcat, Zenon

\* computeForces with block time-steps; there is a domain sync only in a synchronised state.
LEMMA BdtOpens == Opens(forcesBdt) /\ (First(forcesBdt).op = "sync" => isSynced)
<1> DEFINE first == IF isSynced THEN <<Sync>> ELSE partialSync
           t == <<fillMassHalos, updateSmoothingLengthIterative, findNeighborsSfc,
                  computeXMass, Halo({"xm"}, BdtScratch), computeVe, Halo({"vx", "kx"}, BdtScratch),
                  computeIadDivvCurlvGradh, groupDivvTimestep,
                  Halo(Cij \cup {"divv", "curlv", "gradh"}, BdtScratch),
                  computeEOS(conf.eos, Energy), Halo({"prho", "c"}, BdtScratch)>>
           u == <<Halo({"alpha"} \cup (IF conf.slr THEN {"dV11"} ELSE {}), BdtScratch),
                  computeMomentumEnergy(conf.slr)>>
<1>1. CalmOp(computeEOS(conf.eos, Energy)) /\ CalmOp(computeMomentumEnergy(conf.slr))
  BY OptionKernels, Zenon
<1>2. forcesBdt = first \o t \o Opt(conf.av, <<computeAVswitches>>) \o u \o Opt(conf.g, gravity) \o <<groupAccTimestep>>
                  \o stirring
  BY DEF forcesBdt
<1>3. t = [i \in 1 .. 12 |-> t[i]]
  OBVIOUS
<1>4. \A i \in 1 .. 12 : CalmOp(t[i])
  BY <1>1, ForceKernels, OtherOps
<1>5. /\ Calm(Opt(conf.av, <<computeAVswitches>>)) /\ Calm(u)
      /\ Calm(Opt(conf.g, gravity)) /\ Calm(<<groupAccTimestep>>) /\ Calm(stirring)
  BY <1>1, ForceKernels, OptionKernels, OtherOps, CalmParts, Zenon DEF gravity, stirring
<1> HIDE DEF t, u
<1>6. Calm(t)
  BY <1>3, <1>4, CalmTuple
<1>7. Opens(first)
  <2>1. first = [i \in 1 .. 1 |-> first[i]] /\ 1 \in Nat \ {0}
    BY DEF partialSync
  <2>2. OpKnown(first[1])
    BY OtherOps DEF partialSync, CalmOp
  <2>3. \A i \in 2 .. 1 : CalmOp(first[i])
    OBVIOUS
  <2> HIDE DEF first
  <2> QED
    BY <2>1, <2>2, <2>3, OpensTuple
<1>8. First(first).op = "sync" => isSynced
  BY DEF partialSync, Halo, First
<1> HIDE DEF first
<1>9. First(forcesBdt) = First(first) /\ Opens(forcesBdt)
  <2> DEFINE p == first \o t
             r == p \o Opt(conf.av, <<computeAVswitches>>)
             v == r \o u
             w == v \o Opt(conf.g, gravity)
  <2>1. Opens(p) /\ First(p) = First(first)
    BY <1>6, <1>7, OpensConcat
  <2>2. forcesBdt = w \o <<groupAccTimestep>> \o stirring
    BY <1>2
  <2> HIDE DEF p
  <2>3. Opens(r) /\ First(r) = First(p)
    BY <1>5, <2>1, OpensConcat
  <2> HIDE DEF r
  <2>4. Opens(v) /\ First(v) = First(r)
    BY <1>5, <2>3, OpensConcat
  <2> HIDE DEF v
  <2>5. Opens(w) /\ First(w) = First(v)
    BY <1>5, <2>4, OpensConcat
  <2> HIDE DEF w
  <2>6. Opens(forcesBdt) /\ First(forcesBdt) = First(w)
    BY <1>5, <2>2, <2>5, OpensConcat, Zenon
  <2> QED
    BY <2>1, <2>3, <2>4, <2>5, <2>6
<1> QED
  BY <1>8, <1>9

\* computeForces with magnetic fields.
LEMMA MhdOpens == Opens(forcesMhd)
<1> DEFINE t == <<Sync, fillMassHalos, updateSmoothingLengthIterative, findNeighborsSfc,
                  computeXMass, Halo({"xm"}, VeScratch), computeVe, exchangeVolumes, Halo({"Bx"}, VeScratch),
                  computeIadFullDivvCurlv(conf.mhdSlr), rhoTimestep, computeEOS(conf.eos, Energy),
                  Halo(Cij \cup {"divv", "curlv", "c"}, VeScratch)>>
           u == <<Halo({"alpha", "gradh", "p"}, VeScratch), Halo({"dvxdx"}, VeScratch),
                  computeMagneticMomentumEnergy(conf.slr),
                  Halo({"divB_conj", "curlB_x", "psi_ch", "alpha_B"} \cup (IF conf.mhdSlr THEN {"dBxdx"} ELSE {}), MhdScratch),
                  computeInductionAndDissipation(conf.mhdSlr)>>
<1>1. /\ CalmOp(exchangeVolumes) /\ CalmOp(computeEOS(conf.eos, Energy))
      /\ CalmOp(computeIadFullDivvCurlv(conf.mhdSlr)) /\ CalmOp(computeMagneticMomentumEnergy(conf.slr))
      /\ CalmOp(computeInductionAndDissipation(conf.mhdSlr))
  BY OtherOps, OptionKernels, Zenon DEF exchangeVolumes
<1>2. forcesMhd = t \o Opt(conf.av, <<computeAVswitches>>) \o u \o Opt(conf.g, gravity) \o stirring
  BY DEF forcesMhd
<1>3. t = [i \in 1 .. 13 |-> t[i]] /\ t[1] = Sync /\ u = [i \in 1 .. 5 |-> u[i]]
  OBVIOUS
<1>4. \A i \in 2 .. 13 : CalmOp(t[i])
  BY <1>1, ForceKernels, OtherOps
<1>5. \A i \in 1 .. 5 : CalmOp(u[i])
  BY <1>1, OtherOps
<1>6. Calm(Opt(conf.av, <<computeAVswitches>>)) /\ Calm(Opt(conf.g, gravity)) /\ Calm(stirring)
  BY ForceKernels, OptionKernels, CalmParts, Zenon DEF gravity, stirring
<1> HIDE DEF t, u
<1>7. Opens(t)
  <2>1. OpKnown(t[1]) /\ 13 \in Nat \ {0}
    BY <1>3, OtherOps
  <2> QED
    BY <1>3, <1>4, <2>1, OpensTuple
<1>8. Calm(u)
  BY <1>3, <1>5, CalmTuple
<1> QED
  BY <1>2, <1>6, <1>7, <1>8, OpensConcat, Zenon

\* computeForces of the n-body propagator.
LEMMA NbodyOpens == Opens(forcesNbody)
<1> DEFINE t == <<Sync, Halo({"m"}, StdScratch), fillAcc>>
<1>1. forcesNbody = t \o gravity
  BY DEF forcesNbody
<1>2. t = [i \in 1 .. 3 |-> t[i]] /\ t[1] = Sync
  OBVIOUS
<1>3. \A i \in 2 .. 3 : CalmOp(t[i])
  BY ForceKernels, OtherOps
<1>4. Calm(gravity)
  BY ForceKernels, OptionKernels, CalmParts, Zenon DEF gravity
<1> HIDE DEF t
<1>5. Opens(t)
  <2>1. OpKnown(t[1]) /\ 3 \in Nat \ {0}
    BY <1>2, OtherOps
  <2> QED
    BY <1>2, <1>3, <2>1, OpensTuple
<1> QED
  BY <1>1, <1>4, <1>5, OpensConcat, Zenon

\* computeForces has a domain sync at most at the beginning, and with block time-steps only in a
\* synchronised state.
LEMMA ForcesOpen == Opens(computeForces) /\ (First(computeForces).op = "sync" => isSynced)
<1> DEFINE f == CASE conf.prop = "nbody" -> forcesNbody
                  [] isStd               -> forcesStd
                  [] isBdt               -> forcesBdt
                  [] isMhd               -> forcesMhd
                  [] OTHER               -> forcesVe
           q == <<computeConservedQuantities(Energy, isMhd)>>
<1>1. Opens(f)
  BY StdOpens, VeOpens, BdtOpens, MhdOpens, NbodyOpens
<1>2. ~isBdt => isSynced
  BY DEF isSynced, activeRung
<1>3. First(f).op = "sync" => isSynced
  <2>1. CASE isBdt
    <3>1. f = forcesBdt
      BY <2>1 DEF isBdt, isStd, isMhd
    <3> QED
      BY <3>1, BdtOpens
  <2> QED
    BY <1>2, <2>1
<1>4. Calm(Opt(isSynced, q))
  BY OptionKernels, CalmParts, Zenon
<1>5. computeForces = f \o Opt(isSynced, q)
  BY DEF computeForces
<1> HIDE DEF f, q
<1>6. Opens(computeForces) /\ First(computeForces) = First(f)
  BY <1>1, <1>4, <1>5, OpensConcat, Zenon
<1> QED
  BY <1>3, <1>6

\* saveFields has no domain sync.
LEMMA SaveCalm == Calm(saveFields)
<1>1. /\ CalmOp(release("c11")) /\ CalmOp(release("c12")) /\ CalmOp(release("rho")) /\ CalmOp(release("p"))
      /\ CalmOp(release("ay")) /\ CalmOp(release("az"))
      /\ CalmOp(acquire("c11")) /\ CalmOp(acquire("c12")) /\ CalmOp(acquire("rho")) /\ CalmOp(acquire("p"))
      /\ CalmOp(acquire("ay")) /\ CalmOp(acquire("az"))
  BY OtherOps DEF Borrowed
<1>2. CalmOp(computeEOS(conf.eos, Energy)) /\ CalmOp(computeMomentumEnergy(conf.slr))
      /\ CalmOp(output) /\ CalmOp(recoverIad)
  BY ForceKernels, OptionKernels, OtherOps, Zenon
<1>3. Calm(saveAllocated)
  BY <1>2, CalmParts DEF saveAllocated
<1>4. Calm(saveVe)
  <2>1. Calm(borrow)
    <3>1. borrow = [i \in 1 .. 4 |-> borrow[i]] /\ \A i \in 1 .. 4 : CalmOp(borrow[i])
      BY <1>1 DEF borrow
    <3> QED
      BY <3>1, CalmTuple
  <2>2. Calm(giveBack)
    <3>1. giveBack = [i \in 1 .. 4 |-> giveBack[i]] /\ \A i \in 1 .. 4 : CalmOp(giveBack[i])
      BY <1>1 DEF giveBack
    <3> QED
      BY <3>1, CalmTuple
  <2>3. Calm(<<output>>) /\ Calm(<<computeEOS(conf.eos, Energy), output>>) /\ Calm(<<recoverIad, output>>)
    BY <1>2, CalmParts, Zenon
  <2> QED
    BY <2>1, <2>2, <2>3, CalmConcat, Zenon DEF saveVe
<1>5. Calm(saveBdt)
  <2>1. saveBdt = [i \in 1 .. 14 |-> saveBdt[i]] /\ \A i \in 1 .. 14 : CalmOp(saveBdt[i])
    BY <1>1, <1>2 DEF saveBdt
  <2> QED
    BY <2>1, CalmTuple
<1>6. Calm(saveMhd)
  <2>1. saveMhd = [i \in 1 .. 9 |-> saveMhd[i]] /\ \A i \in 1 .. 9 : CalmOp(saveMhd[i])
    BY <1>1, <1>2 DEF saveMhd
  <2> QED
    BY <2>1, CalmTuple
<1> QED
  BY <1>3, <1>4, <1>5, <1>6 DEF saveFields

-----------------------------------------------------------------------------
(* The operations of integrate *)

\* The kernels of integrate never assign keys.  Positions are assigned by computePositions and
\* driftPositions only, for the rungs of the one and of the other, and updateSmoothingLength marks
\* particles of the active rungs.
IntegrateKernel(o) ==
    /\ o.op = "kernel" /\ o.ifPending = FALSE
    /\ "keys" \notin o.set \cup o.opt
    /\ "x" \in o.set \cup o.opt \cup o.add => o.name \in {"computePositions", "driftPositions"}
    /\ o.name = "computePositions" => "x" \in o.set /\ o.grp = IF isBdt THEN "advance" ELSE "active"
    /\ o.name = "driftPositions" => o.grp = "drift"
    /\ o.name = "updateSmoothingLength" => "keys" \in o.add /\ o.grp = "active"

\* a sequence of such kernels
Kernels(q) == \E S : q \in Seq(S) /\ \A o \in S : IntegrateKernel(o)

\* kernel name is called
Calls(q, name) == \E i \in 1 .. Len(q) : q[i].op = "kernel" /\ q[i].name = name

\* A sequence is one of kernels if its operations are.
LEMMA KernelsTuple ==
    ASSUME NEW n \in Nat, NEW q, q = [i \in 1 .. n |-> q[i]], \A i \in 1 .. n : IntegrateKernel(q[i])
    PROVE  Kernels(q) /\ Len(q) = n
<1> DEFINE S == {q[i] : i \in 1 .. n}
<1>1. q \in Seq(S) /\ Len(q) = n
  <2>1. q \in [1 .. n -> S]
    OBVIOUS
  <2> HIDE DEF S
  <2> QED
    BY <2>1
<1>2. \A o \in S : IntegrateKernel(o)
  OBVIOUS
<1> HIDE DEF S
<1> QED
  BY <1>1, <1>2 DEF Kernels

\* Two sequences of kernels, one after the other.
LEMMA KernelsConcat ==
    ASSUME NEW q, NEW r, Kernels(q), Kernels(r)
    PROVE  /\ Kernels(q \o r)
           /\ \A name : Calls(q, name) \/ Calls(r, name) => Calls(q \o r, name)
<1>1. PICK S : q \in Seq(S) /\ \A o \in S : IntegrateKernel(o)
  BY DEF Kernels
<1>2. PICK T : r \in Seq(T) /\ \A o \in T : IntegrateKernel(o)
  BY DEF Kernels
<1> DEFINE U == S \cup T
           p == q \o r
<1>3. q \in Seq(U) /\ r \in Seq(U)
  BY <1>1, <1>2
<1>4. /\ p \in Seq(U) /\ Len(p) = Len(q) + Len(r) /\ Len(q) \in Nat /\ Len(r) \in Nat
      /\ \A i \in 1 .. Len(p) : p[i] = IF i <= Len(q) THEN q[i] ELSE r[i - Len(q)]
  BY <1>3, ConcatProperties, LenProperties
<1>5. \A o \in U : IntegrateKernel(o)
  BY <1>1, <1>2
<1> HIDE DEF U, p
<1>6. Kernels(p)
  BY <1>4, <1>5 DEF Kernels
<1>7. ASSUME NEW name, Calls(q, name) PROVE Calls(p, name)
  <2>1. PICK i \in 1 .. Len(q) : q[i].op = "kernel" /\ q[i].name = name
    BY <1>7 DEF Calls
  <2>2. i \in 1 .. Len(p) /\ p[i] = q[i]
    BY <1>4
  <2> QED
    BY <2>1, <2>2 DEF Calls
<1>8. ASSUME NEW name, Calls(r, name) PROVE Calls(p, name)
  <2>1. PICK i \in 1 .. Len(r) : r[i].op = "kernel" /\ r[i].name = name
    BY <1>8 DEF Calls
  <2>2. Len(q) + i \in 1 .. Len(p) /\ p[Len(q) + i] = r[i]
    BY <1>4
  <2> QED
    BY <2>1, <2>2 DEF Calls
<1> QED
  BY <1>6, <1>7, <1>8 DEF p

\* The fields that the integration of the energy assigns are neither positions nor keys.
LEMMA EnergyFields ==
    "x" \notin Energy \cup EnergyRate(Energy) /\ "keys" \notin Energy \cup EnergyRate(Energy)
BY DEF Energy, EnergyRate

\* The kernels that integrate calls.
LEMMA TimeKernels ==
    /\ IntegrateKernel(computeTimestep(conf.g)) /\ IntegrateKernel(updateSmoothingLength)
    /\ IntegrateKernel(duTimestep) /\ IntegrateKernel(coolingTimestep) /\ IntegrateKernel(cool_particles)
    /\ IntegrateKernel(computeAccretionCondition) /\ IntegrateKernel(integrateMagneticQuantities)
    /\ IntegrateKernel(storeRung)
    /\ ~isBdt => IntegrateKernel(computePositions(Energy, "active"))
    /\ isBdt => IntegrateKernel([computePositions(Energy, "advance") EXCEPT !.own = @ \cup {"rung"}])
    /\ IntegrateKernel([driftPositions(Energy) EXCEPT !.own = @ \cup {"rung"}])
<1>1. IntegrateKernel(computeTimestep(conf.g)) /\ IntegrateKernel(updateSmoothingLength)
  BY DEF IntegrateKernel, computeTimestep, updateSmoothingLength, Loop
<1>2. IntegrateKernel(duTimestep) /\ IntegrateKernel(coolingTimestep) /\ IntegrateKernel(cool_particles)
  BY DEF IntegrateKernel, duTimestep, coolingTimestep, cool_particles, Loop
<1>3. /\ IntegrateKernel(computeAccretionCondition) /\ IntegrateKernel(integrateMagneticQuantities)
      /\ IntegrateKernel(storeRung)
  BY DEF IntegrateKernel, computeAccretionCondition, integrateMagneticQuantities, storeRung, Loop
<1>4. ASSUME ~isBdt PROVE IntegrateKernel(computePositions(Energy, "active"))
  BY <1>4, EnergyFields DEF IntegrateKernel, computePositions, Loop
<1>5. ASSUME isBdt PROVE IntegrateKernel([computePositions(Energy, "advance") EXCEPT !.own = @ \cup {"rung"}])
  BY <1>5, EnergyFields DEF IntegrateKernel, computePositions, Loop
<1>6. IntegrateKernel([driftPositions(Energy) EXCEPT !.own = @ \cup {"rung"}])
  BY EnergyFields DEF IntegrateKernel, driftPositions, Loop
<1> QED
  BY <1>1, <1>2, <1>3, <1>4, <1>5, <1>6, Zenon

\* the kernels that move and mark the particles are called
Integrates(q) == Calls(q, "computePositions") /\ (conf.prop # "nbody" => Calls(q, "updateSmoothingLength"))

\* integrate of the standard propagators.
LEMMA StdIntegrates == ~isBdt => Kernels(integrateStd) /\ Integrates(integrateStd)
<1> SUFFICES ASSUME ~isBdt PROVE Kernels(integrateStd) /\ Integrates(integrateStd)
  OBVIOUS
<1> DEFINE a == Opt(conf.prop = "std-disk", <<duTimestep>>)
           b == Opt(conf.prop = "std-cooling", <<coolingTimestep>>)
           t == <<computeTimestep(conf.g)>>
           d == Opt(conf.prop = "std-cooling", <<cool_particles>>)
           u == <<computePositions(Energy, "active"), updateSmoothingLength>>
           e == Opt(conf.prop = "std-disk", <<computeAccretionCondition>>)
<1>1. integrateStd = a \o b \o t \o d \o u \o e
  BY DEF integrateStd
<1>2. Kernels(<<>>) /\ \A o : IntegrateKernel(o) => Kernels(<<o>>)
  <2>1. Kernels(<<>>)
    <3> DEFINE q == << >>
    <3>1. q = [i \in 1 .. 0 |-> q[i]] /\ \A i \in 1 .. 0 : IntegrateKernel(q[i])
      OBVIOUS
    <3> HIDE DEF q
    <3>2. Kernels(q)
      BY <3>1, KernelsTuple
    <3> QED
      BY <3>2 DEF q
  <2>2. ASSUME NEW o, IntegrateKernel(o) PROVE Kernels(<<o>>)
    <3> DEFINE q == <<o>>
    <3>1. q = [i \in 1 .. 1 |-> q[i]] /\ \A i \in 1 .. 1 : IntegrateKernel(q[i])
      BY <2>2
    <3> HIDE DEF q
    <3>2. Kernels(q)
      BY <3>1, KernelsTuple
    <3> QED
      BY <3>2 DEF q
  <2> QED
    BY <2>1, <2>2
<1>3. Kernels(a) /\ Kernels(b) /\ Kernels(t) /\ Kernels(d) /\ Kernels(e)
  BY <1>2, TimeKernels, Zenon DEF Opt
<1>4. u = [i \in 1 .. 2 |-> u[i]] /\ \A i \in 1 .. 2 : IntegrateKernel(u[i])
  BY TimeKernels
<1>5. /\ u[1].op = "kernel" /\ u[1].name = "computePositions"
      /\ u[2].op = "kernel" /\ u[2].name = "updateSmoothingLength"
  BY DEF computePositions, updateSmoothingLength, Loop
<1> HIDE DEF a, b, t, d, u, e
<1>6. Kernels(u) /\ Len(u) = 2
  BY <1>4, KernelsTuple
<1>7. Calls(u, "computePositions") /\ Calls(u, "updateSmoothingLength")
  BY <1>5, <1>6 DEF Calls
<1> DEFINE v == a \o b \o t \o d
<1>8. Kernels(v)
  BY <1>3, KernelsConcat, Zenon
<1>9. integrateStd = v \o u \o e
  BY <1>1
<1> HIDE DEF v
<1>10. Kernels(v \o u) /\ Calls(v \o u, "computePositions") /\ Calls(v \o u, "updateSmoothingLength")
  BY <1>6, <1>7, <1>8, KernelsConcat, Zenon
<1> DEFINE w == v \o u
<1>11. Kernels(w) /\ Calls(w, "computePositions") /\ Calls(w, "updateSmoothingLength")
  BY <1>10
<1>12. integrateStd = w \o e
  BY <1>9
<1> HIDE DEF w
<1> QED
  BY <1>3, <1>11, <1>12, KernelsConcat, Zenon DEF Integrates

\* integrate of the propagators without block time-steps.
LEMMA OthersIntegrate ==
    ~isBdt => /\ Kernels(integrateVe) /\ Integrates(integrateVe)
              /\ Kernels(integrateMhd) /\ Integrates(integrateMhd)
              /\ Kernels(integrateNbody) /\ (conf.prop = "nbody" => Integrates(integrateNbody))
<1> SUFFICES ASSUME ~isBdt
             PROVE  /\ Kernels(integrateVe) /\ Integrates(integrateVe)
                    /\ Kernels(integrateMhd) /\ Integrates(integrateMhd)
                    /\ Kernels(integrateNbody) /\ (conf.prop = "nbody" => Integrates(integrateNbody))
  OBVIOUS
<1> DEFINE cp == computePositions(Energy, "active")
           ct == computeTimestep(conf.g)
<1>1. /\ cp.op = "kernel" /\ cp.name = "computePositions"
      /\ updateSmoothingLength.op = "kernel" /\ updateSmoothingLength.name = "updateSmoothingLength"
  BY DEF computePositions, updateSmoothingLength, Loop
<1>2. /\ IntegrateKernel(ct) /\ IntegrateKernel(cp) /\ IntegrateKernel(updateSmoothingLength)
      /\ IntegrateKernel(integrateMagneticQuantities)
  BY TimeKernels, Zenon
<1>3. /\ integrateVe = <<ct, cp, updateSmoothingLength>>
      /\ integrateMhd = <<ct, cp, integrateMagneticQuantities, updateSmoothingLength>>
      /\ integrateNbody = <<ct, cp>>
  BY DEF integrateVe, integrateMhd, integrateNbody
<1> HIDE DEF cp, ct
<1>4. Kernels(integrateVe) /\ Integrates(integrateVe)
  <2>1. /\ integrateVe = [i \in 1 .. 3 |-> integrateVe[i]]
        /\ \A i \in 1 .. 3 : IntegrateKernel(integrateVe[i])
    BY <1>2, <1>3
  <2>2. Kernels(integrateVe) /\ Len(integrateVe) = 3
    BY <2>1, KernelsTuple
  <2>3. integrateVe[2] = cp /\ integrateVe[3] = updateSmoothingLength
    BY <1>3
  <2> QED
    BY <1>1, <2>2, <2>3 DEF Integrates, Calls
<1>5. Kernels(integrateMhd) /\ Integrates(integrateMhd)
  <2>1. /\ integrateMhd = [i \in 1 .. 4 |-> integrateMhd[i]]
        /\ \A i \in 1 .. 4 : IntegrateKernel(integrateMhd[i])
    BY <1>2, <1>3
  <2>2. Kernels(integrateMhd) /\ Len(integrateMhd) = 4
    BY <2>1, KernelsTuple
  <2>3. integrateMhd[2] = cp /\ integrateMhd[4] = updateSmoothingLength
    BY <1>3
  <2> QED
    BY <1>1, <2>2, <2>3 DEF Integrates, Calls
<1>6. Kernels(integrateNbody) /\ (conf.prop = "nbody" => Integrates(integrateNbody))
  <2>1. /\ integrateNbody = [i \in 1 .. 2 |-> integrateNbody[i]]
        /\ \A i \in 1 .. 2 : IntegrateKernel(integrateNbody[i])
    BY <1>2, <1>3
  <2>2. Kernels(integrateNbody) /\ Len(integrateNbody) = 2
    BY <2>1, KernelsTuple
  <2>3. integrateNbody[2] = cp
    BY <1>3
  <2> QED
    BY <1>1, <2>2, <2>3 DEF Integrates, Calls
<1> QED
  BY <1>4, <1>5, <1>6

\* In integrate, the rungs are chosen first, with block time-steps, and all the rest are kernels,
\* among them those that move and mark the particles.
LEMMA IntegrateProgram ==
    /\ Len(integrate) \in Nat
    /\ \A i \in 1 .. Len(integrate) :
           IntegrateKernel(integrate[i]) \/ (isBdt /\ i = 1 /\ integrate[i].op = "computeRungs")
    /\ isBdt => Len(integrate) >= 1 /\ integrate[1].op = "computeRungs"
    /\ Integrates(integrate)
<1>1. CASE ~isBdt
  <2>1. Kernels(integrate) /\ Integrates(integrate)
    BY <1>1, StdIntegrates, OthersIntegrate DEF integrate
  <2>2. PICK S : integrate \in Seq(S) /\ \A o \in S : IntegrateKernel(o)
    BY <2>1 DEF Kernels
  <2>3. Len(integrate) \in Nat /\ \A i \in 1 .. Len(integrate) : integrate[i] \in S
    BY <2>2, LenProperties, ElementOfSeq
  <2> QED
    BY <1>1, <2>1, <2>2, <2>3
<1>2. CASE isBdt
  <2> DEFINE cp == [computePositions(Energy, "advance") EXCEPT !.own = @ \cup {"rung"}]
             dp == [driftPositions(Energy) EXCEPT !.own = @ \cup {"rung"}]
  <2>1. integrate = <<computeRungs, cp, storeRung, dp, updateSmoothingLength>>
    <3>1. integrate = integrateBdt
      BY <1>2 DEF integrate, isBdt, isStd, isMhd
    <3> QED
      BY <3>1 DEF integrateBdt
  <2>2. /\ cp.op = "kernel" /\ cp.name = "computePositions"
        /\ updateSmoothingLength.op = "kernel" /\ updateSmoothingLength.name = "updateSmoothingLength"
        /\ computeRungs.op = "computeRungs"
    BY DEF computePositions, updateSmoothingLength, Loop, computeRungs
  <2>3. IntegrateKernel(cp) /\ IntegrateKernel(storeRung) /\ IntegrateKernel(dp) /\ IntegrateKernel(updateSmoothingLength)
    BY <1>2, TimeKernels, Zenon
  <2> HIDE DEF cp, dp
  <2>4. /\ Len(integrate) = 5
        /\ integrate[1] = computeRungs /\ integrate[2] = cp /\ integrate[3] = storeRung /\ integrate[4] = dp
        /\ integrate[5] = updateSmoothingLength
    BY <2>1
  <2>5. Integrates(integrate)
    BY <2>2, <2>4 DEF Integrates, Calls
  <2>6. \A i \in 2 .. 5 : IntegrateKernel(integrate[i])
    BY <2>3, <2>4
  <2> QED
    BY <1>2, <2>2, <2>4, <2>5, <2>6
<1> QED
  BY <1>1, <1>2

-----------------------------------------------------------------------------
(* The inductive invariant *)

\* a value, see Garbage
Value(v) == v = [of |-> v.of, by |-> v.by, step |-> v.step] /\ \E S : v.by \in Seq(S)

\* the content of a buffer; halos are never copied to the particles of a rank
Buffer(b) ==
    /\ b = [own |-> b.own, halo |-> b.halo]
    /\ b.own = [c \in Class |-> b.own[c]]
    /\ \A c \in Class : Value(b.own[c])

\* The vectors are permuted among the fields, and without block time-steps there is one rung.
ShapeOK ==
    /\ phase \in {"forces", "save", "integrate", "done"}
    /\ pc \in Nat \ {0} /\ step \in Nat \ {0}
    /\ substep \in Nat /\ numRungs \in 1 .. MaxRungs
    /\ ~isBdt => substep = 0 /\ numRungs = 1
    /\ data \in [Field -> Field]
    /\ \A f, g \in Field : data[f] = data[g] => f = g
    /\ \A f \in Field : Buffer(content[data[f]])

\* kernel name was called in this integrate
Ran(name) ==
    \E i \in 1 .. pc - 1 : i <= Len(integrate) /\ integrate[i].op = "kernel" /\ integrate[i].name = name

\* the particles of rung c are at the end of their time-step, which was in step s
Moved(c, s) == own("x", c) = [of |-> "x", by |-> <<"computePositions">>, step |-> s]

\* the particles of rung c are marked in their keys if they have not converged
Marks(v) == "updateSmoothingLength" \in {v.by[i] : i \in DOMAIN v.by}

\* in integrate, once computePositions was called
MovedOK == phase = "integrate" /\ Ran("computePositions") => \A c \in Advancing : Moved(c, step)

\* and once updateSmoothingLength was
MarkedOK == phase = "integrate" /\ Ran("updateSmoothingLength") => \A c \in ActiveRungs : Marks(own("keys", c))

\* the sub-step after computeRungs
SubstepOK == phase = "integrate" /\ isBdt /\ pc > 1 => substep < 2 ^ (numRungs - 1)

\* in front of computeForces
ReadyOK ==
    phase = "forces" /\ pc = 1 /\ step > 1 =>
        /\ isSynced => \A c \in Rungs : Moved(c, step - 1)
        /\ conf.prop # "nbody" => \A c \in LastActive : Marks(own("keys", c))

\* the inductive invariant
StepInv == ShapeOK /\ MovedOK /\ MarkedOK /\ SubstepOK /\ ReadyOK

-----------------------------------------------------------------------------
(* The operation that is next *)

\* The operations of the programs are known, and there is a domain sync only in front of
\* computeForces, in a synchronised state.
LEMMA NextOp ==
    ASSUME ShapeOK, pc <= Len(Program)
    PROVE  /\ phase # "done"
           /\ AtOp("sync") => phase = "forces" /\ pc = 1 /\ isSynced
           /\ AtOp("computeRungs") => phase = "integrate" /\ pc = 1 /\ isBdt
           /\ AtOp("acquire") => Op.field \in Borrowed
           /\ phase = "integrate" => IntegrateKernel(Op) \/ (isBdt /\ pc = 1 /\ Op.op = "computeRungs")
<1>1. pc \in Nat \ {0} /\ phase \in {"forces", "save", "integrate", "done"}
  BY DEF ShapeOK
<1>2. CASE phase = "forces"
  <2>1. Program = computeForces
    BY <1>2 DEF Program
  <2>2. PICK S : Program \in Seq(S) /\ \A o \in S : OpKnown(o)
    BY <2>1, ForcesOpen DEF Opens, Known
  <2>3. pc \in 1 .. Len(Program) /\ Program[pc] \in S
    BY <1>1, <2>2, LenProperties, ElementOfSeq
  <2>4. OpKnown(Op)
    BY <2>2, <2>3 DEF Op
  <2>5. ASSUME AtOp("sync") PROVE pc = 1 /\ isSynced
    <3>1. ~(pc \in 2 .. Len(Program))
      BY <2>1, <2>5, ForcesOpen DEF Opens, CalmOp, AtOp
    <3>2. pc = 1
      BY <1>1, <2>3, <3>1
    <3> QED
      BY <2>1, <2>5, <3>2, ForcesOpen DEF First, AtOp
  <2> QED
    BY <1>2, <2>4, <2>5 DEF OpKnown, OpKinds, AtOp, Op
<1>3. CASE phase = "save"
  <2>1. Program = saveFields
    BY <1>3 DEF Program
  <2>2. PICK S : Program \in Seq(S) /\ \A o \in S : CalmOp(o)
    BY <2>1, SaveCalm DEF Calm
  <2>3. pc \in 1 .. Len(Program) /\ Program[pc] \in S
    BY <1>1, <2>2, LenProperties, ElementOfSeq
  <2>4. CalmOp(Op)
    BY <2>2, <2>3 DEF Op
  <2> QED
    BY <1>3, <2>4 DEF CalmOp, OpKnown, OpKinds, AtOp, Op
<1>4. CASE phase = "integrate"
  <2>1. Program = integrate
    BY <1>4 DEF Program
  <2>2. pc \in 1 .. Len(integrate)
    BY <1>1, <2>1, IntegrateProgram
  <2>3. IntegrateKernel(Op) \/ (isBdt /\ pc = 1 /\ Op.op = "computeRungs")
    BY <2>1, <2>2, IntegrateProgram DEF Op
  <2>4. Op.op \in {"kernel", "computeRungs"}
    BY <2>3 DEF IntegrateKernel
  <2> QED
    BY <1>4, <2>3, <2>4 DEF AtOp, Op, IntegrateKernel
<1>5. CASE phase = "done"
  <2>1. Program = << >>
    BY <1>5 DEF Program
  <2> QED
    BY <1>1, <2>1
<1> QED
  BY <1>1, <1>2, <1>3, <1>4, <1>5

-----------------------------------------------------------------------------
(* Values and buffers *)

\* What is computed or received anew is a value.
LEMMA NewValue ==
    /\ Value(Garbage)
    /\ \A f, name, s : Value([of |-> f, by |-> <<name>>, step |-> s])
<1>1. Value(Garbage)
  <2> DEFINE S == {}
  <2>1. Garbage.by \in Seq(S)
    BY DEF Garbage
  <2> HIDE DEF S
  <2>2. Garbage = [of |-> Garbage.of, by |-> Garbage.by, step |-> Garbage.step]
    BY DEF Garbage
  <2> QED
    BY <2>1, <2>2 DEF Value
<1>2. ASSUME NEW f, NEW name, NEW s PROVE Value([of |-> f, by |-> <<name>>, step |-> s])
  <2> DEFINE S == {name}
             v == [of |-> f, by |-> <<name>>, step |-> s]
  <2>1. v.by \in Seq(S)
    OBVIOUS
  <2>2. v = [of |-> v.of, by |-> v.by, step |-> v.step]
    OBVIOUS
  <2> HIDE DEF S, v
  <2>3. Value(v)
    BY <2>1, <2>2 DEF Value
  <2> QED
    BY <2>3 DEF v
<1> QED
  BY <1>1, <1>2

\* A kernel that increments a value leaves its name in it, and those of the kernels before it.
LEMMA AddedValue ==
    ASSUME NEW v, Value(v), NEW name
    PROVE  /\ Value([v EXCEPT !.by = Append(@, name)])
           /\ Marks(v) \/ name = "updateSmoothingLength" => Marks([v EXCEPT !.by = Append(@, name)])
<1>1. PICK S : v.by \in Seq(S)
  BY DEF Value
<1> DEFINE w == [v EXCEPT !.by = Append(@, name)]
           b == v.by
           T == S \cup {name}
<1>2. w = [of |-> v.of, by |-> Append(b, name), step |-> v.step]
  <2>1. \A x, y, z, n : [[of |-> x, by |-> y, step |-> z] EXCEPT !.by = n] = [of |-> x, by |-> n, step |-> z]
    OBVIOUS
  <2>2. PICK x, y, z : v = [of |-> x, by |-> y, step |-> z]
    BY DEF Value
  <2>3. v.of = x /\ b = y /\ v.step = z
    BY <2>2
  <2>4. [v EXCEPT !.by = Append(b, name)] = [of |-> x, by |-> Append(b, name), step |-> z]
    BY <2>1, <2>2
  <2> QED
    BY <2>3, <2>4
<1>3. b \in Seq(T) /\ name \in T
  BY <1>1
<1> HIDE DEF b, T
<1>4. /\ Append(b, name) \in Seq(T) /\ Len(b) \in Nat /\ DOMAIN b = 1 .. Len(b)
      /\ DOMAIN Append(b, name) = 1 .. Len(b) + 1
      /\ \A i \in 1 .. Len(b) : Append(b, name)[i] = b[i]
      /\ Append(b, name)[Len(b) + 1] = name
  BY <1>3, AppendProperties, LenProperties
<1>5. w.by = Append(b, name) /\ w = [of |-> w.of, by |-> w.by, step |-> w.step]
  BY <1>2
<1> HIDE DEF w
<1>6. Value(w)
  BY <1>4, <1>5 DEF Value
<1>7. ASSUME Marks(v) \/ name = "updateSmoothingLength" PROVE Marks(w)
  <2>1. CASE Marks(v)
    <3>1. PICK i \in DOMAIN b : b[i] = "updateSmoothingLength"
      BY <2>1 DEF Marks, b
    <3>2. i \in DOMAIN w.by /\ w.by[i] = "updateSmoothingLength"
      BY <1>4, <1>5, <3>1
    <3> QED
      BY <3>2 DEF Marks
  <2>2. CASE name = "updateSmoothingLength"
    <3>1. Len(b) + 1 \in DOMAIN w.by /\ w.by[Len(b) + 1] = "updateSmoothingLength"
      BY <1>4, <1>5, <2>2
    <3> QED
      BY <3>1 DEF Marks
  <2> QED
    BY <1>7, <2>1, <2>2
<1> QED
  BY <1>6, <1>7 DEF w

\* A buffer is made of values.
LEMMA BufferOf ==
    ASSUME NEW w, NEW h, w = [c \in Class |-> w[c]], \A c \in Class : Value(w[c])
    PROVE  Buffer([own |-> w, halo |-> h])
<1> DEFINE b == [own |-> w, halo |-> h]
<1>1. b.own = w /\ b = [own |-> b.own, halo |-> b.halo]
  OBVIOUS
<1> HIDE DEF b
<1>2. Buffer(b)
  BY <1>1, Zenon DEF Buffer
<1> QED
  BY <1>2 DEF b

\* Fresh values and garbage make buffers.
LEMMA NewBuffer ==
    /\ Buffer(GarbageBuffer)
    /\ \A f, name, h : Buffer([own |-> Fresh(f, name), halo |-> h])
<1>1. Buffer(GarbageBuffer)
  <2> DEFINE w == [c \in Class |-> Garbage]
  <2>1. w = [c \in Class |-> w[c]] /\ \A c \in Class : Value(w[c])
    BY NewValue
  <2>2. GarbageBuffer = [own |-> w, halo |-> w]
    BY DEF GarbageBuffer
  <2> HIDE DEF w
  <2> QED
    BY <2>1, <2>2, BufferOf
<1>2. ASSUME NEW f, NEW name, NEW h PROVE Buffer([own |-> Fresh(f, name), halo |-> h])
  <2> DEFINE w == Fresh(f, name)
  <2>1. w = [c \in Class |-> w[c]] /\ \A c \in Class : Value(w[c])
    BY NewValue DEF Fresh
  <2> HIDE DEF w
  <2>2. Buffer([own |-> w, halo |-> h])
    BY <2>1, BufferOf
  <2> QED
    BY <2>2 DEF w
<1> QED
  BY <1>1, <1>2

\* A buffer with other halos or other values of the particles is a buffer.
LEMMA ChangedBuffer ==
    ASSUME NEW b, Buffer(b), NEW h
    PROVE  /\ Buffer([b EXCEPT !.halo = h])
           /\ \A w : w = [c \in Class |-> w[c]] /\ (\A c \in Class : Value(w[c])) =>
                  Buffer([b EXCEPT !.own = w]) /\ [b EXCEPT !.own = w].own = w
<1>1. b = [own |-> b.own, halo |-> b.halo]
  BY DEF Buffer
<1>2. [b EXCEPT !.halo = h] = [own |-> b.own, halo |-> h]
  BY <1>1
<1>3. b.own = [c \in Class |-> b.own[c]] /\ \A c \in Class : Value(b.own[c])
  BY DEF Buffer
<1>4. Buffer([b EXCEPT !.halo = h])
  BY <1>2, <1>3, BufferOf
<1>5. ASSUME NEW w, w = [c \in Class |-> w[c]], \A c \in Class : Value(w[c])
      PROVE  Buffer([b EXCEPT !.own = w]) /\ [b EXCEPT !.own = w].own = w
  <2>1. [b EXCEPT !.own = w] = [own |-> w, halo |-> b.halo]
    BY <1>1
  <2>2. Buffer([own |-> w, halo |-> b.halo])
    BY <1>5, BufferOf
  <2>3. [own |-> w, halo |-> b.halo].own = w
    OBVIOUS
  <2> QED
    BY <2>1, <2>2, <2>3
<1> QED
  BY <1>4, <1>5

\* No two fields share a vector.
LEMMA HolderOf ==
    ASSUME ShapeOK, NEW f \in Field
    PROVE  data[f] \in Field /\ Holder(data[f]) = f
<1>1. data[f] \in Field /\ \A g \in Field : data[g] = data[f] => g = f
  BY DEF ShapeOK
<1>2. Holder(data[f]) \in Field /\ data[Holder(data[f])] = data[f]
  BY DEF Holder
<1> QED
  BY <1>1, <1>2

-----------------------------------------------------------------------------
(* The initial state and the steps that do not move particles *)

\* Initially the invariant holds.
LEMMA InitInv == Init => StepInv
<1> SUFFICES ASSUME Init PROVE StepInv
  OBVIOUS
<1>1. phase = "forces" /\ pc = 1 /\ step = 1 /\ substep = 0 /\ numRungs = 1 /\ data = [f \in Field |-> f]
  BY DEF Init
<1>2. ASSUME NEW f \in Field PROVE Buffer(content[data[f]])
  <2>1. \/ content[data[f]] = GarbageBuffer
        \/ content[data[f]] = [own |-> Fresh(f, "init"), halo |-> [c \in Class |-> Garbage]]
    BY <1>1 DEF Init
  <2> QED
    BY <2>1, NewBuffer
<1>3. 1 \in 1 .. MaxRungs
  BY KnownFields
<1>4. ShapeOK
  BY <1>1, <1>2, <1>3 DEF ShapeOK
<1> QED
  BY <1>1, <1>4 DEF StepInv, MovedOK, MarkedOK, SubstepOK, ReadyOK

\* The programs and the classes of particles depend on the configuration.
LEMMA SameConf ==
    ASSUME conf' = conf
    PROVE  /\ (isBdt' <=> isBdt) /\ Class' = Class /\ integrate' = integrate
           /\ \A b : Buffer(b)' <=> Buffer(b)
<1>1. (isBdt' <=> isBdt) /\ (isStd' <=> isStd) /\ (isMhd' <=> isMhd)
  BY DEF isBdt, isStd, isMhd
<1>2. Class' = Class
  BY <1>1 DEF Class
<1>3. Energy' = Energy
  BY <1>1 DEF Energy
<1>4. integrate' = integrate
  <2>1. integrateStd' = integrateStd
    BY <1>3, Zenon DEF integrateStd
  <2>2. integrateVe' = integrateVe /\ integrateMhd' = integrateMhd /\ integrateNbody' = integrateNbody
    BY <1>3, Zenon DEF integrateVe, integrateMhd, integrateNbody
  <2>3. integrateBdt' = integrateBdt
    BY <1>3, Zenon DEF integrateBdt
  <2> QED
    BY <1>1, <2>1, <2>2, <2>3 DEF integrate
<1>5. \A b : Buffer(b)' <=> Buffer(b)
  BY <1>2 DEF Buffer
<1> QED
  BY <1>1, <1>2, <1>4, <1>5

\* An operation that leaves values in the buffers, and the fields and rungs alone.
LEMMA ShapeKept ==
    ASSUME ShapeOK, Proceed, data' = data, substep' = substep, numRungs' = numRungs,
           \A f \in Field : Buffer(content'[data[f]])
    PROVE  ShapeOK'
<1>1. conf' = conf /\ phase' = phase /\ step' = step /\ pc' = pc + 1
  BY DEF Proceed
<1>2. (isBdt' <=> isBdt) /\ \A b : Buffer(b)' <=> Buffer(b)
  BY <1>1, SameConf
<1>3. pc' \in Nat \ {0}
  BY <1>1 DEF ShapeOK
<1>4. \A f \in Field : Buffer(content[data[f]])'
  BY <1>2
<1> QED
  BY <1>1, <1>2, <1>3, <1>4 DEF ShapeOK

\* Within computeForces and saveFields there is nothing else to show.
LEMMA OutsideIntegrate ==
    ASSUME ShapeOK, phase # "integrate", Proceed, ShapeOK'
    PROVE  StepInv'
<1>1. phase' = phase /\ pc' = pc + 1
  BY DEF Proceed
<1>2. phase' # "integrate" /\ pc' # 1
  BY <1>1 DEF ShapeOK
<1> QED
  BY <1>2 DEF StepInv, MovedOK, MarkedOK, SubstepOK, ReadyOK

\* The operations that only computeForces and saveFields have.
LEMMA NotIntegrate ==
    ASSUME ShapeOK, NEW k, AtOp(k), k \notin {"kernel", "computeRungs"}
    PROVE  phase # "integrate"
<1>1. pc <= Len(Program) /\ Op.op = k
  BY DEF AtOp, Op
<1>2. phase = "integrate" => IntegrateKernel(Op) \/ Op.op = "computeRungs"
  BY <1>1, NextOp
<1> QED
  BY <1>1, <1>2 DEF IntegrateKernel

\* Domain syncs keep the invariant.
LEMMA SyncInv == StepInv /\ SyncStep => StepInv'
<1> SUFFICES ASSUME StepInv, SyncStep PROVE StepInv'
  OBVIOUS
<1>1. ShapeOK /\ Proceed /\ data' = data /\ substep' = substep /\ numRungs' = numRungs
  BY DEF StepInv, SyncStep
<1>2. ASSUME NEW f \in Field PROVE Buffer(content'[data[f]])
  <2>1. data[f] \in Field /\ Holder(data[f]) = f
    BY <1>1, HolderOf
  <2>2. \/ content'[data[f]] = GarbageBuffer
        \/ \E h : content'[data[f]] = [own |-> Fresh(f, "sync"), halo |-> h]
    BY <2>1 DEF SyncStep, Assign
  <2> QED
    BY <2>2, NewBuffer
<1>3. ShapeOK'
  BY <1>1, <1>2, ShapeKept
<1>4. phase # "integrate"
  BY <1>1, NotIntegrate DEF SyncStep
<1> QED
  BY <1>1, <1>3, <1>4, OutsideIntegrate

\* Halo exchanges keep the invariant.
LEMMA HaloInv == StepInv /\ (HaloStep \/ MassStep) => StepInv'
<1> SUFFICES ASSUME StepInv, HaloStep \/ MassStep PROVE StepInv'
  OBVIOUS
<1>1. ShapeOK /\ Proceed /\ data' = data /\ substep' = substep /\ numRungs' = numRungs
  BY DEF StepInv, HaloStep, MassStep
<1>2. ASSUME NEW f \in Field PROVE Buffer(content'[data[f]])
  <2>1. data[f] \in Field /\ Holder(data[f]) = f /\ Buffer(content[data[f]])
    BY <1>1, HolderOf DEF ShapeOK
  <2>2. CASE HaloStep
    <3>1. \/ content'[data[f]] = GarbageBuffer
          \/ content'[data[f]] = content[data[f]]
          \/ content'[data[f]] = [content[data[f]] EXCEPT !.halo = content[data[f]].own]
      BY <2>1, <2>2 DEF HaloStep, Assign
    <3> QED
      BY <2>1, <3>1, NewBuffer, ChangedBuffer
  <2>3. CASE MassStep
    <3>1. \/ content'[data[f]] = content[data[f]]
          \/ content'[data[f]] = [content[data[f]] EXCEPT !.halo = content[data[f]].own]
      BY <2>1, <2>3 DEF MassStep, Assign
    <3> QED
      BY <2>1, <3>1, ChangedBuffer
  <2> QED
    BY <2>2, <2>3
<1>3. ShapeOK'
  BY <1>1, <1>2, ShapeKept
<1>4. phase # "integrate"
  BY <1>1, NotIntegrate DEF HaloStep, MassStep
<1> QED
  BY <1>1, <1>3, <1>4, OutsideIntegrate

\* Output and the release of a field leave the buffers alone.
LEMMA OutputInv == StepInv /\ (OutputStep \/ ReleaseStep) => StepInv'
<1> SUFFICES ASSUME StepInv, OutputStep \/ ReleaseStep PROVE StepInv'
  OBVIOUS
<1>1. /\ ShapeOK /\ Proceed /\ data' = data /\ content' = content
      /\ substep' = substep /\ numRungs' = numRungs
  BY DEF StepInv, OutputStep, ReleaseStep, FS!Release
<1>2. \A f \in Field : Buffer(content'[data[f]])
  BY <1>1 DEF ShapeOK
<1>3. ShapeOK'
  BY <1>1, <1>2, ShapeKept
<1>4. phase # "integrate"
  BY <1>1, NotIntegrate DEF OutputStep, ReleaseStep
<1> QED
  BY <1>1, <1>3, <1>4, OutsideIntegrate

\* acquire swaps two vectors.
LEMMA AcquireInv == StepInv /\ AcquireStep => StepInv'
<1> SUFFICES ASSUME StepInv, AcquireStep PROVE StepInv'
  OBVIOUS
<1>1. ShapeOK /\ Proceed /\ substep' = substep /\ numRungs' = numRungs /\ AtOp("acquire")
  BY DEF StepInv, AcquireStep
<1> DEFINE f == Op.field
<1>2. PICK g \in Field : FS!Acquire(f, g)
  BY DEF AcquireStep
<1>3. f \in Field
  <2>1. pc <= Len(Program)
    BY <1>1 DEF AtOp
  <2> QED
    BY <1>1, <2>1, NextOp, KnownFields
<1>4. data' = [data EXCEPT ![g] = data[f], ![f] = data[g]] /\ content' = content
  BY <1>2 DEF FS!Acquire
<1> HIDE DEF f
<1>5. data \in [Field -> Field] /\ \A u, v \in Field : data[u] = data[v] => u = v
  BY <1>1 DEF ShapeOK
<1>6. data' \in [Field -> Field]
  BY <1>2, <1>3, <1>4, <1>5
<1>7. \A u \in Field : data'[u] = IF u = f THEN data[g] ELSE IF u = g THEN data[f] ELSE data[u]
  BY <1>2, <1>3, <1>4, <1>5
<1>8. \A u, v \in Field : data'[u] = data'[v] => u = v
  BY <1>2, <1>3, <1>5, <1>7
<1>9. \A u \in Field : Buffer(content'[data'[u]])
  BY <1>1, <1>2, <1>3, <1>4, <1>7 DEF ShapeOK
<1>10. ShapeOK'
  <2>1. conf' = conf /\ phase' = phase /\ step' = step /\ pc' = pc + 1
    BY <1>1 DEF Proceed
  <2>2. (isBdt' <=> isBdt) /\ \A b : Buffer(b)' <=> Buffer(b)
    BY <2>1, SameConf
  <2>3. pc' \in Nat \ {0}
    BY <1>1, <2>1 DEF ShapeOK
  <2>4. \A u \in Field : Buffer(content[data[u]])'
    BY <1>9, <2>2
  <2> QED
    BY <1>1, <1>6, <1>8, <2>1, <2>2, <2>3, <2>4 DEF ShapeOK
<1>11. phase # "integrate"
  BY <1>1, NotIntegrate
<1> QED
  BY <1>1, <1>10, <1>11, OutsideIntegrate

\* The phases after computeForces and saveFields.
LEMMA EndPhaseInv == StepInv /\ (EndForces \/ EndSave) => StepInv'
<1> SUFFICES ASSUME StepInv, EndForces \/ EndSave PROVE StepInv'
  OBVIOUS
<1>1. /\ ShapeOK /\ phase' \in {"save", "integrate"} /\ pc' = 1 /\ conf' = conf /\ step' = step
      /\ data' = data /\ content' = content /\ substep' = substep /\ numRungs' = numRungs
  BY DEF StepInv, EndForces, EndSave
<1>2. (isBdt' <=> isBdt) /\ \A b : Buffer(b)' <=> Buffer(b)
  BY <1>1, SameConf
<1>3. \A f \in Field : Buffer(content[data[f]])'
  BY <1>1, <1>2 DEF ShapeOK
<1>4. ShapeOK'
  BY <1>1, <1>2, <1>3 DEF ShapeOK
<1>5. \A name : ~Ran(name)'
  BY <1>1 DEF Ran
<1> QED
  BY <1>1, <1>4, <1>5 DEF StepInv, MovedOK, MarkedOK, SubstepOK, ReadyOK

-----------------------------------------------------------------------------
(* The schedule of the rungs *)

\* The rungs of a sub-step have particles, and without block time-steps all particles move.
LEMMA RungFacts ==
    ASSUME ShapeOK
    PROVE  /\ Rungs \subseteq Class /\ Advancing \subseteq Class /\ ActiveRungs \subseteq Class
           /\ ~isBdt => isSynced /\ ActiveRungs = Class /\ Advancing = Class /\ Rungs = Class
<1>1. substep \in Nat /\ numRungs \in 1 .. MaxRungs /\ MaxRungs \in Nat \ {0}
  BY KnownFields DEF ShapeOK
<1>2. CASE ~isBdt
  <2>1. numRungs = 1 /\ Class = {0}
    BY <1>2 DEF ShapeOK, Class
  <2>2. isSynced /\ ActiveRungs = Class /\ Advancing = Class
    BY <1>2 DEF isSynced, activeRung, ActiveRungs, Advancing
  <2>3. Rungs = Class
    BY <2>1 DEF Rungs
  <2> QED
    BY <2>2, <2>3
<1>3. CASE isBdt
  <2>1. Class = 0 .. MaxRungs - 1
    BY <1>3 DEF Class
  <2>2. Rungs \subseteq Class
    BY <1>1, <2>1 DEF Rungs
  <2>3. Advancing \subseteq Class
    BY <1>3, <2>2 DEF Advancing
  <2>4. ActiveRungs \subseteq Class
    <3>1. CASE isSynced
      BY <3>1 DEF ActiveRungs
    <3>2. CASE ~isSynced
      <4> DEFINE b == butterfly(substep)
      <4>1. /\ substep \in Nat \ {0} /\ ~(substep >= 2 ^ (numRungs - 1))
            /\ activeRung = b /\ ActiveRungs = 0 .. b - 1
        BY <1>1, <3>2 DEF isSynced, activeRung, ActiveRungs
      <4>2. b = CHOOSE r \in 1 .. substep + 1 : substep % (2 ^ (r - 1)) = 0 /\ substep % (2 ^ r) # 0
        BY <4>1 DEF butterfly
      <4> HIDE DEF b
      <4>3. b \in Nat \ {0} /\ \A i \in Nat : i < b <=> substep % (2 ^ i) = 0
        BY <4>1, <4>2, PowersDividing
      <4>4. numRungs - 1 \in Nat /\ 2 ^ (numRungs - 1) \in Nat \ {0}
        BY <1>1, PowerOfTwo
      <4> DEFINE m == 2 ^ (numRungs - 1)
      <4>5. substep % m # 0
        <5>1. m \in Nat \ {0} /\ substep < m
          BY <1>1, <4>1, <4>4
        <5> HIDE DEF m
        <5> QED
          BY <4>1, <5>1
      <4>6. ~(numRungs - 1 < b)
        BY <4>3, <4>4, <4>5
      <4> QED
        BY <1>1, <2>1, <4>1, <4>3, <4>6
    <3> QED
      BY <3>1, <3>2
  <2> QED
    BY <1>3, <2>2, <2>3, <2>4
<1> QED
  BY <1>2, <1>3

\* The last sub-step of a hierarchy advances all rungs.
LEMMA LastSubstep ==
    ASSUME ShapeOK, isBdt, substep + 1 = 2 ^ (numRungs - 1)
    PROVE  Advancing = Rungs
<1> DEFINE n == substep + 1
           b == butterfly(n)
<1>1. n \in Nat \ {0} /\ numRungs \in 1 .. MaxRungs /\ MaxRungs \in Nat
  BY KnownFields DEF ShapeOK
<1>2. numRungs - 1 \in Nat /\ n = 2 ^ (numRungs - 1)
  BY <1>1
<1>3. Advancing = {i \in Rungs : i < b}
  BY DEF Advancing
<1> HIDE DEF n
<1>4. b = CHOOSE r \in 1 .. n + 1 : n % (2 ^ (r - 1)) = 0 /\ n % (2 ^ r) # 0
  BY <1>1 DEF butterfly
<1> HIDE DEF b
<1>5. b \in Nat \ {0} /\ \A i \in Nat : i < b <=> n % (2 ^ i) = 0
  BY <1>1, <1>4, PowersDividing
<1>6. n % (2 ^ (numRungs - 1)) = 0
  <2>1. n % n = 0
    BY <1>1
  <2> QED
    BY <1>2, <2>1
<1>7. numRungs - 1 < b
  BY <1>2, <1>5, <1>6
<1>8. \A i \in Rungs : i < b
  BY <1>1, <1>5, <1>7 DEF Rungs
<1> QED
  BY <1>3, <1>8

-----------------------------------------------------------------------------
(* The steps of integrate *)

\* the fields a kernel assigns
Assigned == Op.set \cup {f \in Op.opt : FS!isAllocated(f)}

\* what a kernel makes of the value of field f for the particles of rung c
Computed(f, c) ==
    IF Called(Op) /\ f \in Assigned \cup Op.add /\ c \in Rung(Op.grp)
    THEN IF f \in Assigned
         THEN [of |-> f, by |-> <<Op.name>>, step |-> step]
         ELSE [own(f, c) EXCEPT !.by = Append(@, Op.name)]
    ELSE own(f, c)

\* A kernel computes values.
LEMMA KernelEffect ==
    ASSUME ShapeOK, KernelStep, NEW f \in Field
    PROVE  /\ Buffer(content'[data[f]])
           /\ \A c \in Class : content'[data[f]].own[c] = Computed(f, c)
<1> DEFINE w == [c \in Class |-> Computed(f, c)]
           b == content[data[f]]
<1>1. data[f] \in Field /\ Holder(data[f]) = f /\ Buffer(b)
  BY HolderOf DEF ShapeOK
<1>2. b.own = [c \in Class |-> own(f, c)] /\ \A c \in Class : Value(own(f, c))
  BY <1>1 DEF Buffer, own
<1>3. ASSUME NEW c \in Class PROVE Value(Computed(f, c))
  <2>1. Value(own(f, c))
    BY <1>2
  <2>2. Value([of |-> f, by |-> <<Op.name>>, step |-> step])
    BY NewValue, Zenon
  <2>3. Value([own(f, c) EXCEPT !.by = Append(@, Op.name)])
    BY <2>1, AddedValue, Zenon
  <2> QED
    BY <2>1, <2>2, <2>3, Zenon DEF Computed
<1>4. content'[data[f]] = IF Called(Op) /\ f \in Assigned \cup Op.add
                          THEN [b EXCEPT !.own = [c \in Class |->
                                   IF c \in Rung(Op.grp)
                                   THEN IF f \in Assigned
                                        THEN [of |-> f, by |-> <<Op.name>>, step |-> step]
                                        ELSE [own(f, c) EXCEPT !.by = Append(@, Op.name)]
                                   ELSE own(f, c)]]
                          ELSE b
  BY <1>1, Zenon DEF KernelStep, Assign, Assigned
<1>5. CASE Called(Op) /\ f \in Assigned \cup Op.add
  <2>1. content'[data[f]] = [b EXCEPT !.own = w]
    BY <1>4, <1>5, Zenon DEF Computed
  <2>2. w = [c \in Class |-> w[c]] /\ \A c \in Class : w[c] = Computed(f, c)
    OBVIOUS
  <2>3. \A c \in Class : Value(w[c])
    BY <1>3, <2>2, Zenon
  <2> HIDE DEF w
  <2>4. Buffer([b EXCEPT !.own = w]) /\ [b EXCEPT !.own = w].own = w
    BY <1>1, <2>2, <2>3, ChangedBuffer, Zenon
  <2> QED
    BY <2>1, <2>2, <2>4, Zenon
<1>6. CASE ~(Called(Op) /\ f \in Assigned \cup Op.add)
  <2>1. content'[data[f]] = b
    BY <1>4, <1>6, Zenon
  <2>2. \A c \in Class : Computed(f, c) = own(f, c)
    BY <1>6, Zenon DEF Computed
  <2>3. \A c \in Class : b.own[c] = own(f, c)
    BY DEF own
  <2> HIDE DEF b
  <2> QED
    BY <1>1, <2>1, <2>2, <2>3, Zenon
<1> QED
  BY <1>5, <1>6

\* A kernel that has run in integrate had run before this step or is the one of this step.
LEMMA RanBefore ==
    ASSUME ShapeOK, phase = "integrate", AtOp("kernel"), Proceed, NEW name, Ran(name)'
    PROVE  Ran(name) \/ Op.name = name
<1>1. pc \in Nat \ {0} /\ pc' = pc + 1 /\ conf' = conf
  BY DEF ShapeOK, Proceed
<1>2. Len(integrate') = Len(integrate) /\ integrate' = integrate
  BY <1>1, SameConf
<1>3. PICK i \in 1 .. pc' - 1 : i <= Len(integrate) /\ integrate[i].op = "kernel" /\ integrate[i].name = name
  BY <1>2 DEF Ran
<1>4. CASE i = pc
  BY <1>3, <1>4 DEF Op, Program
<1>5. CASE i # pc
  <2>1. i \in 1 .. pc - 1
    BY <1>1, <1>3, <1>5
  <2> QED
    BY <1>3, <2>1 DEF Ran
<1> QED
  BY <1>4, <1>5

\* Kernels keep the invariant: within integrate, positions of advanced particles are left alone and
\* marks are kept.
LEMMA KernelInv == StepInv /\ KernelStep => StepInv'
<1> SUFFICES ASSUME StepInv, KernelStep PROVE StepInv'
  OBVIOUS
<1>1. /\ ShapeOK /\ Proceed /\ AtOp("kernel") /\ data' = data /\ substep' = substep /\ numRungs' = numRungs
  BY DEF StepInv, KernelStep
<1>2. \A f \in Field : /\ Buffer(content'[data[f]])
                       /\ \A c \in Class : content'[data[f]].own[c] = Computed(f, c)
  BY <1>1, KernelEffect
<1>3. ShapeOK'
  BY <1>1, <1>2, ShapeKept
<1>4. CASE phase # "integrate"
  BY <1>1, <1>3, <1>4, OutsideIntegrate
<1>5. CASE phase = "integrate"
  <2>1. conf' = conf /\ phase' = phase /\ step' = step /\ pc' = pc + 1 /\ pc \in Nat \ {0}
    BY <1>1 DEF Proceed, ShapeOK
  <2>2. pc <= Len(Program) /\ Op.op = "kernel"
    BY <1>1 DEF AtOp, Op
  <2>3. IntegrateKernel(Op)
    <3>1. IntegrateKernel(Op) \/ Op.op = "computeRungs"
      BY <1>1, <1>5, <2>2, NextOp
    <3> QED
      BY <2>2, <3>1
  <2>4. isBdt => pc # 1
    BY <1>5, <2>2, IntegrateProgram DEF Op, Program
  <2>5. isBdt' <=> isBdt
    BY <2>1, SameConf
  <2>6. /\ Advancing' = Advancing /\ ActiveRungs' = ActiveRungs
    <3>1. (isBdt' <=> isBdt) /\ Class' = Class
      BY <2>1, SameConf
    <3>2. activeRung' = activeRung /\ Rungs' = Rungs
      BY <1>1, <3>1 DEF activeRung, Rungs
    <3> QED
      BY <1>1, <3>1, <3>2 DEF Advancing, ActiveRungs, isSynced
  <2>7. "x" \in Field /\ "keys" \in Field
    BY KnownFields
  <2>8. \A c \in Class : own("x", c)' = Computed("x", c) /\ own("keys", c)' = Computed("keys", c)
    BY <1>1, <1>2, <2>7 DEF own
  <2>9. Called(Op)
    BY <2>3 DEF IntegrateKernel, Called
  <2>10. MovedOK'
    <3> SUFFICES ASSUME Ran("computePositions")', NEW c \in Advancing
                 PROVE  own("x", c)' = [of |-> "x", by |-> <<"computePositions">>, step |-> step]
      BY <2>1, <2>6 DEF MovedOK, Moved
    <3>1. c \in Class
      BY <1>1, RungFacts
    <3>2. CASE Op.name = "computePositions"
      <4>1. "x" \in Assigned /\ Op.grp = IF isBdt THEN "advance" ELSE "active"
        BY <2>3, <3>2 DEF IntegrateKernel, Assigned
      <4>2. c \in Rung(Op.grp)
        <5>1. CASE isBdt
          BY <4>1, <5>1 DEF Rung
        <5>2. CASE ~isBdt
          <6>1. Rung(Op.grp) = Class
            BY <1>1, <4>1, <5>2, RungFacts DEF Rung
          <6> QED
            BY <3>1, <6>1
        <5> QED
          BY <5>1, <5>2
      <4> QED
        BY <2>8, <2>9, <3>1, <3>2, <4>1, <4>2, Zenon DEF Computed
    <3>3. CASE Op.name # "computePositions"
      <4>1. Ran("computePositions")
        BY <1>1, <1>5, <3>3, RanBefore
      <4>2. own("x", c) = [of |-> "x", by |-> <<"computePositions">>, step |-> step]
        BY <1>5, <4>1 DEF StepInv, MovedOK, Moved
      <4>3. "x" \in Assigned \cup Op.add => c \notin Rung(Op.grp)
        <5>1. "x" \in Assigned \cup Op.add => Op.grp = "drift"
          BY <2>3, <3>3 DEF IntegrateKernel, Assigned
        <5> QED
          BY <5>1 DEF Rung
      <4>4. Computed("x", c) = own("x", c)
        BY <4>3, Zenon DEF Computed
      <4> QED
        BY <2>8, <3>1, <4>2, <4>4
    <3> QED
      BY <3>2, <3>3
  <2>11. MarkedOK'
    <3> SUFFICES ASSUME Ran("updateSmoothingLength")', NEW c \in ActiveRungs
                 PROVE  Marks(own("keys", c)')
      BY <2>1, <2>6 DEF MarkedOK, Marks
    <3>1. c \in Class
      BY <1>1, RungFacts
    <3>2. Value(own("keys", c))
      BY <1>1, <2>7, <3>1 DEF ShapeOK, Buffer, own
    <3>3. "keys" \notin Assigned
      BY <2>3 DEF IntegrateKernel, Assigned
    <3> DEFINE v == own("keys", c)
               w == [own("keys", c) EXCEPT !.by = Append(@, Op.name)]
    <3>4. (Marks(v) \/ Op.name = "updateSmoothingLength") => Marks(w)
      BY <3>2, AddedValue, Zenon
    <3>5. Marks(v) \/ Op.name = "updateSmoothingLength"
      <4>1. Ran("updateSmoothingLength") \/ Op.name = "updateSmoothingLength"
        BY <1>1, <1>5, RanBefore
      <4> QED
        BY <1>5, <4>1 DEF StepInv, MarkedOK
    <3>6. Op.name = "updateSmoothingLength" => "keys" \in Op.add /\ c \in Rung(Op.grp)
      BY <2>3 DEF IntegrateKernel, Rung
    <3>7. Computed("keys", c) = IF "keys" \in Op.add /\ c \in Rung(Op.grp) THEN w ELSE v
      BY <2>9, <3>3, Zenon DEF Computed
    <3> HIDE DEF v, w
    <3>8. Marks(Computed("keys", c))
      BY <3>4, <3>5, <3>6, <3>7, Zenon
    <3> QED
      BY <2>8, <3>1, <3>8
  <2>12. SubstepOK'
    BY <1>1, <1>5, <2>1, <2>4, <2>5 DEF StepInv, SubstepOK
  <2>13. ReadyOK'
    BY <1>5, <2>1 DEF ReadyOK
  <2> QED
    BY <1>3, <2>10, <2>11, <2>12, <2>13 DEF StepInv
<1> QED
  BY <1>4, <1>5

\* The choice of the rungs is the first operation of integrate, and the sub-step is one of the
\* hierarchy after it.
LEMMA RungsInv == StepInv /\ RungsStep => StepInv'
<1> SUFFICES ASSUME StepInv, RungsStep PROVE StepInv'
  OBVIOUS
<1>1. /\ ShapeOK /\ Proceed /\ AtOp("computeRungs") /\ data' = data
      /\ IF isSynced THEN numRungs' \in 1 .. MaxRungs /\ substep' = 0
         ELSE numRungs' = numRungs /\ substep' = substep
  BY DEF StepInv, RungsStep
<1>2. phase = "integrate" /\ pc = 1 /\ isBdt
  BY <1>1, NextOp DEF AtOp
<1>3. conf' = conf /\ phase' = phase /\ step' = step /\ pc' = 2
  BY <1>1, <1>2 DEF Proceed
<1>4. (isBdt' <=> isBdt) /\ integrate' = integrate /\ \A b : Buffer(b)' <=> Buffer(b)
  BY <1>3, SameConf
<1>5. substep \in Nat /\ numRungs \in 1 .. MaxRungs /\ MaxRungs \in Nat \ {0}
  BY <1>1, KnownFields DEF ShapeOK
<1>6. substep' \in Nat /\ numRungs' \in 1 .. MaxRungs /\ substep' < 2 ^ (numRungs' - 1)
  <2>1. CASE isSynced
    <3>1. substep' = 0 /\ numRungs' \in 1 .. MaxRungs
      BY <1>1, <2>1
    <3>2. ASSUME NEW k \in 1 .. MaxRungs PROVE 0 < 2 ^ (k - 1)
      <4>1. k - 1 \in Nat
        BY <1>5
      <4>2. 2 ^ (k - 1) \in Nat \ {0}
        BY <4>1, PowerOfTwo
      <4> QED
        BY <4>2
    <3>3. 0 < 2 ^ (numRungs' - 1) /\ 0 \in Nat
      BY <3>1, <3>2, Zenon
    <3> QED
      BY <3>1, <3>3, Zenon
  <2>2. CASE ~isSynced
    <3>1. substep' = substep /\ numRungs' = numRungs
      BY <1>1, <2>2
    <3>2. ~(substep >= 2 ^ (numRungs - 1))
      BY <2>2 DEF isSynced, activeRung
    <3>3. 2 ^ (numRungs - 1) \in Nat \ {0}
      BY <1>5, PowerOfTwo
    <3> QED
      BY <1>5, <3>1, <3>2, <3>3
  <2> QED
    BY <2>1, <2>2
<1>7. ASSUME NEW f \in Field PROVE Buffer(content'[data[f]])
  <2>1. data[f] \in Field /\ Holder(data[f]) = f /\ Buffer(content[data[f]])
    BY <1>1, HolderOf DEF ShapeOK
  <2>2. \/ content'[data[f]] = content[data[f]]
        \/ content'[data[f]] = [content[data[f]] EXCEPT !.own = GarbageBuffer.own]
    BY <2>1 DEF RungsStep, Assign
  <2> DEFINE w == GarbageBuffer.own
  <2>3. w = [c \in Class |-> w[c]] /\ \A c \in Class : Value(w[c])
    BY NewBuffer DEF Buffer
  <2> HIDE DEF w
  <2>4. Buffer([content[data[f]] EXCEPT !.own = w])
    BY <2>1, <2>3, ChangedBuffer, Zenon
  <2> QED
    BY <2>1, <2>2, <2>4 DEF w
<1>8. \A f \in Field : Buffer(content[data[f]])'
  BY <1>1, <1>4, <1>7
<1>9. ShapeOK'
  BY <1>1, <1>2, <1>3, <1>4, <1>6, <1>8 DEF ShapeOK
<1>10. \A name : ~Ran(name)'
  <2>1. integrate[1].op # "kernel"
    BY <1>2, IntegrateProgram
  <2> QED
    BY <1>3, <1>4, <2>1 DEF Ran
<1> QED
  BY <1>2, <1>3, <1>6, <1>9, <1>10 DEF StepInv, MovedOK, MarkedOK, SubstepOK, ReadyOK

\* A time-step ends with the particles ready for the domain sync: at the end of a hierarchy the last
\* sub-step has advanced all rungs, and the marks are those of the rungs that were active in it.
LEMMA EndIntegrateInv == StepInv /\ EndIntegrate => StepInv'
<1> SUFFICES ASSUME StepInv, EndIntegrate PROVE StepInv'
  OBVIOUS
<1>1. /\ ShapeOK /\ phase = "integrate" /\ phase' \in {"forces", "done"} /\ pc' = 1 /\ step' = step + 1
      /\ conf' = conf /\ data' = data /\ content' = content /\ numRungs' = numRungs
      /\ substep' = IF isBdt THEN substep + 1 ELSE substep
  BY DEF StepInv, EndIntegrate
<1>2. /\ pc \in Nat \ {0} /\ step \in Nat \ {0}
      /\ substep \in Nat /\ numRungs \in 1 .. MaxRungs /\ MaxRungs \in Nat \ {0}
  BY <1>1, KnownFields DEF ShapeOK
<1>3. (isBdt' <=> isBdt) /\ Class' = Class /\ \A b : Buffer(b)' <=> Buffer(b)
  BY <1>1, SameConf
<1>4. ShapeOK'
  <2>1. \A f \in Field : Buffer(content[data[f]])'
    BY <1>1, <1>3 DEF ShapeOK
  <2>2. step' \in Nat \ {0} /\ substep' \in Nat
    BY <1>1, <1>2
  <2> QED
    BY <1>1, <1>3, <2>1, <2>2 DEF ShapeOK
<1>5. pc > Len(integrate) /\ Len(integrate) \in Nat
  BY <1>1, IntegrateProgram DEF EndIntegrate, Program
<1>6. ASSUME NEW name, Calls(integrate, name) PROVE Ran(name)
  <2>1. PICK i \in 1 .. Len(integrate) : integrate[i].op = "kernel" /\ integrate[i].name = name
    BY <1>6 DEF Calls
  <2>2. i \in 1 .. pc - 1 /\ i <= Len(integrate)
    BY <1>2, <1>5
  <2> QED
    BY <2>1, <2>2 DEF Ran
<1>7. isBdt => substep < 2 ^ (numRungs - 1)
  <2>1. isBdt => pc > 1
    BY <1>2, <1>5, IntegrateProgram
  <2> QED
    BY <1>1, <2>1 DEF StepInv, SubstepOK
<1>8. \A c \in Advancing : Moved(c, step)
  <2>1. Ran("computePositions")
    BY <1>6, IntegrateProgram DEF Integrates
  <2> QED
    BY <1>1, <2>1 DEF StepInv, MovedOK
<1>9. conf.prop # "nbody" => \A c \in ActiveRungs : Marks(own("keys", c))
  <2>1. conf.prop # "nbody" => Ran("updateSmoothingLength")
    BY <1>6, IntegrateProgram DEF Integrates
  <2> QED
    BY <1>1, <2>1 DEF StepInv, MarkedOK
<1>10. ASSUME isSynced' PROVE Advancing = Rungs
  <2>1. CASE ~isBdt
    BY <1>1, <2>1, RungFacts
  <2>2. CASE isBdt
    <3> DEFINE n == substep + 1
               m == 2 ^ (numRungs - 1)
    <3>1. n \in Nat \ {0} /\ m \in Nat \ {0} /\ substep < m
      BY <1>2, <1>7, <2>2, PowerOfTwo
    <3>2. (n >= m \/ butterfly(n) = 0)
      BY <1>1, <1>3, <1>10, <2>2, <3>1 DEF isSynced, activeRung
    <3>3. butterfly(n) # 0
      <4> HIDE DEF n
      <4>1. butterfly(n) = CHOOSE r \in 1 .. n + 1 : n % (2 ^ (r - 1)) = 0 /\ n % (2 ^ r) # 0
        BY <3>1 DEF butterfly
      <4>2. butterfly(n) \in Nat \ {0}
        BY <3>1, <4>1, PowersDividing
      <4> QED
        BY <4>2
    <3>4. n = m
      <4> HIDE DEF m
      <4> QED
        BY <1>2, <3>1, <3>2, <3>3
    <3> QED
      BY <1>1, <2>2, <3>4, LastSubstep
  <2> QED
    BY <2>1, <2>2
<1>11. LastActive' \subseteq ActiveRungs
  <2>1. Rungs' = Rungs
    BY <1>1 DEF Rungs
  <2>2. CASE isBdt /\ substep > 0
    <3>1. substep' > 1 /\ substep' - 1 = substep
      BY <1>1, <1>2, <2>2
    <3>2. LastActive' = 0 .. butterfly(substep) - 1
      BY <1>3, <2>2, <3>1 DEF LastActive, butterfly
    <3>3. activeRung = butterfly(substep)
      <4>1. 2 ^ (numRungs - 1) \in Nat
        BY <1>2, PowerOfTwo
      <4>2. ~(substep >= 2 ^ (numRungs - 1)) /\ substep # 0
        BY <1>2, <1>7, <2>2, <4>1
      <4> QED
        BY <2>2, <4>2, Zenon DEF activeRung
    <3>4. butterfly(substep) # 0
      <4>1. substep \in Nat \ {0} /\ substep # 0
        BY <1>2, <2>2
      <4>2. butterfly(substep) =
                CHOOSE r \in 1 .. substep + 1 : substep % (2 ^ (r - 1)) = 0 /\ substep % (2 ^ r) # 0
        BY <4>1, Zenon DEF butterfly
      <4>3. butterfly(substep) \in Nat \ {0}
        BY <4>1, <4>2, PowersDividing
      <4> QED
        BY <4>3
    <3> QED
      BY <3>2, <3>3, <3>4 DEF ActiveRungs, isSynced
  <2>3. CASE ~(isBdt /\ substep > 0)
    <3>1. isSynced /\ ActiveRungs = Class
      BY <1>2, <2>3 DEF isSynced, activeRung, ActiveRungs
    <3>2. ~(isBdt' /\ substep' > 1)
      BY <1>1, <1>2, <1>3, <2>3
    <3>3. LastActive' = Rungs
      BY <2>1, <3>2 DEF LastActive
    <3> QED
      BY <1>1, <3>1, <3>3, RungFacts
  <2> QED
    BY <2>2, <2>3
<1>12. \A c : own("keys", c)' = own("keys", c) /\ own("x", c)' = own("x", c)
  BY <1>1 DEF own
<1>13. ReadyOK'
  <2>1. ASSUME isSynced', NEW c \in Rungs' PROVE Moved(c, step - 1)'
    <3>1. c \in Advancing
      BY <1>1, <1>10, <2>1 DEF Rungs
    <3>2. step' - 1 = step
      BY <1>1, <1>2
    <3> QED
      BY <1>8, <1>12, <3>1, <3>2 DEF Moved
  <2>2. ASSUME conf'.prop # "nbody", NEW c \in LastActive' PROVE Marks(own("keys", c))'
    <3>1. c \in ActiveRungs /\ conf.prop # "nbody"
      BY <1>1, <1>11, <2>2
    <3> QED
      BY <1>9, <1>12, <3>1 DEF Marks
  <2> QED
    BY <2>1, <2>2 DEF ReadyOK
<1> QED
  BY <1>1, <1>4, <1>13 DEF StepInv, MovedOK, MarkedOK, SubstepOK

-----------------------------------------------------------------------------
(* Theorems *)

\* The particles are ready for every domain sync: the invariant of the time-step holds for every propagator,
\* for every choice of rungs by computeRungs and with or without output between computeForces and integrate.
THEOREM StepInvariance == Spec => []StepInv
<1>1. Init => StepInv
  BY InitInv
<1>2. StepInv /\ [Next]_vars => StepInv'
  <2> SUFFICES ASSUME StepInv, [Next]_vars PROVE StepInv'
    OBVIOUS
  <2>1. CASE UNCHANGED vars
    <3>1. /\ conf' = conf /\ phase' = phase /\ pc' = pc /\ step' = step /\ data' = data /\ content' = content
          /\ substep' = substep /\ numRungs' = numRungs
      BY <2>1 DEF vars
    <3>2. (isBdt' <=> isBdt) /\ Class' = Class /\ integrate' = integrate /\ \A b : Buffer(b)' <=> Buffer(b)
      BY <3>1, SameConf
    <3>3. (isSynced' <=> isSynced) /\ Rungs' = Rungs /\ activeRung' = activeRung
      BY <3>1, <3>2 DEF isSynced, Rungs, activeRung
    <3>4. ActiveRungs' = ActiveRungs /\ Advancing' = Advancing /\ LastActive' = LastActive
      BY <3>1, <3>2, <3>3 DEF ActiveRungs, Advancing, LastActive
    <3>5. ShapeOK'
      <4>1. \A f \in Field : Buffer(content[data[f]])'
        BY <3>1, <3>2 DEF StepInv, ShapeOK
      <4> QED
        BY <3>1, <3>2, <4>1 DEF StepInv, ShapeOK
    <3>6. \A name : Ran(name)' <=> Ran(name)
      BY <3>1, <3>2 DEF Ran
    <3>7. \A c : own("keys", c)' = own("keys", c) /\ own("x", c)' = own("x", c)
      BY <3>1 DEF own
    <3>8. \A c, s : Moved(c, s)' <=> Moved(c, s)
      BY <3>7 DEF Moved
    <3>9. MovedOK' /\ MarkedOK'
      BY <3>1, <3>4, <3>6, <3>7, <3>8 DEF StepInv, MovedOK, MarkedOK, Moved, Marks
    <3>10. SubstepOK' /\ ReadyOK'
      BY <3>1, <3>2, <3>3, <3>4, <3>7 DEF StepInv, SubstepOK, ReadyOK, Moved, Marks
    <3> QED
      BY <3>5, <3>9, <3>10 DEF StepInv
  <2> QED
    BY <2>1, SyncInv, HaloInv, KernelInv, RungsInv, OutputInv, AcquireInv, EndPhaseInv, EndIntegrateInv, Zenon DEF Next
<1> QED
  BY <1>1, <1>2, PTL DEF Spec

\* What the invariant says at a domain sync.
LEMMA AtSync ==
    ASSUME StepInv, AtOp("sync"), step > 1
    PROVE  /\ \A c \in Rungs : Moved(c, step - 1)
           /\ conf.prop # "nbody" => \A c \in LastActive : Marks(own("keys", c))
<1>1. phase = "forces" /\ pc = 1 /\ isSynced
  BY NextOp DEF StepInv, AtOp
<1> QED
  BY <1>1 DEF StepInv, ReadyOK

\* At every domain sync all particles are at the end of their time-step, none of them is where
\* driftPositions has put it, for every propagator and for hierarchies of any number of rungs.
THEOREM AllAdvancedHolds == Spec => []AllAdvanced
<1>1. StepInv => AllAdvanced
  BY AtSync DEF AllAdvanced, Moved
<1> QED
  BY <1>1, StepInvariance, PTL

\* The marks that updateSmoothingLength puts on the particles of the last sub-step in front of a domain
\* sync are in the keys when the sync looks for them, for every propagator with smoothing lengths.
THEOREM RemovalsKeptHolds == Spec => []RemovalsKept
<1>1. StepInv => RemovalsKept
  BY AtSync DEF RemovalsKept, Marks
<1> QED
  BY <1>1, StepInvariance, PTL
=============================================================================
