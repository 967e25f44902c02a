------------------------- MODULE FieldMemoryProofs --------------------------
(***************************************************************************)
(* Proofs for Propagators, for every propagator and option: what the       *)
(* operations of the programs touch, how saveFields lends the memory of    *)
(* fields to others and gets it back (AllocInv), and from both that no     *)
(* operation touches a field without memory, the exemption Unallocated     *)
(* aside, and that no release or acquire throws.                           *)
(***************************************************************************)
EXTENDS Propagators, SequenceTheorems, TLAPS

\* Zenon first: in a context as large as this one it is the faster of the two provers.
USE ZenonT(10), SMTT(30)

-----------------------------------------------------------------------------
(* The fields that the operations touch *)

\* the fields with memory, as activateFields declares them
Avail == Conserved \cup Dependent

Touched(o) == o.own \cup o.nbr \cup o.set \cup o.add

\* the operation needs no more than the declared fields
Fits(o) ==
    /\ o.op \notin {"release", "acquire"}
    /\ o.op = "kernel" => Touched(o) \ Unallocated \subseteq Avail
    /\ o.op = "halo" => o.fields \cup o.scratch \subseteq Avail

\* a sequence of such operations
Fitting(q) == \E S : q \in Seq(S) /\ \A o \in S : Fits(o)

\* A sequence fits if its operations do.
LEMMA FittingTuple ==
    ASSUME NEW n \in Nat, NEW q, q = [i \in 1 .. n |-> q[i]], \A i \in 1 .. n : Fits(q[i])
    PROVE  Fitting(q)
<1> DEFINE S == {q[i] : i \in 1 .. n}
<1>1. q \in Seq(S)
  <2>1. q \in [1 .. n -> S]
    BY Zenon
  <2> HIDE DEF S
  <2> QED
    BY <2>1, SeqDef
<1>2. \A o \in S : Fits(o)
  OBVIOUS
<1> HIDE DEF S
<1> QED
  BY <1>1, <1>2 DEF Fitting

\* Parts of a program that fit make a program that does.
LEMMA FittingConcat ==
    ASSUME NEW q, NEW r, Fitting(q), Fitting(r)
    PROVE  Fitting(q \o r)
<1>1. PICK S : q \in Seq(S) /\ \A o \in S : Fits(o)
  BY DEF Fitting
<1>2. PICK T : r \in Seq(T) /\ \A o \in T : Fits(o)
  BY DEF Fitting
<1>3. q \in Seq(S \cup T) /\ r \in Seq(S \cup T)
  BY <1>1, <1>2
<1>4. q \o r \in Seq(S \cup T)
  BY <1>3, ConcatProperties
<1>5. \A o \in S \cup T : Fits(o)
  BY <1>1, <1>2
<1> QED
  BY <1>4, <1>5 DEF Fitting

\* Parts of programs that depend on an option.
LEMMA FittingParts ==
    ASSUME NEW cond
    PROVE  /\ Fitting(<<>>)
           /\ \A o : Fits(o) => Fitting(<<o>>)
           /\ \A o : (cond => Fits(o)) => Fitting(Opt(cond, <<o>>))
           /\ \A o, u : Fits(o) /\ Fits(u) => Fitting(<<o, u>>)
           /\ \A o, u : (cond => Fits(o) /\ Fits(u)) => Fitting(Opt(cond, <<o, u>>))
<1>1. Fitting(<<>>)
  <2> DEFINE q == << >>
  <2>1. q = [i \in 1 .. 0 |-> q[i]] /\ \A i \in 1 .. 0 : Fits(q[i])
    OBVIOUS
  <2> HIDE DEF q
  <2>2. Fitting(q)
    BY <2>1, FittingTuple
  <2> QED
    BY <2>2 DEF q
<1>2. ASSUME NEW o, Fits(o) PROVE Fitting(<<o>>)
  <2> DEFINE q == <<o>>
  <2>1. q = [i \in 1 .. 1 |-> q[i]] /\ \A i \in 1 .. 1 : Fits(q[i])
    BY <1>2
  <2> HIDE DEF q
  <2>2. Fitting(q)
    BY <2>1, FittingTuple
  <2> QED
    BY <2>2 DEF q
<1>3. ASSUME NEW o, NEW u, Fits(o), Fits(u) PROVE Fitting(<<o, u>>)
  <2> DEFINE q == <<o, u>>
  <2>1. q = [i \in 1 .. 2 |-> q[i]] /\ \A i \in 1 .. 2 : Fits(q[i])
    BY <1>3
  <2> HIDE DEF q
  <2>2. Fitting(q)
    BY <2>1, FittingTuple
  <2> QED
    BY <2>2 DEF q
<1> QED
  BY <1>1, <1>2, <1>3, Zenon DEF Opt

\* The fields of every propagator.
LEMMA CommonFields ==
    /\ "x" \in Avail /\ "h" \in Avail /\ "m" \in Avail /\ "vx" \in Avail /\ "x_m1" \in Avail /\ "keys" \in Avail
    /\ "ax" \in Avail /\ "ay" \in Avail /\ "az" \in Avail
<1>1. Acc \subseteq Dependent
  BY DEF Dependent, DependentStd, DependentVe
<1> QED
  BY <1>1 DEF Avail, Conserved, Dependent, Acc

\* The fields of the standard propagators.
LEMMA StdFields ==
    ASSUME isStd
    PROVE  /\ Energy = {"u"} /\ "u" \in Avail /\ "du_m1" \in Avail
           /\ "rho" \in Avail /\ "p" \in Avail /\ "c" \in Avail /\ "du" \in Avail /\ "nc" \in Avail
           /\ "c11" \in Avail /\ "c12" \in Avail /\ "c13" \in Avail
           /\ "dtCourant" \in Avail \cup Unallocated
           /\ conf.prop = "std-cooling" => "chem" \in Avail
<1>1. conf.prop # "nbody" /\ ~isMhd
  BY DEF isStd, isMhd
<1>2. Dependent = {"keys"} \cup DependentStd
  BY <1>1 DEF Dependent
<1>3. Energy = {"u"}
  BY <1>1 DEF Energy
<1>4. "u" \in Conserved /\ "du_m1" \in Conserved /\ (conf.prop = "std-cooling" => "chem" \in Conserved)
  BY <1>1, <1>3 DEF Conserved
<1> QED
  BY <1>2, <1>3, <1>4 DEF Avail, DependentStd, Cij, Unallocated

\* a propagator with generalised volume elements
isVe == ~isStd /\ conf.prop # "nbody"

\* Their fields.
LEMMA VeFields ==
    ASSUME isVe
    PROVE  /\ Energy = {"temp"} /\ "temp" \in Avail /\ "du_m1" \in Avail /\ "alpha" \in Avail
           /\ "prho" \in Avail /\ "c" \in Avail /\ "du" \in Avail /\ "xm" \in Avail /\ "kx" \in Avail
           /\ "nc" \in Avail /\ "dtCourant" \in Avail /\ "divv" \in Avail /\ "curlv" \in Avail /\ "gradh" \in Avail
           /\ "c11" \in Avail /\ "c12" \in Avail /\ "c13" \in Avail
           /\ conf.slr /\ ~isMhd => "dV11" \in Avail
           /\ isBdt => "rung" \in Avail
<1>1. ~isStd /\ conf.prop # "nbody"
  BY DEF isVe
<1>2. DependentVe \subseteq Dependent
  BY <1>1 DEF Dependent
<1>3. Energy = {"temp"}
  BY <1>1 DEF Energy
<1>4. "temp" \in Conserved /\ "du_m1" \in Conserved /\ "alpha" \in Conserved /\ (isBdt => "rung" \in Conserved)
  BY <1>1, <1>3 DEF Conserved
<1> QED
  BY <1>2, <1>3, <1>4 DEF Avail, DependentVe, Cij

\* Those of the magnetic propagators.
LEMMA MhdFields ==
    ASSUME isMhd
    PROVE  /\ isVe /\ "Bx" \in Avail /\ "dBx" \in Avail /\ "dBx_m1" \in Avail
           /\ "psi_ch" \in Avail /\ "d_psi_ch" \in Avail /\ "d_psi_ch_m1" \in Avail
           /\ "p" \in Avail /\ "dvxdx" \in Avail /\ "divB" \in Avail /\ "divB_conj" \in Avail /\ "curlB_x" \in Avail
           /\ "gradB_norm" \in Avail /\ "alpha_B" \in Avail /\ "dB_diss_x" \in Avail /\ "du_diss" \in Avail
           /\ conf.mhdSlr => "dBxdx" \in Avail
<1>1. isVe
  BY DEF isMhd, isVe, isStd
<1>2. DependentMhd \subseteq Dependent
  BY <1>1 DEF Dependent, isVe
<1>3. {"Bx", "dBx", "dBx_m1", "psi_ch", "d_psi_ch", "d_psi_ch_m1"} \subseteq Conserved
  BY DEF Conserved
<1> QED
  BY <1>1, <1>2, <1>3 DEF Avail, DependentMhd

\* The exchanges of fields that are declared.
LEMMA HaloFits ==
    /\ \A fields, scratch : fields \cup scratch \subseteq Avail => Fits(Halo(fields, scratch))
    /\ Fits(Sync) /\ Fits(fillMassHalos) /\ Fits(output) /\ Fits(computeRungs)
<1>1. \A fields, scratch : fields \cup scratch \subseteq Avail => Fits(Halo(fields, scratch))
  BY DEF Fits, Halo
<1>2. Fits(Sync) /\ Fits(fillMassHalos) /\ Fits(output) /\ Fits(computeRungs)
  BY DEF Fits, Sync, fillMassHalos, output, computeRungs
<1> QED
  BY <1>1, <1>2

\* A kernel fits if all it touches is declared.
LEMMA KernelFits ==
    ASSUME NEW o, o.op = "kernel", Touched(o) \subseteq Avail \cup Unallocated
    PROVE  Fits(o)
BY DEF Fits

\* Kernels that every propagator may call.
LEMMA CommonFit ==
    /\ \A grp : Fits(traverse(grp))
    /\ Fits(upsweep) /\ Fits(fillAcc) /\ Fits(driveTurbulence) /\ Fits(relaxSystem) /\ Fits(computeCentralForce)
    /\ Fits(computeAccretionCondition) /\ Fits(groupAccTimestep) /\ Fits(computeTimestep(conf.g))
<1>1. \A grp : Fits(traverse(grp))
  BY CommonFields DEF Fits, Touched, traverse, Loop, Acc
<1>2. Fits(upsweep) /\ Fits(fillAcc)
  BY CommonFields DEF Fits, Touched, upsweep, fillAcc, Loop, Acc
<1>3. Fits(driveTurbulence) /\ Fits(relaxSystem)
  BY CommonFields DEF Fits, Touched, driveTurbulence, relaxSystem, Loop, Acc
<1>4. Fits(computeCentralForce) /\ Fits(computeAccretionCondition)
  BY CommonFields DEF Fits, Touched, computeCentralForce, computeAccretionCondition, Loop, Acc
<1>5. Fits(groupAccTimestep) /\ Fits(computeTimestep(conf.g))
  BY CommonFields DEF Fits, Touched, groupAccTimestep, computeTimestep, Loop, Acc
<1> QED
  BY <1>1, <1>2, <1>3, <1>4, <1>5

\* Kernels of the standard propagators.
LEMMA StdFit ==
    ASSUME isStd
    PROVE  /\ Fits(updateSmoothingLengthIterative) /\ Fits(findNeighborsSfc) /\ Fits(computeDensity)
           /\ Fits(computeEOS_HydroStd(conf.eos, conf.gpu, Energy)) /\ Fits(computeIAD)
           /\ Fits(computeMomentumEnergySTD(conf.gpu)) /\ Fits(betaCooling) /\ Fits(duTimestep)
           /\ Fits(updateSmoothingLength) /\ Fits(computePositions(Energy, "active"))
           /\ conf.prop = "std-cooling" => Fits(eos_cooling) /\ Fits(coolingTimestep) /\ Fits(cool_particles)
<1>1. Fits(updateSmoothingLengthIterative) /\ Fits(findNeighborsSfc)
  BY CommonFields, StdFields DEF Fits, Touched, updateSmoothingLengthIterative, findNeighborsSfc, IjLoop, Loop
<1>2. Fits(computeDensity) /\ Fits(computeIAD)
  BY CommonFields, StdFields DEF Fits, Touched, computeDensity, computeIAD, IjLoop, Loop, Cij
<1>3. Fits(computeEOS_HydroStd(conf.eos, conf.gpu, Energy))
  BY CommonFields, StdFields DEF Fits, Touched, computeEOS_HydroStd, Loop
<1>4. Fits(computeMomentumEnergySTD(conf.gpu))
  <2> DEFINE o == computeMomentumEnergySTD(conf.gpu)
  <2>1. /\ o.op = "kernel"
        /\ Touched(o) \subseteq {"x", "h", "m", "rho", "vx", "p", "c", "nc", "du", "dtCourant"} \cup Cij \cup Acc
    BY DEF computeMomentumEnergySTD, IjLoop, Loop, Touched
  <2> HIDE DEF o
  <2>2. Touched(o) \subseteq Avail \cup Unallocated
    BY <2>1, CommonFields, StdFields DEF Cij, Acc
  <2> QED
    BY <2>1, <2>2, KernelFits DEF o
<1>5. Fits(betaCooling) /\ Fits(duTimestep) /\ Fits(updateSmoothingLength)
  BY CommonFields, StdFields DEF Fits, Touched, betaCooling, duTimestep, updateSmoothingLength, Loop
<1>6. Fits(computePositions(Energy, "active"))
  <2> DEFINE o == computePositions(Energy, "active")
  <2>1. o.op = "kernel" /\ Touched(o) \subseteq {"x", "x_m1", "h", "vx", "u", "du", "du_m1"} \cup Acc
    BY StdFields DEF computePositions, Loop, Touched, EnergyRate
  <2> HIDE DEF o
  <2>2. Touched(o) \subseteq Avail \cup Unallocated
    BY <2>1, CommonFields, StdFields DEF Acc
  <2> QED
    BY <2>1, <2>2, KernelFits DEF o
<1>7. ASSUME conf.prop = "std-cooling" PROVE Fits(eos_cooling) /\ Fits(coolingTimestep) /\ Fits(cool_particles)
  BY <1>7, StdFields DEF Fits, Touched, eos_cooling, coolingTimestep, cool_particles, Loop
<1> QED
  BY <1>1, <1>2, <1>3, <1>4, <1>5, <1>6, <1>7, Zenon

\* Kernels of the propagators with generalised volume elements.
LEMMA VeFit ==
    ASSUME isVe
    PROVE  /\ Fits(updateSmoothingLengthIterative) /\ Fits(findNeighborsSfc) /\ Fits(computeXMass)
           /\ Fits(computeVe) /\ Fits(computeIadDivvCurlvGradh) /\ Fits(recoverIad) /\ Fits(rhoTimestep)
           /\ Fits(groupDivvTimestep) /\ Fits(computeEOS(conf.eos, Energy)) /\ Fits(computeAVswitches)
           /\ Fits(updateSmoothingLength) /\ Fits(computePositions(Energy, "active"))
           /\ ~isMhd => Fits(computeMomentumEnergy(conf.slr))
<1>1. Fits(updateSmoothingLengthIterative) /\ Fits(findNeighborsSfc)
  BY CommonFields, VeFields DEF Fits, Touched, updateSmoothingLengthIterative, findNeighborsSfc, IjLoop, Loop
<1>2. Fits(computeXMass) /\ Fits(computeVe)
  BY CommonFields, VeFields DEF Fits, Touched, computeXMass, computeVe, IjLoop, Loop
<1>3. Fits(computeIadDivvCurlvGradh) /\ Fits(recoverIad)
  <2> DEFINE o == computeIadDivvCurlvGradh
             T == {"x", "h", "m", "xm", "kx", "vx", "nc", "gradh", "divv"} \cup Cij
  <2>1. o.op = "kernel" /\ Touched(o) \subseteq T
    BY DEF computeIadDivvCurlvGradh, IADGradh, DivvCurlv, IjLoop, Loop, Touched
  <2>2. recoverIad.op = "kernel" /\ Touched(recoverIad) = Touched(o)
    BY DEF recoverIad, computeIadDivvCurlvGradh, IjLoop, Loop, Touched
  <2>3. T \subseteq Avail \cup Unallocated
    BY CommonFields, VeFields DEF Cij
  <2> HIDE DEF o, T
  <2>4. Fits(o) /\ Fits(recoverIad)
    BY <2>1, <2>2, <2>3, KernelFits
  <2> QED
    BY <2>4 DEF o
<1>4. Fits(rhoTimestep) /\ Fits(groupDivvTimestep)
  BY CommonFields, VeFields DEF Fits, Touched, rhoTimestep, groupDivvTimestep, Loop
<1>5. Fits(computeEOS(conf.eos, Energy))
  BY CommonFields, VeFields DEF Fits, Touched, computeEOS, Loop
<1>6. Fits(computeAVswitches)
  BY CommonFields, VeFields DEF Fits, Touched, computeAVswitches, IjLoop, Loop, Cij
<1>7. Fits(updateSmoothingLength)
  BY CommonFields, VeFields DEF Fits, Touched, updateSmoothingLength, Loop
<1>8. Fits(computePositions(Energy, "active"))
  <2> DEFINE o == computePositions(Energy, "active")
  <2>1. o.op = "kernel" /\ Touched(o) \subseteq {"x", "x_m1", "h", "vx", "temp", "du", "du_m1"} \cup Acc
    BY VeFields DEF computePositions, Loop, Touched, EnergyRate
  <2> HIDE DEF o
  <2>2. Touched(o) \subseteq Avail \cup Unallocated
    BY <2>1, CommonFields, VeFields DEF Acc
  <2> QED
    BY <2>1, <2>2, KernelFits DEF o
<1>9. ASSUME ~isMhd PROVE Fits(computeMomentumEnergy(conf.slr))
  <2> DEFINE o == computeMomentumEnergy(conf.slr)
             T == {"x", "h", "vx", "m", "c", "kx", "alpha", "xm", "prho", "nc", "du", "dtCourant"} \cup Cij \cup Acc
             U == IF conf.slr THEN {"dV11", "divv", "curlv"} ELSE {}
  <2>1. o.op = "kernel" /\ Touched(o) \subseteq T \cup U
    BY DEF computeMomentumEnergy, IjLoop, Loop, Touched
  <2>2. T \cup U \subseteq Avail \cup Unallocated
    BY <1>9, CommonFields, VeFields DEF Cij, Acc
  <2> HIDE DEF o, T, U
  <2>3. Fits(o)
    BY <2>1, <2>2, KernelFits
  <2> QED
    BY <2>3 DEF o
<1> QED
  BY <1>1, <1>2, <1>3, <1>4, <1>5, <1>6, <1>7, <1>8, <1>9, Zenon

\* Kernels of the magnetic propagators.
LEMMA MhdFit ==
    ASSUME isMhd
    PROVE  /\ Fits(computeIadFullDivvCurlv(conf.mhdSlr)) /\ Fits(computeMagneticMomentumEnergy(conf.slr))
           /\ Fits(computeInductionAndDissipation(conf.mhdSlr)) /\ Fits(integrateMagneticQuantities)
<1> DEFINE S == IF conf.mhdSlr THEN {"dBxdx"} ELSE {}
<1>1. S \subseteq Avail
  BY MhdFields
<1>2. isVe
  BY MhdFields
<1>3. Fits(computeIadFullDivvCurlv(conf.mhdSlr))
  <2> DEFINE o == computeIadFullDivvCurlv(conf.mhdSlr)
             T == {"x", "h", "m", "xm", "kx", "vx", "Bx", "nc", "gradh", "divv", "dvxdx", "divB", "divB_conj", "curlB_x",
                   "gradB_norm", "alpha_B"} \cup Cij
  <2>1. o.op = "kernel" /\ Touched(o) \subseteq T \cup S
    BY DEF computeIadFullDivvCurlv, IADGradh, fullDivvCurlv, divBCurlB, IjLoop, Loop, Touched
  <2>2. T \subseteq Avail
    BY <1>2, CommonFields, VeFields, MhdFields DEF Cij
  <2> HIDE DEF o, T, S
  <2>3. Fits(o)
    BY <1>1, <2>1, <2>2, KernelFits
  <2> QED
    BY <2>3 DEF o
<1>4. Fits(computeMagneticMomentumEnergy(conf.slr))
  <2> DEFINE o == computeMagneticMomentumEnergy(conf.slr)
             T == {"x", "h", "vx", "m", "c", "kx", "alpha", "xm", "p", "gradh", "Bx", "nc", "du", "dtCourant",
                   "dvxdx", "divv", "curlv"} \cup Cij \cup Acc
  <2>1. o.op = "kernel" /\ Touched(o) \subseteq T
    BY DEF computeMagneticMomentumEnergy, IjLoop, Loop, Touched
  <2>2. T \subseteq Avail
    BY <1>2, CommonFields, VeFields, MhdFields DEF Cij, Acc
  <2> HIDE DEF o, T
  <2>3. Fits(o)
    BY <2>1, <2>2, KernelFits
  <2> QED
    BY <2>3 DEF o
<1>5. Fits(computeInductionAndDissipation(conf.mhdSlr))
  <2> DEFINE o == computeInductionAndDissipation(conf.mhdSlr)
             T == {"x", "h", "vx", "c", "Bx", "m", "xm", "kx", "gradh", "alpha_B", "psi_ch", "dvxdx", "divB_conj", "du", "nc",
                   "dBx", "d_psi_ch", "dB_diss_x", "du_diss"} \cup Cij
  <2>1. o.op = "kernel" /\ Touched(o) \subseteq T \cup S
    BY DEF computeInductionAndDissipation, IjLoop, Loop, Touched
  <2>2. T \subseteq Avail
    BY <1>2, CommonFields, VeFields, MhdFields DEF Cij
  <2> HIDE DEF o, T, S
  <2>3. Fits(o)
    BY <1>1, <2>1, <2>2, KernelFits
  <2> QED
    BY <2>3 DEF o
<1>6. Fits(integrateMagneticQuantities)
  BY MhdFields DEF Fits, Touched, integrateMagneticQuantities, Loop
<1> QED
  BY <1>3, <1>4, <1>5, <1>6

\* The observables of the main loop.
LEMMA ObservablesFit == Fits(computeConservedQuantities(Energy, isMhd))
<1> DEFINE o == computeConservedQuantities(Energy, isMhd)
           U == IF isMhd THEN {"xm", "kx", "divB", "h", "Bx", "du_diss"} ELSE {}
<1>1. o.op = "kernel" /\ Touched(o) \subseteq {"x", "vx", "m"} \cup Energy \cup U
  BY DEF computeConservedQuantities, Loop, Touched
<1>2. Energy \subseteq Avail
  BY DEF Avail, Conserved
<1>3. U \subseteq Avail
  BY CommonFields, VeFields, MhdFields
<1> HIDE DEF o, U
<1>4. Fits(o)
  BY <1>1, <1>2, <1>3, CommonFields, KernelFits
<1> QED
  BY <1>4 DEF o

\* Gravity and stirring.
LEMMA AccelerationsFit == Fitting(gravity) /\ Fitting(Opt(conf.g, gravity)) /\ Fitting(stirring)
<1>1. Fitting(gravity)
  BY CommonFit, FittingParts, Zenon DEF gravity
<1>2. Fitting(stirring)
  BY CommonFit, FittingParts, Zenon DEF stirring
<1>3. Fitting(<< >>)
  BY FittingParts
<1> QED
  BY <1>1, <1>2, <1>3, Zenon DEF Opt

\* computeForces of the standard propagators.
LEMMA StdForcesFit == isStd => Fitting(forcesStd)
<1> SUFFICES ASSUME isStd PROVE Fitting(forcesStd)
  OBVIOUS
<1> DEFINE e == IF conf.prop = "std-cooling" THEN eos_cooling ELSE computeEOS_HydroStd(conf.eos, conf.gpu, Energy)
           t == <<Sync, Halo({"m"}, StdScratch), updateSmoothingLengthIterative, findNeighborsSfc, computeDensity,
                  e, Halo({"vx", "rho", "p", "c"}, StdScratch), computeIAD, Halo(Cij, StdScratch),
                  computeMomentumEnergySTD(conf.gpu)>>
<1>1. Fits(e)
  BY StdFit, Zenon
<1>2. /\ Fits(Halo({"m"}, StdScratch)) /\ Fits(Halo({"vx", "rho", "p", "c"}, StdScratch))
      /\ Fits(Halo(Cij, StdScratch))
  <2>1. /\ {"m"} \cup StdScratch \subseteq Avail /\ {"vx", "rho", "p", "c"} \cup StdScratch \subseteq Avail
        /\ Cij \cup StdScratch \subseteq Avail
    BY CommonFields, StdFields DEF StdScratch, Cij
  <2> QED
    BY <2>1, HaloFits, Zenon
<1>3. forcesStd = t \o Opt(conf.g, gravity) \o Opt(conf.prop = "std-relax", <<relaxSystem>>)
                  \o Opt(conf.prop = "std-disk", <<betaCooling, computeCentralForce>>)
  BY DEF forcesStd
<1> HIDE DEF e
<1>4. t = [i \in 1 .. 10 |-> t[i]] /\ \A i \in 1 .. 10 : Fits(t[i])
  BY <1>1, <1>2, StdFit, HaloFits
<1>5. /\ Fitting(Opt(conf.prop = "std-relax", <<relaxSystem>>))
      /\ Fitting(Opt(conf.prop = "std-disk", <<betaCooling, computeCentralForce>>))
  BY StdFit, CommonFit, FittingParts, Zenon
<1> HIDE DEF t
<1>6. Fitting(t)
  BY <1>4, FittingTuple
<1> QED
  BY <1>3, <1>5, <1>6, AccelerationsFit, FittingConcat, Zenon

\* computeForces with generalised volume elements.
LEMMA VeForcesFit == isVe /\ ~isMhd => Fitting(forcesVe)
<1> SUFFICES ASSUME isVe, ~isMhd PROVE Fitting(forcesVe)
  OBVIOUS
<1> DEFINE F == {"prho", "alpha"} \cup (IF conf.slr THEN {"dV11"} ELSE {})
           t == <<Sync, fillMassHalos, updateSmoothingLengthIterative, findNeighborsSfc,
                  computeXMass, Halo({"xm"}, VeScratch), computeVe, exchangeVolumes,
                  computeIadDivvCurlvGradh, rhoTimestep, computeEOS(conf.eos, Energy),
                  Halo(Cij \cup {"divv", "curlv", "c"}, VeScratch)>>
           u == <<Halo(F, VeScratch), computeMomentumEnergy(conf.slr)>>
<1>1. /\ Fits(Halo({"xm"}, VeScratch)) /\ Fits(exchangeVolumes)
      /\ Fits(Halo(Cij \cup {"divv", "curlv", "c"}, VeScratch)) /\ Fits(Halo(F, VeScratch))
  <2>1. /\ {"xm"} \cup VeScratch \subseteq Avail /\ {"vx", "kx"} \cup VeScratch \subseteq Avail
        /\ (Cij \cup {"divv", "curlv", "c"}) \cup VeScratch \subseteq Avail
    BY CommonFields, VeFields DEF VeScratch, Cij
  <2>2. F \cup VeScratch \subseteq Avail
    BY CommonFields, VeFields DEF VeScratch
  <2> QED
    BY <2>1, <2>2, HaloFits, Zenon DEF exchangeVolumes
<1>2. forcesVe = t \o Opt(conf.av, <<computeAVswitches>>) \o u \o Opt(conf.g, gravity) \o stirring
  BY DEF forcesVe
<1> HIDE DEF F
<1>3. t = [i \in 1 .. 12 |-> t[i]] /\ \A i \in 1 .. 12 : Fits(t[i])
  BY <1>1, VeFit, HaloFits
<1>4. Fitting(Opt(conf.av, <<computeAVswitches>>)) /\ Fitting(u)
  BY <1>1, VeFit, FittingParts, Zenon
<1> HIDE DEF t, u
<1>5. Fitting(t)
  BY <1>3, FittingTuple
<1> QED
  BY <1>2, <1>4, <1>5, AccelerationsFit, FittingConcat, Zenon

\* computeForces with block time-steps.
LEMMA BdtForcesFit == isBdt => isVe /\ ~isMhd /\ Fitting(forcesBdt)
<1> SUFFICES ASSUME isBdt PROVE isVe /\ ~isMhd /\ Fitting(forcesBdt)
  OBVIOUS
<1> DEFINE first == IF isSynced THEN <<Sync>> ELSE partialSync
           F == {"alpha"} \cup (IF conf.slr THEN {"dV11"} ELSE {})
           t == <<fillMassHalos, updateSmoothingLengthIterative, findNeighborsSfc,
                  computeXMass, Halo({"xm"}, BdtScratch), computeVe, Halo({"vx", "kx"}, BdtScratch),
                  computeIadDivvCurlvGradh, groupDivvTimestep,
                  Halo(Cij \cup {"divv", "curlv", "gradh"}, BdtScratch),
                  computeEOS(conf.eos, Energy), Halo({"prho", "c"}, BdtScratch)>>
           u == <<Halo(F, BdtScratch), computeMomentumEnergy(conf.slr)>>
<1>1. isVe /\ ~isMhd
  BY DEF isBdt, isVe, isStd, isMhd
<1>2. /\ Fits(Halo({"x", "h"}, BdtScratch)) /\ Fits(Halo({"xm"}, BdtScratch)) /\ Fits(Halo({"vx", "kx"}, BdtScratch))
      /\ Fits(Halo(Cij \cup {"divv", "curlv", "gradh"}, BdtScratch)) /\ Fits(Halo({"prho", "c"}, BdtScratch))
      /\ Fits(Halo(F, BdtScratch))
  <2>1. /\ {"x", "h"} \cup BdtScratch \subseteq Avail /\ {"xm"} \cup BdtScratch \subseteq Avail
        /\ {"vx", "kx"} \cup BdtScratch \subseteq Avail /\ {"prho", "c"} \cup BdtScratch \subseteq Avail
        /\ (Cij \cup {"divv", "curlv", "gradh"}) \cup BdtScratch \subseteq Avail
    BY <1>1, CommonFields, VeFields DEF BdtScratch, Cij
  <2>2. F \cup BdtScratch \subseteq Avail
    BY <1>1, CommonFields, VeFields DEF BdtScratch
  <2> QED
    BY <2>1, <2>2, HaloFits, Zenon
<1>3. forcesBdt = first \o t \o Opt(conf.av, <<computeAVswitches>>) \o u \o Opt(conf.g, gravity) \o <<groupAccTimestep>>
                  \o stirring
  BY DEF forcesBdt
<1> HIDE DEF F
<1>4. t = [i \in 1 .. 12 |-> t[i]] /\ \A i \in 1 .. 12 : Fits(t[i])
  BY <1>1, <1>2, VeFit, HaloFits
<1>5. Fitting(Opt(conf.av, <<computeAVswitches>>)) /\ Fitting(u) /\ Fitting(<<groupAccTimestep>>)
  BY <1>1, <1>2, VeFit, CommonFit, FittingParts, Zenon
<1>6. Fitting(first)
  BY <1>2, HaloFits, FittingParts, Zenon DEF partialSync
<1> HIDE DEF first, t, u
<1>7. Fitting(t)
  BY <1>4, FittingTuple
<1>8. Fitting(forcesBdt)
  BY <1>3, <1>5, <1>6, <1>7, AccelerationsFit, FittingConcat, Zenon
<1> QED
  BY <1>1, <1>8

\* computeForces with magnetic fields.
LEMMA MhdForcesFit == isMhd => Fitting(forcesMhd)
<1> SUFFICES ASSUME isMhd PROVE Fitting(forcesMhd)
  OBVIOUS
<1> DEFINE F == {"divB_conj", "curlB_x", "psi_ch", "alpha_B"} \cup (IF conf.mhdSlr THEN {"dBxdx"} ELSE {})
           t == <<Sync, fillMassHalos, updateSmoothingLengthIterative, findNeighborsSfc,
                  computeXMass, Halo({"xm"}, VeScratch), computeVe, exchangeVolumes, Halo({"Bx"}, VeScratch),
                  computeIadFullDivvCurlv(conf.mhdSlr), rhoTimestep, computeEOS(conf.eos, Energy),
                  Halo(Cij \cup {"divv", "curlv", "c"}, VeScratch)>>
           u == <<Halo({"alpha", "gradh", "p"}, VeScratch), Halo({"dvxdx"}, VeScratch),
                  computeMagneticMomentumEnergy(conf.slr), Halo(F, MhdScratch),
                  computeInductionAndDissipation(conf.mhdSlr)>>
<1>1. isVe
  BY MhdFields
<1>2. /\ Fits(Halo({"xm"}, VeScratch)) /\ Fits(exchangeVolumes) /\ Fits(Halo({"Bx"}, VeScratch))
      /\ Fits(Halo(Cij \cup {"divv", "curlv", "c"}, VeScratch))
      /\ Fits(Halo({"alpha", "gradh", "p"}, VeScratch)) /\ Fits(Halo({"dvxdx"}, VeScratch)) /\ Fits(Halo(F, MhdScratch))
  <2>1. /\ {"xm"} \cup VeScratch \subseteq Avail /\ {"vx", "kx"} \cup VeScratch \subseteq Avail
        /\ (Cij \cup {"divv", "curlv", "c"}) \cup VeScratch \subseteq Avail
    BY <1>1, CommonFields, VeFields DEF VeScratch, Cij
  <2>2. /\ {"Bx"} \cup VeScratch \subseteq Avail /\ {"alpha", "gradh", "p"} \cup VeScratch \subseteq Avail
        /\ {"dvxdx"} \cup VeScratch \subseteq Avail
    BY <1>1, CommonFields, VeFields, MhdFields DEF VeScratch
  <2>3. F \cup MhdScratch \subseteq Avail
    BY <1>1, CommonFields, VeFields, MhdFields DEF MhdScratch
  <2> QED
    BY <2>1, <2>2, <2>3, HaloFits, Zenon DEF exchangeVolumes
<1>3. forcesMhd = t \o Opt(conf.av, <<computeAVswitches>>) \o u \o Opt(conf.g, gravity) \o stirring
  BY DEF forcesMhd
<1> HIDE DEF F
<1>4. t = [i \in 1 .. 13 |-> t[i]] /\ \A i \in 1 .. 13 : Fits(t[i])
  BY <1>1, <1>2, VeFit, MhdFit, HaloFits
<1>5. u = [i \in 1 .. 5 |-> u[i]] /\ \A i \in 1 .. 5 : Fits(u[i])
  BY <1>2, MhdFit
<1>6. Fitting(Opt(conf.av, <<computeAVswitches>>))
  BY <1>1, VeFit, FittingParts, Zenon
<1> HIDE DEF t, u
<1>7. Fitting(t) /\ Fitting(u)
  BY <1>4, <1>5, FittingTuple
<1> QED
  BY <1>3, <1>6, <1>7, AccelerationsFit, FittingConcat, Zenon

\* No operation of computeForces needs a field that is not declared.
LEMMA ForcesFit == Fitting(computeForces)
<1> DEFINE f == CASE conf.prop = "nbody" -> forcesNbody
                  [] isStd               -> forcesStd
                  [] isBdt               -> forcesBdt
                  [] isMhd               -> forcesMhd
                  [] OTHER               -> forcesVe
<1>1. Fitting(forcesNbody)
  <2> DEFINE t == <<Sync, Halo({"m"}, StdScratch), fillAcc>>
  <2>1. {"m"} \cup StdScratch \subseteq Avail
    BY CommonFields DEF StdScratch
  <2>2. Fits(Halo({"m"}, StdScratch))
    BY <2>1, HaloFits, Zenon
  <2>3. t = [i \in 1 .. 3 |-> t[i]] /\ \A i \in 1 .. 3 : Fits(t[i])
    BY <2>2, HaloFits, CommonFit
  <2>4. forcesNbody = t \o gravity
    BY DEF forcesNbody
  <2> HIDE DEF t
  <2>5. Fitting(t)
    BY <2>3, FittingTuple
  <2> QED
    BY <2>4, <2>5, AccelerationsFit, FittingConcat, Zenon
<1>2. Fitting(f)
  BY <1>1, StdForcesFit, VeForcesFit, BdtForcesFit, MhdForcesFit DEF isVe
<1>3. Fitting(Opt(isSynced, <<computeConservedQuantities(Energy, isMhd)>>))
  BY ObservablesFit, FittingParts, Zenon
<1>4. computeForces = f \o Opt(isSynced, <<computeConservedQuantities(Energy, isMhd)>>)
  BY DEF computeForces
<1> HIDE DEF f
<1> QED
  BY <1>2, <1>3, <1>4, FittingConcat, Zenon

\* No operation of integrate does.
LEMMA IntegrateFits == Fitting(integrate)
<1>1. ASSUME conf.prop = "nbody" PROVE Fitting(integrateNbody)
  <2> DEFINE o == computePositions(Energy, "active")
  <2>1. o.op = "kernel" /\ Touched(o) \subseteq {"x", "x_m1", "h", "vx"} \cup Acc
    BY <1>1 DEF computePositions, Loop, Touched, EnergyRate, Energy
  <2> HIDE DEF o
  <2>2. Touched(o) \subseteq Avail
    BY <2>1, CommonFields DEF Acc
  <2>3. Fits(o)
    BY <2>1, <2>2, KernelFits
  <2> QED
    BY <2>3, CommonFit, FittingParts, Zenon DEF o, integrateNbody
<1>2. ASSUME isStd PROVE Fitting(integrateStd)
  <2>1. /\ Fitting(Opt(conf.prop = "std-disk", <<duTimestep>>))
        /\ Fitting(Opt(conf.prop = "std-cooling", <<coolingTimestep>>))
        /\ Fitting(<<computeTimestep(conf.g)>>)
        /\ Fitting(Opt(conf.prop = "std-cooling", <<cool_particles>>))
        /\ Fitting(<<computePositions(Energy, "active"), updateSmoothingLength>>)
        /\ Fitting(Opt(conf.prop = "std-disk", <<computeAccretionCondition>>))
    BY <1>2, StdFit, CommonFit, FittingParts, Zenon
  <2> QED
    BY <2>1, FittingConcat, Zenon DEF integrateStd
<1>3. ASSUME isVe PROVE Fitting(integrateVe)
  <2> DEFINE t == integrateVe
  <2>1. t = [i \in 1 .. 3 |-> t[i]] /\ \A i \in 1 .. 3 : Fits(t[i])
    BY <1>3, VeFit, CommonFit DEF integrateVe
  <2> QED
    BY <2>1, FittingTuple
<1>4. ASSUME isMhd PROVE Fitting(integrateMhd)
  <2> DEFINE t == integrateMhd
  <2>1. isVe
    BY <1>4, MhdFields
  <2>2. t = [i \in 1 .. 4 |-> t[i]] /\ \A i \in 1 .. 4 : Fits(t[i])
    BY <1>4, <2>1, VeFit, MhdFit, CommonFit DEF integrateMhd
  <2> QED
    BY <2>2, FittingTuple
<1>5. ASSUME isBdt PROVE Fitting(integrateBdt)
  <2> DEFINE cp == [computePositions(Energy, "advance") EXCEPT !.own = @ \cup {"rung"}]
             dp == [driftPositions(Energy) EXCEPT !.own = @ \cup {"rung"}]
             T == {"x", "x_m1", "h", "vx", "temp", "du", "du_m1", "rung"} \cup Acc
             t == <<computeRungs, cp, storeRung, dp, updateSmoothingLength>>
  <2>1. isVe
    BY <1>5, BdtForcesFit
  <2>2. cp.op = "kernel" /\ Touched(cp) \subseteq T
    BY <2>1, VeFields DEF computePositions, Loop, Touched, EnergyRate
  <2>3. dp.op = "kernel" /\ Touched(dp) \subseteq T
    BY <2>1, VeFields DEF driftPositions, Loop, Touched, EnergyRate
  <2>4. T \subseteq Avail
    BY <1>5, <2>1, CommonFields, VeFields DEF Acc
  <2>5. Fits(storeRung)
    BY <1>5, <2>1, VeFields DEF Fits, Touched, storeRung, Loop
  <2>6. integrateBdt = t
    BY DEF integrateBdt
  <2> HIDE DEF cp, dp, T
  <2>7. Fits(cp) /\ Fits(dp)
    BY <2>2, <2>3, <2>4, KernelFits
  <2>8. t = [i \in 1 .. 5 |-> t[i]] /\ \A i \in 1 .. 5 : Fits(t[i])
    BY <2>1, <2>5, <2>7, VeFit, HaloFits
  <2> HIDE DEF t
  <2> QED
    BY <2>6, <2>8, FittingTuple
<1> QED
  BY <1>1, <1>2, <1>3, <1>4, <1>5 DEF integrate, isVe

-----------------------------------------------------------------------------
(* The states of the fields *)

\* all fields but those of B have the states of activateFields
Declared(B) ==
    /\ fieldStates = [f \in Field |-> fieldStates[f]]
    /\ \A f \in Field \ B : fieldStates[f] = activateFields[f]

\* a and b hand their memory to c and e, k of the four operations are done
Lending(k, a, b, c, e) ==
    /\ k = 0 => /\ fieldStates[a] = "dependent" /\ fieldStates[b] = "dependent"
                /\ fieldStates[c] = "unused" /\ fieldStates[e] = "unused"
    /\ k = 1 => /\ fieldStates[a] = "released" /\ fieldStates[b] = "dependent"
                /\ fieldStates[c] = "unused" /\ fieldStates[e] = "unused"
    /\ k = 2 => /\ fieldStates[a] = "released" /\ fieldStates[b] = "released"
                /\ fieldStates[c] = "unused" /\ fieldStates[e] = "unused"
    /\ k = 3 => /\ \/ fieldStates[a] = "released" /\ fieldStates[b] = "unused"
                   \/ fieldStates[a] = "unused" /\ fieldStates[b] = "released"
                /\ fieldStates[c] = "dependent" /\ fieldStates[e] = "unused"

\* and get it back with four more
Exchanged(k, a, b, c, e) == IF k < 4 THEN Lending(k, a, b, c, e) ELSE Lending(k - 4, c, e, a, b)

\* The fields of the propagators are fields of the data set.
LEMMA AvailNamed == Avail \subseteq Field
<1>1. Conserved \subseteq Named
  BY DEF Conserved, Energy, Named
<1>2. DependentStd \subseteq Named /\ DependentVe \subseteq Named /\ DependentMhd \subseteq Named
  BY DEF DependentStd, DependentVe, DependentMhd, Acc, Cij, Named
<1>3. Dependent \subseteq Named
  BY <1>2 DEF Dependent, Acc, Named
<1> QED
  BY <1>1, <1>3, PropagatorAssumption DEF Avail

\* The fields whose memory changes hands are, too.
LEMMA BorrowedFields == Borrowed \subseteq Field
<1>1. Borrowed \subseteq Named
  BY DEF Named, Borrowed
<1> QED
  BY <1>1, PropagatorAssumption

\* activateFields: no field is released at first.
LEMMA States ==
    ASSUME NEW f \in Field
    PROVE  /\ activateFields[f] \in {"conserved", "dependent", "unused"}
           /\ f \in Avail => activateFields[f] # "unused"
           /\ f \notin Avail => activateFields[f] = "unused"
           /\ f \in Dependent \ Conserved => activateFields[f] = "dependent"
BY DEF activateFields, Avail

\* Declared fields have memory.
LEMMA Memory ==
    ASSUME NEW B, Declared(B), NEW f \in Avail \ B
    PROVE  FS!isAllocated(f)
<1>1. f \in Field
  BY AvailNamed
<1> QED
  BY <1>1, States DEF Declared, FS!isAllocated

\* Nothing is lent if the states are those of activateFields.
LEMMA Nothing == Declared({}) <=> fieldStates = activateFields
<1>1. activateFields = [f \in Field |-> activateFields[f]]
  BY SMT DEF activateFields
<1>2. ASSUME Declared({}) PROVE fieldStates = activateFields
  BY <1>1, <1>2 DEF Declared
<1>3. ASSUME fieldStates = activateFields PROVE Declared({})
  BY <1>1, <1>3 DEF Declared
<1> QED
  BY <1>2, <1>3

\* release of a field of B.
LEMMA Released ==
    ASSUME NEW B, Declared(B), NEW f \in B \cap Field, FS!Release(f), activateFields' = activateFields
    PROVE  /\ Declared(B)' /\ fieldStates'[f] = "released"
           /\ \A h \in Field \ {f} : fieldStates'[h] = fieldStates[h]
<1>1. fieldStates' = [fieldStates EXCEPT ![f] = "released"]
  BY DEF FS!Release
<1>2. \A h \in Field : fieldStates'[h] = IF h = f THEN "released" ELSE fieldStates[h]
  BY <1>1 DEF Declared
<1>3. fieldStates' = [h \in Field |-> fieldStates'[h]]
  BY <1>1 DEF Declared
<1> QED
  BY <1>2, <1>3 DEF Declared

\* acquire takes the memory of a field of B, as no other field is released.
LEMMA Acquired ==
    ASSUME NEW B, Declared(B), NEW f \in B \cap Field, NEW g \in Field, FS!Acquire(f, g), activateFields' = activateFields
    PROVE  /\ Declared(B)' /\ fieldStates[g] = "released" /\ g \in B /\ g # f
           /\ fieldStates'[f] = "dependent" /\ fieldStates'[g] = "unused"
           /\ \A h \in Field \ {f, g} : fieldStates'[h] = fieldStates[h]
<1>1. fieldStates' = [fieldStates EXCEPT ![g] = "unused", ![f] = "dependent"] /\ fieldStates[f] = "unused"
  BY DEF FS!Acquire
<1>2. fieldStates[g] = "released"
  BY DEF FS!Acquire, FS!FirstSuitable, FS!Suitable
<1>3. g # f
  BY <1>1, <1>2
<1>4. g \in B
  BY <1>2, States DEF Declared
<1>5. \A h \in Field : fieldStates'[h] = IF h = f THEN "dependent" ELSE IF h = g THEN "unused" ELSE fieldStates[h]
  BY <1>1 DEF Declared
<1>6. fieldStates' = [h \in Field |-> fieldStates'[h]]
  BY <1>1 DEF Declared
<1>7. Declared(B)'
  BY <1>4, <1>5, <1>6 DEF Declared
<1> QED
  BY <1>2, <1>3, <1>4, <1>5, <1>7

\* The four operations, for any four fields of the same type.
LEMMA LendingSteps ==
    ASSUME NEW a \in Borrowed, NEW b \in Borrowed, NEW c \in Borrowed, NEW e \in Borrowed,
           a # b, a # c, a # e, b # c, b # e, c # e,
           NEW B, B = {a, b, c, e}, Declared(B), activateFields' = activateFields
    PROVE  /\ Lending(0, a, b, c, e) /\ FS!Release(a) => Declared(B)' /\ Lending(1, a, b, c, e)'
           /\ Lending(1, a, b, c, e) /\ FS!Release(b) => Declared(B)' /\ Lending(2, a, b, c, e)'
           /\ \A g \in Field : Lending(2, a, b, c, e) /\ FS!Acquire(c, g) => Declared(B)' /\ Lending(3, a, b, c, e)'
           /\ \A g \in Field : Lending(3, a, b, c, e) /\ FS!Acquire(e, g) => Declared(B)' /\ Lending(0, c, e, a, b)'
<1>1. a \in Field /\ b \in Field /\ c \in Field /\ e \in Field
  BY BorrowedFields
<1>2. ASSUME Lending(0, a, b, c, e), FS!Release(a) PROVE Declared(B)' /\ Lending(1, a, b, c, e)'
  <2>1. /\ Declared(B)' /\ fieldStates'[a] = "released"
        /\ \A h \in Field \ {a} : fieldStates'[h] = fieldStates[h]
    BY <1>1, <1>2, Released
  <2> QED
    BY <1>1, <1>2, <2>1 DEF Lending
<1>3. ASSUME Lending(1, a, b, c, e), FS!Release(b) PROVE Declared(B)' /\ Lending(2, a, b, c, e)'
  <2>1. /\ Declared(B)' /\ fieldStates'[b] = "released"
        /\ \A h \in Field \ {b} : fieldStates'[h] = fieldStates[h]
    BY <1>1, <1>3, Released
  <2> QED
    BY <1>1, <1>3, <2>1 DEF Lending
<1>4. ASSUME NEW g \in Field, Lending(2, a, b, c, e), FS!Acquire(c, g) PROVE Declared(B)' /\ Lending(3, a, b, c, e)'
  <2>1. /\ Declared(B)' /\ fieldStates[g] = "released" /\ g \in B /\ g # c
        /\ fieldStates'[c] = "dependent" /\ fieldStates'[g] = "unused"
        /\ \A h \in Field \ {c, g} : fieldStates'[h] = fieldStates[h]
    BY <1>1, <1>4, Acquired
  <2>2. g = a \/ g = b
    BY <1>4, <2>1 DEF Lending
  <2> QED
    BY <1>1, <1>4, <2>1, <2>2 DEF Lending
<1>5. ASSUME NEW g \in Field, Lending(3, a, b, c, e), FS!Acquire(e, g) PROVE Declared(B)' /\ Lending(0, c, e, a, b)'
  <2>1. /\ Declared(B)' /\ fieldStates[g] = "released" /\ g \in B /\ g # e
        /\ fieldStates'[e] = "dependent" /\ fieldStates'[g] = "unused"
        /\ \A h \in Field \ {e, g} : fieldStates'[h] = fieldStates[h]
    BY <1>1, <1>5, Acquired
  <2>2. g = a \/ g = b
    BY <1>5, <2>1 DEF Lending
  <2> QED
    BY <1>1, <1>5, <2>1, <2>2 DEF Lending
<1> QED
  BY <1>2, <1>3, <1>4, <1>5, Zenon

\* There is memory for the fields that acquire it.
LEMMA LendingSuitable ==
    ASSUME NEW a \in Borrowed, NEW b \in Borrowed, NEW c \in Borrowed, NEW e \in Borrowed
    PROVE  /\ Lending(2, a, b, c, e) => FS!Suitable(c) # {}
           /\ Lending(3, a, b, c, e) => FS!Suitable(e) # {}
<1>1. a \in Field /\ b \in Field
  BY BorrowedFields
<1>2. Type[a] = Type[c] /\ Type[a] = Type[e] /\ Type[b] = Type[e]
  BY PropagatorAssumption
<1>3. ASSUME Lending(2, a, b, c, e) PROVE FS!Suitable(c) # {}
  <2>1. a \in FS!Suitable(c)
    BY <1>1, <1>2, <1>3 DEF FS!Suitable, Lending, Field
  <2> QED
    BY <2>1
<1>4. ASSUME Lending(3, a, b, c, e) PROVE FS!Suitable(e) # {}
  <2>1. a \in FS!Suitable(e) \/ b \in FS!Suitable(e)
    BY <1>1, <1>2, <1>4 DEF FS!Suitable, Lending, Field
  <2> QED
    BY <2>1
<1> QED
  BY <1>3, <1>4

-----------------------------------------------------------------------------
(* The operations of saveFields, one by one *)

\* Two parts of a program.
LEMMA Indexed ==
    ASSUME NEW S, NEW q \in Seq(S), NEW r \in Seq(S), NEW p, p = q \o r
    PROVE  /\ p \in Seq(S) /\ Len(p) = Len(q) + Len(r)
           /\ \A i \in 1 .. Len(q) : p[i] = q[i]
           /\ \A i \in 1 .. Len(r) : p[Len(q) + i] = r[i]
OBVIOUS

\* saveFields of the propagators with generalised volume elements: memory changes hands between
\* the passes of the output.
LEMMA SaveVeOps ==
    /\ Len(saveVe) = 13
    /\ saveVe[1] = output /\ saveVe[7] = output /\ saveVe[13] = output
    /\ saveVe[2] = release("c11") /\ saveVe[3] = release("c12")
    /\ saveVe[4] = acquire("rho") /\ saveVe[5] = acquire("p")
    /\ saveVe[6] = computeEOS(conf.eos, Energy) /\ saveVe[12] = recoverIad
    /\ saveVe[8] = release("rho") /\ saveVe[9] = release("p")
    /\ saveVe[10] = acquire("c11") /\ saveVe[11] = acquire("c12")
<1> DEFINE e == computeEOS(conf.eos, Energy)
           A == {output, e, recoverIad, release("c11"), release("c12"), release("rho"), release("p"),
                 acquire("c11"), acquire("c12"), acquire("rho"), acquire("p")}
           p == <<output>> \o borrow
           q == p \o <<e, output>>
           r == q \o giveBack
<1>1. saveVe = r \o <<recoverIad, output>>
  BY DEF saveVe
<1>2. /\ <<output>> \in Seq(A) /\ <<e, output>> \in Seq(A) /\ <<recoverIad, output>> \in Seq(A)
      /\ borrow \in Seq(A) /\ giveBack \in Seq(A)
  BY DEF borrow, giveBack
<1> HIDE DEF A
<1>3. Len(borrow) = 4 /\ Len(giveBack) = 4
  BY DEF borrow, giveBack
<1>4. /\ p \in Seq(A) /\ Len(p) = 5
      /\ p[1] = output /\ p[2] = release("c11") /\ p[3] = release("c12") /\ p[4] = acquire("rho") /\ p[5] = acquire("p")
  BY <1>2, <1>3, Indexed DEF borrow
<1> HIDE DEF p, e
<1> DEFINE u == <<e, output>>
           v == <<recoverIad, output>>
<1>5. Len(u) = 2 /\ u[1] = e /\ u[2] = output /\ Len(v) = 2 /\ v[1] = recoverIad /\ v[2] = output
  OBVIOUS
<1>6. Len(giveBack) = 4 /\ giveBack[1] = release("rho") /\ giveBack[2] = release("p")
      /\ giveBack[3] = acquire("c11") /\ giveBack[4] = acquire("c12")
  BY DEF giveBack
<1>7. u \in Seq(A) /\ v \in Seq(A)
  BY <1>2
<1>8. saveVe = r \o v /\ q = p \o u /\ r = q \o giveBack
  BY <1>1
<1> HIDE DEF u, v, q, r
<1>9. /\ q \in Seq(A) /\ Len(q) = 7 /\ \A i \in 1 .. 5 : q[i] = p[i]
      /\ q[5 + 1] = u[1] /\ q[5 + 2] = u[2]
  <2>1. /\ q \in Seq(A) /\ Len(q) = Len(p) + Len(u)
        /\ \A i \in 1 .. Len(p) : q[i] = p[i]
        /\ \A i \in 1 .. Len(u) : q[Len(p) + i] = u[i]
    <3>1. p \in Seq(A) /\ u \in Seq(A) /\ q = p \o u
      BY <1>4, <1>7, <1>8
    <3> QED
      BY <3>1, Indexed
  <2> QED
    BY <1>4, <1>5, <2>1
<1>10. /\ r \in Seq(A) /\ Len(r) = 11 /\ \A i \in 1 .. 7 : r[i] = q[i]
       /\ r[7 + 1] = giveBack[1] /\ r[7 + 2] = giveBack[2] /\ r[7 + 3] = giveBack[3] /\ r[7 + 4] = giveBack[4]
  <2>1. /\ r \in Seq(A) /\ Len(r) = Len(q) + Len(giveBack)
        /\ \A i \in 1 .. Len(q) : r[i] = q[i]
        /\ \A i \in 1 .. Len(giveBack) : r[Len(q) + i] = giveBack[i]
    <3>1. q \in Seq(A) /\ giveBack \in Seq(A) /\ r = q \o giveBack
      BY <1>2, <1>8, <1>9
    <3> QED
      BY <3>1, Indexed
  <2> QED
    BY <1>6, <1>9, <2>1
<1>11. /\ Len(saveVe) = 13 /\ \A i \in 1 .. 11 : saveVe[i] = r[i]
       /\ saveVe[11 + 1] = v[1] /\ saveVe[11 + 2] = v[2]
  <2>1. /\ saveVe \in Seq(A) /\ Len(saveVe) = Len(r) + Len(v)
        /\ \A i \in 1 .. Len(r) : saveVe[i] = r[i]
        /\ \A i \in 1 .. Len(v) : saveVe[Len(r) + i] = v[i]
    <3>1. r \in Seq(A) /\ v \in Seq(A) /\ saveVe = r \o v
      BY <1>7, <1>8, <1>10
    <3> QED
      BY <3>1, Indexed
  <2> QED
    BY <1>5, <1>10, <2>1
<1> QED
  BY <1>4, <1>5, <1>6, <1>9, <1>10, <1>11 DEF e

\* The kinds of these operations.
LEMMA SaveKinds ==
    /\ output.op = "output"
    /\ \A f : release(f).op = "release" /\ release(f).field = f
    /\ \A f : acquire(f).op = "acquire" /\ acquire(f).field = f
    /\ computeEOS(conf.eos, Energy).op = "kernel" /\ recoverIad.op = "kernel" /\ computeMomentumEnergy(conf.slr).op = "kernel"
<1>1. output.op = "output" /\ \A f : release(f).op = "release" /\ release(f).field = f
  BY DEF output, release
<1>2. \A f : acquire(f).op = "acquire" /\ acquire(f).field = f
  BY DEF acquire
<1>3. computeEOS(conf.eos, Energy).op = "kernel" /\ recoverIad.op = "kernel" /\ computeMomentumEnergy(conf.slr).op = "kernel"
  BY DEF computeEOS, recoverIad, computeIadDivvCurlvGradh, computeMomentumEnergy, IjLoop, Loop
<1> QED
  BY <1>1, <1>2, <1>3

\* The first kernels of the output read nothing that is lent.
LEMMA SaveTouches ==
    /\ isVe => Touched(computeEOS(conf.eos, Energy)) \cap Borrowed = {}
    /\ Touched(recoverIad) \cap {"ay", "az", "rho", "p"} = {}
<1>1. ASSUME isVe PROVE Touched(computeEOS(conf.eos, Energy)) \cap Borrowed = {}
  BY <1>1, VeFields DEF computeEOS, Loop, Touched, Borrowed
<1>2. Touched(recoverIad) \subseteq {"x", "h", "m", "xm", "kx", "vx", "nc", "gradh", "divv"} \cup Cij
  BY DEF recoverIad, computeIadDivvCurlvGradh, IADGradh, DivvCurlv, IjLoop, Loop, Touched
<1>3. \A f \in {"ay", "az", "rho", "p"} : f \notin {"x", "h", "m", "xm", "kx", "vx", "nc", "gradh", "divv"} \cup Cij
  BY DEF Cij
<1> QED
  BY <1>1, <1>2, <1>3

\* The fields that are lent, as activateFields declares them.
LEMMA Lent ==
    /\ isVe /\ ~isMhd =>
         /\ activateFields["c11"] = "dependent" /\ activateFields["c12"] = "dependent"
         /\ activateFields["ay"] = "dependent" /\ activateFields["az"] = "dependent"
         /\ activateFields["rho"] = "unused" /\ activateFields["p"] = "unused"
    /\ isMhd => activateFields["c11"] = "dependent" /\ activateFields["rho"] = "unused"
<1>1. /\ "c11" \in Field /\ "c12" \in Field /\ "ay" \in Field /\ "az" \in Field /\ "rho" \in Field /\ "p" \in Field
  BY BorrowedFields DEF Borrowed
<1>2. \A f \in Borrowed : f \notin Conserved
  BY DEF Borrowed, Conserved, Energy
<1>3. ASSUME isVe PROVE "c11" \in Dependent /\ "c12" \in Dependent /\ "ay" \in Dependent /\ "az" \in Dependent
  <2>1. DependentVe \subseteq Dependent
    BY <1>3 DEF Dependent, isVe
  <2> QED
    BY <2>1 DEF DependentVe, Cij, Acc
<1>4. ASSUME isVe, ~isMhd PROVE "rho" \notin Dependent /\ "p" \notin Dependent
  <2>1. Dependent = {"keys"} \cup DependentVe
    BY <1>4 DEF Dependent, isVe
  <2> QED
    BY <2>1 DEF DependentVe, Cij, Acc
<1>5. ASSUME isMhd PROVE isVe /\ "rho" \notin Dependent
  <2>1. isVe
    BY <1>5, MhdFields
  <2>2. Dependent = {"keys"} \cup (DependentVe \cup DependentMhd)
    BY <1>5, <2>1 DEF Dependent, isVe
  <2> QED
    BY <2>1, <2>2 DEF DependentVe, DependentMhd, Cij, Acc
<1>6. /\ "c11" \in Borrowed /\ "c12" \in Borrowed /\ "ay" \in Borrowed /\ "az" \in Borrowed
      /\ "rho" \in Borrowed /\ "p" \in Borrowed
  BY DEF Borrowed
<1>7. ASSUME isVe
      PROVE  /\ activateFields["c11"] = "dependent" /\ activateFields["c12"] = "dependent"
             /\ activateFields["ay"] = "dependent" /\ activateFields["az"] = "dependent"
  BY <1>1, <1>2, <1>3, <1>6, <1>7, States
<1>8. ASSUME isVe, ~isMhd PROVE activateFields["rho"] = "unused" /\ activateFields["p"] = "unused"
  BY <1>1, <1>2, <1>4, <1>6, <1>8, States DEF Avail
<1>9. ASSUME isMhd PROVE activateFields["rho"] = "unused"
  BY <1>1, <1>2, <1>5, <1>6, <1>9, States DEF Avail
<1> QED
  BY <1>5, <1>7, <1>8, <1>9

-----------------------------------------------------------------------------
(* The loan of memory, there and back *)

\* the k-th operation of the loan
Loan(k, a, b, c, e) ==
    CASE k = 0 -> release(a)
      [] k = 1 -> release(b)
      [] k = 2 -> acquire(c)
      [] k = 3 -> acquire(e)
      [] k = 4 -> release(c)
      [] k = 5 -> release(e)
      [] k = 6 -> acquire(a)
      [] k = 7 -> acquire(b)

\* what operation o does to the states of the fields
Changes(o) ==
    \/ o.op \notin {"release", "acquire"} /\ fieldStates' = fieldStates
    \/ o.op = "release" /\ FS!Release(o.field)
    \/ o.op = "acquire" /\ \E g \in Field : FS!Acquire(o.field, g)

\* release and acquire do not throw
Allowed(o) ==
    /\ o.op = "release" => fieldStates[o.field] = "dependent"
    /\ o.op = "acquire" => fieldStates[o.field] = "unused" /\ FS!Suitable(o.field) # {}

\* Release and acquire change the states as the names say.
LEMMA ChangesOf ==
    ASSUME NEW f
    PROVE  /\ Changes(release(f)) => FS!Release(f)
           /\ Changes(acquire(f)) => \E g \in Field : FS!Acquire(f, g)
           /\ fieldStates[f] = "dependent" => Allowed(release(f))
           /\ fieldStates[f] = "unused" /\ FS!Suitable(f) # {} => Allowed(acquire(f))
<1>1. release(f).op = "release" /\ release(f).field = f /\ acquire(f).op = "acquire" /\ acquire(f).field = f
  BY SaveKinds
<1>2. (Changes(release(f)) => FS!Release(f)) /\ (Changes(acquire(f)) => \E g \in Field : FS!Acquire(f, g))
  BY <1>1 DEF Changes
<1>3. (fieldStates[f] = "dependent" => Allowed(release(f))) /\ (fieldStates[f] = "unused" /\ FS!Suitable(f) # {} => Allowed(acquire(f)))
  BY <1>1 DEF Allowed
<1> QED
  BY <1>2, <1>3, Zenon

\* No operation of the loan throws.
LEMMA LoanAllowed ==
    ASSUME NEW a \in Borrowed, NEW b \in Borrowed, NEW c \in Borrowed, NEW e \in Borrowed,
           NEW k \in 0 .. 7, Exchanged(k, a, b, c, e)
    PROVE  Allowed(Loan(k, a, b, c, e))
<1>1. ASSUME NEW t \in Borrowed, NEW u \in Borrowed, NEW v \in Borrowed, NEW w \in Borrowed
      PROVE  /\ Lending(0, t, u, v, w) => Allowed(release(t))
             /\ Lending(1, t, u, v, w) => Allowed(release(u))
             /\ Lending(2, t, u, v, w) => Allowed(acquire(v))
             /\ Lending(3, t, u, v, w) => Allowed(acquire(w))
  <2>1. /\ Lending(0, t, u, v, w) => fieldStates[t] = "dependent"
        /\ Lending(1, t, u, v, w) => fieldStates[u] = "dependent"
        /\ Lending(2, t, u, v, w) => fieldStates[v] = "unused"
        /\ Lending(3, t, u, v, w) => fieldStates[w] = "unused"
    BY DEF Lending
  <2> QED
    BY <2>1, ChangesOf, LendingSuitable
<1>2. CASE k \in 0 .. 3
  BY <1>1, <1>2 DEF Loan, Exchanged
<1>3. CASE k \in 4 .. 7
  BY <1>1, <1>3 DEF Loan, Exchanged
<1> QED
  BY <1>2, <1>3

\* The operations of one half of the loan.
LEMMA HalfLoan ==
    ASSUME NEW a \in Borrowed, NEW b \in Borrowed, NEW c \in Borrowed, NEW e \in Borrowed,
           a # b, a # c, a # e, b # c, b # e, c # e,
           NEW B, B = {a, b, c, e}, Declared(B), activateFields' = activateFields
    PROVE  /\ Lending(0, a, b, c, e) /\ Changes(release(a)) => Declared(B)' /\ Lending(1, a, b, c, e)'
           /\ Lending(1, a, b, c, e) /\ Changes(release(b)) => Declared(B)' /\ Lending(2, a, b, c, e)'
           /\ Lending(2, a, b, c, e) /\ Changes(acquire(c)) => Declared(B)' /\ Lending(3, a, b, c, e)'
           /\ Lending(3, a, b, c, e) /\ Changes(acquire(e)) => Declared(B)' /\ Lending(0, c, e, a, b)'
BY ChangesOf, LendingSteps

\* The states come back to what they were.
LEMMA WholeLoan ==
    ASSUME NEW a \in Borrowed, NEW b \in Borrowed, NEW c \in Borrowed, NEW e \in Borrowed,
           a # b, a # c, a # e, b # c, b # e, c # e,
           NEW B, B = {a, b, c, e}, Declared(B), activateFields' = activateFields,
           NEW k \in 0 .. 7, Exchanged(k, a, b, c, e), Changes(Loan(k, a, b, c, e))
    PROVE  Declared(B)' /\ Exchanged(IF k = 7 THEN 0 ELSE k + 1, a, b, c, e)'
<1>1. /\ Lending(0, a, b, c, e) /\ Changes(release(a)) => Declared(B)' /\ Lending(1, a, b, c, e)'
      /\ Lending(1, a, b, c, e) /\ Changes(release(b)) => Declared(B)' /\ Lending(2, a, b, c, e)'
      /\ Lending(2, a, b, c, e) /\ Changes(acquire(c)) => Declared(B)' /\ Lending(3, a, b, c, e)'
      /\ Lending(3, a, b, c, e) /\ Changes(acquire(e)) => Declared(B)' /\ Lending(0, c, e, a, b)'
  BY HalfLoan
<1>2. B = {c, e, a, b}
  OBVIOUS
<1>3. /\ Lending(0, c, e, a, b) /\ Changes(release(c)) => Declared(B)' /\ Lending(1, c, e, a, b)'
      /\ Lending(1, c, e, a, b) /\ Changes(release(e)) => Declared(B)' /\ Lending(2, c, e, a, b)'
      /\ Lending(2, c, e, a, b) /\ Changes(acquire(a)) => Declared(B)' /\ Lending(3, c, e, a, b)'
      /\ Lending(3, c, e, a, b) /\ Changes(acquire(b)) => Declared(B)' /\ Lending(0, a, b, c, e)'
  BY <1>2, HalfLoan
<1>4. CASE k \in {0, 1}
  BY <1>1, <1>4 DEF Loan, Exchanged
<1>5. CASE k \in {2, 3}
  BY <1>1, <1>5 DEF Loan, Exchanged
<1>6. CASE k \in {4, 5}
  BY <1>3, <1>6 DEF Loan, Exchanged
<1>7. CASE k \in {6, 7}
  BY <1>3, <1>7 DEF Loan, Exchanged
<1> QED
  BY <1>4, <1>5, <1>6, <1>7

-----------------------------------------------------------------------------
(* The states of the fields during saveFields *)

\* the operations of the loan that are done in front of operation pc
StageVe ==
    CASE pc \in 3 .. 5  -> pc - 2
      [] pc \in 6 .. 8  -> 4
      [] pc \in 9 .. 11 -> pc - 4
      [] OTHER          -> 0

StageBdt ==
    CASE pc \in 3 .. 5   -> pc - 2
      [] pc \in 6 .. 8   -> 4
      [] pc = 9          -> 5
      [] pc \in 10 .. 12 -> 6
      [] pc = 13         -> 7
      [] OTHER           -> 0

SaveVeOK == Declared({"c11", "c12", "rho", "p"}) /\ Exchanged(StageVe, "c11", "c12", "rho", "p")

SaveBdtOK == Declared({"ay", "az", "rho", "p"}) /\ Exchanged(StageBdt, "ay", "az", "rho", "p")

\* c11 lends its memory to rho
SaveMhdOK ==
    /\ Declared({"c11", "rho"})
    /\ pc = 3 => fieldStates["c11"] = "released" /\ fieldStates["rho"] = "unused"
    /\ pc \in 4 .. 6 => fieldStates["c11"] = "unused" /\ fieldStates["rho"] = "dependent"
    /\ pc = 7 => fieldStates["c11"] = "unused" /\ fieldStates["rho"] = "released"
    /\ pc \notin 3 .. 7 => fieldStates["c11"] = "dependent" /\ fieldStates["rho"] = "unused"

SavedOK ==
    CASE isStd \/ conf.prop = "nbody" -> fieldStates = activateFields
      [] isBdt                        -> SaveBdtOK
      [] isMhd                        -> SaveMhdOK
      [] OTHER                        -> SaveVeOK

\* The states of the fields are those of activateFields but for the memory that saveFields lends.
AllocInv ==
    /\ phase \in {"forces", "save", "integrate", "done"} /\ pc \in Nat \ {0}
    /\ IF phase = "save" THEN SavedOK ELSE fieldStates = activateFields

\* no kernel and no exchange of operation o touches a field without memory
Grounded(o) ==
    /\ o.op = "kernel" => \A f \in Touched(o) \ Unallocated : FS!isAllocated(f)
    /\ o.op = "halo" => \A f \in o.fields \cup o.scratch : FS!isAllocated(f)

\* The propagators.
LEMMA SavedCases ==
    /\ isStd \/ conf.prop = "nbody" => (SavedOK <=> fieldStates = activateFields) /\ saveFields = saveAllocated
    /\ isBdt => isVe /\ ~isMhd /\ (SavedOK <=> SaveBdtOK) /\ saveFields = saveBdt
    /\ isMhd => isVe /\ ~isBdt /\ (SavedOK <=> SaveMhdOK) /\ saveFields = saveMhd
    /\ isVe /\ ~isBdt /\ ~isMhd => (SavedOK <=> SaveVeOK) /\ saveFields = saveVe
<1>1. /\ isStd \/ conf.prop = "nbody" => ~isBdt /\ ~isMhd
      /\ isBdt => isVe /\ ~isMhd
      /\ isMhd => isVe /\ ~isBdt
  BY DEF isStd, isBdt, isMhd, isVe
<1> QED
  BY <1>1 DEF SavedOK, saveFields, isVe

\* An operation that fits and does not touch what is lent.
LEMMA FitGrounded ==
    ASSUME NEW B, Declared(B), NEW o, Fits(o), o.op = "kernel" => Touched(o) \cap B = {}, o.op = "halo" => B = {}
    PROVE  Grounded(o)
<1>1. ASSUME o.op = "kernel", NEW f \in Touched(o) \ Unallocated PROVE FS!isAllocated(f)
  <2>1. f \in Avail \ B
    BY <1>1 DEF Fits
  <2> QED
    BY <2>1, Memory
<1>2. ASSUME o.op = "halo", NEW f \in o.fields \cup o.scratch PROVE FS!isAllocated(f)
  <2>1. f \in Avail \ B
    BY <1>2 DEF Fits
  <2> QED
    BY <2>1, Memory
<1> QED
  BY <1>1, <1>2 DEF Grounded

\* Nothing is lent between saveFields.
LEMMA SettledGrounded ==
    ASSUME fieldStates = activateFields, NEW o, Fits(o)
    PROVE  Grounded(o) /\ Allowed(o)
<1>1. Declared({})
  BY Nothing
<1>2. Grounded(o)
  BY <1>1, FitGrounded
<1> QED
  BY <1>2 DEF Fits, Allowed

\* What is given back makes the states those of activateFields.
LEMMA Settled ==
    /\ isVe /\ ~isMhd /\ Declared({"c11", "c12", "rho", "p"}) /\ Exchanged(0, "c11", "c12", "rho", "p") =>
         fieldStates = activateFields
    /\ isVe /\ ~isMhd /\ Declared({"ay", "az", "rho", "p"}) /\ Exchanged(0, "ay", "az", "rho", "p") =>
         fieldStates = activateFields
    /\ isMhd /\ SaveMhdOK /\ pc \notin 3 .. 7 => fieldStates = activateFields
<1>1. ASSUME NEW B, Declared(B), \A f \in B : fieldStates[f] = activateFields[f] PROVE fieldStates = activateFields
  <2>1. Declared({})
    BY <1>1 DEF Declared
  <2> QED
    BY <2>1, Nothing
<1>2. ASSUME isVe, ~isMhd, Declared({"c11", "c12", "rho", "p"}), Exchanged(0, "c11", "c12", "rho", "p")
      PROVE  fieldStates = activateFields
  <2>1. \A f \in {"c11", "c12", "rho", "p"} : fieldStates[f] = activateFields[f]
    BY <1>2, Lent DEF Exchanged, Lending
  <2> QED
    BY <1>1, <1>2, <2>1
<1>3. ASSUME isVe, ~isMhd, Declared({"ay", "az", "rho", "p"}), Exchanged(0, "ay", "az", "rho", "p")
      PROVE  fieldStates = activateFields
  <2>1. \A f \in {"ay", "az", "rho", "p"} : fieldStates[f] = activateFields[f]
    BY <1>3, Lent DEF Exchanged, Lending
  <2> QED
    BY <1>1, <1>3, <2>1
<1>4. ASSUME isMhd, SaveMhdOK, pc \notin 3 .. 7 PROVE fieldStates = activateFields
  <2>1. \A f \in {"c11", "rho"} : fieldStates[f] = activateFields[f]
    BY <1>4, Lent DEF SaveMhdOK
  <2>2. Declared({"c11", "rho"})
    BY <1>4 DEF SaveMhdOK
  <2> QED
    BY <1>1, <2>1, <2>2
<1> QED
  BY <1>2, <1>3, <1>4

\* saveFields begins with the states of activateFields.
LEMMA SaveBegins ==
    ASSUME fieldStates = activateFields, pc = 1
    PROVE  SavedOK
<1>1. \A B : Declared(B)
  <2>1. Declared({})
    BY Nothing
  <2> QED
    BY <2>1 DEF Declared
<1>2. ASSUME isMhd PROVE SaveMhdOK
  BY <1>1, <1>2, Lent DEF SaveMhdOK
<1>3. ASSUME isVe, ~isMhd PROVE SaveVeOK
  <2>1. StageVe = 0
    BY DEF StageVe
  <2>2. Exchanged(0, "c11", "c12", "rho", "p")
    BY <1>3, Lent DEF Exchanged, Lending
  <2> QED
    BY <1>1, <2>1, <2>2 DEF SaveVeOK
<1>4. ASSUME isVe, ~isMhd PROVE SaveBdtOK
  <2>1. StageBdt = 0
    BY DEF StageBdt
  <2>2. Exchanged(0, "ay", "az", "rho", "p")
    BY <1>4, Lent DEF Exchanged, Lending
  <2> QED
    BY <1>1, <2>1, <2>2 DEF SaveBdtOK
<1> QED
  BY <1>2, <1>3, <1>4, SavedCases DEF isVe

\* A propagator lends fields of one type.
LEMMA Lenders ==
    /\ "c11" \in Borrowed /\ "c12" \in Borrowed /\ "ay" \in Borrowed /\ "az" \in Borrowed
    /\ "rho" \in Borrowed /\ "p" \in Borrowed
BY DEF Borrowed

\* The loan of the propagators with generalised volume elements.
LEMMA LoanVe ==
    ASSUME pc \in 1 .. 13
    PROVE  /\ pc \in {2, 3, 4, 5, 8, 9, 10, 11} =>
                StageVe \in 0 .. 7 /\ saveVe[pc] = Loan(StageVe, "c11", "c12", "rho", "p")
           /\ pc \notin {2, 3, 4, 5, 8, 9, 10, 11} =>
                /\ saveVe[pc] \in {output, computeEOS(conf.eos, Energy), recoverIad}
                /\ pc # 6 => saveVe[pc] = output \/ StageVe = 0
                /\ pc = 6 => saveVe[pc] = computeEOS(conf.eos, Energy)
<1>1. ASSUME pc \in {2, 3, 4, 5}
      PROVE  StageVe = pc - 2 /\ saveVe[pc] = Loan(pc - 2, "c11", "c12", "rho", "p")
  BY <1>1, SaveVeOps DEF StageVe, Loan
<1>2. ASSUME pc \in {8, 9, 10, 11}
      PROVE  StageVe = pc - 4 /\ saveVe[pc] = Loan(pc - 4, "c11", "c12", "rho", "p")
  BY <1>2, SaveVeOps DEF StageVe, Loan
<1>3. ASSUME pc \in {1, 6, 7, 12, 13}
      PROVE  /\ saveVe[pc] \in {output, computeEOS(conf.eos, Energy), recoverIad}
             /\ pc # 6 => saveVe[pc] = output \/ StageVe = 0
             /\ pc = 6 => saveVe[pc] = computeEOS(conf.eos, Energy)
  BY <1>3, SaveVeOps DEF StageVe
<1> QED
  BY <1>1, <1>2, <1>3

\* Every operation of saveFields leaves the states that the next one expects.
LEMMA SaveVeStep ==
    ASSUME SaveVeOK, pc \in 1 .. 13, Changes(saveVe[pc]), pc' = pc + 1, activateFields' = activateFields
    PROVE  SaveVeOK'
<1> DEFINE B == {"c11", "c12", "rho", "p"}
<1>1. Declared(B) /\ Exchanged(StageVe, "c11", "c12", "rho", "p")
  BY DEF SaveVeOK
<1>2. CASE pc \in {2, 3, 4, 5, 8, 9, 10, 11}
  <2>1. PICK k \in 0 .. 7 : k = StageVe
    BY <1>2, LoanVe
  <2>2. Exchanged(k, "c11", "c12", "rho", "p") /\ Changes(Loan(k, "c11", "c12", "rho", "p"))
    BY <1>1, <1>2, <2>1, LoanVe
  <2>3. Declared(B)' /\ Exchanged(IF k = 7 THEN 0 ELSE k + 1, "c11", "c12", "rho", "p")'
    BY <1>1, <2>2, Lenders, WholeLoan
  <2>4. StageVe' = IF k = 7 THEN 0 ELSE k + 1
    BY <1>2, <2>1 DEF StageVe
  <2> QED
    BY <2>3, <2>4 DEF SaveVeOK
<1>3. CASE pc \notin {2, 3, 4, 5, 8, 9, 10, 11}
  <2>1. saveVe[pc].op \notin {"release", "acquire"}
    BY <1>3, LoanVe, SaveKinds
  <2>2. fieldStates' = fieldStates
    BY <2>1 DEF Changes
  <2>3. StageVe' = StageVe
    BY <1>3 DEF StageVe
  <2>4. Declared(B)'
    BY <1>1, <2>2 DEF Declared
  <2>5. Exchanged(StageVe, "c11", "c12", "rho", "p")'
    BY <1>1, <2>2, <2>3 DEF Exchanged, Lending
  <2> QED
    BY <2>4, <2>5 DEF SaveVeOK
<1> QED
  BY <1>2, <1>3

\* No operation of saveFields touches what is lent.
LEMMA SaveVeGrounded ==
    ASSUME isVe, ~isMhd, SaveVeOK, pc \in 1 .. 13
    PROVE  Grounded(saveVe[pc]) /\ Allowed(saveVe[pc])
<1> DEFINE B == {"c11", "c12", "rho", "p"}
           o == saveVe[pc]
<1>1. Declared(B) /\ Exchanged(StageVe, "c11", "c12", "rho", "p")
  BY DEF SaveVeOK
<1>2. CASE pc \in {2, 3, 4, 5, 8, 9, 10, 11}
  <2>1. PICK k \in 0 .. 7 : k = StageVe
    BY <1>2, LoanVe
  <2>2. Exchanged(k, "c11", "c12", "rho", "p") /\ o = Loan(k, "c11", "c12", "rho", "p")
    BY <1>1, <1>2, <2>1, LoanVe
  <2>3. Allowed(o)
    BY <2>2, Lenders, LoanAllowed
  <2>4. o.op \in {"release", "acquire"}
    BY <2>2, SaveKinds DEF Loan
  <2> QED
    BY <2>3, <2>4 DEF Grounded
<1>3. CASE pc \notin {2, 3, 4, 5, 8, 9, 10, 11}
  <2>1. Fits(o)
    BY <1>3, LoanVe, VeFit, HaloFits
  <2>2. CASE o = output
    BY <2>2, SaveKinds DEF Grounded, Allowed
  <2>3. CASE o # output /\ pc = 6
    <3>1. o = computeEOS(conf.eos, Energy)
      BY <1>3, <2>3, LoanVe
    <3>2. o.op = "kernel" /\ Touched(o) \cap B = {}
      BY <3>1, SaveKinds, SaveTouches DEF Borrowed
    <3> HIDE DEF o, B
    <3>3. Grounded(o)
      BY <1>1, <2>1, <3>2, FitGrounded
    <3> QED
      BY <3>2, <3>3 DEF Allowed, o
  <2>4. CASE o # output /\ pc # 6
    <3>1. StageVe = 0
      BY <1>3, <2>4, LoanVe
    <3>2. fieldStates = activateFields
      BY <1>1, <3>1, Settled
    <3> QED
      BY <2>1, <3>2, SettledGrounded
  <2> QED
    BY <2>2, <2>3, <2>4
<1> QED
  BY <1>2, <1>3

\* saveFields with block time-steps: the accelerations lend their memory, and are computed again.
LEMMA LoanBdt ==
    ASSUME pc \in 1 .. 14
    PROVE  /\ pc \in {2, 3, 4, 5, 8, 9, 12, 13} =>
                StageBdt \in 0 .. 7 /\ saveBdt[pc] = Loan(StageBdt, "ay", "az", "rho", "p")
           /\ pc \notin {2, 3, 4, 5, 8, 9, 12, 13} =>
                /\ saveBdt[pc] \in {output, computeEOS(conf.eos, Energy), recoverIad, computeMomentumEnergy(conf.slr)}
                /\ pc \notin {6, 10} => saveBdt[pc] = output \/ StageBdt = 0
                /\ pc = 6 => saveBdt[pc] = computeEOS(conf.eos, Energy)
                /\ pc = 10 => saveBdt[pc] = recoverIad
<1>1. ASSUME pc \in {2, 3, 4, 5}
      PROVE  StageBdt = pc - 2 /\ saveBdt[pc] = Loan(pc - 2, "ay", "az", "rho", "p")
  BY <1>1 DEF StageBdt, Loan, saveBdt
<1>2. ASSUME pc \in {8, 9}
      PROVE  StageBdt = pc - 4 /\ saveBdt[pc] = Loan(pc - 4, "ay", "az", "rho", "p")
  BY <1>2 DEF StageBdt, Loan, saveBdt
<1>3. ASSUME pc \in {12, 13}
      PROVE  StageBdt = pc - 6 /\ saveBdt[pc] = Loan(pc - 6, "ay", "az", "rho", "p")
  BY <1>3 DEF StageBdt, Loan, saveBdt
<1>4. ASSUME pc \in {1, 6, 7, 10, 11, 14}
      PROVE  /\ saveBdt[pc] \in {output, computeEOS(conf.eos, Energy), recoverIad, computeMomentumEnergy(conf.slr)}
             /\ pc \notin {6, 10} => saveBdt[pc] = output \/ StageBdt = 0
             /\ pc = 6 => saveBdt[pc] = computeEOS(conf.eos, Energy)
             /\ pc = 10 => saveBdt[pc] = recoverIad
  BY <1>4 DEF StageBdt, saveBdt
<1> QED
  BY <1>1, <1>2, <1>3, <1>4

\* Every operation leaves the states that the next one expects.
LEMMA SaveBdtStep ==
    ASSUME SaveBdtOK, pc \in 1 .. 14, Changes(saveBdt[pc]), pc' = pc + 1, activateFields' = activateFields
    PROVE  SaveBdtOK'
<1> DEFINE B == {"ay", "az", "rho", "p"}
<1>1. Declared(B) /\ Exchanged(StageBdt, "ay", "az", "rho", "p")
  BY DEF SaveBdtOK
<1>2. CASE pc \in {2, 3, 4, 5, 8, 9, 12, 13}
  <2>1. PICK k \in 0 .. 7 : k = StageBdt
    BY <1>2, LoanBdt
  <2>2. Exchanged(k, "ay", "az", "rho", "p") /\ Changes(Loan(k, "ay", "az", "rho", "p"))
    BY <1>1, <1>2, <2>1, LoanBdt
  <2>3. Declared(B)' /\ Exchanged(IF k = 7 THEN 0 ELSE k + 1, "ay", "az", "rho", "p")'
    BY <1>1, <2>2, Lenders, WholeLoan
  <2>4. StageBdt' = IF k = 7 THEN 0 ELSE k + 1
    BY <1>2, <2>1 DEF StageBdt
  <2> QED
    BY <2>3, <2>4 DEF SaveBdtOK
<1>3. CASE pc \notin {2, 3, 4, 5, 8, 9, 12, 13}
  <2>1. saveBdt[pc].op \notin {"release", "acquire"}
    BY <1>3, LoanBdt, SaveKinds
  <2>2. fieldStates' = fieldStates
    BY <2>1 DEF Changes
  <2>3. StageBdt' = StageBdt
    BY <1>3 DEF StageBdt
  <2>4. Declared(B)'
    BY <1>1, <2>2 DEF Declared
  <2>5. Exchanged(StageBdt, "ay", "az", "rho", "p")'
    BY <1>1, <2>2, <2>3 DEF Exchanged, Lending
  <2> QED
    BY <2>4, <2>5 DEF SaveBdtOK
<1> QED
  BY <1>2, <1>3

\* No operation touches what is lent.
LEMMA SaveBdtGrounded ==
    ASSUME isVe, ~isMhd, SaveBdtOK, pc \in 1 .. 14
    PROVE  Grounded(saveBdt[pc]) /\ Allowed(saveBdt[pc])
<1> DEFINE B == {"ay", "az", "rho", "p"}
           o == saveBdt[pc]
<1>1. Declared(B) /\ Exchanged(StageBdt, "ay", "az", "rho", "p")
  BY DEF SaveBdtOK
<1>2. CASE pc \in {2, 3, 4, 5, 8, 9, 12, 13}
  <2>1. PICK k \in 0 .. 7 : k = StageBdt
    BY <1>2, LoanBdt
  <2>2. Exchanged(k, "ay", "az", "rho", "p") /\ o = Loan(k, "ay", "az", "rho", "p")
    BY <1>1, <1>2, <2>1, LoanBdt
  <2>3. Allowed(o)
    BY <2>2, Lenders, LoanAllowed
  <2>4. o.op \in {"release", "acquire"}
    BY <2>2, SaveKinds DEF Loan
  <2> QED
    BY <2>3, <2>4 DEF Grounded
<1>3. CASE pc \notin {2, 3, 4, 5, 8, 9, 12, 13}
  <2>1. Fits(o)
    BY <1>3, LoanBdt, VeFit, HaloFits
  <2>2. CASE o = output
    BY <2>2, SaveKinds DEF Grounded, Allowed
  <2>3. CASE o # output /\ pc \in {6, 10}
    <3>1. o.op = "kernel" /\ Touched(o) \cap B = {}
      BY <1>3, <2>3, LoanBdt, SaveKinds, SaveTouches DEF Borrowed
    <3> HIDE DEF o, B
    <3>2. Grounded(o)
      BY <1>1, <2>1, <3>1, FitGrounded
    <3> QED
      BY <3>1, <3>2 DEF Allowed, o
  <2>4. CASE o # output /\ pc \notin {6, 10}
    <3>1. StageBdt = 0
      BY <1>3, <2>4, LoanBdt
    <3>2. fieldStates = activateFields
      BY <1>1, <3>1, Settled
    <3> QED
      BY <2>1, <3>2, SettledGrounded
  <2> QED
    BY <2>2, <2>3, <2>4
<1> QED
  BY <1>2, <1>3

\* saveFields with magnetic fields: c11 lends its memory to rho.
LEMMA SaveMhdStep ==
    ASSUME SaveMhdOK, pc \in 1 .. 9, Changes(saveMhd[pc]), pc' = pc + 1, activateFields' = activateFields
    PROVE  SaveMhdOK'
<1> DEFINE B == {"c11", "rho"}
<1>1. Declared(B) /\ "c11" \in B \cap Field /\ "rho" \in B \cap Field
  BY Lenders, BorrowedFields DEF SaveMhdOK
<1>2. CASE pc \in {1, 4, 5, 8, 9}
  <2>1. saveMhd[pc] \in {output, computeEOS(conf.eos, Energy), recoverIad}
    BY <1>2 DEF saveMhd
  <2>2. saveMhd[pc].op \notin {"release", "acquire"}
    BY <2>1, SaveKinds
  <2>3. fieldStates' = fieldStates
    BY <2>2 DEF Changes
  <2>4. Declared(B)'
    BY <1>1, <2>3 DEF Declared
  <2> QED
    BY <1>2, <2>3, <2>4 DEF SaveMhdOK
<1>3. CASE pc = 2
  <2>1. FS!Release("c11")
    BY <1>3, ChangesOf DEF saveMhd
  <2>2. Declared(B)' /\ fieldStates'["c11"] = "released" /\ \A h \in Field \ {"c11"} : fieldStates'[h] = fieldStates[h]
    BY <1>1, <2>1, Released
  <2> QED
    BY <1>1, <1>3, <2>2 DEF SaveMhdOK
<1>4. CASE pc = 6
  <2>1. FS!Release("rho")
    BY <1>4, ChangesOf DEF saveMhd
  <2>2. Declared(B)' /\ fieldStates'["rho"] = "released" /\ \A h \in Field \ {"rho"} : fieldStates'[h] = fieldStates[h]
    BY <1>1, <2>1, Released
  <2> QED
    BY <1>1, <1>4, <2>2 DEF SaveMhdOK
<1>5. CASE pc = 3
  <2>1. PICK g \in Field : FS!Acquire("rho", g)
    BY <1>5, ChangesOf DEF saveMhd
  <2>2. Declared(B)' /\ g \in B /\ g # "rho" /\ fieldStates'["rho"] = "dependent" /\ fieldStates'[g] = "unused"
    BY <1>1, <2>1, Acquired
  <2> QED
    BY <1>5, <2>2 DEF SaveMhdOK
<1>6. CASE pc = 7
  <2>1. PICK g \in Field : FS!Acquire("c11", g)
    BY <1>6, ChangesOf DEF saveMhd
  <2>2. Declared(B)' /\ g \in B /\ g # "c11" /\ fieldStates'["c11"] = "dependent" /\ fieldStates'[g] = "unused"
    BY <1>1, <2>1, Acquired
  <2> QED
    BY <1>6, <2>2 DEF SaveMhdOK
<1> QED
  BY <1>2, <1>3, <1>4, <1>5, <1>6

\* No operation touches what is lent.
LEMMA SaveMhdGrounded ==
    ASSUME isMhd, SaveMhdOK, pc \in 1 .. 9
    PROVE  Grounded(saveMhd[pc]) /\ Allowed(saveMhd[pc])
<1> DEFINE B == {"c11", "rho"}
           o == saveMhd[pc]
<1>1. Declared(B) /\ isVe
  BY MhdFields DEF SaveMhdOK
<1>2. CASE pc \in {1, 8, 9}
  <2>1. fieldStates = activateFields
    BY <1>2, Settled
  <2>2. o \in {output, recoverIad}
    BY <1>2 DEF saveMhd
  <2>3. Fits(o)
    BY <1>1, <2>2, VeFit, HaloFits
  <2> QED
    BY <2>1, <2>3, SettledGrounded
<1>3. CASE pc = 5
  <2>1. o.op = "output"
    BY <1>3, SaveKinds DEF saveMhd
  <2> QED
    BY <2>1 DEF Grounded, Allowed
<1>4. CASE pc = 4
  <2>1. o = computeEOS(conf.eos, Energy)
    BY <1>4 DEF saveMhd
  <2>2. o.op = "kernel" /\ Touched(o) \cap B = {} /\ Fits(o)
    BY <1>1, <2>1, SaveKinds, SaveTouches, VeFit DEF Borrowed
  <2> HIDE DEF o, B
  <2>3. Grounded(o)
    BY <1>1, <2>2, FitGrounded
  <2> QED
    BY <2>2, <2>3 DEF Allowed, o
<1>5. ASSUME NEW f \in B, NEW g \in B, g # f, fieldStates[g] = "released" PROVE FS!Suitable(f) # {}
  <2>1. g \in Field /\ Type[g] = Type[f]
    BY <1>5, Lenders, BorrowedFields, PropagatorAssumption
  <2>2. g \in FS!Suitable(f)
    BY <1>5, <2>1 DEF FS!Suitable, Field
  <2> QED
    BY <2>2
<1>6. CASE pc \in {2, 6}
  <2>1. (pc = 2 /\ o = release("c11") /\ fieldStates["c11"] = "dependent") \/ (pc = 6 /\ o = release("rho") /\ fieldStates["rho"] = "dependent")
    BY <1>6 DEF SaveMhdOK, saveMhd
  <2>2. Allowed(o)
    BY <2>1, ChangesOf
  <2>3. o.op = "release"
    BY <2>1, SaveKinds
  <2> QED
    BY <2>2, <2>3 DEF Grounded
<1>7. CASE pc \in {3, 7}
  <2>1. \/ o = acquire("rho") /\ fieldStates["rho"] = "unused" /\ fieldStates["c11"] = "released"
        \/ o = acquire("c11") /\ fieldStates["c11"] = "unused" /\ fieldStates["rho"] = "released"
    BY <1>7 DEF SaveMhdOK, saveMhd
  <2>2. Allowed(o)
    BY <1>5, <2>1, ChangesOf
  <2>3. o.op = "acquire"
    BY <2>1, SaveKinds
  <2> QED
    BY <2>2, <2>3 DEF Grounded
<1> QED
  BY <1>2, <1>3, <1>4, <1>6, <1>7

-----------------------------------------------------------------------------
(* The memory of the fields *)

\* The fields of a propagator stay what activateFields made them.
LEMMA SameFields ==
    ASSUME conf' = conf
    PROVE  /\ activateFields' = activateFields
           /\ (isStd' <=> isStd) /\ (isBdt' <=> isBdt) /\ (isMhd' <=> isMhd) /\ (isVe' <=> isVe)
<1>1. (isStd' <=> isStd) /\ (isBdt' <=> isBdt) /\ (isMhd' <=> isMhd)
  BY DEF isStd, isBdt, isMhd
<1>2. Energy' = Energy
  BY <1>1 DEF Energy
<1>3. Conserved' = Conserved
  BY <1>1, <1>2 DEF Conserved
<1>4. DependentStd' = DependentStd /\ DependentVe' = DependentVe /\ DependentMhd' = DependentMhd
  BY <1>1 DEF DependentStd, DependentVe, DependentMhd
<1>5. Dependent' = Dependent
  BY <1>1, <1>4 DEF Dependent
<1>6. activateFields' = activateFields
  BY <1>3, <1>5 DEF activateFields
<1> QED
  BY <1>1, <1>6 DEF isVe

\* The states that saveFields demands next.
LEMMA CasesNext ==
    /\ (isStd \/ conf.prop = "nbody")' => (SavedOK' <=> (fieldStates = activateFields)')
    /\ isBdt' => (SavedOK' <=> SaveBdtOK')
    /\ isMhd' => (SavedOK' <=> SaveMhdOK')
    /\ (isVe /\ ~isBdt /\ ~isMhd)' => (SavedOK' <=> SaveVeOK')
    /\ (fieldStates = activateFields /\ pc = 1)' => SavedOK'
<1>1. /\ isStd \/ conf.prop = "nbody" => (SavedOK <=> (fieldStates = activateFields))
      /\ isBdt => (SavedOK <=> SaveBdtOK)
      /\ isMhd => (SavedOK <=> SaveMhdOK)
      /\ isVe /\ ~isBdt /\ ~isMhd => (SavedOK <=> SaveVeOK)
  BY SavedCases
<1>2. fieldStates = activateFields /\ pc = 1 => SavedOK
  BY SaveBegins
<1> QED
  BY <1>1, <1>2, PTL

\* The lengths of the programs of saveFields.
LEMMA SaveLengths == Len(saveVe) = 13 /\ Len(saveBdt) = 14 /\ Len(saveMhd) = 9 /\ Len(saveAllocated) = 1
<1>1. Len(saveBdt) = 14
  BY DEF saveBdt
<1>2. Len(saveMhd) = 9 /\ Len(saveAllocated) = 1
  BY DEF saveMhd, saveAllocated
<1> QED
  BY <1>1, <1>2, SaveVeOps

\* Outside saveFields no operation releases or acquires a field.
LEMMA ProgramFits ==
    ASSUME AllocInv, phase # "save", pc <= Len(Program)
    PROVE  Fits(Op)
<1>1. Fitting(Program)
  <2>1. CASE phase \in {"forces", "integrate"}
    BY <2>1, ForcesFit, IntegrateFits DEF Program
  <2>2. CASE phase = "done"
    BY <2>2, FittingParts DEF Program
  <2> QED
    BY <2>1, <2>2 DEF AllocInv
<1>2. PICK S : Program \in Seq(S) /\ \A o \in S : Fits(o)
  BY <1>1 DEF Fitting
<1>3. pc \in 1 .. Len(Program)
  BY <1>2, LenProperties DEF AllocInv
<1>4. Program[pc] \in S
  BY <1>2, <1>3, ElementOfSeq
<1> QED
  BY <1>2, <1>4 DEF Op

\* Every operation finds the memory it needs.
LEMMA OpGrounded ==
    ASSUME AllocInv, pc <= Len(Program)
    PROVE  Grounded(Op) /\ Allowed(Op)
<1>1. CASE phase # "save"
  <2>1. fieldStates = activateFields
    BY <1>1 DEF AllocInv
  <2>2. Fits(Op)
    BY <1>1, ProgramFits
  <2> QED
    BY <2>1, <2>2, SettledGrounded
<1>2. CASE phase = "save"
  <2>1. Program = saveFields /\ SavedOK /\ Op = saveFields[pc] /\ pc \in Nat \ {0}
    BY <1>2 DEF Program, AllocInv, Op
  <2>2. CASE isStd \/ conf.prop = "nbody"
    <3>1. fieldStates = activateFields /\ Op = saveAllocated[pc] /\ pc <= Len(saveAllocated)
      BY <2>1, <2>2, SavedCases
    <3>2. pc = 1
      BY <2>1, <3>1, SaveLengths
    <3>3. Op = output
      BY <3>1, <3>2 DEF saveAllocated
    <3> QED
      BY <3>1, <3>3, HaloFits, SettledGrounded
  <2>3. CASE isBdt
    <3>1. isVe /\ ~isMhd /\ SaveBdtOK /\ Op = saveBdt[pc] /\ pc \in 1 .. 14
      <4>1. isVe /\ ~isMhd /\ SaveBdtOK /\ Program = saveBdt
        BY <2>1, <2>3, SavedCases
      <4>2. Op = saveBdt[pc] /\ pc <= Len(saveBdt)
        BY <2>1, <4>1
      <4> QED
        BY <2>1, <4>1, <4>2, SaveLengths
    <3> QED
      BY <3>1, SaveBdtGrounded
  <2>4. CASE isMhd
    <3>1. SaveMhdOK /\ Op = saveMhd[pc] /\ pc \in 1 .. 9
      <4>1. SaveMhdOK /\ Program = saveMhd
        BY <2>1, <2>4, SavedCases
      <4>2. Op = saveMhd[pc] /\ pc <= Len(saveMhd)
        BY <2>1, <4>1
      <4> QED
        BY <2>1, <4>1, <4>2, SaveLengths
    <3> QED
      BY <2>4, <3>1, SaveMhdGrounded
  <2>5. CASE isVe /\ ~isBdt /\ ~isMhd
    <3>1. SaveVeOK /\ Op = saveVe[pc] /\ pc \in 1 .. 13
      <4>1. SaveVeOK /\ Program = saveVe
        BY <2>1, <2>5, SavedCases
      <4>2. Op = saveVe[pc] /\ pc <= Len(saveVe)
        BY <2>1, <4>1
      <4> QED
        BY <2>1, <4>1, <4>2, SaveLengths
    <3> QED
      BY <2>5, <3>1, SaveVeGrounded
  <2> QED
    BY <2>2, <2>3, <2>4, <2>5 DEF isVe
<1> QED
  BY <1>1, <1>2

\* The operations of a program keep the states in order.
LEMMA OpAlloc ==
    ASSUME AllocInv, pc <= Len(Program), Changes(Op), Proceed
    PROVE  AllocInv'
<1>1. conf' = conf /\ phase' = phase /\ pc' = pc + 1 /\ pc' \in Nat \ {0} /\ phase' \in {"forces", "save", "integrate", "done"}
  BY DEF Proceed, AllocInv
<1>2. /\ activateFields' = activateFields
      /\ (isStd' <=> isStd) /\ (isBdt' <=> isBdt) /\ (isMhd' <=> isMhd) /\ (isVe' <=> isVe)
  BY <1>1, SameFields
<1>3. CASE phase # "save"
  <2>1. Fits(Op)
    BY <1>3, ProgramFits
  <2>2. fieldStates' = fieldStates
    BY <2>1 DEF Fits, Changes
  <2> QED
    BY <1>1, <1>2, <1>3, <2>2 DEF AllocInv
<1>4. CASE phase = "save"
  <2>1. Program = saveFields /\ SavedOK /\ Op = saveFields[pc] /\ pc \in Nat \ {0}
    BY <1>4 DEF Program, AllocInv, Op
  <2>2. CASE isStd \/ conf.prop = "nbody"
    <3>1. fieldStates = activateFields /\ Op = saveAllocated[pc] /\ pc <= Len(saveAllocated)
      BY <2>1, <2>2, SavedCases
    <3>2. pc = 1
      BY <2>1, <3>1, SaveLengths
    <3>3. Op = output
      BY <3>1, <3>2 DEF saveAllocated
    <3>4. fieldStates' = fieldStates
      BY <3>3, SaveKinds DEF Changes
    <3>5. SavedOK'
      BY <1>1, <1>2, <2>2, <3>1, <3>4, CasesNext
    <3> QED
      BY <3>5, <1>1, <1>4 DEF AllocInv
  <2>3. CASE isBdt
    <3>1. SaveBdtOK /\ Op = saveBdt[pc] /\ pc \in 1 .. 14
      <4>1. SaveBdtOK /\ Program = saveBdt
        BY <2>1, <2>3, SavedCases
      <4>2. Op = saveBdt[pc] /\ pc <= Len(saveBdt)
        BY <2>1, <4>1
      <4> QED
        BY <2>1, <4>1, <4>2, SaveLengths
    <3>2. SaveBdtOK'
      BY <1>1, <1>2, <3>1, SaveBdtStep
    <3> QED
      BY <1>1, <1>2, <1>4, <2>3, <3>2, CasesNext DEF AllocInv
  <2>4. CASE isMhd
    <3>1. SaveMhdOK /\ Op = saveMhd[pc] /\ pc \in 1 .. 9
      <4>1. SaveMhdOK /\ Program = saveMhd
        BY <2>1, <2>4, SavedCases
      <4>2. Op = saveMhd[pc] /\ pc <= Len(saveMhd)
        BY <2>1, <4>1
      <4> QED
        BY <2>1, <4>1, <4>2, SaveLengths
    <3>2. SaveMhdOK'
      BY <1>1, <1>2, <3>1, SaveMhdStep
    <3> QED
      BY <1>1, <1>2, <1>4, <2>4, <3>2, CasesNext DEF AllocInv
  <2>5. CASE isVe /\ ~isBdt /\ ~isMhd
    <3>1. SaveVeOK /\ Op = saveVe[pc] /\ pc \in 1 .. 13
      <4>1. SaveVeOK /\ Program = saveVe
        BY <2>1, <2>5, SavedCases
      <4>2. Op = saveVe[pc] /\ pc <= Len(saveVe)
        BY <2>1, <4>1
      <4> QED
        BY <2>1, <4>1, <4>2, SaveLengths
    <3>2. SaveVeOK'
      BY <1>1, <1>2, <3>1, SaveVeStep
    <3> QED
      BY <1>1, <1>2, <1>4, <2>5, <3>2, CasesNext DEF AllocInv
  <2> QED
    BY <2>2, <2>3, <2>4, <2>5 DEF isVe
<1> QED
  BY <1>3, <1>4

\* At the end of saveFields everything is given back.
LEMMA SaveEnds ==
    ASSUME AllocInv, phase = "save", pc > Len(Program)
    PROVE  fieldStates = activateFields
<1>1. Program = saveFields /\ SavedOK /\ pc \in Nat \ {0}
  BY DEF Program, AllocInv
<1>2. CASE isStd \/ conf.prop = "nbody"
  BY <1>1, <1>2, SavedCases
<1>3. CASE isBdt
  <2>1. isVe /\ ~isMhd /\ SaveBdtOK /\ pc > 14
    BY <1>1, <1>3, SavedCases, SaveLengths
  <2>2. StageBdt = 0
    BY <1>1, <2>1 DEF StageBdt
  <2> QED
    BY <2>1, <2>2, Settled DEF SaveBdtOK
<1>4. CASE isMhd
  <2>1. SaveMhdOK /\ pc > 9
    BY <1>1, <1>4, SavedCases, SaveLengths
  <2>2. pc \notin 3 .. 7
    BY <1>1, <2>1
  <2> QED
    BY <1>4, <2>1, <2>2, Settled
<1>5. CASE isVe /\ ~isBdt /\ ~isMhd
  <2>1. SaveVeOK /\ pc > 13
    BY <1>1, <1>5, SavedCases, SaveLengths
  <2>2. StageVe = 0
    BY <1>1, <2>1 DEF StageVe
  <2> QED
    BY <1>5, <2>1, <2>2, Settled DEF SaveVeOK
<1> QED
  BY <1>2, <1>3, <1>4, <1>5 DEF isVe

\* Every step of a propagator keeps the states in order.
LEMMA AllocStep == AllocInv /\ Next => AllocInv'
<1> SUFFICES ASSUME AllocInv, Next PROVE AllocInv'
  OBVIOUS
<1>1. CASE SyncStep \/ HaloStep \/ MassStep \/ KernelStep \/ RungsStep \/ OutputStep
  <2>1. fieldStates' = fieldStates /\ Proceed
    BY <1>1 DEF SyncStep, HaloStep, MassStep, KernelStep, RungsStep, OutputStep
  <2>2. PICK k \in {"sync", "halo", "fillMassHalos", "kernel", "computeRungs", "output"} : AtOp(k)
    BY <1>1 DEF SyncStep, HaloStep, MassStep, KernelStep, RungsStep, OutputStep
  <2>3. pc <= Len(Program) /\ Changes(Op)
    BY <2>1, <2>2 DEF AtOp, Op, Changes
  <2> QED
    BY <2>1, <2>3, OpAlloc
<1>2. CASE ReleaseStep \/ AcquireStep
  <2>1. pc <= Len(Program) /\ Changes(Op) /\ Proceed
    BY <1>2 DEF ReleaseStep, AcquireStep, AtOp, Op, Changes
  <2> QED
    BY <2>1, OpAlloc
<1>3. CASE EndForces \/ EndSave \/ EndIntegrate
  <2>1. /\ conf' = conf /\ fieldStates' = fieldStates /\ pc' = 1
        /\ phase' \in {"forces", "save", "integrate", "done"}
    BY <1>3 DEF EndForces, EndSave, EndIntegrate
  <2>2. fieldStates = activateFields
    BY <1>3, SaveEnds DEF EndForces, EndSave, EndIntegrate, AllocInv
  <2>3. fieldStates' = activateFields'
    BY <2>1, <2>2, SameFields
  <2> QED
    BY <2>1, <2>3, CasesNext DEF AllocInv
<1> QED
  BY <1>1, <1>2, <1>3 DEF Next

\* Between the operations of saveFields, and at every other time, the fields have the states that
\* activateFields gave them but for the memory that is lent, and saveFields gets all of it back.
THEOREM AllocInvariance == Spec => []AllocInv
<1>1. Init => AllocInv
  BY DEF Init, AllocInv
<1>2. AllocInv /\ [Next]_vars => AllocInv'
  <2> SUFFICES ASSUME AllocInv, [Next]_vars PROVE AllocInv'
    OBVIOUS
  <2>1. CASE Next
    BY <2>1, AllocStep
  <2>2. CASE UNCHANGED vars
    <3>1. conf' = conf /\ phase' = phase /\ pc' = pc /\ fieldStates' = fieldStates
      BY <2>2 DEF vars
    <3>2. /\ activateFields' = activateFields
          /\ (isStd' <=> isStd) /\ (isBdt' <=> isBdt) /\ (isMhd' <=> isMhd)
      BY <3>1, SameFields
    <3>3. \A B : Declared(B)' <=> Declared(B)
      BY <3>1, <3>2 DEF Declared
    <3>4. StageVe' = StageVe /\ StageBdt' = StageBdt
      BY <3>1 DEF StageVe, StageBdt
    <3>5. (SaveVeOK' <=> SaveVeOK) /\ (SaveBdtOK' <=> SaveBdtOK)
      BY <3>1, <3>3, <3>4 DEF SaveVeOK, SaveBdtOK, Exchanged, Lending
    <3>6. SaveMhdOK' <=> SaveMhdOK
      BY <3>1, <3>3 DEF SaveMhdOK
    <3>7. SavedOK' <=> SavedOK
      BY <3>1, <3>2, <3>5, <3>6 DEF SavedOK
    <3> QED
      BY <3>1, <3>2, <3>7 DEF AllocInv
  <2> QED
    BY <2>1, <2>2
<1> QED
  BY <1>1, <1>2, PTL DEF Spec

\* saveFields gives back every field it releases and keeps none of its temporaries, for every propagator,
\* every option and any set of fields to be written.
THEOREM FieldsReturnedHolds == Spec => []FieldsReturned
<1>1. AllocInv => FieldsReturned
  BY DEF AllocInv, FieldsReturned
<1> QED
  BY <1>1, AllocInvariance, PTL

\* No kernel and no exchange touches a field without memory, but for dtCourant of std-cooling, and no
\* release or acquire throws, for every propagator, every option and any set of fields to be written.
THEOREM AccessAllocatedHolds == Spec => []AccessAllocated
<1>1. AllocInv => AccessAllocated
  <2> SUFFICES ASSUME AllocInv PROVE AccessAllocated
    OBVIOUS
  <2>1. pc <= Len(Program) => Grounded(Op) /\ Allowed(Op)
    BY OpGrounded
  <2>2. AtKernel => \A f \in (Op.own \cup Op.nbr \cup Op.set \cup Op.add) \ Unallocated : FS!isAllocated(f)
    BY <2>1 DEF AtKernel, AtOp, Op, Grounded, Touched
  <2>3. AtOp("halo") => \A f \in Op.fields \cup Op.scratch : FS!isAllocated(f)
    BY <2>1 DEF AtOp, Op, Grounded
  <2>4. AtOp("release") => fieldStates[Op.field] = "dependent"
    BY <2>1 DEF AtOp, Op, Allowed
  <2>5. AtOp("acquire") => fieldStates[Op.field] = "unused" /\ FS!Suitable(Op.field) # {}
    BY <2>1 DEF AtOp, Op, Allowed
  <2> QED
    BY <2>2, <2>3, <2>4, <2>5, Zenon DEF AccessAllocated
<1> QED
  BY <1>1, AllocInvariance, PTL
=============================================================================
