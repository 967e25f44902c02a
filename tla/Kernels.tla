------------------------------ MODULE Kernels ------------------------------
(***************************************************************************)
(* The computations of a time-step, by the particle fields they touch.     *)
(*                                                                         *)
(*   own   fields read at the particles the kernel is called for           *)
(*   nbr   fields read at their neighbours, which may be halos             *)
(*   set   fields assigned                                                 *)
(*   opt   fields assigned if they are allocated                           *)
(*   add   fields incremented, or assigned for some of the particles only  *)
(*   grp   the particles the kernel is called for                          *)
(*                                                                         *)
(* Fields that are always used together are one field here: x stands for   *)
(* x, y, z, c13 for c13, c22, c23, c33, dvxdx for the velocity Jacobian,   *)
(* and so on.  c11, c12 and ax, ay, az are told apart because release and  *)
(* acquire are.                                                            *)
(***************************************************************************)
EXTENDS Naturals, Sequences

\* the particles of a kernel call: the active groups, all assigned particles, or the rungs
\* that integrate advances or drifts
Group == {"active", "all", "advance", "drift"}

\* a loop over particles, without neighbours
Loop(name, own, set) ==
    [op |-> "kernel", name |-> name, own |-> own, nbr |-> {}, set |-> set, opt |-> {}, add |-> {},
     grp |-> "all", ifPending |-> FALSE]

\* a loop over pairs of neighbours: distances and the support of the kernel function are
\* needed whatever the interaction is
IjLoop(name, own, nbr, set) ==
    [Loop(name, own \cup {"x", "h"}, set) EXCEPT !.nbr = nbr \cup {"x"}, !.grp = "active"]

Cij == {"c11", "c12", "c13"}

Acc == {"ax", "ay", "az"}

-----------------------------------------------------------------------------
\* Neighbour search

updateSmoothingLengthIterative == IjLoop("updateSmoothingLengthIterative", {}, {}, {"nc", "h"})

findNeighborsSfc == IjLoop("findNeighborsSfc", {}, {}, {})

\* particles without neighbours are marked for removal in their key
updateSmoothingLength ==
    [Loop("updateSmoothingLength", {"nc", "h"}, {"h"}) EXCEPT !.add = {"keys"}, !.grp = "active"]

-----------------------------------------------------------------------------
\* Standard SPH

computeDensity == IjLoop("computeDensity", {"m"}, {"m"}, {"rho"})

\* computeEOS_HydroStd: on the host the isothermal equation of state leaves c alone
computeEOS_HydroStd(eos, gpu, en) ==
    [Loop("computeEOS_HydroStd",
          {"rho"} \cup (IF eos = "idealGas" THEN en ELSE {}),
          IF eos = "isothermal" /\ ~gpu THEN {"p"} ELSE {"p", "c"})
        EXCEPT !.opt = IF eos = "idealGas" THEN {} ELSE {"temp"}]

computeIAD == IjLoop("computeIAD", {"m", "rho", "nc"}, {"m", "rho"}, Cij)

\* on GPUs markNaN gives particles with a NaN acceleration a neighbour count of 1, which marks
\* them for removal later on
computeMomentumEnergySTD(gpu) ==
    LET f == {"h", "m", "rho", "vx", "p", "c"} \cup Cij
    IN  [IjLoop("computeMomentumEnergySTD", f \cup {"nc"}, f, Acc \cup {"du", "dtCourant"})
            EXCEPT !.add = IF gpu THEN {"nc"} ELSE {}]

-----------------------------------------------------------------------------
\* SPH with generalised volume elements

computeXMass == IjLoop("computeXMass", {"m"}, {"m"}, {"xm"})

computeVe == IjLoop("computeVe", {"xm"}, {"xm"}, {"kx"})

\* (mutant) the grad-h term is not stored
IADNoGradh == [in |-> {"m", "xm", "kx"}, out |-> Cij]

\* IAD coefficients and grad-h term
IADGradh == [in |-> {"m", "xm", "kx"}, out |-> Cij \cup {"gradh"}]

\* divergence and curl of the velocity; the coefficients are the particle's own
DivvCurlv == [in |-> {"vx", "xm"}, out |-> {"divv"}, opt |-> {"curlv", "dV11"}]

computeIadDivvCurlvGradh ==
    [IjLoop("computeIadDivvCurlvGradh", IADGradh.in \cup DivvCurlv.in \cup {"nc"},
            IADGradh.in \cup DivvCurlv.in, IADGradh.out \cup DivvCurlv.out) EXCEPT !.opt = DivvCurlv.opt]

rhoTimestep == Loop("rhoTimestep", {"divv"}, {})

\* (mutant) only the pressure is stored
computeEOSNoRho(eos, en) ==
    [Loop("computeEOS", {"m", "kx", "xm", "gradh"} \cup (IF eos = "idealGas" THEN en ELSE {}), {"prho", "c"})
        EXCEPT !.opt = {"p"}]

\* computeEOS: density and pressure are stored if they are allocated
computeEOS(eos, en) ==
    [Loop("computeEOS", {"m", "kx", "xm", "gradh"} \cup (IF eos = "idealGas" THEN en ELSE {}), {"prho", "c"})
        EXCEPT !.opt = {"rho", "p"} \cup IF eos = "idealGas" THEN {} ELSE {"temp"}]

computeAVswitches ==
    LET f == {"xm", "kx", "divv", "vx", "c"}
    IN  IjLoop("computeAVswitches", f \cup Cij \cup {"alpha"}, f, {"alpha"})

computeMomentumEnergy(slr) ==
    LET f == {"h", "vx", "m", "c", "kx", "alpha", "xm", "prho"} \cup Cij
             \cup (IF slr THEN {"dV11", "divv", "curlv"} ELSE {})
    IN  IjLoop("computeMomentumEnergy", f \cup {"nc"}, f, Acc \cup {"du", "dtCourant"})

-----------------------------------------------------------------------------
\* Magneto-hydrodynamics

fullDivvCurlv == [in |-> {"vx", "xm"}, out |-> {"divv", "dvxdx"}, opt |-> {"curlv"}]

divBCurlB(mhdSlr) ==
    [in |-> {"Bx", "xm"},
     out |-> {"divB", "divB_conj", "curlB_x", "gradB_norm", "alpha_B"} \cup (IF mhdSlr THEN {"dBxdx"} ELSE {})]

\* three loops over the neighbours; the coefficients of the first are used by the others
\* at the particle itself only
computeIadFullDivvCurlv(mhdSlr) ==
    LET in == IADGradh.in \cup fullDivvCurlv.in \cup divBCurlB(mhdSlr).in
    IN  [IjLoop("computeIadFullDivvCurlv", in \cup {"nc"}, in,
                IADGradh.out \cup fullDivvCurlv.out \cup divBCurlB(mhdSlr).out)
            EXCEPT !.opt = fullDivvCurlv.opt]

computeMagneticMomentumEnergy(slr) ==
    LET f == {"h", "vx", "m", "c", "kx", "alpha", "xm", "p", "gradh", "Bx"} \cup Cij
             \cup (IF slr THEN {"dvxdx", "divv", "curlv"} ELSE {})
    IN  IjLoop("computeMagneticMomentumEnergy", f \cup {"nc"}, f, Acc \cup {"du", "dtCourant"})

\* (mutant) the dissipation replaces the heating instead of adding to it
computeInductionAndDissipationSet(mhdSlr) ==
    LET f == {"h", "vx", "c", "Bx", "m", "xm", "kx", "gradh", "alpha_B", "psi_ch"} \cup Cij
    IN  IjLoop("computeInductionAndDissipation", f \cup {"dvxdx", "divB_conj"}, f,
               {"dBx", "d_psi_ch", "dB_diss_x", "du_diss", "du"})

computeInductionAndDissipation(mhdSlr) ==
    LET f == {"h", "vx", "c", "Bx", "m", "xm", "kx", "gradh", "alpha_B", "psi_ch"} \cup Cij
             \cup (IF mhdSlr THEN {"dBxdx"} ELSE {})
    IN  [IjLoop("computeInductionAndDissipation",
                f \cup {"dvxdx", "divB_conj", "du"} \cup (IF mhdSlr THEN {"nc"} ELSE {}), f,
                {"dBx", "d_psi_ch", "dB_diss_x", "du_diss"}) EXCEPT !.add = {"du"}]

integrateMagneticQuantities ==
    [Loop("integrateMagneticQuantities",
          {"Bx", "dBx", "dBx_m1", "psi_ch", "d_psi_ch", "d_psi_ch_m1"},
          {"Bx", "dBx_m1", "psi_ch", "d_psi_ch_m1"}) EXCEPT !.grp = "active"]

-----------------------------------------------------------------------------
\* Further accelerations and heating

\* mHolder_.upsweep: multipoles of the tree cells from the assigned particles
upsweep == Loop("upsweep", {"x", "m"}, {})

\* mHolder_.traverse over groups grp: near particles, halos included, act directly
traverse(grp) ==
    [Loop("traverse", {"x", "h", "m"} \cup Acc, {})
        EXCEPT !.nbr = {"x", "h", "m"}, !.add = Acc, !.grp = grp]

\* the accelerations start from zero
fillAcc == Loop("fill", {}, Acc)

driveTurbulence == [Loop("driveTurbulence", {"x"} \cup Acc, {}) EXCEPT !.add = Acc, !.grp = "active"]

relaxSystem == [Loop("relaxSystem", {"vx"} \cup Acc, {}) EXCEPT !.add = Acc]

betaCooling == [Loop("betaCooling", {"x", "rho", "u", "du"}, {}) EXCEPT !.add = {"du"}]

computeCentralForce == [Loop("computeCentralForce", {"x", "m"} \cup Acc, {}) EXCEPT !.add = Acc]

duTimestep == Loop("duTimestep", {"u", "du"}, {})

\* particles on the star or with too large h are marked for removal in their key
computeAccretionCondition ==
    [Loop("computeAccretionCondition", {"x", "h", "m", "vx"}, {}) EXCEPT !.add = {"keys"}]

eos_cooling == Loop("eos_cooling", {"rho", "u", "chem"}, {"p", "c"})

coolingTimestep == Loop("coolingTimestep", {"rho", "u", "chem"}, {})

cool_particles == [Loop("cool_particles", {"rho", "u", "du", "chem"}, {"chem"}) EXCEPT !.add = {"du"}]

-----------------------------------------------------------------------------
\* Time integration; en is the energy variable of the propagator, if it has one

computeTimestep(g) == Loop("computeTimestep", IF g THEN Acc \cup {"h"} ELSE {}, {})

groupDivvTimestep == [rhoTimestep EXCEPT !.name = "groupDivvTimestep", !.grp = "active"]

groupAccTimestep == [Loop("groupAccTimestep", Acc \cup {"h"}, {}) EXCEPT !.grp = "active"]

\* the energy and the fields its update needs
EnergyRate(en) == IF en = {} THEN {} ELSE en \cup {"du", "du_m1"}

computePositions(en, grp) ==
    [Loop("computePositions", {"x", "x_m1", "h"} \cup Acc \cup EnergyRate(en),
          {"x", "x_m1", "vx"} \cup (EnergyRate(en) \ {"du"})) EXCEPT !.grp = grp]

\* driftPositions moves particles between their own time-steps and leaves x_m1 and du_m1
driftPositions(en) ==
    [Loop("driftPositions", {"x", "x_m1"} \cup Acc \cup EnergyRate(en),
          {"x", "vx"} \cup en) EXCEPT !.grp = "drift"]

\* the sums of computeConservedQuantities; magnetic fields if there are any
computeConservedQuantities(en, mhd) ==
    Loop("computeConservedQuantities",
         {"x", "vx", "m"} \cup en \cup (IF mhd THEN {"xm", "kx", "divB", "h", "Bx", "du_diss"} ELSE {}), {})
=============================================================================
