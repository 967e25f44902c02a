--------------------------- MODULE MCPropagators ---------------------------
(***************************************************************************)
(* Instances of Propagators for TLC: the fields, grouped as in Kernels and *)
(* in the order of fieldNames, and the configurations of the runs.         *)
(***************************************************************************)
EXTENDS Propagators

MCFieldNames ==
    <<"x", "x_m1", "vx", "rho", "u", "p", "prho", "h", "m", "c", "ax", "ay", "az", "du", "du_m1",
      "c11", "c12", "c13", "temp", "xm", "kx", "divv", "curlv", "alpha", "gradh", "keys", "nc",
      "dV11", "rung", "dtCourant", "chem",
      "Bx", "dBx", "dBx_m1", "psi_ch", "d_psi_ch", "d_psi_ch_m1", "dvxdx", "divB", "divB_conj",
      "curlB_x", "gradB_norm", "alpha_B", "dB_diss_x", "du_diss", "dBxdx">>

Magneto == {MCFieldNames[i] : i \in 32 .. 46}

\* types of the vectors: acquire looks for equal ones within a data set only
MCType ==
    [f \in {MCFieldNames[i] : i \in DOMAIN MCFieldNames} |->
        CASE f \in {"x", "temp", "u", "du"} -> "RealType"
          [] f \in {"x_m1", "du_m1"}        -> "XM1Type"
          [] f \in {"m", "keys", "nc", "rung", "chem"} -> f
          [] f \in Magneto                  -> "Magneto"
          [] OTHER                          -> "HydroType"]

\* requests for output: the temporaries, or all fields
AllFields == {MCFieldNames[i] : i \in DOMAIN MCFieldNames}
Outputs   == {{"rho", "p"}, AllFields}

C(prop, g, slr, av, gpu, eos, out) ==
    [prop |-> prop, g |-> g, slr |-> slr, mhdSlr |-> av, av |-> av, gpu |-> gpu, eos |-> eos, out |-> out, steps |-> 3]

StdConfs ==
    {C(p, g, FALSE, FALSE, gpu, eos, out) : p \in {"std", "std-relax", "std-disk"}, g \in BOOLEAN, gpu \in BOOLEAN,
                                            eos \in {"idealGas", "polytropic"}, out \in Outputs}
    \cup {C(p, g, FALSE, FALSE, TRUE, "isothermal", out) : p \in {"std", "std-relax"}, g \in BOOLEAN, out \in Outputs}

\* the others have the same operations on the host, where the exchanges use no scratch
VeConfs ==
    {C(p, g, slr, av, TRUE, eos, out) : p \in {"ve", "turbulence-ve", "magneto-ve", "magneto-turb-ve"},
        g \in BOOLEAN, slr \in BOOLEAN, av \in BOOLEAN, eos \in {"idealGas", "isothermal"},
        out \in Outputs}

NbodyConfs == {C("nbody", TRUE, FALSE, FALSE, TRUE, "idealGas", out) : out \in Outputs}

\* block time-steps run on GPUs only, 6 steps are a hierarchy of three rungs and the step after it
BlockConfs ==
    {[c EXCEPT !.steps = 6] : c \in
        {C(p, g, slr, TRUE, TRUE, "idealGas", out) : p \in {"ve-bdt", "turbulence"}, g \in BOOLEAN, slr \in BOOLEAN,
                                                     out \in {AllFields, {}}}
        \cup {C("ve-bdt", FALSE, slr, av, TRUE, eos, out) : slr \in BOOLEAN, av \in BOOLEAN,
                                                            eos \in {"idealGas", "isothermal"}, out \in Outputs}}

CoolingConfs ==
    {C("std-cooling", g, FALSE, FALSE, gpu, "idealGas", out) : g \in BOOLEAN, gpu \in BOOLEAN, out \in Outputs}

AllConfs == StdConfs \cup VeConfs \cup NbodyConfs \cup BlockConfs \cup CoolingConfs
=============================================================================
