----------------------------- MODULE MCStartup -----------------------------
(***************************************************************************)
(* Instances of Startup for TLC: settings files, a template block, and the *)
(* command lines of the first job.                                         *)
(***************************************************************************)
EXTENDS Startup

MCBlock == <<<<1, 2, 3>>, <<4, 6, 1>>, <<6, 3, 5>>, <<3, 7, 6>>>>

MCPaths == <<"a.h5", "b.h5", "c.h5">>

spheres == <<[center |-> <<0, 0, 0>>, r2 |-> 5000], [center |-> <<30, 30, 30>>, r2 |-> 3000]>>

\* a hydrodynamic and a magnetic setting and two selections; in the second file the groups of the list
\* have another type, in the third one a group does not fit
MCGivenFiles ==
    LET attrs(type, g) ==
            [k \in {"hydro", "magneto"} \cup TagAttributes |->
                CASE k \in {"hydro", "magneto"} -> attribute("float64", <<"file">>)
                  [] k = TagsSpheres      -> attribute("float64", spheres)
                  [] k = TagsSphereGroups -> attribute("uint32", <<0, g>>)
                  [] k = TagsList         -> attribute("uint64", <<5, 1, 5>>)
                  [] k = TagsListGroups   -> attribute(type, <<1, 2, 0>>)]
    IN  [p \in {"s.h5", "t.h5", "u.h5"} |->
            [newFile EXCEPT !.attrs = attrs(IF p = "t.h5" THEN "int64" ELSE "uint32", IF p = "u.h5" THEN MaxNumGroupIds ELSE 1)]]

line(name, file, glassBlock, n, numRanks, prop) ==
    [init |-> IF file = "" THEN arg(name, "", "") ELSE arg(name, ":", file), glass |-> glassBlock, n |-> n, ratio |-> 1,
     ranks |-> numRanks, prop |-> prop, av |-> FALSE, gpu |-> TRUE, out |-> "a.h5", ascii |-> FALSE,
     fields |-> conserved(prop), steps |-> 0, crash |-> FALSE, restarts |-> 0, split |-> FALSE]

\* placement, settings and tags of the test cases; SedovGrid, SedovMagneto and MagneticKelvinHelmholtz
\* do not read all of their settings file
Placements ==
    {line("sedov", "", FALSE, n, r, "std") : n \in 2 .. 3, r \in 1 .. 3}
    \cup {line(name, f, TRUE, 2, r, "ve") : name \in {"sedov", "noh", "isobaric-cube", "evrard", "turbulence", "polytrope"},
                                             f \in {"", "s.h5", "t.h5"}, r \in {1, 3}}
    \cup {line(name, f, TRUE, 1, r, "ve") : name \in {"gresho-chan", "wind-shock", "kelvin-helmholtz"},
                                             f \in {"", "s.h5"}, r \in {2, 3}}
    \cup {line(name, "", TRUE, 1, r, "magneto-ve") : name \in {"sedov-magneto", "kelvin-helmholtz-magneto"}, r \in {2}}
    \cup {line("evrard-cooling", "s.h5", TRUE, 2, 2, "std-cooling")}
    \cup {line(name, f, TRUE, 2, r, "magneto-ve") : name \in {"turbulence-magneto", "alfven-wave", "orszag-tang"},
                                                     f \in {"", "s.h5"}, r \in {2, 3}}
    \cup {line("brio-wu", "s.h5", g, 2, r, "magneto-ve") : g \in BOOLEAN, r \in {2, 3}}
    \cup {[line(name, "s.h5", g, 2, r, "magneto-ve") EXCEPT !.ratio = q] :
             name \in {"mhd-loop", "mhd-rotor"}, g \in BOOLEAN, r \in {2, 3}, q \in 1 .. 3}
    \cup {line("nothing", "", TRUE, 2, 2, "ve"), line("sedov", "u.h5", TRUE, 2, 2, "ve")}
    \* propagators that need other settings, a GPU, or another case
    \cup {line("sedov", "s.h5", TRUE, 1, 2, prop) : prop \in {"turbulence", "std-relax", "std-cooling"}}
    \cup {[line("sedov", "s.h5", TRUE, 1, 2, "ve-bdt") EXCEPT !.gpu = FALSE]}

\* jobs that iterate, write and are restarted
Chains ==
    {[line("sedov", "s.h5", TRUE, 1, 3, prop) EXCEPT !.steps = 3, !.av = av, !.gpu = FALSE,
                                               !.crash = TRUE, !.restarts = 1, !.split = TRUE] :
        prop \in {"ve", "std", "nbody"}, av \in BOOLEAN}
    \cup {[line("sedov", "s.h5", TRUE, 1, 3, "ve-bdt") EXCEPT !.steps = 3, !.av = av, !.crash = TRUE, !.restarts = 1,
                                                            !.split = TRUE] : av \in BOOLEAN}
    \cup {[line("turbulence", "s.h5", TRUE, 1, 2, prop) EXCEPT !.steps = 2, !.crash = TRUE, !.restarts = 1] :
             prop \in {"turbulence", "turbulence-ve"}}
    \cup {[line("sedov", "s.h5", TRUE, 1, 2, "std-disk") EXCEPT !.steps = 2, !.restarts = 1]}
    \cup {[line("evrard-cooling", "", TRUE, 1, 1, "std-cooling") EXCEPT !.steps = 2, !.restarts = 1]}
    \cup {[line("orszag-tang", "", TRUE, 1, 1, "magneto-ve") EXCEPT !.steps = 2, !.crash = TRUE, !.restarts = 1]}
    \cup {[line("polytrope", "", TRUE, 1, 1, prop) EXCEPT !.steps = 2, !.crash = TRUE, !.restarts = 1] :
             prop \in {"std", "std-relax"}}
    \cup {[line("sedov", "", TRUE, 1, 2, "std") EXCEPT !.steps = 2, !.ascii = ascii, !.fields = <<"x", "h", "vx">>,
                                                      !.restarts = 1] : ascii \in BOOLEAN}

\* a restart of a restarted job
LongChains ==
    {[line("sedov", "", TRUE, 1, 1, "ve") EXCEPT !.steps = 2, !.av = av, !.restarts = 2] : av \in BOOLEAN}

MCOptions == Placements \cup Chains \cup LongChains

=============================================================================
