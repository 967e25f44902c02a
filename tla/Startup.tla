------------------------------ MODULE Startup ------------------------------
(***************************************************************************)
(* A chain of jobs: a job is launched, chooses its initializer, loads the  *)
(* state of the propagator, initialises the particles, writes its settings *)
(* to a new file, iterates and writes snapshots, ends, throws or crashes, *)
(* and the next one may start from any file that is there.                 *)
(*                                                                         *)
(* What an iteration computes is a stamp; it also moves particles between  *)
(* ranks.  When output is due is an input.                                 *)
(***************************************************************************)
EXTENDS SimInit, TLC

CONSTANTS
    Options,     \* the command lines of the first job
    GivenFiles,  \* settings files that exist from the beginning
    Paths,       \* Paths[j]: the output file of job j
    RestartRanks, \* numbers of ranks of later jobs
    None

VARIABLES
    files,    \* files by path
    opt,      \* command line of the job
    phase,    \* what the job does next
    kind,     \* its initializer
    settings, \* constants() of the initializer
    mem,      \* mem[r]: fields of rank r
    d,        \* attributes of the data set
    extra,    \* the parts of the state of the propagator
    start,    \* startIteration
    todo,     \* what is left of the output of a step
    job,      \* number of jobs launched
    saved     \* states that were completely written (history variable)

vars == <<files, opt, phase, kind, settings, mem, d, extra, start, todo, job, saved>>

ranks == 0 .. opt.ranks - 1

\* the stamp of what the job computes in iteration k after its start
stamp(k) == <<job, k>>

noData == [iteration |-> 0]

Init ==
    /\ files = GivenFiles
    /\ opt = [ranks |-> 0]
    /\ phase = "off" /\ kind = "" /\ settings = noAttributes /\ mem = <<>> /\ d = noData
    /\ extra = noAttributes /\ start = 0 /\ todo = <<>> /\ job = 0 /\ saved = {}

\* an exception or MPI_Abort ends the job, files stay
ended(ph) ==
    /\ phase' = ph
    /\ mem' = <<>> /\ d' = noData /\ todo' = <<>> /\ settings' = noAttributes /\ kind' = "" /\ start' = 0
    /\ extra' = noAttributes

exits == ended("off") /\ UNCHANGED <<opt, job, saved>>

-----------------------------------------------------------------------------
(* Launch *)

\* the state that a propagator has of its own, in the order in which save writes it
stateParts(prop) ==
    CASE prop = "ve-bdt"      -> <<"ts">>
      [] prop = "turbulence"  -> <<"ts", "turbulence">>
      [] prop \in {"turbulence-ve", "magneto-turb-ve"} -> <<"turbulence">>
      [] prop = "std-disk"    -> <<"star">>
      [] prop = "std-relax"   -> <<"relaxationTimescale">>
      [] prop = "std-cooling" -> <<"cooling">>
      [] OTHER                -> <<>>

partsOf(prop) == {stateParts(prop)[i] : i \in 1 .. Len(stateParts(prop))}

\* parts that are parameters, and those that change with every iteration
parameters == {"relaxationTimescale", "cooling"}

\* the constructor throws without the settings it needs, and block time-steps need a GPU
constructible(o, s) ==
    /\ (partsOf(o.prop) \cap {"relaxationTimescale", "turbulence"}) \subseteq DOMAIN s
    /\ "ts" \in partsOf(o.prop) => o.gpu /\ "hydro" \in DOMAIN s

\* what the constructor makes of the settings
constructed(prop, s, now) ==
    [k \in partsOf(prop) |-> IF k \notin parameters THEN now ELSE IF k \in DOMAIN s THEN s[k] ELSE "class"]

arg(base, sign, rest) == [base |-> base, sign |-> sign, rest |-> rest]

\* the file that a job starts from
sourcePath(init) == IF init.base = "tde-orbit" THEN init.rest.base ELSE init.base

readable(path) == files[path].format = "h5"

\* constructors of the initializer and of the propagator, and openings of the source
Begun(o) ==
    LET chosen == initializer(files, o.init, o.glass)
        path   == sourcePath(o.init)
        case   == testCase(path, o.glass, o.n, o.ratio)
        constants ==
            CASE chosen = "case"      -> buildSettings(files, path, case, IF case.file THEN strAfterSign(o.init, ":") ELSE "")
              [] chosen = "tde-orbit" -> orbitSettings(files, path)
              [] OTHER                -> readFileAttributes(files, path)
    IN  /\ phase = "off"
        /\ job' = job + 1 /\ opt' = o
        /\ UNCHANGED <<files, saved>>
        /\ IF \/ chosen = "throw"
              \/ chosen # "case" /\ ~readable(path)
              \/ chosen = "tde-orbit" /\ ~({"polytrope::r", "polytrope::mTotal"} \subseteq DOMAIN constants)
              \/ ~constructible(o, constants)
           THEN ended("off")
           ELSE /\ phase' = "load" /\ kind' = chosen
                /\ settings' = constants
                /\ extra' = constructed(o.prop, constants, <<job', 0>>)
                /\ UNCHANGED <<mem, d, start, todo>>

Launch == job = 0 /\ \E o \in Options : Begun(o)

\* requests for a restart: the last step, one by its number, particle splitting, an orbit
Requests ==
    UNION {LET steps == Len(files[p].steps)
           IN  {arg(p, "", "")} \cup {arg(p, ":", k) : k \in 0 .. steps} \cup
               (IF opt.split THEN {arg(p, ",", k) : k \in {0, 2}} ELSE {}) \cup
               (IF opt.init.base = "polytrope" THEN {arg("tde-orbit", ":", arg(p, "", ""))} ELSE {})
           : p \in DOMAIN files \ DOMAIN GivenFiles}

\* the output goes to a new file, or again to the one of the last job
Relaunch ==
    /\ job > 0 /\ opt.restarts > 0
    /\ \E init \in Requests, n \in RestartRanks, av \in BOOLEAN, out \in {Paths[job + 1], opt.out} :
          /\ out = opt.out => init.sign = "" /\ ~av
          /\ Begun([opt EXCEPT !.init = init, !.ranks = n, !.av = av, !.out = out, !.steps = 2, !.crash = FALSE,
                               !.split = FALSE, !.restarts = @ - 1])

-----------------------------------------------------------------------------
(* Initialisation *)

\* (mutant) the propagator reads the last step, whichever is requested
loadStep_last(init) == -1

loadStep(init) == IF init.base # "tde-orbit" THEN numberAfterSign(init, ":") ELSE -1

\* parts without which load goes on
optionalParts == {"star", "cooling"}

\* a part as it is loaded; the last time-step is shortened if particles are split
loadedPart(k, held) ==
    IF held = err THEN extra[k]
    ELSE IF k = "ts" /\ numberAfterSign(opt.init, ",") > 0 THEN <<held, numberAfterSign(opt.init, ",")>>
    ELSE held

\* propagator->load: a file that is named without a case in front of it
Load ==
    LET path == removeModifiers(opt.init)
        file == files[path]
        step == setStep(opened(file, loadStep(opt.init)), loadStep(opt.init))
        held == [k \in partsOf(opt.prop) |-> attributeOf(step.attrs, k)]
    IN  /\ phase = "load"
        /\ IF partsOf(opt.prop) = {} \/ ~exists(files, path)
           THEN /\ UNCHANGED files
                /\ IF opt.prop = "std-cooling" /\ path # "evrard-cooling" THEN exits
                   ELSE phase' = "init" /\ UNCHANGED <<opt, kind, settings, mem, d, extra, start, todo, job, saved>>
           ELSE /\ files' = [files EXCEPT ![path] = opened(file, loadStep(opt.init))]
                /\ IF \E k \in DOMAIN held \ optionalParts : held[k] = err THEN exits
                   ELSE /\ phase' = "init"
                        /\ extra' = [k \in DOMAIN held |-> loadedPart(k, held[k])]
                        /\ UNCHANGED <<opt, kind, settings, mem, d, start, todo, job, saved>>

\* tags go into the ids, if the propagator has them
tagged(data, path) ==
    tabulated([r \in DOMAIN data |->
        IF "id" \notin DOMAIN data[r] THEN data[r]
        ELSE LET x == data[r]["x"]
             IN  [data[r] EXCEPT !["id"] = runTagging(files, path, @, [i \in 1 .. Len(x) |-> x[i][1]])]])

\* a tag that does not fit, on any rank, ends the job
tooManyGroups(data) == \E r \in DOMAIN data : "id" \in DOMAIN data[r] /\ \E i \in 1 .. Len(data[r]["id"]) : data[r]["id"][i] = err

initialised(data, attrs, path) ==
    \E withTags \in {tagged(data, path)} :
        IF tooManyGroups(withTags) THEN exits
        ELSE /\ phase' = "configure"
             /\ mem' = withTags
             /\ d' = attrs
             /\ UNCHANGED <<opt, kind, settings, extra, start, todo, job, saved>>

InitCase ==
    LET name == opt.init.base
        case == testCase(name, opt.glass, opt.n, opt.ratio)
        loaded(k) == IF k \in case.loads THEN settings[k] ELSE "class"
    IN  /\ phase = "init" /\ kind = "case"
        /\ UNCHANGED files
        /\ IF tooDense(opt.ratio) THEN exits
           ELSE \E data \in {caseData(case, opt.prop, opt.gpu, opt.ranks, stamp(0))} :
                initialised(data,
                    [iteration |-> 1, dt |-> stamp(0), alphamin |-> one, box |-> case.box,
                     num |-> IF case.product # 0 THEN case.product ELSE total([r \in DOMAIN data |-> Len(data[r]["x"])]),
                     hydro |-> loaded("hydro"), magneto |-> loaded("magneto")],
                    IF case.file THEN strAfterSign(opt.init, ":") ELSE "")

\* mandatory attributes of a step; the magnetic ones are optional
HydroAttributes == <<"iteration", "num", "dt", "alphamin", "hydro">>
Mandatory       == {"iteration", "num", "dt", "alphamin", "hydro", "box"}
complete(attrs) == \A k \in Mandatory : attributeOf(attrs, k) # err

attributesOf(attrs) ==
    [k \in Mandatory \cup {"magneto"} |-> IF k = "magneto" /\ k \notin DOMAIN attrs THEN "class" ELSE attrs[k]]

\* restoreData: box, attributes and fields
InitFile ==
    LET path == opt.init.base
        at   == numberAfterSign(opt.init, ":")
        file == opened(files[path], at)
    IN  /\ phase = "init" /\ kind = "file"
        /\ files' = [files EXCEPT ![path] = file]
        /\ \E step \in {setStep(file, at)} :
              \E data \in {IF complete(step.attrs) THEN restoreDataset(step, opt.prop, opt.ranks) ELSE err} :
                 IF data = err THEN exits ELSE initialised(data, attributesOf(step.attrs), path)

\* the last step, with numSplits particles for each one, and an initial time-step
InitSplit ==
    LET path == opt.init.base
        numSplits == opt.init.rest
    IN  /\ phase = "init" /\ kind = "split"
        /\ UNCHANGED files
        /\ \E step \in {setStep(files[path], -1)} :
              \E data \in {IF complete(step.attrs)
                           THEN splitData(step, opt.prop, step.attrs["box"], step.attrs["alphamin"], numSplits,
                                          opt.ranks, stamp(0))
                           ELSE err} :
                 IF data = err THEN exits
                 ELSE initialised(data, [attributesOf(step.attrs) EXCEPT !.iteration = 1, !.dt = stamp(0),
                                                                         !.num = step.n * numSplits], path)

\* the settings of the file, its particles, moved, and an initial time-step
InitOrbit ==
    LET path == sourcePath(opt.init)
        at   == numberAfterSign(opt.init.rest, ":")
    IN  /\ phase = "init" /\ kind = "tde-orbit"
        /\ UNCHANGED files
        /\ \E step \in {setStep(files[path], at)} :
              \E data \in {IF complete(step.attrs) THEN restoreDataset(step, opt.prop, opt.ranks) ELSE err} :
                 IF data = err THEN exits
                 ELSE initialised(displaceSystem(data, stamp(0)),
                                  [attributesOf(step.attrs) EXCEPT !.iteration = 0, !.dt = stamp(0)], path)

-----------------------------------------------------------------------------
(* Configuration: viscosity, settings, first sync *)

filled(data, val) ==
    [r \in DOMAIN data |-> IF "alpha" \notin DOMAIN data[r] THEN data[r]
                           ELSE [data[r] EXCEPT !["alpha"] = [i \in 1 .. Len(@) |-> val]]]

initFromFile == exists(files, strBeforeSign(opt.init, ":")) \/ exists(files, strBeforeSign(opt.init, ","))

resetAlpha == opt.av /\ (~initFromFile \/ d.alphamin = one)

viscous ==
    IF resetAlpha THEN filled(mem, low)
    ELSE IF ~opt.av /\ initFromFile THEN filled(mem, one)
    ELSE mem

\* Domain::sync moves particles between the ranks with all their fields: here the ones of all ranks
\* are rotated and dealt out anew
synced(data, shift) ==
    LET numRanks == Cardinality(DOMAIN data)
        n == total([r \in DOMAIN data |-> Len(data[r]["x"])])
        dealt(f) ==
            LET all == joined([r \in DOMAIN data |-> data[r][f]])
                turned == [i \in 1 .. n |-> all[1 + ((i + shift - 1) % n)]]
            IN  [r \in DOMAIN data |-> LET range == readRange(n, r, numRanks) IN SubSeq(turned, range[1] + 1, range[2])]
        columns == tabulated([f \in DOMAIN data[0] |-> dealt(f)])
    IN  tabulated([r \in DOMAIN data |-> [f \in DOMAIN data[0] |-> columns[f][r]]])

\* a setting is a double
writeSettings == [k \in DOMAIN settings |-> attribute("float64", <<settings[k]>>)]

Configure ==
    /\ phase = "configure"
    /\ IF exists(files, opt.out) THEN exits /\ UNCHANGED files
       ELSE /\ files' = IF opt.ascii THEN files
                        ELSE put(files, opt.out, [newFile EXCEPT !.attrs = writeSettings])
            /\ phase' = "forces"
            /\ \E shift \in 0 .. 1 : mem' = synced(viscous, shift)
            /\ d' = [d EXCEPT !.alphamin = IF opt.av THEN low ELSE IF initFromFile THEN one ELSE @]
            /\ start' = d.iteration
            /\ UNCHANGED <<opt, kind, settings, extra, todo, job, saved>>

-----------------------------------------------------------------------------
(* The main loop *)

computed(data, fields, s) ==
    tabulated([r \in DOMAIN data |-> [f \in DOMAIN data[r] |->
        IF f \in fields THEN [i \in 1 .. Len(data[r]["x"]) |-> <<data[r]["x"][i][1], s>>] ELSE data[r][f]]])

count == d.iteration - start + 1

\* what is written at once: attributes, box and fields, the last one first, then the propagator
outputSteps ==
    IF opt.ascii THEN <<"ascii">>
    ELSE <<"addStep", "hydro", "magneto", "box">> \o
         [i \in 1 .. Len(opt.fields) |-> opt.fields[Len(opt.fields) + 1 - i]] \o
         stateParts(opt.prop)

\* viscosity switches; the particles move to other ranks; output may be due, not in the first iteration
Forces ==
    /\ phase = "forces"
    /\ mem' = synced(IF opt.av THEN computed(mem, {"alpha"}, stamp(count)) ELSE mem, 1)
    /\ \E triggered \in BOOLEAN :
          IF triggered /\ d.iteration > start
          THEN phase' = "write" /\ todo' = outputSteps
          ELSE phase' = "integrate" /\ todo' = <<>>
    /\ UNCHANGED <<files, opt, kind, settings, d, extra, start, job, saved>>

everywhere(val) == [r \in ranks |-> val]

withAttributes(file, keys) == foldl(LAMBDA fl, k : stepAttribute(fl, k, everywhere(d[k])), file, keys)

asciiColumns ==
    [i \in 1 .. Len(opt.fields) |->
        LET c == Len(opt.fields) + 1 - i
            f == opt.fields[c]
        IN  [col |-> c, x |-> [r \in ranks |-> [k \in 1 .. Len(mem[r][f]) |-> <<f, mem[r][f][k]>>]]]]

written(file, what) ==
    CASE what = "addStep" -> addStep(file, [r \in ranks |-> Len(mem[r]["x"])])
      [] what = "hydro"   -> withAttributes(file, HydroAttributes)
      [] what = "magneto" -> IF isMagneto(opt.prop) THEN withAttributes(file, <<"magneto">>) ELSE file
      [] what = "box"     -> withAttributes(file, <<"box">>)
      [] what \in partsOf(opt.prop) -> stepAttribute(file, what, everywhere(extra[what]))
      [] what = "ascii"   -> [newFile EXCEPT !.format = "ascii", !.lines = asciiCloseStep(asciiColumns)]
      [] OTHER            -> writeField(file, what, [r \in ranks |-> mem[r][what]])

\* the simulation without ranks, files and columns
rows(data) == UNION {{[f \in DOMAIN data[r] |-> data[r][f][i]] : i \in 1 .. Len(data[r]["x"])} : r \in DOMAIN data}

simulation ==
    IF phase \notin {"forces", "write", "integrate"} THEN None
    ELSE [n |-> total([r \in DOMAIN mem |-> Len(mem[r]["x"])]), rows |-> rows(mem), iteration |-> d.iteration,
          dt |-> d.dt, alphamin |-> d.alphamin, hydro |-> d.hydro, magneto |-> d.magneto, extra |-> extra]

restartable == ~opt.ascii /\ {opt.fields[i] : i \in 1 .. Len(opt.fields)} = fieldsOf(opt.prop)

\* text has a file for every iteration, which nothing keeps from being written again
outPath == IF opt.ascii THEN opt.out \o "." \o ToString(d.iteration) \o ".txt" ELSE opt.out

Write ==
    LET file == IF exists(files, outPath) THEN files[outPath] ELSE newFile
    IN  /\ phase = "write"
        /\ files' = put(files, outPath, written(file, Head(todo)))
        /\ todo' = Tail(todo)
        /\ phase' = IF todo' = <<>> THEN "integrate" ELSE "write"
        /\ saved' = IF todo' = <<>> /\ restartable THEN saved \cup {simulation} ELSE saved
        /\ UNCHANGED <<opt, kind, settings, mem, d, extra, start, job>>

\* time-step, positions, and the end of the iteration
Integrate ==
    LET moved == fieldsOf(opt.prop) \ {"m", "id", "alpha"}
    IN  /\ phase = "integrate"
        /\ IF count >= opt.steps
           THEN exits /\ UNCHANGED files
           ELSE /\ mem' = computed(mem, moved, stamp(count))
                /\ extra' = [k \in DOMAIN extra |-> IF k \in parameters THEN extra[k] ELSE stamp(count)]
                /\ d' = [d EXCEPT !.iteration = @ + 1, !.dt = stamp(count)]
                /\ phase' = "forces"
                /\ UNCHANGED <<files, opt, kind, settings, start, todo, job, saved>>

\* what was written of a step is in the file or is lost
Crash ==
    /\ phase # "off" /\ opt.crash
    /\ \/ UNCHANGED files
       \/ /\ phase = "write" /\ Len(todo) < Len(outputSteps) /\ ~opt.ascii
          /\ files' = [files EXCEPT ![opt.out].steps = SubSeq(@, 1, Len(@) - 1)]
    /\ exits

Finished == phase = "off" /\ job > 0 /\ UNCHANGED vars

Next ==
    \/ Launch \/ Relaunch \/ Load
    \/ InitCase \/ InitFile \/ InitSplit \/ InitOrbit
    \/ Configure \/ Forces \/ Write \/ Integrate
    \/ Crash \/ Finished

Spec == Init /\ [][Next]_vars

-----------------------------------------------------------------------------
(* Properties *)

\* Every test case places its particles on any number of ranks as it would on a single one: none is
\* missing at the seams between ranks, copies of the block or parts of the domain, none is there twice,
\* and numParticlesGlobal is their number.
InitPartition ==
    phase = "configure" /\ kind = "case" =>
        LET all == joined([r \in ranks |-> mem[r]["x"]])
            at  == {all[i][1] : i \in 1 .. Len(all)}
        IN  /\ at = wholePlacement(testCase(opt.init.base, opt.glass, opt.n, opt.ratio), Block)
            /\ Cardinality(at) = Len(all)
            /\ d.num = Len(all)

\* The settings of a file on the command line have precedence over those of the test case, and these
\* over the defaults, in the simulation as well as in the settings that are written for a restart.
SettingsInForce ==
    phase = "forces" /\ kind = "case" =>
        LET path == strAfterSign(opt.init, ":")
            case == testCase(opt.init.base, opt.glass, opt.n, opt.ratio)
            given(k) == IF path # "" /\ k \in DOMAIN files[path].attrs THEN files[path].attrs[k].vals[1]
                        ELSE IF k \in case.loads THEN "case" ELSE "class"
        IN  \A k \in {"hydro"} \cup (IF isMagneto(opt.prop) THEN {"magneto"} ELSE {}) :
                d[k] = given(k) /\ (~opt.ascii => files[opt.out].attrs[k].vals[1] = given(k))

\* A particle has the group of the list, or else of the last sphere, that selects it, on whatever rank
\* it is, as long as the selection has the types that are asked for.
TagsApplied ==
    phase = "configure" /\ kind = "case" /\ strAfterSign(opt.init, ":") # "" =>
        LET attrs == files[strAfterSign(opt.init, ":")].attrs
            valid(k) == k \in DOMAIN attrs /\ attrs[k].type = "uint32"
            listed(id) == {i \in 1 .. Len(attrs[TagsList].vals) : valid(TagsListGroups) /\ attrs[TagsList].vals[i] = id}
            around(p)  == {i \in 1 .. Len(attrs[TagsSpheres].vals) :
                             valid(TagsSphereGroups) /\ inSphere(p, attrs[TagsSpheres].vals[i])}
            group(p, id) == IF listed(id) # {} THEN 1 + attrs[TagsListGroups].vals[Min(listed(id))]
                            ELSE IF around(p) # {} THEN 1 + attrs[TagsSphereGroups].vals[Max(around(p))] ELSE 0
        IN  \A r \in ranks : "id" \in DOMAIN mem[r] =>
              \A i \in 1 .. Len(mem[r]["id"]) :
                tagOf(mem[r]["id"][i]) = group(mem[r]["x"][i][1], untagged(mem[r]["id"][i]))

\* What is written is one row per particle, also across ranks: the columns of a step have the length
\* that the step announces and belong together, and the columns of a text file are those of the request.
OutputAligned ==
    \A p \in DOMAIN files \ DOMAIN GivenFiles :
        /\ \A k \in 1 .. Len(files[p].steps) :
              LET step == files[p].steps[k]
                  particles == DOMAIN step.data \ {"id", "alpha", "rung", "du_m1"}
              IN  /\ \A f \in DOMAIN step.data : Len(step.data[f]) = step.n
                  /\ "num" \in DOMAIN step.attrs => step.attrs["num"] = step.n
                  /\ \A f, g \in particles : \A i \in 1 .. step.n :
                        Len(step.data[f][i][1]) = Len(step.data[g][i][1]) => step.data[f][i][1] = step.data[g][i][1]
        /\ \A i \in 1 .. Len(files[p].lines) : \A c \in 1 .. Len(opt.fields) :
              /\ files[p].lines[i][c][1] = opt.fields[c]
              /\ c > 1 /\ opt.fields[c] \in {"h", "m", "vx"} => files[p].lines[i][c][2][1] = files[p].lines[i][1][2][1]

\* Restarts are exact: what a job resumes is a state that was saved completely, every field of every
\* particle, the attributes and the state of the propagator, whatever the number of ranks and wherever
\* an earlier job crashed; the viscosity is kept if it was computed by the switches.  Crashes are left
\* out with std-disk and std-cooling, which go on without the part of their state that a crash has kept
\* out of the file.
Checkpoints == INSTANCE Checkpoint WITH
    state <- simulation, saved <- saved, constants <- {zero, one, low}, reset <- [av \in BOOLEAN |-> IF av THEN low ELSE one]

Restarts == Checkpoints!CSpec
=============================================================================
