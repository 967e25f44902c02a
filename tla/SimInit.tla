------------------------------ MODULE SimInit ------------------------------
(***************************************************************************)
(* What a simulation starts from: the choice of the initializer, the       *)
(* settings, the particle data of a test case, of a snapshot, of a         *)
(* snapshot with every particle split, or of a star that is put on an      *)
(* orbit, and the tags in the particle ids.                                *)
(*                                                                         *)
(* A particle is named by the position at which it was first placed.  The  *)
(* value of a field of particle p is <<p, s>> where s, a stamp, says when  *)
(* it was computed; constants are values without a particle.  ids are      *)
(* numbers.                                                                *)
(***************************************************************************)
EXTENDS TestCases, SnapshotFile

CONSTANTS
    IdBits,         \* lower bits of an id, 54 in the code
    MaxNumGroupIds, \* number of groups that fit into the upper ones
    Block           \* positions of the particles of the template block

\* assembleCuboid throws otherwise
ASSUME BlockAssumption == validBlock(Block)

zero    == <<"zero">>    \* the value of memory that the host allocates
garbage == <<"garbage">> \* the value of memory that the device allocates

one == <<"one">> \* 1.0, the viscosity without switches
low == <<"low">> \* 0.05, the lowest one with switches

(***************************************************************************)
(* conserved fields of the propagators                                     *)
(***************************************************************************)
isMagneto(prop) == prop \in {"magneto-ve", "magneto-turb-ve"}

conserved(prop) ==
    <<"x", "h", "m">> \o
    CASE prop = "nbody"       -> <<"vx", "x_m1">>
      [] prop \in {"std", "std-disk", "std-relax"} -> <<"u", "vx", "x_m1", "du_m1", "id">>
      [] prop = "std-cooling" -> <<"u", "vx", "x_m1", "du_m1", "id", "chem">>
      [] prop \in {"ve", "turbulence-ve"} -> <<"temp", "vx", "x_m1", "du_m1", "alpha", "id">>
      [] prop \in {"ve-bdt", "turbulence"} -> <<"temp", "vx", "x_m1", "du_m1", "alpha", "id", "rung">>
      [] isMagneto(prop)      -> <<"temp", "vx", "x_m1", "du_m1", "alpha", "Bx", "dBx">>

fieldsOf(prop) == {conserved(prop)[i] : i \in 1 .. Len(conserved(prop))}

(***************************************************************************)
(* Command line: a name, possibly a sign, and what comes behind it         *)
(***************************************************************************)
strBeforeSign(arg, sign)   == IF arg.sign \in {sign, ""} THEN arg.base ELSE arg.base \o arg.sign
strAfterSign(arg, sign)    == IF arg.sign = sign THEN arg.rest ELSE ""
numberAfterSign(arg, sign) == IF arg.sign = sign THEN arg.rest ELSE -1
removeModifiers(arg)       == arg.base

exists(files, path) == path \in DOMAIN files

(***************************************************************************)
(* initializerFactory.  The cases that have a grid do without a block of   *)
(* particles, the others throw.                                            *)
(***************************************************************************)
WithGrid  == {"sedov", "brio-wu", "mhd-loop"}
NamedCase == WithGrid \cup
    {"noh", "gresho-chan", "isobaric-cube", "wind-shock", "evrard", "turbulence", "kelvin-helmholtz",
     "evrard-cooling", "polytrope", "sedov-magneto", "kelvin-helmholtz-magneto", "turbulence-magneto",
     "alfven-wave", "orszag-tang", "mhd-rotor"}

initializer(files, init, glassBlock) ==
    LET name == strBeforeSign(init, ":")
    IN  CASE name \in NamedCase -> IF glassBlock \/ name \in WithGrid THEN "case" ELSE "throw"
          [] name = "tde-orbit" /\ exists(files, strBeforeSign(init.rest, ":")) -> "tde-orbit"
          [] exists(files, name) -> "file"
          [] exists(files, strBeforeSign(init, ",")) -> IF numberAfterSign(init, ",") < 1 THEN "throw" ELSE "split"
          [] OTHER -> "throw"

\* the test case of a name; n is the multiplicity of the block or the edge of the grid
testCase(name, glassBlock, n, ratio) ==
    LET size == Len(Block)
    IN  CASE name = "sedov"         -> IF glassBlock THEN SedovGlass(n, size) ELSE SedovGrid(n)
          [] name = "noh"           -> NohGlassSphere(n)
          [] name = "gresho-chan"   -> GreshoChan(n, size)
          [] name = "isobaric-cube" -> IsobaricCubeGlass(n, size)
          [] name = "wind-shock"    -> WindShockGlass(n)
          [] name = "evrard"        -> EvrardGlassSphere(n)
          [] name = "turbulence"    -> TurbulenceGlass(n, size)
          [] name = "kelvin-helmholtz" -> KelvinHelmholtzGlass(n)
          [] name = "evrard-cooling" -> EvrardGlassSphereCooling(n)
          [] name = "polytrope"     -> Polytrope(n)
          [] name = "sedov-magneto" -> SedovMagneto(n, size)
          [] name = "kelvin-helmholtz-magneto" -> MagneticKelvinHelmholtz(n)
          [] name = "turbulence-magneto" -> TurbulenceMagneto(n, size)
          [] name = "alfven-wave"   -> AlfvenGlass(n, size)
          [] name = "orszag-tang"   -> OrszagTangGlass(n, size)
          [] name = "brio-wu"       -> IF glassBlock THEN BrioWuGlass(n) ELSE BrioWuGrid(n)
          [] name = "mhd-loop"      -> IF glassBlock THEN MhdLoopGlass(n, ratio) ELSE MhdLoopGrid(n, ratio, FALSE)
          [] name = "mhd-rotor"     -> MhdRotorGlass(n, ratio)

(***************************************************************************)
(* Settings: a setting of the hydrodynamic attributes and one of the       *)
(* magnetic ones; the value says which layer it comes from.                *)
(***************************************************************************)
\* readFileAttributes: scalars only, which leaves out the selections for tags
TagsSpheres      == "id_selection_spheres"
TagsSphereGroups == "id_selection_spheres_group_ids"
TagsList         == "id_selection_list"
TagsListGroups   == "id_selection_list_group_ids"
TagAttributes    == {TagsSpheres, TagsSphereGroups, TagsList, TagsListGroups}

readFileAttributes(files, path) ==
    IF path \notin DOMAIN files THEN noAttributes
    ELSE LET attrs == files[path].attrs
             scalars == {k \in DOMAIN attrs \ TagAttributes : Len(attrs[k].vals) = 1}
         IN  [k \in scalars |-> attrs[k].vals[1]]

overridden(settings, by) == [k \in DOMAIN settings \cup DOMAIN by |-> IF k \in DOMAIN by THEN by[k] ELSE settings[k]]

classSettings == [hydro |-> "class", magneto |-> "class"]

\* what propagators and orbits need; the ones for turbulence and for cooling are one here
addedSettings(name) ==
    CASE name = "polytrope"      -> {"polytrope::r", "polytrope::mTotal", "relaxationTimescale"}
      [] name \in {"turbulence", "turbulence-magneto"} -> {"turbulence"}
      [] name = "evrard-cooling" -> {"cooling"}
      [] OTHER                   -> {}

\* the test cases set hydrodynamic attributes, the ones of magneto-hydrodynamics magnetic ones too
caseSettings(name, case) ==
    [k \in {"hydro"} \cup addedSettings(name) \cup (case.loads \cap {"magneto"}) |-> "case"]

\* (mutant) the file is the second layer and the test case the third one
buildSettings_caseLast(files, name, case, settingsFile) ==
    overridden(overridden(classSettings, readFileAttributes(files, settingsFile)), caseSettings(name, case))

buildSettings(files, name, case, settingsFile) ==
    overridden(overridden(classSettings, caseSettings(name, case)), readFileAttributes(files, settingsFile))

\* TDEOrbitInit: the defaults, those of an orbit, the ones of the file, and what follows from them
orbitSettings(files, path) ==
    LET defaults == [k \in {"hydro", "star"} |-> "class"]
        tdeOrbitConstants == [k \in {"tde-orbit", "star"} |-> "case"]
    IN  put(overridden(overridden(defaults, tdeOrbitConstants), readFileAttributes(files, path)), "tde-orbit::r_periapsis", "case")

(***************************************************************************)
(* Tags.  An id has the group of the particle, plus one, in its upper bits *)
(***************************************************************************)
untagged(id) == id % 2 ^ IdBits
tagOf(id)    == id \div 2 ^ IdBits

\* (mutant) the tag is added to the one that the id already has
applyTaggingMask_or(id, groupId) ==
    IF id = err \/ groupId >= MaxNumGroupIds THEN err ELSE id + (groupId + 1) * 2 ^ IdBits

\* a group that does not fit throws
applyTaggingMask(id, groupId) ==
    IF id = err \/ groupId >= MaxNumGroupIds THEN err ELSE untagged(id) + (groupId + 1) * 2 ^ IdBits

\* a sphere is [center, r2]
inSphere(x, sphere) == norm2(vec(LAMBDA d : x[d] - sphere.center[d])) < sphere.r2

\* every particle of every sphere, in the order of the spheres
tagIdsInSphere(ids, x, spheres, groupIds) ==
    [i \in 1 .. Len(ids) |->
        foldl(LAMBDA id, k : IF inSphere(x[i], spheres[k]) THEN applyTaggingMask(id, groupIds[k]) ELSE id,
              ids[i], [k \in 1 .. Len(spheres) |-> k])]

\* the first entry of the list that has the id without its tag
tagIdsInList(ids, list, groupIds) ==
    [i \in 1 .. Len(ids) |->
        LET found == {k \in 1 .. Len(list) : ids[i] # err /\ list[k] = untagged(ids[i])}
        IN  IF found = {} THEN ids[i] ELSE applyTaggingMask(ids[i], groupIds[Min(found)])]

\* a selection and the groups of its members; neither if an attribute is missing, has the wrong type or size
selection(file, key, type, groupKey) ==
    LET sel == attributeOf(file.attrs, key)
        n   == IF sel = err THEN 0 ELSE Len(sel.vals)
        vals == readFileAttribute(file, key, type, n)
        ids  == readFileAttribute(file, groupKey, "uint32", n)
    IN  IF err \in {vals, ids} THEN [vals |-> <<>>, ids |-> <<>>] ELSE [vals |-> vals, ids |-> ids]

runTagging(files, settingsFile, ids, x) ==
    IF settingsFile \notin DOMAIN files THEN ids
    ELSE LET file == files[settingsFile]
             s == selection(file, TagsSpheres, "float64", TagsSphereGroups)
             l == selection(file, TagsList, "uint64", TagsListGroups)
         IN  tagIdsInList(tagIdsInSphere(ids, x, s.vals, s.ids), l.vals, l.ids)

(***************************************************************************)
(* Particle data.  mem[r] maps the fields of rank r to columns; s is the   *)
(* stamp of what is computed now.                                          *)
(***************************************************************************)
\* exclusive scan of the local counts, then consecutive numbers
generateParticleIDs(counts, r) ==
    LET first == sumOver(LAMBDA q : counts[q], 0, r - 1) IN [i \in 1 .. counts[r] |-> first + i - 1]

\* the column f of rank r: resize, then the fields that the case sets
caseColumn(fields, f, gpu, x, counts, r, s) ==
    CASE f = "x" -> [i \in 1 .. counts[r] |-> <<x[r][i], s>>]
      [] f \in fields /\ f = "alpha" -> [i \in 1 .. counts[r] |-> one]
      [] f \in fields /\ f = "id"    -> generateParticleIDs(counts, r)
      [] f \in fields \ {"alpha", "id"} -> [i \in 1 .. counts[r] |-> <<x[r][i], s>>]
      [] OTHER -> [i \in 1 .. counts[r] |-> IF gpu THEN garbage ELSE zero]

caseColumns(fields, prop, gpu, x, s) ==
    tabulated([r \in DOMAIN x |-> [f \in fieldsOf(prop) |->
        caseColumn(fields, f, gpu, x, [q \in DOMAIN x |-> Len(x[q])], r, s)]])

\* initImpl of a test case
caseData(case, prop, gpu, numRanks, s) ==
    caseColumns(case.fields, prop, gpu, localPositions(case, numRanks, Block), s)

\* restoreDataset: the conserved fields, all of which have to be there
restoreDataset(step, prop, numRanks) ==
    IF \E f \in fieldsOf(prop) : readField(step, f, 0, numRanks) = err THEN err
    ELSE tabulated([r \in 0 .. numRanks - 1 |-> [f \in fieldsOf(prop) |-> readField(step, f, r, numRanks)]])

\* displaceSystem
displaceSystem(mem, s) ==
    [r \in DOMAIN mem |-> [f \in DOMAIN mem[r] |->
        IF f \in {"x", "vx", "x_m1"} THEN [i \in 1 .. Len(mem[r]["x"]) |-> <<mem[r]["x"][i][1], s>>] ELSE mem[r][f]]]

(***************************************************************************)
(* FileSplitInit: the particles of a rank in the order of the curve, each  *)
(* followed by its children on the curve up to the next one.               *)
(***************************************************************************)
children(column, numSplits, child(_, _)) ==
    [k \in 1 .. Len(column) * numSplits |-> child(column[1 + (k - 1) \div numSplits], (k - 1) % numSplits)]

gathered(column, order) == [i \in 1 .. Len(column) |-> column[order[i]]]

replicateField(column, order, numSplits) == children(gathered(column, order), numSplits, LAMBDA v, j : v)

splitFields(prop) == {"m", "h", "vx", "u", "temp"} \cap fieldsOf(prop)

splitColumn(step, f, r, numRanks, order, box, alphamin, counts, n, s) ==
    LET child(v, j) == <<<<v[1], j>>, s>>
        x == gathered(readField(step, "x", r, numRanks), order)
    IN  CASE f \in {"x", "x_m1"} -> children(x, n, child)
          [] f \in splitFields("ve") \cup {"u"} -> replicateField(readField(step, f, r, numRanks), order, n)
          [] f = "alpha" -> IF readField(step, f, r, numRanks) = err THEN [k \in 1 .. counts[r] |-> alphamin]
                            ELSE replicateField(readField(step, f, r, numRanks), order, n)
          [] f = "id" -> generateParticleIDs(counts, r)
          [] f \in {"du_m1", "rung"} -> [k \in 1 .. counts[r] |-> zero]

splitData(step, prop, box, alphamin, numSplits, numRanks, s) ==
    IF \E f \in {"x"} \cup splitFields(prop) : readField(step, f, 0, numRanks) = err THEN err
    ELSE LET xs == tabulated([r \in 0 .. numRanks - 1 |-> readField(step, "x", r, numRanks)])
             counts == tabulated([r \in DOMAIN xs |-> numSplits * Len(xs[r])])
             order == tabulated([r \in DOMAIN xs |-> sfcOrder(keysOf([i \in 1 .. Len(xs[r]) |-> xs[r][i][1]], box))])
         IN  tabulated([r \in DOMAIN xs |-> [f \in fieldsOf(prop) |->
                 splitColumn(step, f, r, numRanks, order[r], box, alphamin, counts, numSplits, s)]])
=============================================================================
