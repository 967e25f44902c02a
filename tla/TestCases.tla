----------------------------- MODULE TestCases -----------------------------
(***************************************************************************)
(* The test cases: where each places its particles, whether it             *)
(* redistributes them, how it finds their global number, which fields it   *)
(* fills, and which attributes it copies from its settings.                *)
(*                                                                         *)
(* A placement is a sequence of parts.  A part is a box filled by copies   *)
(* of the template block (glass) or a grid, of which the particles are     *)
(* kept that fulfil a criterion.  Densities and radii are fixed, lengths   *)
(* are multiples of Edge; the maps that stretch a cube or contract a       *)
(* sphere are replaced by the simplest ones of their kind.                 *)
(***************************************************************************)
EXTENDS InitGrid

Edge == 96

\* ratios of edges of flat boxes, and cells across a flat grid: bounds, 9, 16 and 12 in the code
greshoAspect == 3
khAspect     == 4
flatCells    == 1

boxOf(lo, hi) == [lo |-> lo, len |-> vec(LAMBDA d : hi[d] - lo[d])]
cube(r)       == boxOf(<<-r, -r, -r>>, <<r, r, r>>)

glass(box, m, keep)   == [kind |-> "glass", box |-> box, m |-> m, keep |-> keep]
regular(box, m, keep) == [kind |-> "regular", box |-> box, m |-> m, keep |-> keep]
fcc(box, m, keep)     == [kind |-> "fcc", box |-> box, m |-> m, keep |-> keep]

\* radius of the sphere, of the blob and of the cylinders
rSphere == Edge \div 2
rBlob   == (5 * Edge) \div 24
rCyl    == (5 * Edge) \div 12

keeps(keep, x) ==
    LET blob == <<x[1] - Edge \div 2, x[2] - Edge \div 2, x[3] - Edge \div 2>>
        cyl  == x[1] * x[1] + x[2] * x[2]
    IN  CASE keep = "all"     -> TRUE
          [] keep = "sphere"  -> norm2(x) <= rSphere * rSphere
          [] keep = "outBlob" -> norm2(blob) > rBlob * rBlob
          [] keep = "inBlob"  -> norm2(blob) < rBlob * rBlob
          [] keep = "outCyl"  -> cyl >= rCyl * rCyl
          [] keep = "inCyl"   -> cyl < rCyl * rCyl
          [] keep = "layer"   -> \A d \in Dim : 2 * x[d] < <<khAspect, khAspect \div 4, 1>>[d] * Edge

(***************************************************************************)
(* Fields.  x stands for x, y, z, likewise vx, x_m1 and Bx; dBx for the    *)
(* other fields of the magnetic data.                                      *)
(***************************************************************************)
MagnetoFields == {"Bx", "dBx"}

initFieldsAtRest == {"m", "du_m1", "mui", "alpha", "vx", "x_m1", "u", "temp", "id"}

\* temp, or else u, is set after the fields at rest: both are already
initSedovFields         == initFieldsAtRest \cup {"h"}
initNohFields           == {"m", "h", "du_m1", "mui", "temp", "u", "alpha", "id", "vx", "x_m1"}
initGreshoChanFields    == initFieldsAtRest \cup {"h", "vx", "x_m1"}
initIsobaricCubeFields  == initFieldsAtRest \cup {"h"}
initWindShockFields     == initFieldsAtRest \cup {"h", "vx", "x_m1"}
initEvrardFields        == initFieldsAtRest \cup {"h"}
initChemistryData       == {"chem"}
polytropeFields         == initFieldsAtRest \cup {"h"}
initTurbulenceHydroFields   == initFieldsAtRest \cup {"h"}
initTurbulenceMagnetoFields == MagnetoFields
initKelvinHelmholtzFields   == initFieldsAtRest \cup {"h", "vx", "x_m1", "mue"}
initMagnetoData         == MagnetoFields
initMagnetoFields       == MagnetoFields \cup {"temp"}
initAlfvenWaveFields    == {"m", "du_m1", "alpha", "temp", "h", "vx", "x_m1"} \cup MagnetoFields
initOrszagTangFields    == {"m", "du_m1", "alpha", "temp", "h", "vx", "x_m1"} \cup MagnetoFields
initBrioWuFields        == {"m", "du_m1", "alpha", "temp", "h", "vx", "x_m1"} \cup MagnetoFields
initMhdLoopFields       == {"m", "du_m1", "alpha", "temp", "h", "vx", "x_m1"} \cup MagnetoFields
initMhdRotorFields      == {"m", "du_m1", "alpha", "temp", "h", "vx", "x_m1"} \cup MagnetoFields

(***************************************************************************)
(* The cases.  syncs: number of redistributions; product: the global       *)
(* number of particles if it is computed and not counted, else 0; loads:   *)
(* the attributes copied from the settings; file: the settings file is     *)
(* read.  n is the multiplicity of the block, or the edge of the grid, and *)
(* size the number of particles of the block; ratio is the density ratio.  *)
(***************************************************************************)
setup(box, parts, syncs, product, fields, loads) ==
    [box |-> box, parts |-> parts, syncs |-> syncs, product |-> product, fields |-> fields, loads |-> loads,
     file |-> TRUE, contract |-> FALSE]

SedovGrid(n) ==
    [setup(cube(Edge \div 2), <<[regular(cube(Edge \div 2), <<n, n, n>>, "all") EXCEPT !.kind = "cube"]>>, 1, n * n * n,
           initSedovFields, {"hydro"}) EXCEPT !.file = FALSE]

SedovGlass(n, size) ==
    setup(cube(Edge \div 2), <<glass(cube(Edge \div 2), <<n, n, n>>, "all")>>, 0, n * n * n * size,
          initSedovFields, {"hydro"})

SedovMagneto(n, size) ==
    LET base == SedovGlass(n, size) IN [base EXCEPT !.fields = @ \cup initMagnetoFields]

NohGlassSphere(n) ==
    setup(cube(rSphere), <<glass(cube(rSphere), <<n, n, n>>, "sphere")>>, 0, 0, initNohFields, {"hydro"})

GreshoChan(n, size) ==
    LET box == boxOf(<<0, 0, 0>>, <<greshoAspect * Edge, greshoAspect * Edge, Edge>>)
    IN  setup(box, <<glass(box, <<greshoAspect * n, greshoAspect * n, n>>, "all")>>, 0, greshoAspect * greshoAspect * n * n * n * size,
              initGreshoChanFields, {"hydro"})

\* the particles are named by their positions before the center is compressed
IsobaricCubeGlass(n, size) ==
    setup(cube(Edge), <<glass(cube(Edge), <<n, n, n>>, "all")>>, 0, n * n * n * size,
          initIsobaricCubeFields, {"hydro"})

WindShockGlass(n) ==
    LET box  == boxOf(<<0, 0, 0>>, <<4 * Edge, Edge, Edge>>)
        boxS == boxOf(<<Edge \div 4, Edge \div 4, Edge \div 4>>,
                      <<(3 * Edge) \div 4, (3 * Edge) \div 4, (3 * Edge) \div 4>>)
    IN  setup(box, <<glass(box, <<4 * n, n, n>>, "outBlob"), glass(boxS, <<n, n, n>>, "inBlob")>>, 1, 0,
              initWindShockFields, {"hydro"})

\* createUniformSphere, radialTransformation and syncAndLoadAttributes
RadialProfile(n, fields) ==
    [setup(cube(rSphere), <<glass(cube(rSphere), <<n, n, n>>, "sphere")>>, 2, 0, fields, {"hydro"})
        EXCEPT !.contract = TRUE]

EvrardGlassSphere(n)        == RadialProfile(n, initEvrardFields)
EvrardGlassSphereCooling(n) == RadialProfile(n, initEvrardFields \cup initChemistryData)
Polytrope(n)                == RadialProfile(n, polytropeFields)

TurbulenceGlass(n, size) ==
    setup(cube(Edge \div 2), <<glass(cube(Edge \div 2), <<n, n, n>>, "all")>>, 0, n * n * n * size,
          initTurbulenceHydroFields, {"hydro"})

TurbulenceMagneto(n, size) ==
    LET base == TurbulenceGlass(n, size)
    IN  [base EXCEPT !.fields = @ \cup initTurbulenceMagnetoFields, !.loads = {"hydro", "magneto"}]

\* the lower layer is stretched by 2, cut off and mirrored, in a part of its own
KelvinHelmholtzGlass(n) ==
    LET top == khAspect * Edge
        box == boxOf(<<0, 0, 0>>, <<top, top, Edge>>)
        layer1 == boxOf(<<0, 0, 0>>, <<top, top \div 4, Edge>>)
        layer2 == boxOf(<<0, top \div 4, 0>>, <<top, (3 * top) \div 4, Edge>>)
        inner == <<khAspect * n, (khAspect * n) \div 2, n>>
        outer == <<khAspect * n, (khAspect * n) \div 4, n>>
    IN  setup(box, <<[glass(layer1, outer, "layer") EXCEPT !.kind = "mirrored"], glass(layer2, inner, "all")>>, 1, 0,
              initKelvinHelmholtzFields, {"hydro"})

MagneticKelvinHelmholtz(n) ==
    LET base == KelvinHelmholtzGlass(n) IN [base EXCEPT !.fields = @ \cup initMagnetoData]

MhdAttributes == {"hydro", "magneto"}

AlfvenGlass(n, size) ==
    LET box == boxOf(<<0, 0, 0>>, <<2 * Edge, Edge, Edge>>)
    IN  setup(box, <<glass(box, <<2 * n, n, n>>, "all")>>, 0, 2 * n * n * n * size, initAlfvenWaveFields, MhdAttributes)

OrszagTangGlass(n, size) ==
    LET box == boxOf(<<0, 0, 0>>, <<2 * Edge, 2 * Edge, (2 * Edge) \div n>>)
    IN  setup(box, <<glass(box, <<n, n, 1>>, "all")>>, 0, n * n * size, initOrszagTangFields, MhdAttributes)

\* left and right half of a tube
tube(lt, x0, x1) == boxOf(<<x0, 0, 0>>, <<x1, lt, lt>>)

BrioWuGlass(n) ==
    LET L  == 2 * Edge
        lt == L \div (4 * Max({1, n}))
    IN  setup(tube(lt, -L, L), <<glass(tube(lt, -L, 0), <<8 * Max({1, n}), 2, 2>>, "all"),
                                 glass(tube(lt, 0, L), <<4 * Max({1, n}), 1, 1>>, "all")>>, 1, 0,
              initBrioWuFields, MhdAttributes)

BrioWuGrid(n) ==
    LET L  == 2 * Edge
        nt == flatCells
        lt == (nt * L) \div n
        left  == <<2 * n, 2 * nt, 2 * nt>>
        right == <<n, nt, nt>>
    IN  setup(tube(lt, -L, L), <<regular(tube(lt, -L, 0), left, "all"), regular(tube(lt, 0, L), right, "all")>>, 1,
              volume(left) + volume(right), initBrioWuFields, MhdAttributes)

(***************************************************************************)
(* A cylinder is carved out of the outer part and filled at another        *)
(* density unless the ratio of the densities is 1; ratio is its square     *)
(* root.  A cylinder that is wider than the inner part is an error.        *)
(***************************************************************************)
innerHalf(ratio)  == Edge \div ratio
tooDense(ratio)   == ratio # 1 /\ innerHalf(ratio) < rCyl
innerBox(ratio, lz) ==
    boxOf(<<-innerHalf(ratio), -innerHalf(ratio), 0>>, <<innerHalf(ratio), innerHalf(ratio), lz>>)

carved(ratio, outer, inner) ==
    IF ratio = 1 THEN <<outer>> ELSE <<[outer EXCEPT !.keep = "outCyl"], [inner EXCEPT !.keep = "inCyl"]>>

MhdLoopGlass(n, ratio) ==
    LET L  == 2 * Edge
        lz == L \div n
        box == boxOf(<<-L, -Edge, 0>>, <<L, Edge, lz>>)
    IN  setup(box, carved(ratio, glass(box, <<2 * n, n, 1>>, "all"), glass(innerBox(ratio, lz), <<n, n, 1>>, "all")),
              1, 0, initMhdLoopFields, MhdAttributes)

\* n / cbrt(4) rounded
fccCells(n) == Max({1, (20000 * n + 15874) \div 31748})

MhdLoopGrid(n, ratio, useFcc) ==
    LET L  == 2 * Edge
        cy == IF useFcc THEN fccCells(n) ELSE n
        lz == (flatCells * L) \div cy
        box == boxOf(<<-L, -Edge, 0>>, <<L, Edge, lz>>)
        cells(b, side) == IF useFcc THEN fcc(b, side, "all") ELSE regular(b, side, "all")
    IN  setup(box, carved(ratio, cells(box, <<2 * cy, cy, flatCells>>),
                                 cells(innerBox(ratio, lz), <<cy, cy, flatCells>>)),
              1, 0, initMhdLoopFields, MhdAttributes)

MhdRotorGlass(n, ratio) ==
    LET lz == (2 * Edge) \div n
        box == boxOf(<<-Edge, -Edge, 0>>, <<Edge, Edge, lz>>)
    IN  setup(box, carved(ratio, glass(box, <<n, n, 1>>, "all"), glass(innerBox(ratio, lz), <<n, n, 1>>, "all")),
              1, 0, initMhdRotorFields, MhdAttributes)

(***************************************************************************)
(* The particles that rank places                                          *)
(***************************************************************************)
gridPart(part, rank, numRanks) ==
    LET n == volume(part.m) * (IF part.kind = "fcc" THEN 4 ELSE 1)
        range == partitionRange(n, rank, numRanks)
    IN  IF part.kind = "fcc" THEN fccGrid(part.box, part.m, range[1], range[2])
        ELSE IF part.kind = "cube" THEN regularGridCube(part.box.len[1] \div 2, part.m[1], range[1], range[2])
        ELSE regularGrid(part.box, part.m, range[1], range[2])

\* a particle of the lower layer and its image in the upper one
mirrored(part, x) ==
    LET stretched == vec(LAMBDA d : 2 * x[d])
    IN  <<stretched, [stretched EXCEPT ![2] = khAspect * Edge - @]>>

\* cutSphere or another selection
kept(keep, xs) == IF keep = "sphere" THEN cutSphere(rSphere, xs) ELSE selectParticles(xs, LAMBDA x : keeps(keep, x))

withMirrored(part, xs) ==
    IF part.kind = "mirrored" THEN foldl(LAMBDA s, x : s \o mirrored(part, x), <<>>, xs) ELSE xs

placePart(part, rank, numRanks, block) ==
    LET sorted == IF part.kind = "mirrored" THEN sortBySfcKey(block) ELSE block
        all  == IF part.kind \in {"glass", "mirrored"}
                THEN assembleCuboid(equiDistantSfcSegments(rank, numRanks), part.box, part.m, sorted)
                ELSE gridPart(part, rank, numRanks)
    IN  withMirrored(part, kept(part.keep, all))

\* radialTransformation
contracted(x) == vec(LAMBDA d : x[d] \div 2)

transformed(case, x) == IF case.contract THEN [i \in 1 .. Len(x) |-> contracted(x[i])] ELSE x

placeParticles(case, rank, numRanks, block) ==
    transformed(case, foldl(LAMBDA s, part : s \o placePart(part, rank, numRanks, block), <<>>, case.parts))

\* positions on all ranks after the redistributions
localPositions(case, numRanks, block) ==
    foldl(LAMBDA x, i : syncCoords(x, case.box),
          tabulated([r \in 0 .. numRanks - 1 |-> placeParticles(case, r, numRanks, block)]),
          [i \in 1 .. case.syncs |-> i])

(***************************************************************************)
(* What the placement has to be, without ranks, ranges of keys or indices  *)
(***************************************************************************)
wholePart(part, block) ==
    LET cells == {<<i, j, k>> : i \in 0 .. part.m[1] - 1, j \in 0 .. part.m[2] - 1, k \in 0 .. part.m[3] - 1}
        at(c, u, units) == vec(LAMBDA d : part.box.lo[d] + (part.box.len[d] * (units * c[d] + u[d])) \div (units * part.m[d]))
        points == CASE part.kind \in {"regular", "cube"} -> {at(c, <<1, 1, 1>>, 2) : c \in cells}
                    [] part.kind = "fcc" -> {at(c, fccBasis[b], 4) : c \in cells, b \in 1 .. 4}
                    [] OTHER -> {at(c, block[b], BlockUnits) : c \in cells, b \in 1 .. Len(block)}
        inside == {x \in points : keeps(part.keep, x)}
    IN  IF part.kind = "mirrored" THEN UNION {{mirrored(part, x)[1], mirrored(part, x)[2]} : x \in inside} ELSE inside

wholePlacement(case, block) ==
    LET x == UNION {wholePart(case.parts[i], block) : i \in 1 .. Len(case.parts)}
    IN  IF case.contract THEN {contracted(p) : p \in x} ELSE x
=============================================================================
