-------------------------- MODULE WarpCompression --------------------------
(***************************************************************************)
(* Compression of ascending neighbor lists by a warp: differences between  *)
(* successive neighbors in a variable number of nibbles or bytes.  A list  *)
(* per lane (perThread) or one list for the warp, lane after lane.         *)
(*                                                                         *)
(* Each call of add appends a block: a mask of lanes, and nibbles (bytes)  *)
(* in a sequence.                                                          *)
(***************************************************************************)
EXTENDS WarpScan

\* sequences of the lanes in the mask, one after the other
inOrder(mask, op(_)) == FlattenSeq([k \in 1 .. WarpSize |-> IF k - 1 \in mask THEN op(k - 1) ELSE <<>>])

\* digits of n to a base, lowest first
digits(n, base, count) == [k \in 1 .. count |-> (n \div base ^ (k - 1)) % base]

\* a number from the count digits of data after position index
number(data, index, base, count) == sumOver(LAMBDA k : data[index + k] * base ^ (k - 1), 1, count)

\* differences to the previous neighbor: of the lane, or in the lane before
diffs(perThread, previous, neighbor, active) ==
    LET left == shflUpSync(neighbor, 1)
    IN  laneValues(LAMBDA lane :
            IF perThread THEN (IF active[lane] THEN neighbor[lane] - previous[lane] ELSE 0)
            ELSE neighbor[lane] - (IF lane > 0 THEN left[lane] ELSE previous[lane]))

lastAdded(perThread, previous, neighbor, active) ==
    laneValues(LAMBDA lane :
        IF ~perThread THEN shflSync(neighbor, WarpSize - 1)
        ELSE IF active[lane] THEN neighbor[lane] ELSE previous[lane])

(***************************************************************************)
(* NibbleWarpCompression: nothing for a difference of one; one nibble up   *)
(* to nine, otherwise the number of further nibbles                        *)
(***************************************************************************)
fitsNibble(diff) == diff <= 9

nibbleAdd(diff, active) ==
    LET nonOne   == {lane \in Lane : active[lane] /\ diff[lane] # 1}
        nNibbles(lane) == CHOOSE k \in 1 .. 8 : diff[lane] < 16 ^ k /\ (k = 1 \/ diff[lane] >= 16 ^ (k - 1))
        head(lane)  == <<IF fitsNibble(diff[lane]) THEN diff[lane] + 6 ELSE nNibbles(lane) - 1>>
        value(lane) == IF fitsNibble(diff[lane]) THEN <<>> ELSE digits(diff[lane], 16, nNibbles(lane))
    IN  [mask |-> nonOne, data |-> inOrder(nonOne, head) \o inOrder(nonOne, value)]

nibbleBytes(block) == WarpSize \div 8 + (Len(block.data) + 1) \div 2

nibbleNext(block) ==
    LET index(lane) == Cardinality(block.mask \cap lanemask_lt(lane))
        head(lane)  == block.data[index(lane) + 1]
        nNibbles    == laneValues(LAMBDA lane : IF lane \in block.mask /\ head(lane) <= 7 THEN head(lane) + 1 ELSE 0)
        scan        == inclusiveScanInt(nNibbles)
        at(lane)    == Cardinality(block.mask) + scan[lane] - nNibbles[lane]
    IN  laneValues(LAMBDA lane :
            IF lane \notin block.mask THEN 1
            ELSE IF head(lane) <= 7 THEN number(block.data, at(lane), 16, nNibbles[lane]) ELSE head(lane) - 6)

(***************************************************************************)
(* BandEtAlWarpCompression: two bits for the sizes of the differences,     *)
(* which are none, one, a byte or four bytes                               *)
(***************************************************************************)
bandBytes(d) == IF d >= 256 THEN 4 ELSE IF d >= 2 THEN 1 ELSE 0

bandAdd(diff, active) ==
    LET less  == laneValues(LAMBDA lane : IF active[lane] THEN diff[lane] - 1 ELSE 0)
        bytes(lane) == digits(less[lane], 256, bandBytes(less[lane]))
    IN  [first |-> {lane \in Lane : less[lane] > 1}, second |-> {lane \in Lane : less[lane] = 1 \/ less[lane] >= 256},
         data |-> inOrder(Lane, bytes)]

bandBlockBytes(block) == 2 * (WarpSize \div 8) + Len(block.data)

bandNext(block) ==
    LET bytes == laneValues(LAMBDA lane : IF lane \notin block.first THEN 0 ELSE IF lane \in block.second THEN 4 ELSE 1)
        scan  == inclusiveScanInt(bytes)
    IN  laneValues(LAMBDA lane :
            1 + (IF lane \in block.first THEN number(block.data, scan[lane] - bytes[lane], 256, bytes[lane])
                 ELSE IF lane \in block.second THEN 1 ELSE 0))

(***************************************************************************)
(* DummyWarpCompression: the neighbors of the active lanes as they are     *)
(***************************************************************************)
dummyAdd(neighbor, active) ==
    [mask |-> ballotSync(active), data |-> inOrder(ballotSync(active), LAMBDA lane : <<neighbor[lane]>>)]

\* where the first n lanes, or those with neighbors left, find theirs
dummyNext(block, active) ==
    LET offset == exclusiveScanBool(active)
    IN  laneValues(LAMBDA lane : IF active[lane] THEN block.data[offset[lane] + 1] ELSE 0)

(***************************************************************************)
(* Whole lists                                                             *)
(***************************************************************************)
Codec == {"nibble", "band", "dummy"}

\* arguments of the calls of add: of the nb-th neighbors of all lanes, or of as
\* many neighbors as there are lanes
threadAdds(lists) ==
    [nb \in 1 .. warpMax(laneValues(LAMBDA lane : Len(lists[lane]))) |->
        [neighbor |-> laneValues(LAMBDA lane : IF nb <= Len(lists[lane]) THEN lists[lane][nb] ELSE 0),
         active   |-> laneValues(LAMBDA lane : nb <= Len(lists[lane]))]]

warpAdds(list) ==
    [k \in 1 .. (Len(list) + WarpSize - 1) \div WarpSize |->
        LET nb(lane) == (k - 1) * WarpSize + lane + 1
        IN  [neighbor |-> laneValues(LAMBDA lane : IF nb(lane) <= Len(list) THEN list[nb(lane)] ELSE 0),
             active   |-> laneValues(LAMBDA lane : nb(lane) <= Len(list))]]

warpCompressNeighbors(codec, perThread, adds) ==
    LET add(s, a) ==
            LET diff  == diffs(perThread, s.previous, a.neighbor, a.active)
                block == CASE codec = "nibble" -> nibbleAdd(diff, a.active)
                           [] codec = "band"   -> bandAdd(diff, a.active)
                           [] codec = "dummy"  -> dummyAdd(a.neighbor, a.active)
            IN  [previous |-> lastAdded(perThread, s.previous, a.neighbor, a.active), blocks |-> Append(s.blocks, block)]
    IN  foldl(add, [previous |-> laneValues(LAMBDA lane : -1), blocks |-> <<>>], adds).blocks

numBytes(codec, blocks) ==
    CASE codec = "nibble" -> 4 + foldl(LAMBDA n, b : n + nibbleBytes(b), 0, blocks)
      [] codec = "band"   -> 4 + foldl(LAMBDA n, b : n + bandBlockBytes(b), 0, blocks)
      [] codec = "dummy"  -> 4 * foldl(LAMBDA n, b : n + Len(b.data), 0, blocks)

\* neighbors of all lanes, block by block; counts are the lengths of the lists
\* of the lanes (perThread) or the number of neighbors of the warp
decompressed(codec, perThread, blocks, counts) ==
    LET diff(block) == IF codec = "nibble" THEN nibbleNext(block) ELSE bandNext(block)
        next(s, k) ==
            LET active == laneValues(LAMBDA lane : IF perThread THEN k <= counts[lane] ELSE (k - 1) * WarpSize + lane < counts)
                d      == diff(blocks[k])
                scan   == inclusiveScanInt(d)
                value  == IF codec = "dummy" THEN dummyNext(blocks[k], active)
                          ELSE laneValues(LAMBDA lane :
                                   IF perThread THEN s.previous[lane] + (IF active[lane] THEN d[lane] ELSE 0)
                                   ELSE shflSync(s.previous, WarpSize - 1) + scan[lane])
            IN  [previous |-> value, values |-> Append(s.values, value)]
    IN  foldl(next, [previous |-> laneValues(LAMBDA lane : -1), values |-> <<>>], [k \in 1 .. Len(blocks) |-> k]).values

\* the list of a lane; the list of the warp
threadList(values, lane, count) == [nb \in 1 .. count |-> values[nb][lane]]
warpList(values, count) == [nb \in 1 .. count |-> values[1 + (nb - 1) \div WarpSize][(nb - 1) % WarpSize]]
=============================================================================
