------------------------------ MODULE WarpScan ------------------------------
(***************************************************************************)
(* Operations of a GPU warp, whose lanes run in lockstep.  A variable of   *)
(* the kernel is a function from lanes to its values; a mask of threads is *)
(* the set of lanes whose bit is set.                                      *)
(***************************************************************************)
EXTENDS Integers, FiniteSets, FiniteSetsExt, SequencesExt, Tabulation

CONSTANT WarpSize

\* a power of two, and eight lanes for the children of a node
ASSUME WarpSizeAssumption == \E k \in 3 .. 6 : WarpSize = 2 ^ k

warpSizeLog2 == CHOOSE k \in 3 .. 6 : WarpSize = 2 ^ k

Lane == 0 .. WarpSize - 1

\* one value per lane
laneValues(op(_)) == tabulated([lane \in Lane |-> op(lane)])

(***************************************************************************)
(* Exchange of values.  Lanes that would read out of the warp keep their   *)
(* own value.                                                              *)
(***************************************************************************)
shflSync(value, srcLane) == value[srcLane % WarpSize]

flipBit(lane, k) == IF (lane \div 2 ^ k) % 2 = 0 THEN lane + 2 ^ k ELSE lane - 2 ^ k

shflXorSync(value, k) == laneValues(LAMBDA lane : value[flipBit(lane, k)])

shflUpSync(value, distance) ==
    laneValues(LAMBDA lane : IF lane >= distance THEN value[lane - distance] ELSE value[lane])

shflDownSync(value, distance) ==
    laneValues(LAMBDA lane : IF lane + distance < WarpSize THEN value[lane + distance] ELSE value[lane])

ballotSync(flag) == {lane \in Lane : flag[lane]}

anySync(flag) == \E lane \in Lane : flag[lane]

(***************************************************************************)
(* Reductions in butterfly order                                           *)
(***************************************************************************)
butterfly(value, op(_, _)) ==
    LET stage(v, k) == LET w == shflXorSync(v, k) IN laneValues(LAMBDA lane : op(v[lane], w[lane]))
    IN  foldl(stage, value, [i \in 1 .. warpSizeLog2 |-> i - 1])

warpMin(value) == butterfly(value, LAMBDA a, b : IF b < a THEN b ELSE a)[0]

warpMax(value) == butterfly(value, LAMBDA a, b : IF b > a THEN b ELSE a)[0]

\* of masks
warpBitwiseOr(value) == butterfly(value, LAMBDA a, b : a \cup b)[0]

(***************************************************************************)
(* Scans                                                                   *)
(***************************************************************************)
doublings == [i \in 1 .. warpSizeLog2 |-> 2 ^ (i - 1)]

inclusiveScanInt(value) ==
    LET stage(v, d) == LET partial == shflUpSync(v, d)
                       IN  laneValues(LAMBDA lane : IF d <= lane THEN v[lane] + partial[lane] ELSE v[lane])
    IN  foldl(stage, value, doublings)

lanemask_lt(lane) == 0 .. lane - 1

lanemask_le(lane) == 0 .. lane

exclusiveScanBool(p) == laneValues(LAMBDA lane : Cardinality(ballotSync(p) \cap lanemask_lt(lane)))

reduceBool(p) == Cardinality(ballotSync(p))

\* sums of the values of distance[lane] lanes before each lane
inclusiveSegscan(value, distance) ==
    LET stage(v, d) == LET partial == shflUpSync(v, d)
                       IN  laneValues(LAMBDA lane : IF d <= distance[lane] THEN v[lane] + partial[lane] ELSE v[lane])
    IN  foldl(stage, value, doublings)

\* negative values -1 - v start a segment with v; the segment that is open at
\* the first lane continues from carryValue
inclusiveSegscanInt(packedValue, carryValue) ==
    LET value  == laneValues(LAMBDA lane : IF packedValue[lane] < 0 THEN -1 - packedValue[lane] ELSE packedValue[lane])
        flags  == {lane \in Lane : packedValue[lane] < 0}
        upTo(lane) == flags \cap lanemask_le(lane)
        distance   == laneValues(LAMBDA lane : IF upTo(lane) = {} THEN lane ELSE lane - Max(upTo(lane)))
        scanned    == inclusiveSegscan(value, distance)
    IN  laneValues(LAMBDA lane : IF upTo(lane) = {} THEN scanned[lane] + carryValue ELSE scanned[lane])

\* values to keep move to the first lanes; others read what the exchange
\* buffer held before
streamCompact(value, keep, exchange) ==
    LET buffer == [lane \in Lane |->
            IF \E l \in ballotSync(keep) : exclusiveScanBool(keep)[l] = lane
            THEN value[CHOOSE l \in ballotSync(keep) : exclusiveScanBool(keep)[l] = lane]
            ELSE exchange[lane]]
    IN  [value |-> tabulated(buffer), numKeep |-> reduceBool(keep)]

\* lane l holds a group of eight; eight lanes get its members
spreadSeg8(val) == laneValues(LAMBDA lane : shflSync(val, lane \div 8) + (lane % 8))
=============================================================================
