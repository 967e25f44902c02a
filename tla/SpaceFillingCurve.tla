------------------------- MODULE SpaceFillingCurve -------------------------
(***************************************************************************)
(* Space-filling curve keys: the arithmetic of octal keys, of node         *)
(* prefixes with a placeholder bit, and the Morton and Hilbert curves.     *)
(*                                                                         *)
(* A key has MaxLevel octal digits.  The 32-bit keys of the code have 10   *)
(* and the 64-bit keys 21; nothing below depends on the number.  Bit       *)
(* operations are written as integer arithmetic.                           *)
(***************************************************************************)
EXTENDS Integers, Sequences, FiniteSets, FiniteSetsExt, SequencesExt, Tabulation

CONSTANT MaxLevel \* maxTreeLevel<KeyType>

ASSUME MaxLevelAssumption == MaxLevel \in Nat \ {0}

KeyBits  == 3 * MaxLevel
maxCoord == 2 ^ MaxLevel

nodeRange(level) == 8 ^ (MaxLevel - level)

Key       == 0 .. nodeRange(0) - 1
RemoveKey == nodeRange(0)

\* countLeadingZeros(n) - unusedBits: -1 for nodeRange(0), KeyBits for 0
leadingZeros(n) == Cardinality({k \in 0 .. KeyBits : n < 2 ^ k}) - 1

trailingZeros(n) == Cardinality({k \in 1 .. KeyBits : n % 2 ^ k = 0})

log8ceil(n) == IF n = 0 THEN 0 ELSE MaxLevel - leadingZeros(n - 1) \div 3

isPowerOf8(n) == \E level \in 0 .. MaxLevel : n = nodeRange(level)

\* the number of leading bits two keys have in common
commonPrefix(a, b) == Cardinality({k \in 0 .. KeyBits : a \div 2 ^ k = b \div 2 ^ k}) - 1

treeLevel(codeRange) == leadingZeros(codeRange - 1) \div 3

octalDigit(code, position) == (code \div nodeRange(position)) % 8

(***************************************************************************)
(* Node prefixes: a bit in front of the digits marks how many there are.   *)
(***************************************************************************)
encodePlaceholderBit(code, prefixLength) == 2 ^ prefixLength + code \div 2 ^ (KeyBits - prefixLength)

decodePrefixLength(code) == KeyBits - leadingZeros(code) - 1

decodePlaceholderBit(code) ==
    LET n == decodePrefixLength(code) IN (code - 2 ^ n) * 2 ^ (KeyBits - n)

\* first key of the node and first key behind it
decodePlaceholderBit2K(code) ==
    LET k1 == decodePlaceholderBit(code) IN <<k1, k1 + 2 ^ (KeyBits - decodePrefixLength(code))>>

prefixLevel(code) == decodePrefixLength(code) \div 3

isAncestor(a, b) ==
    LET alen == decodePrefixLength(a)
        blen == decodePrefixLength(b)
        aPad == a * 2 ^ Max({0, blen - alen})
        bits == commonPrefix(aPad, b)
    IN  bits >= 1 + leadingZeros(b) + Max({0, alen - 3})

\* keys outside of [0, nodeRange(0)] mark keys that a peer does not have
maskKey(key)   == IF key \in {0, nodeRange(0)} THEN key ELSE key + nodeRange(0)
unmaskKey(key) == IF key = nodeRange(0) THEN key ELSE key % nodeRange(0)
isMasked(key)  == key > nodeRange(0)

digitWeight(digit) == IF digit >= 4 THEN 7 - digit ELSE -digit

enclosingBoxCode(key, level) == key - (key % nodeRange(level))

smallestCommonBox(firstKey, secondKey) ==
    LET level == commonPrefix(firstKey, secondKey) \div 3
        start == enclosingBoxCode(firstKey, level)
    IN  <<start, start + nodeRange(level)>>

zeroLowBits(code, nBits) == code - (code % 2 ^ (KeyBits - nBits))

lastNzPlace(x) == IF x = 0 THEN MaxLevel ELSE MaxLevel - trailingZeros(x) \div 3

makePrefix(a) == IF a = 0 THEN 1 ELSE encodePlaceholderBit(a, 3 * lastNzPlace(a))

octalPower(pos) == nodeRange(pos)

\* the first octal digit in which two keys differ
firstDiffPlace(a, b) == (commonPrefix(a, b) + 3) \div 3

(***************************************************************************)
(* spanSfcRange(a, b): start keys of the nodes that cover [a:b).  The      *)
(* digits of a are rounded up to the first one in which a and b differ,    *)
(* then those of b are counted up to.  The counting overload is Len of it. *)
(***************************************************************************)
spanSfcRange(a, b) ==
    LET first == firstDiffPlace(a, b)
        put(s, d, pos) == [out |-> s.out \o [i \in 1 .. d |-> s.a + (i - 1) * octalPower(pos)],
                           a   |-> s.a + d * octalPower(pos)]
        up(s, pos)   == put(s, (8 - octalDigit(s.a, pos)) % 8, pos)
        down(s, pos) == put(s, octalDigit(b, pos) - octalDigit(s.a, pos), pos)
        climbed == foldl(up, [out |-> <<>>, a |-> a],
                            [i \in 1 .. Max({0, lastNzPlace(a) - first}) |-> lastNzPlace(a) + 1 - i])
    IN  foldl(down, climbed, [i \in 1 .. Max({0, lastNzPlace(b) - first + 1}) |-> first - 1 + i]).out

(***************************************************************************)
(* Curves                                                                  *)
(***************************************************************************)
bit(n, level) == (n \div 2 ^ level) % 2

\* the two least significant bits of every digit left free
expandBits(v)  == sumOver(LAMBDA level : bit(v, level) * 8 ^ level, 0, MaxLevel - 1)
compactBits(v) == sumOver(LAMBDA level : ((v \div 8 ^ level) % 2) * 2 ^ level, 0, MaxLevel - 1)

iMorton(ix, iy, iz) == expandBits(ix) * 4 + expandBits(iy) * 2 + expandBits(iz)

decodeMorton(code) == <<compactBits(code \div 4), compactBits(code \div 2), compactBits(code)>>

mortonToHilbert == <<0, 1, 3, 2, 7, 6, 4, 5>>

\* x ^ -flag, of which the lowest bits are used
flip(x, bits, flag) == IF flag THEN 2 ^ bits - 1 - (x % 2 ^ bits) ELSE x

\* one octal digit of the curve, from the most significant one
hilbertDigit(s, level) ==
    LET xi == bit(s.p[1], level) = 1
        yi == bit(s.p[2], level) = 1
        zi == bit(s.p[3], level) = 1
        octant == 4 * bit(s.p[1], level) + 2 * bit(s.p[2], level) + bit(s.p[3], level)
        px == flip(s.p[1], MaxLevel, xi /\ (~yi \/ zi))
        py == flip(s.p[2], MaxLevel, (xi /\ (yi \/ zi)) \/ (yi /\ ~zi))
        pz == flip(s.p[3], MaxLevel, (xi /\ ~yi /\ ~zi) \/ (yi /\ ~zi))
    IN  [key |-> s.key * 8 + mortonToHilbert[octant + 1],
         p   |-> IF zi THEN <<py, pz, px>> ELSE IF ~yi THEN <<pz, py, px>> ELSE <<px, py, pz>>]

iHilbert(px, py, pz) ==
    foldl(hilbertDigit, [key |-> 0, p |-> <<px, py, pz>>], [i \in 1 .. MaxLevel |-> MaxLevel - i]).key

\* one octal digit of the key, from the least significant one
decodeDigit(key, p, level) ==
    LET octant == (key \div 8 ^ level) % 8
        xb == octant \div 4
        yb == (octant \div 2) % 2
        zb == octant % 2
        xi == xb = 1
        yi == yb = 1
        zi == zb = 1
        q  == IF yi # zi THEN <<p[3], p[1], p[2]>>
              ELSE IF (~xi /\ ~yi /\ ~zi) \/ (xi /\ yi /\ zi) THEN <<p[3], p[2], p[1]>>
              ELSE p
    IN  <<flip(q[1], level, xi /\ (yi \/ zi)) + xb * 2 ^ level,
          flip(q[2], level, (xi /\ (~yi \/ ~zi)) \/ (~xi /\ yi /\ zi)) + ((xb + yb) % 2) * 2 ^ level,
          flip(q[3], level, (xi /\ ~yi /\ ~zi) \/ (yi /\ zi)) + ((yb + zb) % 2) * 2 ^ level>>

decodeHilbert(key) ==
    LET step(p, level) == decodeDigit(key, p, level)
    IN  foldl(step, <<0, 0, 0>>, [i \in 1 .. MaxLevel |-> i - 1])
=============================================================================
