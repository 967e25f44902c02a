---------------------------- MODULE SnapshotFile ----------------------------
(***************************************************************************)
(* Files with a sequence of steps (snapshots): the writer that all ranks   *)
(* call together, the one for text, and the reader.                        *)
(*                                                                         *)
(* A file has attributes of its own and steps; a step has the number of    *)
(* its particles, attributes, and one column of values per field.  An      *)
(* attribute is a sequence of values of one type.  What a writer or the    *)
(* reader throws is the value err.                                         *)
(***************************************************************************)
EXTENDS Integers, Sequences, FiniteSets, Tabulation

CONSTANT err \* a C++ exception

noAttributes == [key \in {} |-> 0]
newStep(n)   == [n |-> n, attrs |-> noAttributes, data |-> noAttributes]
newFile      == [attrs |-> noAttributes, steps |-> <<>>, lines |-> <<>>, format |-> "h5"]

put(f, key, val) == [k \in DOMAIN f \cup {key} |-> IF k = key THEN val ELSE f[k]]

attribute(type, vals) == [type |-> type, vals |-> vals]

(***************************************************************************)
(* Ranks are 0 .. Cardinality(DOMAIN x) - 1; x[r] is the column of rank r. *)
(***************************************************************************)
numRanksOf(x) == Cardinality(DOMAIN x)
total(counts) == sumOver(LAMBDA r : counts[r], 0, numRanksOf(counts) - 1)
joined(x)     == foldl(LAMBDA s, r : s \o x[r], <<>>, [r \in 1 .. numRanksOf(x) |-> r - 1])

\* the last step of a file, on which the writer works
withStep(file, step) == [file EXCEPT !.steps[Len(file.steps)] = step]
current(file)        == file.steps[Len(file.steps)]

(***************************************************************************)
(* H5PartWriter.  The calls are collective: every rank has particles.      *)
(***************************************************************************)
addStep(file, counts) == [file EXCEPT !.steps = Append(@, newStep(total(counts)))]

\* val[r] is the value of rank r, that of rank 0 is broadcast
stepAttribute(file, key, val) == withStep(file, [current(file) EXCEPT !.attrs = put(@, key, val[0])])

\* every rank writes its view, from the offset that the counts of the ranks before it give
writeField(file, key, x) == withStep(file, [current(file) EXCEPT !.data = put(@, key, joined(x))])

(***************************************************************************)
(* AsciiWriter: columns are collected and written by the ranks in turn,    *)
(* the first of which truncates the file of this iteration.  Attributes    *)
(* other than the iteration are dropped, the result is never read back.    *)
(***************************************************************************)
\* (mutant) the columns stay in the order in which they were handed over
sortedColumns_none(columns) == columns

sortedColumns(columns) ==
    LET n == Len(columns)
        place(i) == Cardinality({j \in 1 .. n : columns[j].col < columns[i].col \/ (columns[j].col = columns[i].col /\ j < i)})
    IN  [k \in 1 .. n |-> columns[CHOOSE i \in 1 .. n : place(i) = k - 1]]

\* the lines of a text file, one per particle
writeAscii(columns, rank) ==
    [i \in 1 .. Len(columns[1].x[rank]) |-> [c \in 1 .. Len(columns) |-> columns[c].x[rank][i]]]

asciiCloseStep(columns) ==
    LET sorted == sortedColumns(columns)
    IN  joined([r \in DOMAIN columns[1].x |-> writeAscii(sorted, r)])

(***************************************************************************)
(* H5PartReader                                                            *)
(***************************************************************************)
\* first and last index of the particles that a rank reads
readRange(R, i, N) ==
    LET s == R \div N
        r == R % N
        start == IF i < r THEN (s + 1) * i ELSE (s + 1) * r + s * (i - r)
    IN  <<start, start + s + (IF i < r THEN 1 ELSE 0)>>

\* the file after setStep: it is opened for writing, so that a step behind the last one is created
opened(file, step) == IF Len(file.steps) > 0 /\ step = Len(file.steps) THEN addStep(file, [r \in {0} |-> 0]) ELSE file

\* 1-based number of the step, the last one if it is negative
stepIndex(file, step) == IF step < 0 THEN Len(file.steps) ELSE step + 1

setStep(file, step) == IF file.steps = <<>> THEN newStep(0) ELSE file.steps[stepIndex(file, step)]

(***************************************************************************)
(* readAttribute_typesafe: the type of an attribute is float32, float64,   *)
(* int32, uint32, int64 or uint64; it can be read as the type into which   *)
(* C++ converts both, or between floating types.                           *)
(***************************************************************************)
Floating == {"float32", "float64"}
width(type) == IF type \in {"int64", "uint64"} THEN 64 ELSE 32
unsigned(type) == type \in {"uint32", "uint64"}

common_type(a, b) ==
    CASE "float64" \in {a, b} -> "float64"
      [] "float32" \in {a, b} -> "float32"
      [] OTHER -> IF width(a) > width(b) \/ (width(a) = width(b) /\ unsigned(a)) THEN a ELSE b

canRead(stored, wanted) ==
    \/ stored = wanted
    \/ stored \in Floating /\ wanted \in Floating
    \/ common_type(stored, wanted) = wanted

readAttribute_typesafe(attr, wanted, size) ==
    IF Len(attr.vals) = size /\ canRead(attr.type, wanted) THEN attr.vals ELSE err

\* stepAttributeIndex and fileAttributeIndex
attributeOf(attrs, key) == IF key \in DOMAIN attrs THEN attrs[key] ELSE err

\* fileAttribute of the reader
readFileAttribute(file, key, wanted, size) ==
    LET attr == attributeOf(file.attrs, key) IN IF attr = err THEN err ELSE readAttribute_typesafe(attr, wanted, size)

\* the part of a column that rank r of numRanks reads, in collective mode
readField(step, key, r, numRanks) ==
    LET range == readRange(step.n, r, numRanks)
    IN  IF key \in DOMAIN step.data THEN SubSeq(step.data[key], range[1] + 1, range[2]) ELSE err
=============================================================================
