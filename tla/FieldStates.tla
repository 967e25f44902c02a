---------------------------- MODULE FieldStates ----------------------------
(***************************************************************************)
(* cstone::FieldStates, the bookkeeping of the particle arrays of a data   *)
(* set.  A propagator declares its fields conserved or dependent, resize   *)
(* allocates them, and release and acquire hand the memory of a dependent  *)
(* field on to an unused one of the same type.                             *)
(*                                                                         *)
(* Memory is modelled by one buffer per field: data[f] is the buffer that  *)
(* the vector of field f holds now, and acquire swaps two vectors.         *)
(***************************************************************************)
EXTENDS Naturals, Sequences

CONSTANTS
    FieldNames,   \* names of the fields, in the order of data()
    Type,         \* Type[f]: element type of the vector of field f
    MaxSize       \* bound: number of particles of a rank

\* the fields of the data set
Field == {FieldNames[i] : i \in DOMAIN FieldNames}

ASSUME FieldAssumption ==
    /\ DOMAIN FieldNames = 1 .. Len(FieldNames)
    /\ \A i, j \in DOMAIN FieldNames : FieldNames[i] = FieldNames[j] => i = j
    /\ MaxSize \in Nat

VARIABLES
    fieldStates,   \* fieldStates_
    data,          \* data[f]: the buffer held by the vector of field f
    size,          \* size[b]: number of elements of buffer b
    content,       \* content[b]: the values in buffer b
    numPart        \* argument of the last resize (history variable)

fvars == <<fieldStates, data, size, content, numPart>>

\* values that were not computed for any field
None == "none"

\* enum class State
State == {"unused", "conserved", "dependent", "released"}

\* the field has a vector of the size of the data set
isAllocated(f) == fieldStates[f] # "unused"

isConserved(f) == fieldStates[f] = "conserved"

\* the fields whose memory acquireOne may hand to f
Suitable(f) == {g \in Field : fieldStates[g] = "released" /\ Type[g] = Type[f]}

\* (mutant) any field in use is taken, released or not
FirstSuitableAny(f, g) ==
    \E i \in DOMAIN FieldNames :
        /\ FieldNames[i] = g /\ g # f
        /\ fieldStates[g] # "unused" /\ Type[g] = Type[f]

\* g is the first suitable field in the order of data()
FirstSuitable(f, g) ==
    \E i \in DOMAIN FieldNames :
        /\ FieldNames[i] = g /\ g \in Suitable(f)
        /\ \A j \in DOMAIN FieldNames : j < i => FieldNames[j] \notin Suitable(f)

-----------------------------------------------------------------------------

\* no field is in use before activateFields
FieldInit ==
    /\ fieldStates = [f \in Field |-> "unused"]
    /\ data = [f \in Field |-> f]
    /\ size = [b \in Field |-> 0]
    /\ content = [b \in Field |-> None]
    /\ numPart = 0

\* setConserved and setDependent, called by activateFields before any allocation
SetState(f, s) ==
    /\ numPart = 0
    /\ fieldStates' = [fieldStates EXCEPT ![f] = s]
    /\ UNCHANGED <<data, size, content, numPart>>

\* releaseOne; it throws if the field is not dependent
Release(f) ==
    /\ fieldStates[f] = "dependent"
    /\ fieldStates' = [fieldStates EXCEPT ![f] = "released"]
    /\ UNCHANGED <<data, size, content, numPart>>

\* (mutant) the provider of the memory stays released
AcquireTwice(f, g) ==
    /\ fieldStates[f] = "unused"
    /\ FirstSuitable(f, g)
    /\ fieldStates' = [fieldStates EXCEPT ![f] = "dependent"]
    /\ data' = [data EXCEPT ![g] = data[f], ![f] = data[g]]
    /\ UNCHANGED <<size, content, numPart>>

\* acquireOne takes the memory of the first suitable field; it throws if there is none
Acquire(f, g) ==
    /\ fieldStates[f] = "unused"
    /\ FirstSuitable(f, g)
    /\ fieldStates' = [fieldStates EXCEPT ![g] = "unused", ![f] = "dependent"]
    /\ data' = [data EXCEPT ![g] = data[f], ![f] = data[g]]
    /\ UNCHANGED <<size, content, numPart>>

\* the fields whose memory resize(n) may free before it allocates: allocated, not conserved,
\* and of a capacity, which is at least the size, below n
Droppable(n) == {f \in Field : isAllocated(f) /\ ~isConserved(f) /\ size[data[f]] < n}

\* resize of the data set to n particles, with halos; the contents of the fields in drop
\* are lost
Resize(n, drop) ==
    /\ drop \subseteq Droppable(n)
    /\ size' = [b \in Field |-> IF \E f \in Field : data[f] = b /\ isAllocated(f) THEN n ELSE size[b]]
    /\ content' = [b \in Field |-> IF \E f \in drop : data[f] = b THEN None ELSE content[b]]
    /\ numPart' = n
    /\ UNCHANGED <<fieldStates, data>>

\* a kernel computes field f
Compute(f) ==
    /\ isAllocated(f)
    /\ numPart > 0
    /\ content' = [content EXCEPT ![data[f]] = f]
    /\ UNCHANGED <<fieldStates, data, size, numPart>>

FieldNext ==
    \/ \E f \in Field, s \in {"conserved", "dependent"} : SetState(f, s)
    \/ \E f \in Field : Release(f) \/ Compute(f)
    \/ \E f, g \in Field : Acquire(f, g)
    \/ \E n \in 1 .. MaxSize : \E drop \in SUBSET Field : Resize(n, drop)

FieldSpec == FieldInit /\ [][FieldNext]_fvars

-----------------------------------------------------------------------------

\* Types of the variables
FieldTypeOK ==
    /\ fieldStates \in [Field -> State]
    /\ data \in [Field -> Field]
    /\ size \in [Field -> Nat]
    /\ content \in [Field -> Field \cup {None}]
    /\ numPart \in Nat

\* releases and acquires only permute the vectors among the fields of one type
VectorsPermuted ==
    /\ \A f, g \in Field : data[f] = data[g] => f = g
    /\ \A f \in Field : Type[data[f]] = Type[f]

\* What the comment on the fields of ParticlesData says: the length of an array is the
\* number of particles with halos if the field is active and zero if it is inactive.
\* acquire keeps this up without allocating anything.
ActiveFieldsSized ==
    numPart > 0 =>
        \A f \in Field : size[data[f]] = IF isAllocated(f) THEN numPart ELSE 0

\* Conserved fields are preserved: once the data set is allocated they stay conserved and
\* keep their values, whatever is released, acquired and resized.
ConservedKept ==
    [][numPart > 0 => \A f \in Field :
          isConserved(f) /\ content[data[f]] = f => isConserved(f)' /\ content'[data'[f]] = f]_fvars

\* The inductive invariant behind the properties above
FieldInv ==
    /\ FieldTypeOK
    /\ VectorsPermuted
    /\ \A f \in Field : size[data[f]] = IF isAllocated(f) THEN numPart ELSE 0
=============================================================================
