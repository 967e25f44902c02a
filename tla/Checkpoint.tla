----------------------------- MODULE Checkpoint -----------------------------
(***************************************************************************)
(* What restarts promise, without ranks, files and columns: a simulation   *)
(* begins with a fresh state, advances, is saved and stops, and whatever   *)
(* is resumed is a state that was saved, as a whole.                       *)
(*                                                                         *)
(* A state is the number of its particles, the set of their rows (a row    *)
(* maps the fields to values), the iteration, the stamp of the last        *)
(* time-step, the lowest viscosity, the settings in force and the state of *)
(* the propagator.  A stamp is the number of a job and of one of its       *)
(* iterations.                                                             *)
(***************************************************************************)
EXTENDS Integers, Sequences, FiniteSets

CONSTANTS
    None,    \* there is no simulation
    constants, \* values without a particle
    reset      \* the value to which the viscosity is reset with switches, and without them

VARIABLES
    state, \* the running simulation
    saved  \* the states that were saved

cvars == <<state, saved>>

\* the particle of a row, and the one a child was split from
particleOf(row) == row["x"][1]
parentOf(p)     == IF Len(p) = 2 THEN p[1] ELSE p

\* every value of the row is one of its particle
Aligned(row, unset) ==
    \A f \in DOMAIN row \ ({"id"} \cup unset) :
        row[f] \in constants \/ (Len(row[f]) = 2 /\ row[f][1] \in {particleOf(row), parentOf(particleOf(row))})

\* a state in which nothing has happened since the start of its job
Fresh(s) ==
    /\ s.iteration <= 1 /\ s.dt[2] = 0
    /\ \E dt \in {s.dt} : \A row \in s.rows : row["x"][2] = dt

\* Every value is known, the rungs of block time-steps from the first iteration on, and belongs to the
\* particle of its row, no particle or id occurs twice, and the differences of the positions are those of
\* the last time-step.
Consistent(s) ==
    \E rows \in {s.rows}, unset \in {IF Fresh(s) THEN {"rung"} ELSE {}}, dt \in {s.dt} :
        /\ Cardinality(rows) = s.n
        /\ \A row \in rows : Aligned(row, unset) /\ row["x_m1"][2] = dt
        /\ \A a, b \in rows : a # b =>
             particleOf(a) # particleOf(b) /\ ("id" \in DOMAIN a => a["id"] # b["id"])

CInit == state = None /\ saved = {}

\* a test case, a split or a displaced snapshot
Begin ==
    /\ state = None /\ state' # None
    /\ Fresh(state') /\ Consistent(state')
    /\ UNCHANGED saved

\* the viscosity of a resumed particle
viscosity(alpha, alphamin, av) ==
    IF ~av THEN reset[FALSE] ELSE IF alphamin = reset[FALSE] THEN reset[TRUE] ELSE alpha

Resumed(s, av) ==
    [s EXCEPT !.alphamin = reset[av],
              !.rows = {[f \in DOMAIN row |-> IF f = "alpha" THEN viscosity(row[f], s.alphamin, av) ELSE row[f]] : row \in @}]

Resume ==
    /\ state = None
    /\ \E s \in saved, av \in BOOLEAN : state' = Resumed(s, av)
    /\ UNCHANGED saved

\* the particles and their ids stay, their fields are computed anew
Advance ==
    /\ state # None /\ state' # None
    /\ Consistent(state')
    /\ state'.iteration \in {state.iteration, state.iteration + 1}
    /\ {particleOf(row) : row \in state'.rows} = {particleOf(row) : row \in state.rows}
    /\ \E before \in {state.rows}, after \in {state'.rows} : \A a \in before, b \in after :
         particleOf(a) = particleOf(b) => \A f \in DOMAIN a \cap {"id", "m"} : a[f] = b[f]
    /\ state'.hydro = state.hydro /\ state'.magneto = state.magneto
    /\ UNCHANGED saved

Save == state # None /\ saved' = saved \cup {state} /\ UNCHANGED state

Stop == state # None /\ state' = None /\ UNCHANGED saved

CNext == Begin \/ Resume \/ Advance \/ Save \/ Stop

CSpec == CInit /\ [][CNext]_cvars
=============================================================================
