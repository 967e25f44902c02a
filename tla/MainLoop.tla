------------------------------ MODULE MainLoop ------------------------------
(***************************************************************************)
(* The main loop of sphexa with block time-steps: output, the conditions   *)
(* that end the run, and restarts from the last snapshot.                  *)
(*                                                                         *)
(* What triggers an output is an input.  Every rank reads its own clock to *)
(* find out about the wall-clock limit.                                    *)
(***************************************************************************)
EXTENDS BlockTimesteps

CONSTANTS
    MaxSteps,     \* maxStepStr: last iteration
    MaxIteration, \* bound: iterations beyond it are not told apart
    MaxCrashes,   \* bound: number of crashes
    ClockSkew     \* the clocks of the ranks may differ

ASSUME LoopAssumption ==
    MaxSteps \in Nat \ {0} /\ MaxIteration \in Nat

VARIABLES
    iteration,         \* d.iteration
    startIteration,
    isOutputTriggered,
    keepRunning,
    file,              \* the last step of the output file
    crashes            \* number of crashes so far (history variable)

lvars == <<iteration, startIteration, isOutputTriggered, keepRunning, file, crashes>>

vars == <<bvars, lvars>>

\* an output file without steps
NoFile == [iteration |-> 0]

\* a start from initial conditions
LoopInit ==
    /\ BlockInit
    /\ iteration = 1 /\ startIteration = 1
    /\ isOutputTriggered = FALSE
    /\ keepRunning = TRUE
    /\ file = NoFile
    /\ crashes = 0

-----------------------------------------------------------------------------
(* An iteration *)

Forces ==
    /\ phase = "forces"
    /\ \E lim \in KernelLimits : ComputeForces(lim)
    /\ UNCHANGED lvars

stopConditionReached == iteration >= MaxSteps

\* What the clock of a rank says: within one time-step of the limit, and beyond it
Clock == {c \in [near : BOOLEAN, over : BOOLEAN] : c.over => c.near}

\* the ranks that are near the limit take part in the reduction of syncedWallClockElapsed
InReduction(clock) == {r \in Rank : clock[r].near}

syncedWallClockElapsed(clock) == \E r \in InReduction(clock) : clock[r].over

\* what is written: attributes, the conserved fields, and the time-steps
Snapshot ==
    [iteration |-> iteration, numRungs |-> ts.numRungs, dt_m1 |-> ts.dt_m1,
     rung |-> rung, drifted |-> drifted, last |-> last, lag |-> lag]

\* (mutant) output is written in any sub-step
WriteOutputNow(triggered) ==
    /\ file' = IF triggered THEN Snapshot ELSE file
    /\ isOutputTriggered' = FALSE

\* a triggered output stays pending until the particles are synchronised
WriteOutput(triggered) ==
    /\ file' = IF triggered /\ IsSynced THEN Snapshot ELSE file
    /\ isOutputTriggered' = (triggered /\ ~IsSynced)

\* (mutant) the run ends without waiting for the end of the hierarchy
ContinueUnlessStopped(wall) == ~(stopConditionReached \/ wall)

ContinueRun(wall) == ~(stopConditionReached \/ wall) \/ ~IsSynced

\* the body of the loop between computeForces and integrate
Decide ==
    \E clock \in [Rank -> Clock], trigger \in BOOLEAN :
        LET wall      == syncedWallClockElapsed(clock)
            triggered == (trigger \/ wall \/ isOutputTriggered) /\ iteration > startIteration
        IN  /\ phase = "loop"
            /\ ClockSkew \/ \A q, r \in Rank : clock[q] = clock[r]
            /\ IF InReduction(clock) \in {{}, Rank}
               THEN /\ WriteOutput(triggered)
                    /\ keepRunning' = ContinueRun(wall)
                    /\ phase' = "rungs"
               ELSE /\ phase' = "stuck"
                    /\ UNCHANGED <<file, isOutputTriggered, keepRunning>>
            /\ UNCHANGED <<ts, prevDt, groupDt, groups, tsGroups, rung, drifted, last, lag, limit,
                           iteration, startIteration, crashes>>

ComputeRungs == (NewHierarchy \/ ResortRungs) /\ UNCHANGED lvars

\* integrate, and the end of the iteration
Integrate ==
    /\ IntegrateRungs
    /\ iteration' = IF iteration < MaxIteration THEN iteration + 1 ELSE iteration
    /\ phase' = IF keepRunning THEN "forces" ELSE "done"
    /\ UNCHANGED <<startIteration, isOutputTriggered, keepRunning, file, crashes>>

-----------------------------------------------------------------------------
(* Crash and restart *)

\* (mutant) the time-steps are not loaded
LoadedDefault == NewTimestep(1, [i \in Rungs |-> IF i = 0 THEN MinDt ELSE 0])

\* load: the members of timestep_ that loadOrStore reads
Loaded == NewTimestep(file.numRungs, file.dt_m1)

\* a crash at any time, and a restart from the last snapshot
Restart ==
    /\ phase # "done" /\ crashes < MaxCrashes /\ file # NoFile
    /\ crashes' = crashes + 1
    /\ ts' = Loaded
    /\ rung' = file.rung /\ drifted' = file.drifted /\ last' = file.last /\ lag' = file.lag
    /\ prevDt' = [i \in Rungs |-> 0]
    /\ groupDt' = [r \in Rank |-> [k \in 1 .. NumGroups(r) |-> FloatMax]]
    /\ groups' = Groups /\ tsGroups' = Groups
    /\ limit' = [p \in Particle |-> FloatMax]
    /\ iteration' = file.iteration /\ startIteration' = file.iteration
    /\ isOutputTriggered' = FALSE /\ keepRunning' = TRUE
    /\ phase' = "forces"
    /\ UNCHANGED file

\* the program has ended
Ended == phase = "done" /\ UNCHANGED vars

LoopNext == Forces \/ Decide \/ ComputeRungs \/ Integrate \/ Restart \/ Ended

LoopSpec == LoopInit /\ [][LoopNext]_vars

-----------------------------------------------------------------------------
(* Properties *)

\* The run ends with the hierarchy of the last iteration: that iteration need not be
\* synchronised, but then the loop ends in the next one that is, also after a restart.  It
\* does not end with an output pending: one that is triggered between two synchronised
\* states is written before the loop ends.
EndsSynchronised ==
    /\ phase \in {"forces", "loop"} => iteration < MaxSteps + 2 ^ (ts.numRungs - 1)
    /\ phase = "done" => ~isOutputTriggered

-----------------------------------------------------------------------------
(* The inductive invariant behind EndsSynchronised *)

\* types, as far as the end of the run depends on them
LoopTypeOK ==
    /\ phase \in {"forces", "loop", "rungs", "integrate", "done", "stuck"}
    /\ iteration \in Nat
    /\ ts.numRungs \in 1 .. MaxNumRungs /\ ts.substep \in Nat
    /\ keepRunning \in BOOLEAN /\ isOutputTriggered \in BOOLEAN

\* beyond the last iteration, a hierarchy that was entered before it is finished, sub-step
\* by sub-step
Overrun == ts.substep > iteration - MaxSteps /\ ts.substep < 2 ^ (ts.numRungs - 1)

\* a snapshot has an iteration of its hierarchy
FileInTime ==
    file # NoFile =>
        /\ file.iteration \in Nat /\ file.numRungs \in 1 .. MaxNumRungs
        /\ file.iteration < MaxSteps + 2 ^ (file.numRungs - 1)

LoopInv ==
    /\ LoopTypeOK
    /\ FileInTime
    /\ phase \in {"forces", "loop"} =>
           /\ iteration < MaxSteps + 2 ^ (ts.numRungs - 1)
           /\ iteration > MaxSteps => ts.substep = 0 \/ ts.substep > iteration - MaxSteps
    /\ phase \in {"rungs", "integrate"} /\ keepRunning =>
           iteration < MaxSteps \/ (Overrun /\ (phase = "rungs" => ~IsSynced))
    /\ phase \in {"rungs", "integrate"} /\ ~keepRunning => ~isOutputTriggered
    /\ phase = "done" => ~isOutputTriggered
=============================================================================
