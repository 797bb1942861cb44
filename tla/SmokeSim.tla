------------------------------ MODULE SmokeSim ------------------------------
(***************************************************************************)
(* A smoke's simulation as smokeSim does it (step, reach, mergeSorted and   *)
(* advance in internal/parser/smoke_sim.go and smoke_voxels.go): its passes *)
(* visit only the voxels of the list active, which is kept in step with two *)
(* buffers of what the cloud has reached by lists of the voxels reached     *)
(* during a step, by emission and by flow.                                  *)
(*                                                                          *)
(* A list that is sorted before it is read is how often each voxel is in it,*)
(* and merging two such lists is adding them.                               *)
(***************************************************************************)
EXTENDS SmokeCells

VARIABLES
    sim,     \* as in SmokeCells
    active, emitted, woke,  \* the lists
    visits   \* what is left of active to visit in this pass

simVars == <<sim, active, emitted, woke, visits>>

NoneListed == [v \in Voxels |-> 0]
Listed(list) == {v \in Voxels : list[v] > 0}
MergeSorted(into, add) == [v \in Voxels |-> into[v] + add[v]]

\* Wrong: only the buffer that is not marked is looked at.
NewTo(list, set, b) ==
    [v \in Voxels |-> list[v] + IF v \in set /\ v \notin sim.reached[1 - b] THEN 1 ELSE 0]

\* reach, for each voxel of a set: it is listed the first time it is reached in
\* either buffer.
Reach(list, set, b) ==
    [v \in Voxels |-> list[v] + IF v \in set /\ v \notin sim.reached[0] \cup sim.reached[1]
                                THEN 1 ELSE 0]

SimInit ==
    /\ \E log \in Smokes : sim = NewSim(log)
    /\ active = NoneListed /\ emitted = NoneListed /\ woke = NoneListed
    /\ visits = NoneListed

\* advance, for the next frame of the log.
Advance ==
    /\ sim.pass = "rest" /\ sim.step < Len(sim.frames)
    /\ sim' = Began(sim)
    /\ UNCHANGED <<active, emitted, woke, visits>>

\* emit and burst, an emitter at a time.
Emit ==
    /\ sim.pass = "emit" /\ sim.turn <= Len(sim.emitters)
    /\ sim' = EmitterRan(sim)
    /\ emitted' = Reach(emitted, Reaches(sim), sim.cur)
    /\ UNCHANGED <<active, woke, visits>>

BeginFlow ==
    /\ sim.pass = "emit" /\ sim.turn > Len(sim.emitters)
    /\ sim' = [sim EXCEPT !.pass = "flow"]
    /\ active' = MergeSorted(active, emitted)
    /\ visits' = MergeSorted(active, emitted)
    /\ UNCHANGED <<emitted, woke>>

Flow ==
    /\ sim.pass = "flow" /\ Listed(visits) # {}
    /\ LET m == Min(Listed(visits))
       IN  /\ sim' = Flowed(sim, m)
           /\ woke' = Reach(woke, Wakes(sim, m), Other(sim))
           /\ visits' = [visits EXCEPT ![m] = @ - 1]
    /\ UNCHANGED <<active, emitted>>

\* Wrong: as if each pass had marked both buffers.
ReachedByItself == [b \in Buffers |-> sim.reached[b]]

\* Emission marked cur, the flow the other buffer.
ReachedByEither ==
    [b \in Buffers |-> sim.reached[b] \cup Listed(IF b = sim.cur THEN woke ELSE emitted)]

EndStep ==
    /\ sim.pass = "flow" /\ Listed(visits) = {}
    /\ sim' = Stepped(sim, Listed(active), ReachedByEither)
    /\ active' = MergeSorted(active, woke)
    /\ emitted' = NoneListed /\ woke' = NoneListed
    /\ UNCHANGED visits

SimNext == Advance \/ Emit \/ BeginFlow \/ Flow \/ EndStep

SimSpec == SimInit /\ [][SimNext]_simVars

-----------------------------------------------------------------------------
Grid == INSTANCE SmokeGrid WITH toGo <- Listed(visits)

\* "in the order they visited them when they walked the whole grid": the lists
\* make the simulation the game's, voxel by voxel.
WalksTheGrid == Grid!GridSpec

\* After every step the buffers are one, every voxel reached is listed once, no
\* other holds anything, and neither does a wall.
SmokeIsInReach ==
    sim.step > 0 /\ sim.pass = "rest" =>
      /\ sim.reached[0] = sim.reached[1]
      /\ sim.density[0] = sim.density[1] /\ sim.flow[0] = sim.flow[1]
      /\ \A v \in Voxels :
           /\ active[v] = IF v \in sim.reached[0] THEN 1 ELSE 0
           /\ v \notin sim.reached[0] \/ v \in sim.solid => sim.density[0][v] = 0
=============================================================================
