------------------------------ MODULE SmokeGrid ------------------------------
(***************************************************************************)
(* What a smoke's simulation promises to compute: the game's own, whose     *)
(* passes walk the whole grid in the order of the Morton codes and visit    *)
(* every voxel that the cloud had reached when the walk began (the comments *)
(* of internal/parser/smoke_sim.go on step, active and the flow).           *)
(***************************************************************************)
EXTENDS SmokeCells

VARIABLES
    sim,   \* as in SmokeCells
    toGo   \* the voxels the walk has still to visit

gridVars == <<sim, toGo>>

GridInit == /\ \E log \in Smokes : sim = NewSim(log)
            /\ toGo = {}

GridBegin ==
    /\ sim.pass = "rest" /\ sim.step < Len(sim.frames)
    /\ sim' = Began(sim) /\ UNCHANGED toGo

GridEmit ==
    /\ sim.pass = "emit" /\ sim.turn <= Len(sim.emitters)
    /\ sim' = EmitterRan(sim) /\ UNCHANGED toGo

GridWalk ==
    /\ sim.pass = "emit" /\ sim.turn > Len(sim.emitters)
    /\ sim' = [sim EXCEPT !.pass = "flow"]
    /\ toGo' = sim.reached[sim.cur]

GridVisit ==
    /\ sim.pass = "flow" /\ toGo # {}
    /\ sim' = Flowed(sim, Min(toGo))
    /\ toGo' = toGo \ {Min(toGo)}

\* Everything is copied, and both buffers have reached what either had.
GridEnd ==
    /\ sim.pass = "flow" /\ toGo = {}
    /\ sim' = Stepped(sim, Voxels, [b \in Buffers |-> sim.reached[0] \cup sim.reached[1]])
    /\ UNCHANGED toGo

GridNext == GridBegin \/ GridEmit \/ GridWalk \/ GridVisit \/ GridEnd

GridSpec == GridInit /\ [][GridNext]_gridVars
=============================================================================
