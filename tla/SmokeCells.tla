----------------------------- MODULE SmokeCells -----------------------------
(***************************************************************************)
(* What one emitter and one voxel do in a step of a smoke's simulation      *)
(* (burst, emit, around and flow in internal/parser/smoke_sim.go), as       *)
(* operators on a record of the simulation:                                 *)
(*   solid, frames    the walls, and what each frame of the log said        *)
(*   step, emitters   the steps taken, and the emitters of the last frame   *)
(*                    that had any: [at, hold], hold in hundredths          *)
(*   pass, turn, most rest, emit or flow; the next emitter; what an emitter *)
(*                    may hold                                              *)
(*   cur              the buffer a step reads                               *)
(*   reached, density, flow   by buffer                                     *)
(* Which voxels a step visits is what SmokeGrid and SmokeSim differ in.     *)
(*                                                                          *)
(* Densities are whole tenths, rounded down, where the code has float32. A  *)
(* flow is the gradient its unit vector points along; as both are only      *)
(* compared with 0.2, which they are by their squares, nothing is lost.     *)
(***************************************************************************)
EXTENDS Integers, Sequences, FiniteSets, SequencesExt

CONSTANTS
    GridDim,      \* voxelGridDim
    EmitRate, BurstRate, FullDensity, WakeDensity, Loss,  \* in tenths
    NearEmitter,  \* simNearEmitter in half edges, squared
    EmitterSlots, \* simEmitterSlot
    Smokes        \* [solid, frames]: what logs say

Coordinates == 0 .. GridDim - 1
Voxels  == 0 .. GridDim * GridDim * GridDim - 1  \* by their Morton codes
Buffers == {0, 1}
NoFlow  == <<0, 0>>

ASSUME SmokeAssumption ==
    /\ {GridDim, EmitRate, BurstRate, FullDensity, EmitterSlots} \subseteq Nat \ {0}
    /\ {WakeDensity, Loss, NearEmitter} \subseteq Nat

\* An emitter may be out of the grid.
Emitters == [at : Int \X Int \X Int, hold : Int]

ASSUME LogsAssumption ==
    Smokes \subseteq [solid : SUBSET Voxels, frames : Seq(Seq(Emitters))]

\* simPullBelow, simPullAbove, simPullToward, simPullAside, simEdgeKeep,
\* simReached and simEmitterOn in hundredths, simEarlyBoost in tenths.
PullBelow == 79   PullAbove == 120   PullToward == 125   PullAside == 90
EdgeKeep  == 30   ReachedSum == 120  EmitterOn == 1      EarlyBoost == 35

\* simSix.
Six == << <<-1, 0, 0>>, <<1, 0, 0>>, <<0, -1, 0>>, <<0, 1, 0>>, <<0, 0, -1>>, <<0, 0, 1>> >>

\* interleave3 and deinterleave3: a code has the bits of the three coordinates
\* in turn, those of the first lowest.
Spread[n \in Nat] == IF n = 0 THEN 0 ELSE (n % 2) + 8 * Spread[n \div 2]
Lane[m \in Nat]   == IF m = 0 THEN 0 ELSE (m % 2) + 2 * Lane[m \div 8]

InGrid(at)        == \A a \in 1 .. 3 : at[a] \in Coordinates
Interleave3(at)  == Spread[at[1]] + 2 * Spread[at[2]] + 4 * Spread[at[3]]
Deinterleave3(m) == <<Lane[m], Lane[m \div 2], Lane[m \div 4]>>

ASSUME MortonAssumption ==
    \A x, y, z \in Coordinates : Interleave3(<<x, y, z>>) \in Voxels

Shifted(at, d) == <<at[1] + d[1], at[2] + d[2], at[3] + d[3]>>

Beside(m, k)  == Interleave3(Shifted(Deinterleave3(m), Six[k]))
HasSide(m, k) == InGrid(Shifted(Deinterleave3(m), Six[k]))

\* simAround.
Around(at) ==
    LET D == -1 .. 1
    IN  {Interleave3(Shifted(at, d)) :
            d \in {e \in D \X D \X D : e # <<0, 0, 0>> /\ InGrid(Shifted(at, e))}}

Other(sim) == 1 - sim.cur

\* Within 0 .. FullDensity.
Unit(d) == IF d < 0 THEN 0 ELSE IF d > FullDensity THEN FullDensity ELSE d

NotBelow0(d) == IF d < 0 THEN 0 ELSE d

NewSim(log) ==
    [solid |-> log.solid, frames |-> log.frames,
     step |-> 0, emitters |-> <<>>, pass |-> "rest", turn |-> 1, most |-> 0, cur |-> 0,
     reached |-> [b \in Buffers |-> {}],
     density |-> [b \in Buffers |-> [v \in Voxels |-> 0]],
     flow    |-> [b \in Buffers |-> [v \in Voxels |-> NoFlow]]]

-----------------------------------------------------------------------------
(* Emission.                                                                 *)

\* How much an emitter may hold: more the fewer of them are running.
Most(emitters) ==
    LET on == Cardinality({i \in DOMAIN emitters : emitters[i].hold < EmitterOn})
        boosted == ((EmitterSlots - on) * EarlyBoost * FullDensity) \div (10 * EmitterSlots)
    IN  IF boosted <= FullDensity THEN FullDensity ELSE boosted

\* advance and the head of emit: a frame's emitters, if it had any, replace
\* those of the one before.
Began(sim) ==
    LET said == sim.frames[sim.step + 1]
        emitters == IF said = <<>> THEN sim.emitters ELSE said
    IN  [sim EXCEPT !.emitters = emitters, !.pass = "emit", !.turn = 1, !.most = Most(emitters)]

\* What the emitter whose turn it is reaches: in a burst everything open around
\* it too; nothing if it is not in the grid.
Fresh(sim) ==
    LET at == sim.emitters[sim.turn].at
    IN  {v \in Around(at) : v \notin sim.reached[sim.cur] /\ v \notin sim.solid}

Reaches(sim) ==
    LET at == sim.emitters[sim.turn].at
    IN  IF ~InGrid(at) THEN {}
        ELSE IF sim.step = 0 THEN Fresh(sim) \cup {Interleave3(at)} ELSE {Interleave3(at)}

\* burst, for one emitter: what it reaches is half filled, in both buffers.
Burst(sim) ==
    LET filled == Reaches(sim) \cap Fresh(sim)
        fill(b) == [v \in Voxels |-> IF v \in filled THEN BurstRate + sim.density[sim.cur][v]
                                     ELSE sim.density[b][v]]
    IN  [sim EXCEPT !.density = [b \in Buffers |-> fill(b)]]

\* around: how full the six neighbours are, in hundredths each.
FullnessAround(sim, at) ==
    LET m == Interleave3(at)
        full(k) == IF HasSide(m, k) /\ Beside(m, k) \in sim.reached[sim.cur]
                   THEN (Unit(sim.density[sim.cur][Beside(m, k)]) * 100) \div FullDensity ELSE 0
    IN  full(1) + full(2) + full(3) + full(4) + full(5) + full(6)

\* How far the emitter is from the middle of the grid, in half edges, squared.
FromMiddle(at) ==
    LET d(a) == 2 * (at[a] - GridDim \div 2) + 1 IN d(1) * d(1) + d(2) * d(2) + d(3) * d(3)

\* The hold of an emitter after its turn, and the share of its rate it gives.
\* One that is far from the middle waits for the cloud.
HoldAndShare(sim, e) ==
    LET eased == (e.hold * 8) \div 10
    IN  IF FromMiddle(e.at) <= NearEmitter THEN <<eased, 100 - eased>>
        ELSE IF FullnessAround(sim, e.at) <= ReachedSum THEN <<100, 0>>
        ELSE IF e.hold <= 0 THEN <<e.hold, 100 - e.hold>>
        ELSE <<eased, 100 - eased>>

\* emit, for one emitter: its voxel is the same in both buffers after it.
Emission(sim) ==
    LET e == sim.emitters[sim.turn]
        m == Interleave3(e.at)
        given == HoldAndShare(sim, e)
        full == (given[2] * EmitRate) \div 100 + sim.density[sim.cur][m]
        capped == IF full > sim.most THEN sim.most ELSE full
    IN  IF ~InGrid(e.at) THEN sim
        ELSE [sim EXCEPT !.emitters[sim.turn].hold = given[1],
                         !.density = [b \in Buffers |-> [@[b] EXCEPT ![m] = capped]],
                         !.flow[Other(sim)][m] = sim.flow[sim.cur][m]]

\* One emitter's turn.
EmitterRan(sim) ==
    LET given == IF sim.step = 0 THEN Burst(sim) ELSE Emission(sim)
    IN  [given EXCEPT !.reached[sim.cur] = @ \cup Reaches(sim), !.turn = @ + 1]

-----------------------------------------------------------------------------
(* Flow.                                                                     *)

\* The sides of a voxel that density can pass.
OpenSides(sim, m) == {k \in 1 .. 6 : HasSide(m, k) /\ Beside(m, k) \notin sim.solid}

\* Whether density moves from the side's voxel towards the one beside it.
Towards(k, f) ==
    LET along == -(Six[k][1] * f[1] + Six[k][2] * f[2])
    IN  along > 0 /\ 25 * along * along > f[1] * f[1] + f[2] * f[2]

Pull(k, f) ==
    IF k = 5 THEN PullBelow ELSE IF k = 6 THEN PullAbove
    ELSE IF Towards(k, f) THEN PullToward ELSE PullAside

\* What a voxel takes from the one at its side, as that was before the step.
Take(sim, m, k) ==
    LET n == Beside(m, k)
        room == FullDensity - Unit(sim.density[Other(sim)][m])
    IN  IF k \in OpenSides(sim, m)
        THEN (room * Pull(k, sim.flow[sim.cur][n]) * sim.density[sim.cur][n]) \div (600 * FullDensity)
        ELSE 0

Taken(sim, m) == Take(sim, m, 1) + Take(sim, m, 2) + Take(sim, m, 3)
                 + Take(sim, m, 4) + Take(sim, m, 5) + Take(sim, m, 6)

AtEdge(m) == \E a \in 1 .. 3 : Deinterleave3(m)[a] \in {0, GridDim - 1}

\* From the fuller side to the emptier, along any wall.
Gradient(sim, m) ==
    LET side(k) == sim.density[sim.cur][Beside(m, k)]
        across(k) == IF {k, k + 1} \subseteq OpenSides(sim, m) THEN side(k) - side(k + 1) ELSE 0
    IN  <<across(1), across(3)>>

\* The neighbours a voxel wakes.
Wakes(sim, m) ==
    IF m \in sim.solid \/ sim.density[sim.cur][m] <= WakeDensity THEN {}
    ELSE {Beside(m, k) : k \in OpenSides(sim, m)} \ sim.reached[sim.cur]

\* flow: each voxel's intake depends on what earlier ones took.
Kept(sim, m) ==
    LET d == sim.density[Other(sim)][m]
    IN  IF m \in sim.solid THEN 0
        ELSE IF AtEdge(m) THEN (d * EdgeKeep) \div 100
        ELSE NotBelow0(d + Taken(sim, m) - Loss)

LeftBeside(sim, m, v) ==
    LET k == CHOOSE i \in OpenSides(sim, m) : Beside(m, i) = v
    IN  NotBelow0(sim.density[Other(sim)][v] - Take(sim, m, k))

Flowed(sim, m) ==
    LET sides == IF m \in sim.solid THEN {} ELSE {Beside(m, k) : k \in OpenSides(sim, m)}
    IN  [sim EXCEPT
           !.density[Other(sim)] = [v \in Voxels |-> IF v = m THEN Kept(sim, m)
                                                     ELSE IF v \in sides THEN LeftBeside(sim, m, v)
                                                     ELSE @[v]],
           !.flow[Other(sim)][m] = IF m \in sim.solid \/ AtEdge(m) THEN @ ELSE Gradient(sim, m),
           !.reached[Other(sim)] = @ \cup Wakes(sim, m)]

\* The end of a step: a set of voxels is copied back, and each buffer has
\* reached a set of voxels.
Stepped(sim, copied, reached) ==
    [sim EXCEPT
       !.density[sim.cur] = [v \in Voxels |-> IF v \in copied THEN sim.density[Other(sim)][v] ELSE @[v]],
       !.flow[sim.cur] = [v \in Voxels |-> IF v \in copied THEN sim.flow[Other(sim)][v] ELSE @[v]],
       !.reached = reached,
       !.cur = Other(sim), !.step = @ + 1, !.pass = "rest"]
=============================================================================
