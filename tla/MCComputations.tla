--------------------------- MODULE MCComputations ---------------------------
(***************************************************************************)
(* Model values for the computations that requests are runs of: DriftPool,  *)
(* Discover and VoxelLog, with SmokeSim, which the last replays, Bvh, which *)
(* all cast their rays in, and MeshPrefetch. They share nothing here, so a  *)
(* behaviour performs one of them, whichever part says, and leaves the      *)
(* others be.                                                               *)
(*                                                                          *)
(* Drift: three workers over a full chunk of two and a last chunk of one,   *)
(* so that the buffer is reused and partly stale, and some workers find     *)
(* nothing left to claim. Search: every column of two slabs up to a height, *)
(* and searches with chains of near-copies, walls, too many spots, kinds    *)
(* asked for twice, two searchers. Voxels: three frames of four kinds in an *)
(* array that may be too small, read at any ticks. Tree: up to five walls,   *)
(* some the same and so with nothing to split by, in every order, and rays   *)
(* along, across and between them, some from the face of a box. Smokes:     *)
(* emitters in the middle, aside, walled in and out of the grid, replaced   *)
(* or left on, in a grid with no wall, with one, with a gap under it, and   *)
(* with a floor. Prefetch: a map named up to three times, as either of two. *)
(***************************************************************************)
EXTENDS DriftPool, Discover, VoxelLog, SmokeSim, Bvh, MeshPrefetch

CONSTANTS w1, w2, w3, s1, s2, smoke, flash, map1, map2

VARIABLE part

ThreeWorkers == {w1, w2, w3}

Kind(f, b, a, d) == [flown |-> f, before |-> b, after |-> a, far |-> d]

(* Every outcome of the two flights: not flown; resolved on neither mesh,   *)
(* on the new one only, on the old one only; on both, apart and close.      *)
AllKinds == {Kind(FALSE, FALSE, FALSE, FALSE), Kind(TRUE, FALSE, FALSE, FALSE),
             Kind(TRUE, FALSE, TRUE, FALSE), Kind(TRUE, TRUE, FALSE, FALSE),
             Kind(TRUE, TRUE, TRUE, TRUE), Kind(TRUE, TRUE, TRUE, FALSE)}

TwoSearchers == {s1, s2}
TwoMaps == {map1, map2}
SmokeAndFlash == {smoke, flash}

Heights == 0 .. 6
Slabs   == {s \in [low : Heights, high : Heights, level : BOOLEAN] : s.low < s.high}
Columns == {{}} \cup {c \in {{s, q} : s, q \in Slabs} :
                        \A s, q \in c : s = q \/ s.high < q.low \/ q.high < s.low}
Ground  == {[low |-> 0, high |-> 1, level |-> TRUE]}
Stair   == {[low |-> 0, high |-> 2, level |-> TRUE]}

Throw(s, a) == [spread |-> s, aim |-> a]
Nothing == <<>>
Easy    == <<Throw(1, 0)>>
Two     == <<Throw(1, 0), Throw(1, 5)>>
Like    == <<Throw(2, 1)>>
RoughThrows == {<<>>, <<Throw(2, 1)>>}

(* What is thrown near the target, farther away, and of the other kind.     *)
Found(near, smokes, flashes) ==
    [x \in (-1 .. 5) \X SmokeAndFlash |->
        IF x[1] \in {0, 1} THEN near ELSE IF x[2] = smoke THEN smokes ELSE flashes]

Spot(x, columns, walled) == [at |-> x, columns |-> columns, walled |-> walled]

FloorRequests ==
    {[meshed |-> TRUE, valid |-> TRUE, snap |-> snap, column |-> c, guess |-> 2, target |-> 0,
      spots |-> <<Spot(0, <<c, Ground>>, FALSE)>>, low |-> 2, high |-> 3,
      asked |-> <<smoke>>, limit |-> 1, throws |-> Found(Nothing, Nothing, Nothing)] :
        snap \in BOOLEAN, c \in Columns}

BadRequests ==
    LET r == CHOOSE x \in FloorRequests : x.snap
    IN  {[r EXCEPT !.meshed = FALSE], [r EXCEPT !.valid = FALSE]}

Search(places, walled, asked, limit, throws) ==
    [meshed |-> TRUE, valid |-> TRUE, snap |-> FALSE, column |-> Ground, guess |-> 0,
     target |-> 1, low |-> 1, high |-> 2, asked |-> asked, limit |-> limit, throws |-> throws,
     spots |-> [i \in DOMAIN places |-> Spot(places[i], <<Ground, Stair>>, i = walled)]]

SearchRequests ==
    {Search(s[1], s[2], s[3], limit, throws) :
        s \in {<< <<0, 2, 1>>, 0, <<smoke>> >>, << <<3, 1, -1, 5>>, 0, <<smoke>> >>,
               << <<3, 2, 0>>, 2, <<smoke, flash, smoke>> >>},
        limit \in {1, 3},
        throws \in {Found(Easy, Two, Nothing), Found(Two, Like, Easy), Found(Like, Easy, Two)}}

AllRequests == FloorRequests \cup BadRequests \cup SearchRequests

Frame(carries, length) == [carries |-> carries, length |-> length]
Frames == {Frame("emitters", 2), Frame("nothing", 1), Frame("fading", 1), Frame("garbage", 1)}

Wall(x, y, u, v) == << <<x, y>>, <<u, v>> >>
FourWalls == {Wall(0, 0, 2, 0), Wall(0, 2, 4, 2), Wall(4, 0, 4, 2), Wall(2, 4, 0, 4)}
FiveWalls == FourWalls \cup {Wall(2, 2, 2, 4)}
AllMeshes == {<<>>} \cup [1 .. 3 -> FourWalls]
                \cup {m \in [1 .. 5 -> FiveWalls] : IsInjective(m)}

Looks   == {<<0, 1>>, <<1, 1>>, <<-1, 0>>, <<1, -1>>}
AllRays == [from : {<<0, 0>>, <<4, 2>>, <<2, 1>>, <<-2, 2>>}, dir : Looks,
            any : {FALSE}, low : {Near}, high : {Never}]
           \cup [from : {<<0, 0>>, <<2, 6>>}, dir : {<<0, 1>>, <<1, 1>>, <<0, -1>>},
                 any : {TRUE}, low : {Near}, high : {3, 5}]

Emitter(at, hold) == [at |-> at, hold |-> hold]
InMiddle == <<1, 1, 1>>
Aside    == <<3, 3, 2>>
InWall   == <<2, 1, 2>>
Outside  == <<4, 0, 0>>
WallAcross == {v \in Voxels : Deinterleave3(v)[1] = 2}
AllSmokes ==
    {[solid |-> solid, frames |-> frames] :
        solid \in {{}, WallAcross, {v \in WallAcross : Deinterleave3(v)[3] = 0},
                   {v \in Voxels : Deinterleave3(v)[3] = 0} \cup {Interleave3(InMiddle)}},
        frames \in {<< <<Emitter(InMiddle, 0)>>, <<>>, <<>>, <<>> >>,
                    << <<Emitter(InMiddle, 0), Emitter(Aside, 100)>>, <<>>, <<Emitter(Aside, 80)>> >>,
                    << <<Emitter(InWall, 80), Emitter(<<1, 1, 2>>, 0)>>,
                       <<Emitter(Outside, 0), Emitter(InWall, 0)>>, <<>> >>}}

-----------------------------------------------------------------------------
(* The request of a computation that is not performed is any one.           *)
NoDrift  == kind = [i \in 1 .. N |-> Kind(FALSE, FALSE, FALSE, FALSE)] /\ stream = FALSE
NoSearch == query = CHOOSE r \in BadRequests : TRUE
NoTree   == mesh = <<>>
NoSmoke  == sim = CHOOSE x \in {NewSim(log) : log \in Smokes} : TRUE

MCInit ==
    /\ part \in {"drift", "search", "voxels", "smoke", "tree", "prefetch"}
    /\ part # "drift" => NoDrift
    /\ part # "search" => NoSearch
    /\ part # "tree" => NoTree
    /\ part # "smoke" => NoSmoke
    /\ Init /\ SearchInit /\ VoxelInit /\ SimInit /\ BvhInit /\ PrefetchInit

Drifts ==
    /\ part = "drift"
    /\ UNCHANGED <<part, searchVars, voxelVars, simVars, bvhVars, prefetchVars>>
Searches ==
    /\ part = "search"
    /\ UNCHANGED <<part, vars, voxelVars, simVars, bvhVars, prefetchVars>>
Reads ==
    /\ part = "voxels"
    /\ UNCHANGED <<part, vars, searchVars, simVars, bvhVars, prefetchVars>>
Spreads ==
    /\ part = "smoke"
    /\ UNCHANGED <<part, vars, searchVars, voxelVars, bvhVars, prefetchVars>>
Trees ==
    /\ part = "tree"
    /\ UNCHANGED <<part, vars, searchVars, voxelVars, simVars, prefetchVars>>
Fetches ==
    /\ part = "prefetch"
    /\ UNCHANGED <<part, vars, searchVars, voxelVars, simVars, bvhVars>>

MCNext == \/ Drifts /\ Next
          \/ Searches /\ SearchNext
          \/ Reads /\ VoxelNext
          \/ Spreads /\ SimNext
          \/ Trees /\ BvhNext
          \/ Fetches /\ PrefetchNext

MCVars == <<part, vars, searchVars, voxelVars, simVars, bvhVars, prefetchVars>>

(* The variables of the other parts stay as they were at the start, so those *)
(* of the part performed tell its states apart.                              *)
Changing == CASE part = "drift"  -> <<part, vars>>
              [] part = "search" -> <<part, searchVars>>
              [] part = "voxels" -> <<part, voxelVars>>
              [] part = "smoke"  -> <<part, simVars>>
              [] part = "tree"   -> <<part, bvhVars>>
              [] OTHER           -> <<part, prefetchVars>>

(* The fairness of FairSpec, SearchFairSpec and PrefetchFairness.           *)
MCSpec == /\ MCInit /\ [][MCNext]_MCVars
          /\ WF_MCVars(Drifts /\ DriftStep)
          /\ \A w \in Workers : WF_MCVars(Drifts /\ DriftWork(w))
          /\ WF_MCVars(Searches /\ SearchStep)
          /\ \A w \in Searchers : WF_MCVars(Searches /\ SeekerStep(w))
          /\ WF_MCVars(Fetches /\ EnsureMesh) /\ WF_MCVars(Fetches /\ ReceiveMesh)
          /\ WF_MCVars(Fetches /\ EndParse) /\ WF_MCVars(Fetches /\ FetchLoaded)

(* Every drift run, every search and every parse that waits for its mesh    *)
(* ends: no worker or searcher waits for a job that does not come, nor the  *)
(* handler for one that does not leave, nor a parse for its fetch.          *)
ComputationsEnd ==
    <>/\ part = "drift" => RunOver
      /\ part = "search" => SearchOver
      /\ part = "prefetch" => ParseOver
=============================================================================
