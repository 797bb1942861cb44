------------------------------- MODULE Clouds -------------------------------
(***************************************************************************)
(* Smokes: the registry that occludes sightlines (internal/parser/smoke.go)*)
(* and the replay of their voxel logs (internal/parser/smoke_voxels.go).   *)
(*                                                                         *)
(* A cloud is opened at its detonation and known by the entity number of   *)
(* its projectile until it expires.  Its voxel log is read as long and     *)
(* then replayed in a goroutine, under a slot that every parse of the      *)
(* process shares: the parse goroutine blocks for the slot in the midst of *)
(* whatever handler closed the log.  finalize closes the logs still open,  *)
(* waits for every replay, in the order they were closed, and sorts.       *)
(***************************************************************************)
EXTENDS Grenades, SequencesExt, Orders

CONSTANT ReplaySlots    \* GOMAXPROCS

ASSUME CloudsAssumption == ReplaySlots \in Nat \ {0}

VARIABLES
    up,             \* of the game: the smokes of this round that have not faded
    smokes, smokeByEnt,
    smokeVolumes,   \* Result.SmokeVolumes
    voxelTracks,
    closing,        \* logs the handler has still to close: it waits for a slot
    voxelJobs,
    elsewhere,      \* the slots that other parses hold
    logs,           \* every log there was: where and until when
    smokeVoxels,    \* Result.SmokeVoxels
    voxelSkipped,
    returned        \* Parse has returned

cloudVars == <<up, smokes, smokeByEnt, smokeVolumes, voxelTracks, closing, voxelJobs,
               elsewhere, logs, smokeVoxels, voxelSkipped, returned>>
replayVars == <<voxelJobs, elsewhere, smokeVoxels, voxelSkipped, returned>>
registryVars == <<up, smokes, smokeByEnt, smokeVolumes>>

CloudsInit ==
    /\ up = {} /\ smokes = <<>> /\ smokeVolumes = <<>>
    /\ smokeByEnt = [e \in Ents |-> 0]
    /\ voxelTracks = [e \in Ents |-> 0]
    /\ closing = <<>> /\ voxelJobs = <<>> /\ logs = <<>>
    /\ elsewhere = 0
    /\ smokeVoxels = <<>> /\ voxelSkipped = 0
    /\ returned = FALSE

\* The parse goroutine is in a handler, waiting for a slot.
Blocked == closing # <<>>

\* closeSmokeVoxels of some numbers: their logs, in any order, are out of the
\* tracks and on their way to a replay.
Closing(es) ==
    LET open == {voxelTracks[e] : e \in es} \ {0}
    IN  {s \in [1 .. Cardinality(open) -> open] : IsInjective(s)}

\* A log keeps the tick it was closed on.
Ended(s) == [i \in DOMAIN logs |-> IF i \in ToSet(s) THEN [logs[i] EXCEPT !.endTick = tick]
                                   ELSE logs[i]]

\* newSmokeVoxelTrack.
NewLog(g, gid) ==
    [gid |-> gid, of |-> g, round |-> currentRound, startTick |-> tick, endTick |-> 0]

\* openSmokeVoxels: the projectile is there.
OpenSmokeVoxels(e, g, gid) ==
    /\ \E s \in Closing({e}) : closing' = s /\ logs' = Append(Ended(s), NewLog(g, gid))
    /\ voxelTracks' = [voxelTracks EXCEPT ![e] = Len(logs) + 1]

\* openSmoke: without a position there is no cloud, and without a mesh, or in
\* a place that is sealed, no volume to export.
Opened == {"nothing", "cloud", "volume"}

OpenSmoke(opened, e, g, gid) ==
    LET exported == opened = "volume"
        cloud == [of |-> g, endTick |-> 0,
                  exportIdx |-> IF exported THEN Len(smokeVolumes) + 1 ELSE 0]
        volume == [gid |-> gid, round |-> currentRound, startTick |-> tick, endTick |-> 0]
    IN  /\ smokeVolumes' = IF exported THEN Append(smokeVolumes, volume) ELSE smokeVolumes
        /\ \/ /\ opened = "nothing"
              /\ UNCHANGED <<smokes, smokeByEnt>>
           \/ /\ opened # "nothing"
              /\ smokes' = Append(smokes, cloud)
              /\ smokeByEnt' = [smokeByEnt EXCEPT ![e] = Len(smokes) + 1]

\* onSmokeStart.
OnSmokeStart(outcomes) ==
    /\ Parsing
    /\ \E e \in Ents, spot \in Spots, opened \in outcomes :
        LET g == entity[e]
            gid == detonations'[Len(detonations')].gid
        IN  /\ g \in flown /\ throws[g].type = "Smoke"
            /\ EmitDetonate(g, e, spot)
            /\ flown' = flown \ {g}
            /\ up' = up \cup {g}
            /\ OpenSmoke(opened, e, g, gid)
            /\ OpenSmokeVoxels(e, g, gid)
    /\ UNCHANGED <<entity, throws, replayVars>>

\* The game: a smoke's projectile is there until it has faded, or the round is
\* over; its number is not given to another one before the next round.
Standing == IF phase = "closed" THEN {} ELSE up
Numbers == {EntOf(g) : g \in up}

\* onSmokeExpired.
OnSmokeExpired ==
    /\ Parsing
    /\ \E g \in up :
        LET e == EntOf(g)
            idx == smokeByEnt[e]
        IN  /\ entity[e] = g
            /\ up' = up \ {g}
            /\ \E s \in Closing({e}) : closing' = s /\ logs' = Ended(s)
            /\ voxelTracks' = [voxelTracks EXCEPT ![e] = 0]
            /\ \/ /\ idx = 0
                  /\ UNCHANGED <<smokes, smokeVolumes, smokeByEnt>>
               \/ /\ idx # 0
                  /\ smokes' = [smokes EXCEPT ![idx].endTick = tick]
                  /\ LET x == smokes[idx].exportIdx
                     IN  smokeVolumes' = IF x = 0 THEN smokeVolumes
                                         ELSE [smokeVolumes EXCEPT ![x].endTick = tick]
                  /\ smokeByEnt' = [smokeByEnt EXCEPT ![e] = 0]
    /\ UNCHANGED <<grenadeVars, replayVars>>

\* pollSmokeVoxels, of FrameDone: a log whose projectile is gone is closed.
PollSmokeVoxels ==
    LET gone == {e \in Ents : voxelTracks[e] # 0 /\ entity[e] # logs[voxelTracks[e]].of}
    IN  /\ \E s \in Closing(gone) : closing' = s /\ logs' = Ended(s)
        /\ voxelTracks' = [e \in Ents |-> IF e \in gone THEN 0 ELSE voxelTracks[e]]
        /\ UNCHANGED <<registryVars, replayVars>>

\* closeAllSmokeVoxels.
CloseAllSmokeVoxels ==
    /\ \E s \in Closing(Ents) : closing' = s /\ logs' = Ended(s)
    /\ voxelTracks' = [e \in Ents |-> 0]

\* Wrong: the numbers of the round before are kept.
ForgetCloudsOnly == smokes' = <<>> /\ UNCHANGED smokeByEnt

\* What resetSmokes forgets; the exported volumes stay.
ForgetClouds ==
    /\ smokes' = <<>>
    /\ smokeByEnt' = [e \in Ents |-> 0]

\* resetSmokes, of onRoundStart.
ResetSmokes ==
    /\ CloseAllSmokeVoxels
    /\ ForgetClouds
    /\ up' = {}
    /\ UNCHANGED <<smokeVolumes, replayVars>>

\* finalize closes what is open.
FinalizeClouds == CloseAllSmokeVoxels /\ UNCHANGED <<registryVars, replayVars>>

-----------------------------------------------------------------------------
(* The replays. *)

Done(how) == {i \in DOMAIN voxelJobs : voxelJobs[i].state = how}
Running == Done("run")

\* The handler gets a slot for the first log it has to close.
StartReplay ==
    /\ Blocked
    /\ Cardinality(Running) + elsewhere < ReplaySlots
    /\ voxelJobs' = Append(voxelJobs, [log |-> Head(closing), state |-> "run"])
    /\ closing' = Tail(closing)
    /\ UNCHANGED <<registryVars, voxelTracks, elsewhere, logs, smokeVoxels, voxelSkipped, returned>>

\* export: a cloud, or nothing to simulate.
Export == {"cloud", "nothing"}

\* A replay ends with what it has exported, or with nothing in a panic that it
\* recovers from; it gives back its slot and closes its channel in any case.
EndReplay ==
    /\ \E i \in Running, how \in Export :
         voxelJobs' = [voxelJobs EXCEPT ![i].state = how]
    /\ UNCHANGED <<registryVars, voxelTracks, closing, elsewhere, logs, smokeVoxels,
                   voxelSkipped, returned>>

\* Other parses of the process come and go.
OtherParse ==
    /\ \/ /\ Cardinality(Running) + elsewhere < ReplaySlots
          /\ elsewhere' = elsewhere + 1
       \/ /\ elsewhere > 0
          /\ elsewhere' = elsewhere - 1
    /\ UNCHANGED <<registryVars, voxelTracks, closing, voxelJobs, logs, smokeVoxels,
                   voxelSkipped, returned>>

\* The order of two of the logs, by their smokes.
LogBefore(k, l) ==
    \/ logs[k].startTick < logs[l].startTick
    \/ logs[k].startTick = logs[l].startTick /\ logs[k].gid < logs[l].gid

\* sortSmokeVoxels.
SortSmokeVoxels(vs) ==
    Ordered(vs, {x \in (DOMAIN vs) \X (DOMAIN vs) :
                   \/ LogBefore(vs[x[1]], vs[x[2]])
                   \/ ~ LogBefore(vs[x[2]], vs[x[1]]) /\ x[1] < x[2]})

\* Wrong: the replays that have ended by now are collected.
CollectableEarly == TRUE

\* collectSmokeVoxels waits for every replay.
Collectable == Running = {}

\* collectSmokeVoxels and sortSmokeVoxels, the last of finalize.
CollectSmokeVoxels ==
    /\ finalized /\ ~ returned /\ ~ Blocked
    /\ Collectable
    /\ smokeVoxels' = SortSmokeVoxels(
            SubSequence([i \in DOMAIN voxelJobs |-> voxelJobs[i].log], Done("cloud")))
    /\ voxelSkipped' = Cardinality(Done("nothing"))
    /\ voxelJobs' = <<>>
    /\ returned' = TRUE
    /\ UNCHANGED <<registryVars, voxelTracks, closing, elsewhere, logs>>

-----------------------------------------------------------------------------
(* Properties. *)

CloudsTypeOK ==
    /\ up \subseteq DOMAIN throws
    /\ smokeByEnt \in [Ents -> 0 .. Len(smokes)]
    /\ voxelTracks \in [Ents -> 0 .. Len(logs)]
    /\ closing \in Seq(DOMAIN logs)
    /\ \A i \in DOMAIN voxelJobs : voxelJobs[i] \in
         [log : DOMAIN logs, state : {"run", "cloud", "nothing"}]
    /\ elsewhere \in 0 .. ReplaySlots

\* A cloud occludes sightlines while it does in the game, no longer and not
\* twice; and of every cloud of this round the exported volume, an index into
\* a list that outlives the registry, is its own and ends with it.
OccludersAreTheGames ==
    /\ \A i \in DOMAIN smokes :
         /\ smokes[i].endTick = 0 => smokes[i].of \in up /\ smokeByEnt[EntOf(smokes[i].of)] = i
         /\ smokes[i].exportIdx # 0 =>
              LET v == smokeVolumes[smokes[i].exportIdx]
              IN  v.gid = smokes[i].of /\ v.round = currentRound /\ v.endTick = smokes[i].endTick
    /\ \A e \in Ents : smokeByEnt[e] # 0 => smokes[smokeByEnt[e]].endTick = 0
    /\ \A i, j \in DOMAIN smokes : smokes[i].of = smokes[j].of => i = j

\* Every voxel log is read, closed, replayed and collected, once, in this order, with
\* the grenade, the round and the ticks it had in the game, although numbers
\* are used again and closing blocks: when Parse returns there is a cloud for
\* each log that held one, in the order of detonation, and no replay is left
\* behind.
LogsAreCollected ==
    LET open == {voxelTracks[e] : e \in Ents} \ {0}
        closed == ToSet(closing) \cup {voxelJobs[i].log : i \in DOMAIN voxelJobs}
    IN  /\ \A l \in DOMAIN logs :
             /\ logs[l].gid = logs[l].of /\ logs[l].round = throws[logs[l].of].round
             /\ l \in open <=> logs[l].endTick = 0
             /\ ~ returned => (l \in open <=> l \notin closed)
        /\ ~ returned => Len(closing) + Len(voxelJobs) + Cardinality(open) = Len(logs)
        /\ returned => /\ Len(smokeVoxels) + voxelSkipped = Len(logs)
                       /\ open = {} /\ closing = <<>> /\ Running = {}
                       /\ \A i, j \in DOMAIN smokeVoxels : i < j =>
                            /\ smokeVoxels[i] # smokeVoxels[j]
                            /\ logs[smokeVoxels[i]].startTick <= logs[smokeVoxels[j]].startTick

\* What a smoke occludes, and what is replayed of it, is as in the game.
CloudsAreTheGames == CloudsTypeOK /\ OccludersAreTheGames /\ LogsAreCollected
=============================================================================
