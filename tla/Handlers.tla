------------------------------ MODULE Handlers ------------------------------
(***************************************************************************)
(* The handlers of one parse, composed: what the parser keeps of shots,    *)
(* sights, engagements, positions, grenades, clouds, bombs and fires,      *)
(* driven by the same frames and round events (registerHandlers in         *)
(* internal/parser/parser.go).  The handlers run one at a time, on the     *)
(* parse goroutine; FrameDone, RoundStart and finalize call into every     *)
(* part, in the order the code does.  Beside them run the replays of the   *)
(* clouds' voxel logs and the other parses of the process; a handler that  *)
(* waits for a replay's slot lets no other handler run.                    *)
(***************************************************************************)
EXTENDS Fights, Positions, Clouds, Bombs, Infernos

CONSTANT Scenes     \* bound: kinds of recording, as [pairs: who meets; screens:
                    \* who comes on whose screen; types: of grenades; outcomes:
                    \* of openSmoke; flames:
                    \* that may burn; shots, sights, grenades, bombs (events),
                    \* rounds, ticks: how many there may be; gap: from one
                    \* frame to the next]

ASSUME ScenesAssumption ==
    \A s \in Scenes :
      /\ {s.pairs, s.screens} \subseteq SUBSET Pairs
      /\ s.types \subseteq Types /\ s.outcomes \subseteq Opened /\ s.flames \subseteq Flames
      /\ {s.shots, s.sights, s.grenades, s.bombs, s.rounds, s.ticks} \subseteq Nat
      /\ s.gap \in 1 .. MaxGap

VARIABLES
    scene,          \* the kind of recording that is parsed
    sights          \* the changes of spotters so far

vars == <<scene, sights, clock, fightVars, posVars, grenadeVars, cloudVars, bombVars, infernoVars>>
bounds == <<scene, sights>>
nades == <<grenadeVars, cloudVars>>
sites == <<bombVars, infernoVars>>

Init ==
    /\ scene \in Scenes
    /\ sights = 0
    /\ ClockInit
    /\ FightsInit
    /\ PosInit
    /\ GrenadesInit
    /\ CloudsInit
    /\ BombsInit
    /\ InfernosInit

\* The parse goroutine is free for the next handler.
Handling == ~ Blocked

GameFires ==
    /\ Handling
    /\ Len(shots) < scene.shots
    /\ FireBullet(scene.pairs)
    /\ UNCHANGED <<bounds, posVars, nades, sites>>

Hurt == Handling /\ (OnPlayerHurt \/ OnLateHurt) /\ UNCHANGED <<bounds, posVars, nades, sites>>

Kill == Handling /\ OnKill /\ UNCHANGED <<bounds, posVars, nades, sites>>

WeaponFire == Handling /\ OnWeaponFire /\ UNCHANGED <<bounds, posVars, nades, sites>>

SpottersChanged ==
    /\ Handling
    /\ sights < scene.sights
    /\ OnPlayerSpottersChanged(scene.pairs)
    /\ sights' = sights + 1
    /\ UNCHANGED <<scene, posVars, nades, sites>>

\* onGrenadeProjectileThrow.
GrenadeThrow ==
    /\ Handling
    /\ Len(throws) < scene.grenades
    /\ OnGrenadeThrow(scene.types, Numbers)
    /\ BurstPositions
    /\ UNCHANGED <<bounds, clock, fightVars, cloudVars, sites>>

GrenadeDestroy ==
    /\ Handling
    /\ OnGrenadeDestroy(Standing)
    /\ UNCHANGED <<bounds, clock, fightVars, posVars, cloudVars, sites>>

HeExplode ==
    /\ Handling
    /\ OnHeExplode
    /\ LET d == detonations'[Len(detonations')] IN HeBlast(- d.place, - d.of)
    /\ UNCHANGED <<bounds, clock, fightVars, posVars, cloudVars, infernoVars>>

FireGrenadeStart ==
    /\ Handling
    /\ OnFireGrenadeStart \/ GoesOut
    /\ UNCHANGED <<bounds, clock, fightVars, posVars, cloudVars, sites>>

BombEvent ==
    /\ Handling
    /\ Len(bombs) < scene.bombs
    /\ OnBombStep \/ OnBombPlanted \/ OnBombExplode
    /\ UNCHANGED <<bounds, clock, fightVars, posVars, nades, infernoVars>>

\* The game's fires, which have no handler.
Fire ==
    /\ Handling
    /\ Light(scene.flames) \/ PutOut \/ RemoveInferno
    /\ UNCHANGED <<bounds, clock, fightVars, posVars, nades, bombVars>>

SmokeStart ==
    /\ Handling
    /\ OnSmokeStart(scene.outcomes)
    /\ UNCHANGED <<bounds, clock, fightVars, posVars, sites>>

SmokeExpired == Handling /\ OnSmokeExpired /\ UNCHANGED <<bounds, clock, fightVars, posVars, sites>>

\* onFrameDone.
FrameDone ==
    /\ Handling
    /\ tick < scene.ticks
    /\ ClockFrame(scene.gap)
    /\ FrameFights(scene.screens)
    /\ TrackInfernos
    /\ PollSmokeVoxels
    /\ FramePositions
    /\ UNCHANGED <<bounds, grenadeVars, bombVars>>

\* onRoundStart.
RoundStart ==
    /\ Handling
    /\ currentRound < scene.rounds
    /\ ClockRoundStart
    /\ RoundStartFights
    /\ ResetSmokes
    /\ RoundStartGrenades
    /\ RoundStartBombs
    /\ RoundStartInfernos
    /\ UNCHANGED <<bounds, posVars>>

FreezetimeEnd ==
    /\ Handling /\ engine = <<>>
    /\ ClockFreezeEnd
    /\ UNCHANGED <<bounds, fightVars, posVars, nades, sites>>

EndOfficial ==
    /\ Handling /\ engine = <<>>
    /\ ClockEndOfficial
    /\ UNCHANGED <<bounds, fightVars, posVars, nades, sites>>

\* finalize, up to the replays it waits for.
Finalize ==
    /\ Handling
    /\ ClockFinalize
    /\ FinalizeFights
    /\ FinalizeClouds
    /\ FlushInfernos
    /\ SortPositions
    /\ UNCHANGED <<bounds, grenadeVars, bombVars>>

Replays ==
    /\ StartReplay \/ EndReplay \/ CollectSmokeVoxels
    /\ UNCHANGED <<bounds, clock, fightVars, posVars, grenadeVars, sites>>

\* The other parses, as far as this one can tell: while it waits.
Others ==
    /\ Blocked
    /\ OtherParse
    /\ UNCHANGED <<bounds, clock, fightVars, posVars, grenadeVars, sites>>

\* Parse has returned its result.
Returned == returned /\ UNCHANGED vars

Next ==
    \/ GameFires \/ Hurt \/ Kill \/ WeaponFire \/ SpottersChanged
    \/ GrenadeThrow \/ GrenadeDestroy \/ HeExplode \/ FireGrenadeStart
    \/ BombEvent \/ Fire
    \/ SmokeStart \/ SmokeExpired
    \/ FrameDone \/ RoundStart \/ FreezetimeEnd \/ EndOfficial \/ Finalize
    \/ Replays \/ Others \/ Returned

Spec == Init /\ [][Next]_vars
=============================================================================
