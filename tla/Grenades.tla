------------------------------ MODULE Grenades ------------------------------
(***************************************************************************)
(* Grenades from the throw to the detonation                               *)
(* (internal/parser/grenades.go).                                          *)
(*                                                                         *)
(* Projectiles are known by their entity number, and numbers are used      *)
(* again.  A throw enters its projectile under the number, over whatever   *)
(* was there; a detonation claims the projectile of its own number and     *)
(* type or, since a fire has a number of its own, the nearest unclaimed    *)
(* one of its type that was destroyed lately.                              *)
(*                                                                         *)
(* A grenade is its GrenadeID, and the place where it lands too: no two    *)
(* land on one spot. The event of a detonation may give another place, a   *)
(* stale one or none of the map's (emitDetonate's comment).                *)
(* Assumed of the game: a Molotov's fire is reported after its projectile  *)
(* is gone, within the lag the code allows, and until then nothing else    *)
(* has the projectile's number.                                            *)
(***************************************************************************)
EXTENDS ParseClock, FiniteSetsExt

CONSTANTS
    Ents,           \* entity numbers of projectiles
    Lag,            \* maxDetonateLagTicks
    Reach,          \* maxMatchDistSq, as a distance between spots
    MaxGrenades     \* bound: throws of the recording

ASSUME GrenadesAssumption == {Lag, Reach, MaxGrenades} \subseteq Nat /\ Ents \subseteq Nat \ {0}

VARIABLES
    entity,         \* of the game: number -> the projectile that has it, or 0
    flown,          \* of the game: the projectiles still to go off
    throws,         \* Result.GrenadeThrows; grenadeSeq is its length
    grenadePos,
    detonations     \* Result.GrenadeDetonations

grenadeVars == <<entity, flown, throws, grenadePos, detonations>>

Types == {"HE", "Smoke", "Molotov", "Decoy"}
Gids == 1 .. MaxGrenades
NoProjectile == [id |-> 0]
Tracked(e) == grenadePos[e] # NoProjectile

GrenadesInit ==
    /\ entity = [e \in Ents |-> 0]
    /\ flown = {}
    /\ throws = <<>>
    /\ grenadePos = [e \in Ents |-> NoProjectile]
    /\ detonations = <<>>

\* The number a projectile has, or had.
EntOf(g) == throws[g].ent

\* Where an event may say that a grenade went off: at its own place, at that
\* of another one, or out of everyone's reach, as (0,0,0) is.
OutOfReach == MaxGrenades + Reach + 1
Spots == DOMAIN throws \cup {OutOfReach}

\* onGrenadeProjectileThrow, apart from the rows of positions it emits; taken
\* are numbers the game does not give.
OnGrenadeThrow(types, taken) ==
    /\ Parsing /\ phase # "freeze"
    /\ \E e \in Ents \ taken, t \in types :
        /\ entity[e] = 0
        /\ \A g \in flown : EntOf(g) # e
        /\ LET gid == Len(throws) + 1
           IN  /\ entity' = [entity EXCEPT ![e] = gid]
               /\ flown' = flown \cup {gid}
               /\ throws' = Append(throws,
                    [tick |-> tick, round |-> currentRound, type |-> t, ent |-> e])
               /\ grenadePos' = [grenadePos EXCEPT ![e] =
                    [id |-> gid, gtype |-> t, destroyTick |-> 0, matched |-> FALSE]]
    /\ UNCHANGED detonations

\* The projectiles that have gone off are gone at some time; a Molotov is
\* before its fire.  It may also go out without one.  A Decoy stays, as
\* nothing is asked of it.
MayVanish(g) == g \notin flown \/ throws[g].type = "Molotov"

\* onGrenadeProjectileDestroy, but not of those that stay.
OnGrenadeDestroy(staying) ==
    /\ Parsing
    /\ \E e \in Ents :
        /\ entity[e] \notin {0} \cup staying
        /\ MayVanish(entity[e])
        /\ entity' = [entity EXCEPT ![e] = 0]
        /\ grenadePos' = IF Tracked(e) THEN [grenadePos EXCEPT ![e].destroyTick = tick]
                         ELSE grenadePos
    /\ UNCHANGED <<flown, throws, detonations>>

Distance(a, b) == IF a < b THEN b - a ELSE a - b

\* Wrong: a projectile may be claimed again.
UnclaimedOf(e, type) == Tracked(e) /\ grenadePos[e].gtype = type

\* An entry that a detonation of the type may claim.
Unclaimed(e, type) ==
    /\ Tracked(e)
    /\ grenadePos[e].gtype = type
    /\ ~ grenadePos[e].matched

\* Wrong: any projectile of the type within reach, not the nearest.
NearestOfAny(es, spot) == es

\* The nearest of some entries; of several, the order of a Go map decides.
Nearest(es, spot) ==
    {e \in es : \A f \in es :
        Distance(grenadePos[e].id, spot) <= Distance(grenadePos[f].id, spot)}

\* matchProjectile: what a detonation may claim, 0 for no entry.  The number is
\* 0 when no projectile has ever had it.
MatchProjectile(number, type, spot) ==
    LET lately == {e \in Ents : /\ Unclaimed(e, type)
                                /\ grenadePos[e].destroyTick # 0
                                /\ tick - grenadePos[e].destroyTick <= Lag}
        near == {e \in Nearest(lately, spot) : Distance(grenadePos[e].id, spot) <= Reach}
    IN  IF number # 0 /\ Unclaimed(number, type) THEN {number}
        ELSE IF near # {} THEN near
        ELSE {0}

\* Wrong: the place is the event's, although a projectile was claimed.
EmitDetonateThere(g, number, spot) ==
    \E e \in MatchProjectile(number, throws[g].type, spot) :
        /\ detonations' = Append(detonations,
             [tick |-> tick, round |-> currentRound, type |-> throws[g].type,
              gid |-> IF e = 0 THEN 0 ELSE grenadePos[e].id, place |-> spot,
              number |-> number, of |-> g, lost |-> number # EntOf(g) /\ spot # g])
        /\ grenadePos' = IF e = 0 THEN grenadePos
                         ELSE [grenadePos EXCEPT ![e].matched = TRUE]

\* emitDetonate of a grenade, for an event at a spot: the claim, and the row.
\* Its place is the projectile's if one was claimed.  of and lost, which say
\* whose it is and that the event gives neither the number nor the place of
\* the projectile, are not the code's.
EmitDetonate(g, number, spot) ==
    \E e \in MatchProjectile(number, throws[g].type, spot) :
        /\ detonations' = Append(detonations,
             [tick |-> tick, round |-> currentRound, type |-> throws[g].type,
              gid |-> IF e = 0 THEN 0 ELSE grenadePos[e].id,
              place |-> IF e = 0 THEN spot ELSE grenadePos[e].id,
              number |-> number, of |-> g, lost |-> number # EntOf(g) /\ spot # g])
        /\ grenadePos' = IF e = 0 THEN grenadePos
                         ELSE [grenadePos EXCEPT ![e].matched = TRUE]

\* onHeExplode, and so onFlashExplode.
OnHeExplode ==
    /\ Parsing
    /\ \E g \in flown, spot \in Spots :
        /\ throws[g].type = "HE" /\ entity[EntOf(g)] = g
        /\ EmitDetonate(g, EntOf(g), spot)
        /\ flown' = flown \ {g}
    /\ UNCHANGED <<entity, throws>>

\* onFireGrenadeStart: the fire has a number of its own, which an earlier
\* projectile may have had.
OnFireGrenadeStart ==
    /\ Parsing
    /\ \E g \in flown, number \in {0} \cup {e \in Ents : entity[e] = 0}, spot \in Spots :
        /\ throws[g].type = "Molotov" /\ entity[EntOf(g)] # g
        /\ tick - grenadePos[EntOf(g)].destroyTick <= Lag
        /\ \A h \in flown : number # EntOf(h)
        /\ EmitDetonate(g, number, spot)
        /\ flown' = flown \ {g}
    /\ UNCHANGED <<entity, throws>>

\* A Molotov goes out without a fire.
GoesOut ==
    /\ \E g \in flown : /\ throws[g].type = "Molotov" /\ entity[EntOf(g)] # g
                        /\ flown' = flown \ {g}
    /\ UNCHANGED <<entity, throws, grenadePos, detonations>>

\* A new round removes every projectile, without a word.
RoundStartGrenades ==
    /\ entity' = [e \in Ents |-> 0]
    /\ flown' = {}
    /\ UNCHANGED <<throws, grenadePos, detonations>>

GrenadesTypeOK ==
    /\ entity \in [Ents -> 0 .. Len(throws)]
    /\ flown \subseteq DOMAIN throws
    /\ \A g \in DOMAIN throws : throws[g] \in
         [tick : Ticks, round : 1 .. MaxRounds, type : Types, ent : Ents]
    /\ \A e \in Ents : Tracked(e) => grenadePos[e] \in
         [id : DOMAIN throws, gtype : Types, destroyTick : 0 .. MaxTick, matched : BOOLEAN]
    /\ \A i \in DOMAIN detonations : detonations[i] \in
         [tick : Ticks, round : 1 .. MaxRounds, type : Types, gid : 0 .. Len(throws),
          place : Spots, number : {0} \cup Ents, of : DOMAIN throws, lost : BOOLEAN]

\* Why a fire may bear another id than its throw's, or none: it is lost; its
\* number is that of an earlier projectile, a Molotov that never burned, whose
\* entry it takes for its own; or its entry was claimed before, which comes of
\* one that was lost.
Excused(i) ==
    LET d == detonations[i]
    IN  \/ d.lost
        \/ d.gid # 0 /\ throws[d.gid].ent = d.number
        \/ /\ \E j \in 1 .. (i - 1) : detonations[j].gid = d.of
           /\ \E j \in 1 .. (i - 1) : detonations[j].lost

\* A detonation bears the id of its own throw, and no throw has two, although
\* numbers are used again, entries are never dropped, a fire has only its
\* place to go by and places may be wrong.  Those that have their projectile's
\* number are right whatever their event says; of the fires, only an excused
\* one is not, and it has at worst the id of another Molotov.
DetonationsAreTheirThrows ==
    /\ GrenadesTypeOK
    /\ \A i \in DOMAIN detonations :
         LET d == detonations[i]
         IN  /\ d.gid # 0 => throws[d.gid].type = d.type
             /\ d.gid = d.of \/ (d.type = "Molotov" /\ Excused(i))
    /\ \A i, j \in DOMAIN detonations :
         detonations[i].gid = detonations[j].gid /\ detonations[i].gid # 0 => i = j
=============================================================================
