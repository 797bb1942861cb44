---------------------------- MODULE MapEndpoints ----------------------------
(***************************************************************************)
(* The map endpoints between decoding a request and its computation:        *)
(* /drift (cmd/server/drift.go), /smoke-volume, /sightlines and /oneway     *)
(* (nades.go), /discover and /floor (discover.go). They load the worlds     *)
(* they work on (LoadGrenadeWorld, Load in internal/geometry/load.go) and   *)
(* take a slot of their pool, in an order that differs from one to the next.*)
(*                                                                         *)
(* A handler is a plan, a sequence of stages.                               *)
(*                                                                         *)
(* The files are those of one map. A revision of a build is a manifest that *)
(* lists where they lie, each maybe in the directory of an older build, or  *)
(* not at all; without one a build is a flat directory.                     *)
(***************************************************************************)
EXTENDS Integers, Sequences, FiniteSets

CONSTANTS Requests,
          Slots,       \* the capacity of each pool: drift, geometry, discover
          Paths,       \* where a file may lie
          Bases,       \* those that a flat layout is named by: builds, http(s) bases
          Pinned,      \* pinnedBuild
          Revisions,   \* the manifests, in the order they are published: the
                       \* build, and the map's entry
          MeshCdn,     \* MAP_MESH_CDN, or None if it is not set
          Default,     \* the empty revision reference
          None         \* nothing resolved, loaded, listed or found

Pools == {"drift", "geometry", "discover"}

ASSUME SlotsAssumption == Slots \in [Pools -> Nat \ {0}]
ASSUME PathsAssumption ==
  /\ Bases \subseteq Paths /\ Pinned \in Bases
  /\ MeshCdn \in Bases \cup {None}
  /\ {Default, None} \cap Paths = {}
ASSUME RevisionsAssumption ==
  Revisions \in Seq([build : Bases, hull : Paths \cup {None}, clip : Paths \cup {None}])

VARIABLES kind,      \* the endpoint each request came to
          refs,      \* the revisions it names: from and to for /drift, twice the
                     \* one of the others; those of nades.go name none
          at,        \* its stage; 0 before it arrives
          src,       \* the source resolved for the world being loaded, or None
          hull,      \* the hull of that world, between its two loads, or None
          worlds,    \* the worlds its handler holds pointers to
          used,      \* the items in each pool's channel
          gone,      \* its client has disconnected: r.Context() is done
          reply,     \* the revisions named in the answer of /drift and /discover
          published, \* how many of the revisions are out
          newest     \* the one latest.json has last been read to name, 0 before any

progress == <<kind, refs, at, src, hull, worlds, reply>>
outside  == <<published, newest>>
vars     == <<progress, used, gone, outside>>

Kinds == Pools \cup {"floor"}
Refs  == Bases \cup {Default}

(* A source: its label, and its manifest, 0 for the flat layout.            *)
Flat(base) == [label |-> base, revision |-> 0]
Manifest(i) == [label |-> Revisions[i].build, revision |-> i]
Sources == [label : Bases, revision : 0..Len(Revisions)]

(* Wrong (like every definition marked so, a fault a property is tried on): *)
(* /discover loads its world before it waits for a slot.                    *)
PlanLoadFirst(k) ==
  CASE k = "drift"    -> <<"world", "world", "slot", "run">>
    [] k = "geometry" -> <<"hull", "slot", "run">>
    [] k = "discover" -> <<"world", "slot", "run">>
    [] k = "floor"    -> <<"world", "run">>

Plan(k) ==
  CASE k = "drift"    -> <<"world", "world", "slot", "run">>
    [] k = "geometry" -> <<"hull", "slot", "run">>
    [] k = "discover" -> <<"slot", "world", "run">>
    [] k = "floor"    -> <<"world", "run">>

Over     == 9
Busy(r)  == at[r] \notin {0, Over}
Stage(r) == IF Busy(r) THEN Plan(kind[r])[at[r]] ELSE "none"

(* The request is past the stage that takes its slot.                       *)
InSlot(r) == Busy(r) /\ \E i \in 1..(at[r] - 1) : Plan(kind[r])[i] = "slot"

Worlds == [hull : Paths, clip : Paths \cup {None}, label : Bases]

TypeOK ==
  /\ kind \in [Requests -> Kinds]
  /\ refs \in [Requests -> Refs \X Refs]
  /\ at \in [Requests -> 0..4 \cup {Over}]
  /\ src \in [Requests -> Sources \cup {None}]
  /\ hull \in [Requests -> Paths \cup {None}]
  /\ \A r \in Requests : worlds[r] \in UNION {[1..n -> Worlds] : n \in 0..2}
  /\ used \in [Pools -> Nat]
  /\ gone \in [Requests -> BOOLEAN]
  /\ \A r \in Requests : reply[r] \in UNION {[1..n -> Bases] : n \in 0..2}
  /\ published \in 0..Len(Revisions) /\ newest \in 0..published

Init ==
  /\ kind \in [Requests -> Kinds]
  /\ refs \in [Requests -> Refs \X Refs]
  /\ \A r \in Requests :
       /\ kind[r] # "drift" => refs[r][1] = refs[r][2]
       /\ kind[r] = "geometry" => refs[r][1] = Default
  /\ at = [r \in Requests |-> 0]
  /\ src = [r \in Requests |-> None]
  /\ hull = [r \in Requests |-> None]
  /\ worlds = [r \in Requests |-> << >>]
  /\ used = [p \in Pools |-> 0]
  /\ gone = [r \in Requests |-> FALSE]
  /\ reply = [r \in Requests |-> << >>]
  /\ published = 0 /\ newest = 0

-----------------------------------------------------------------------------
(* A well-formed request; one that is not is refused without a trace.       *)
Arrive(r) ==
  /\ at[r] = 0
  /\ at' = [at EXCEPT ![r] = 1]
  /\ UNCHANGED <<kind, refs, src, hull, worlds, reply, used, gone, outside>>

(* Wrong: the slot is not given back.                                       *)
ReturnKeepingSlot(r) ==
  /\ at' = [at EXCEPT ![r] = Over]
  /\ src' = [src EXCEPT ![r] = None]
  /\ hull' = [hull EXCEPT ![r] = None]
  /\ worlds' = [worlds EXCEPT ![r] = << >>]
  /\ UNCHANGED <<kind, refs, used, gone, outside>>

(* Returning runs the deferred release and drops the pointers.              *)
Return(r) ==
  /\ at' = [at EXCEPT ![r] = Over]
  /\ src' = [src EXCEPT ![r] = None]
  /\ hull' = [hull EXCEPT ![r] = None]
  /\ worlds' = [worlds EXCEPT ![r] = << >>]
  /\ used' = IF InSlot(r) THEN [used EXCEPT ![kind[r]] = @ - 1] ELSE used
  /\ UNCHANGED <<kind, refs, gone, outside>>

(* Each world of /drift has its own reference.                              *)
Named(r) == refs[r][Len(worlds[r]) + 1]

(* defaultSource: what latest.json named when it was last read.             *)
DefaultSource ==
  IF MeshCdn # None THEN Flat(MeshCdn)
  ELSE IF newest = 0 THEN Flat(Pinned) ELSE Manifest(newest)

(* The manifests that a build id names: <build>/manifest.json, a build's    *)
(* first; the later ones have other names.                                  *)
Firsts == {i \in 1..published : \A j \in 1..(i - 1) : Revisions[j].build # Revisions[i].build}

(* Wrong: a build id names the last manifest of the build.                  *)
BaseSourceLast(base) ==
  IF \E i \in 1..published : Revisions[i].build = base
  THEN Manifest(CHOOSE i \in 1..published :
         Revisions[i].build = base /\ \A j \in (i + 1)..published : Revisions[j].build # base)
  ELSE Flat(base)

(* buildSource, and legacySource of an http(s) base, which no manifest is of. *)
BaseSource(base) ==
  IF \E i \in Firsts : Revisions[i].build = base
  THEN Manifest(CHOOSE i \in Firsts : Revisions[i].build = base)
  ELSE Flat(base)

(* revisionSource                                                           *)
RevisionSource(ref) == IF ref = Default THEN DefaultSource ELSE BaseSource(ref)

Resolve(r) ==
  /\ Stage(r) \in {"world", "hull"}
  /\ src[r] = None
  /\ src' = [src EXCEPT ![r] = RevisionSource(Named(r))]
  /\ UNCHANGED <<kind, refs, at, hull, worlds, reply, used, gone, outside>>

(* target: asset by asset, what the manifest does not list is the pinned    *)
(* build's flat hull, and no clips.                                         *)
Target(s, asset) ==
  IF s.revision = 0 THEN [path |-> s.label, listed |-> FALSE]
  ELSE IF Revisions[s.revision][asset] # None
       THEN [path |-> Revisions[s.revision][asset], listed |-> TRUE]
       ELSE [path |-> IF asset = "hull" THEN Pinned ELSE None, listed |-> FALSE]

(* What a load of the asset can find: only a probe may find nothing.        *)
Found(s, asset) ==
  LET t == Target(s, asset) IN {t.path} \cup (IF t.listed THEN {} ELSE {None})

(* LoadGrenadeWorld: the hull.                                              *)
LoadHull(r) ==
  /\ Stage(r) = "world"
  /\ src[r] # None /\ hull[r] = None
  /\ \E h \in Found(src[r], "hull") \ {None} : hull' = [hull EXCEPT ![r] = h]
  /\ UNCHANGED <<kind, refs, at, src, worlds, reply, used, gone, outside>>

Loaded(r, world) ==
  /\ worlds' = [worlds EXCEPT ![r] = Append(@, world)]
  /\ src' = [src EXCEPT ![r] = None]
  /\ hull' = [hull EXCEPT ![r] = None]
  /\ at' = [at EXCEPT ![r] = @ + 1]
  /\ UNCHANGED <<kind, refs, reply, used, gone, outside>>

(* Wrong: the clips are looked up at the revision, not at the source.       *)
LoadClipResolving(r) ==
  /\ hull[r] # None
  /\ \E c \in Found(RevisionSource(Named(r)), "clip") :
       Loaded(r, [hull |-> hull[r], clip |-> c, label |-> src[r].label])

(* LoadGrenadeWorld: the clips, of the same source. A map without them is a *)
(* world of the hull alone.                                                 *)
LoadClip(r) ==
  /\ hull[r] # None
  /\ \E c \in Found(src[r], "clip") :
       Loaded(r, [hull |-> hull[r], clip |-> c, label |-> src[r].label])

(* Load, for the endpoints that ask for the hull only.                      *)
LoadMesh(r) ==
  /\ Stage(r) = "hull"
  /\ src[r] # None
  /\ \E h \in Found(src[r], "hull") \ {None} :
       Loaded(r, [hull |-> h, clip |-> None, label |-> src[r].label])

(* No mesh (404), or the CDN failed (502): the default reference resolves,  *)
(* and clips that are not looked for cannot fail.                           *)
LoadFails(r) ==
  /\ Stage(r) \in {"world", "hull"}
  /\ src[r] = None => Named(r) # Default
  /\ hull[r] # None => Target(src[r], "clip").path # None
  /\ Return(r)
  /\ UNCHANGED reply

(* Wrong: the release is deferred before the outcome of acquire is known.   *)
GiveUpReleasing(r) ==
  /\ Stage(r) = "slot"
  /\ gone[r]
  /\ used[kind[r]] > 0
  /\ at' = [at EXCEPT ![r] = Over]
  /\ worlds' = [worlds EXCEPT ![r] = << >>]
  /\ used' = [used EXCEPT ![kind[r]] = @ - 1]
  /\ UNCHANGED <<kind, refs, src, hull, reply, gone, outside>>

(* acquireDrift, acquireGeometry and the select of handleDiscover: a slot,  *)
(* or the client's departure, whichever the select takes.                   *)
TakeSlot(r) ==
  /\ Stage(r) = "slot"
  /\ used[kind[r]] < Slots[kind[r]]
  /\ used' = [used EXCEPT ![kind[r]] = @ + 1]
  /\ at' = [at EXCEPT ![r] = @ + 1]
  /\ UNCHANGED <<kind, refs, src, hull, worlds, reply, gone, outside>>

GiveUp(r) ==
  /\ Stage(r) = "slot"
  /\ gone[r]
  /\ Return(r)
  /\ UNCHANGED reply

(* The computation, then the answer; a report names its worlds.             *)
(* Wrong: the answer names what the references resolve to when it is given. *)
AnswerResolving(r) ==
  /\ Stage(r) = "run"
  /\ \/ /\ kind[r] \in {"drift", "discover"}
        /\ reply' = [reply EXCEPT ![r] = [i \in 1..Len(worlds[r]) |-> RevisionSource(refs[r][i]).label]]
     \/ UNCHANGED reply
  /\ Return(r)

Answer(r) ==
  /\ Stage(r) = "run"
  /\ \/ /\ kind[r] \in {"drift", "discover"}
        /\ reply' = [reply EXCEPT ![r] = [i \in 1..Len(worlds[r]) |-> worlds[r][i].label]]
     \/ UNCHANGED reply
  /\ Return(r)

-----------------------------------------------------------------------------
Leave(r) ==
  /\ Busy(r) /\ ~gone[r]
  /\ gone' = [gone EXCEPT ![r] = TRUE]
  /\ UNCHANGED <<progress, used, outside>>

(* The publisher's next revision is out; latest.json is read to name a later *)
(* one than before.                                                         *)
Publish ==
  /\ published < Len(Revisions)
  /\ published' = published + 1
  /\ UNCHANGED <<progress, used, gone, newest>>

Adopt ==
  /\ newest' \in (newest + 1)..published
  /\ UNCHANGED <<progress, used, gone, published>>

Handle(r) ==
  \/ Resolve(r) \/ LoadHull(r) \/ LoadClip(r) \/ LoadMesh(r) \/ LoadFails(r)
  \/ TakeSlot(r) \/ GiveUp(r) \/ Answer(r)

Next ==
  \/ \E r \in Requests : Arrive(r)
  \/ \E r \in Requests : Resolve(r)
  \/ \E r \in Requests : LoadHull(r)
  \/ \E r \in Requests : LoadClip(r)
  \/ \E r \in Requests : LoadMesh(r)
  \/ \E r \in Requests : LoadFails(r)
  \/ \E r \in Requests : TakeSlot(r)
  \/ \E r \in Requests : GiveUp(r)
  \/ \E r \in Requests : Answer(r)
  \/ \E r \in Requests : Leave(r)
  \/ Publish
  \/ Adopt

Spec == Init /\ [][Next]_vars

(* Handlers are scheduled, loads and computations are bounded, and senders  *)
(* blocked on a channel are served in order.                                *)
Fairness == \A r \in Requests : WF_vars(Handle(r)) /\ SF_vars(TakeSlot(r))

FairSpec == Spec /\ Fairness

-----------------------------------------------------------------------------
(* Every pool's channel counts exactly the requests working under it: no    *)
(* path releases a slot it does not hold or keeps one it is done with.      *)
SlotsBalance ==
  \A p \in Pools :
    used[p] = Cardinality({r \in Requests : kind[r] = p /\ InSlot(r)})

(* No pool runs more computations than it has slots for.                    *)
WithinSlots ==
  \A p \in Pools :
    Cardinality({r \in Requests : kind[r] = p /\ Stage(r) = "run"}) <= Slots[p]

(* A search holds its world only under a slot: waiting searches hold none.  *)
DiscoverHoldsUnderSlot ==
  Cardinality({r \in Requests : kind[r] = "discover" /\ worlds[r] # << >>})
    <= Slots["discover"]

(* The sources a reference has had so far: the default any that latest.json *)
(* may have named, a build or base its flat layout and its first manifest.  *)
HasMeant(ref) ==
  IF ref = Default
  THEN IF MeshCdn # None THEN {Flat(MeshCdn)}
       ELSE {Flat(Pinned)} \cup {Manifest(i) : i \in 1..newest}
  ELSE {Flat(ref)} \cup {Manifest(i) : i \in {j \in Firsts : Revisions[j].build = ref}}

(* The world is what one source gives: each of its files is where that      *)
(* source has it, and its clips are left out only if they are not listed.   *)
IsOf(w, s, assets) ==
  /\ w.label = s.label
  /\ w.hull \in Found(s, "hull")
  /\ w.clip \in IF "clip" \in assets THEN Found(s, "clip") ELSE {None}

Assets(k) == IF k = "geometry" THEN {"hull"} ELSE {"hull", "clip"}

(* The hull and the clips of a world may lie in different builds, but they  *)
(* are those of one manifest, although another may be published or become   *)
(* the default between their loads; and it is one the reference has meant.  *)
WorldsAreWhole ==
  \A r \in Requests : \A i \in 1..Len(worlds[r]) :
    \E s \in HasMeant(refs[r][i]) : IsOf(worlds[r][i], s, Assets(kind[r]))

(* The pools are neither overdrawn nor drained, a slot bounds the worlds the *)
(* searches hold, and every world is whole.                                 *)
SlotsCoherent ==
  TypeOK /\ SlotsBalance /\ WithinSlots /\ DiscoverHoldsUnderSlot /\ WorldsAreWhole

(* The report names, for each world it was computed on, the build or base   *)
(* of a source that its reference has had and that gives this world's files, *)
(* not what the reference means by then.                                    *)
ReportNamesItsWorlds ==
  [][\A r \in Requests : reply'[r] # reply[r] =>
       /\ Len(reply'[r]) = Len(worlds[r])
       /\ \A i \in 1..Len(worlds[r]) :
            \E s \in HasMeant(refs[r][i]) :
              reply'[r][i] = s.label /\ IsOf(worlds[r][i], s, Assets(kind[r]))]_vars

(* "Drift is the only endpoint that holds two meshes at once ... so it is   *)
(* serialized": as many pairs of meshes as there are drift slots.           *)
DriftHoldsUnderSlot ==
  Cardinality({r \in Requests : kind[r] = "drift" /\ Len(worlds[r]) = 2})
    <= Slots["drift"]

(* Every request that arrives is done with, served or not.                  *)
EveryRequestEnds == \A r \in Requests : at[r] = 1 ~> at[r] = Over
=============================================================================
