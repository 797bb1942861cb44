-------------------------- MODULE MapEndpointsProofs --------------------------
(***************************************************************************)
(* Proofs about MapEndpoints, for any requests, slots, paths and revisions: *)
(* the channels count who works under them, and every world and report is   *)
(* of a source that the request's reference has had.                        *)
(***************************************************************************)
EXTENDS MapEndpoints, FiniteSetTheorems, TLAPS

\* Where a handler can be: its kind, its stage, and the worlds it holds there.
Places ==
    {<<"drift", 1, 0>>, <<"drift", 2, 1>>, <<"drift", 3, 2>>, <<"drift", 4, 2>>,
     <<"geometry", 1, 0>>, <<"geometry", 2, 1>>, <<"geometry", 3, 1>>,
     <<"discover", 1, 0>>, <<"discover", 2, 0>>, <<"discover", 3, 1>>,
     <<"floor", 1, 0>>, <<"floor", 2, 1>>}

WorldsType == \A r \in Requests : worlds[r] \in Seq(Worlds) /\ Len(worlds[r]) \in 0 .. 2
ReplyType  == \A r \in Requests : reply[r] \in Seq(Bases) /\ Len(reply[r]) \in 0 .. 2

Types ==
    /\ kind \in [Requests -> Kinds]
    /\ refs \in [Requests -> Refs \X Refs]
    /\ at \in [Requests -> 0 .. 4 \cup {Over}]
    /\ src \in [Requests -> Sources \cup {None}]
    /\ hull \in [Requests -> Paths \cup {None}]
    /\ worlds \in [Requests -> Seq(Worlds)]
    /\ used \in [Pools -> Nat]
    /\ gone \in [Requests -> BOOLEAN]
    /\ reply \in [Requests -> Seq(Bases)]
    /\ published \in 0 .. Len(Revisions) /\ newest \in 0 .. published
    /\ WorldsType /\ ReplyType

\* A handler is at a stage of its plan with the worlds that go with it; out of
\* it, it holds nothing. A source is resolved only to be loaded, and a hull is
\* held alone only until its clips are there.
InPlace ==
    \A r \in Requests :
      /\ Busy(r) => <<kind[r], at[r], Len(worlds[r])>> \in Places
      /\ ~Busy(r) => worlds[r] = <<>>
      /\ src[r] # None => Stage(r) \in {"world", "hull"}
      /\ hull[r] # None => src[r] # None /\ Stage(r) = "world"

Under(p) == {r \in Requests : kind[r] = p /\ InSlot(r)}

\* The channels, and that they are finite for Cardinality to count.
Balance ==
    \A p \in Pools : /\ IsFiniteSet(Under(p))
                     /\ used[p] = Cardinality(Under(p))
                     /\ used[p] <= Slots[p]

\* HasMeant, with what is published and what is newest as arguments.
FirstsAt(p) ==
    {i \in 1 .. p : \A j \in 1 .. (i - 1) : Revisions[j].build # Revisions[i].build}

MeantAt(ref, p, n) ==
    IF ref = Default
    THEN IF MeshCdn # None THEN {Flat(MeshCdn)}
         ELSE {Flat(Pinned)} \cup {Manifest(i) : i \in 1 .. n}
    ELSE {Flat(ref)} \cup {Manifest(i) : i \in {j \in FirstsAt(p) : Revisions[j].build = ref}}

\* The source of a load under way is one its reference has had, and the hull
\* is that source's.
Fetching ==
    \A r \in Requests :
      /\ src[r] # None => src[r] \in MeantAt(Named(r), published, newest)
      /\ hull[r] # None => hull[r] \in Found(src[r], "hull")

WholeAt(w, ref, k, p, n) == \E s \in MeantAt(ref, p, n) : IsOf(w, s, Assets(k))

Whole ==
    \A r \in Requests : \A i \in 1 .. Len(worlds[r]) :
      WholeAt(worlds[r][i], refs[r][i], kind[r], published, newest)

IInv == Types /\ InPlace /\ Balance /\ Fetching /\ Whole

-----------------------------------------------------------------------------
(* The sources.                                                              *)

LEMMA MeantIs == \A ref : HasMeant(ref) = MeantAt(ref, published, newest)
BY DEF HasMeant, MeantAt, Firsts, FirstsAt

\* An entry of a manifest.
LEMMA RevisionTyped ==
    ASSUME NEW i \in 1 .. Len(Revisions)
    PROVE  /\ Revisions[i].build \in Bases
           /\ Revisions[i].hull \in Paths \cup {None} /\ Revisions[i].clip \in Paths \cup {None}
<1>1. Revisions[i] \in [build : Bases, hull : Paths \cup {None}, clip : Paths \cup {None}]
  <2>1. ASSUME NEW S, NEW q \in Seq(S), NEW j \in 1 .. Len(q) PROVE q[j] \in S
    BY <2>1
  <2> QED
    BY <2>1, RevisionsAssumption
<1> QED
  BY <1>1

\* What a load finds is a path, or nothing.
LEMMA FoundTyped ==
    ASSUME NEW s \in Sources
    PROVE  Found(s, "hull") \subseteq Paths \cup {None} /\ Found(s, "clip") \subseteq Paths \cup {None}
<1>1. s.label \in Paths /\ Pinned \in Paths /\ s.revision \in 0 .. Len(Revisions)
  BY PathsAssumption DEF Sources
<1>2. CASE s.revision = 0
  BY <1>1, <1>2 DEF Found, Target
<1>3. CASE s.revision # 0
  <2>1. s.revision \in 1 .. Len(Revisions)
    BY <1>1, <1>3
  <2>2. /\ Revisions[s.revision].hull \in Paths \cup {None}
        /\ Revisions[s.revision].clip \in Paths \cup {None}
    BY <2>1, RevisionTyped
  <2>3. Found(s, "hull") \subseteq Paths \cup {None}
    BY <1>1, <1>3, <2>2 DEF Found, Target
  <2>4. Found(s, "clip") \subseteq Paths \cup {None}
    BY <1>1, <1>3, <2>2 DEF Found, Target
  <2> QED
    BY <2>3, <2>4
<1> QED
  BY <1>2, <1>3

LEMMA MeantTyped ==
    ASSUME NEW ref \in Refs, NEW p \in 0 .. Len(Revisions), NEW n \in 0 .. Len(Revisions)
    PROVE  MeantAt(ref, p, n) \subseteq Sources
<1>1. Len(Revisions) \in Nat
  BY RevisionsAssumption
<1>2. \A b \in Bases : Flat(b) \in Sources
  BY <1>1 DEF Flat, Sources
<1>3. \A i \in 1 .. Len(Revisions) : Manifest(i) \in Sources
  BY <1>1, RevisionTyped DEF Manifest, Sources
<1>4. CASE ref = Default
  BY <1>1, <1>2, <1>3, <1>4, PathsAssumption DEF MeantAt
<1>5. CASE ref # Default
  BY <1>1, <1>2, <1>3, <1>5 DEF MeantAt, FirstsAt, Refs
<1> QED
  BY <1>4, <1>5

\* A source that a reference has had it has had for good.
LEMMA MeantGrows ==
    ASSUME NEW ref, NEW p \in Nat, NEW n \in Nat, NEW q \in Nat, NEW m \in Nat, p <= q, n <= m
    PROVE  MeantAt(ref, p, n) \subseteq MeantAt(ref, q, m)
<1>1. FirstsAt(p) \subseteq FirstsAt(q)
  BY DEF FirstsAt
<1>2. 1 .. n \subseteq 1 .. m
  OBVIOUS
<1> QED
  BY <1>1, <1>2 DEF MeantAt

\* What a reference means is among what it has meant.
LEMMA SourceIsMeant ==
    ASSUME Types, NEW ref
    PROVE  RevisionSource(ref) \in MeantAt(ref, published, newest)
<1>1. newest \in 0 .. published /\ published \in Nat
  BY RevisionsAssumption DEF Types
<1>2. CASE ref = Default
  BY <1>1, <1>2 DEF RevisionSource, DefaultSource, MeantAt
<1>3. CASE ref # Default
  <2> DEFINE is(i) == i \in Firsts /\ Revisions[i].build = ref
  <2>1. Firsts = FirstsAt(published)
    BY DEF Firsts, FirstsAt
  <2>2. CASE \E i \in Firsts : Revisions[i].build = ref
    <3>1. PICK i : i = CHOOSE j \in Firsts : Revisions[j].build = ref
      OBVIOUS
    <3>2. i \in Firsts /\ Revisions[i].build = ref
      BY <2>2, <3>1
    <3>3. RevisionSource(ref) = Manifest(i)
      BY <1>3, <2>2, <3>1 DEF RevisionSource, BaseSource
    <3> QED
      BY <1>3, <2>1, <3>2, <3>3 DEF MeantAt
  <2>3. CASE ~ \E i \in Firsts : Revisions[i].build = ref
    BY <1>3, <2>3 DEF RevisionSource, BaseSource, MeantAt
  <2> QED
    BY <2>2, <2>3
<1> QED
  BY <1>2, <1>3

\* Nobody resolves or loads, and what references have meant only grows.
LEMMA WholeSame ==
    ASSUME IInv, UNCHANGED <<kind, refs, src, hull, worlds>>,
           published' \in Nat, newest' \in Nat, published <= published', newest <= newest'
    PROVE  Fetching' /\ Whole'
<1>1. published \in Nat /\ newest \in Nat
  BY RevisionsAssumption DEF IInv, Types
<1>2. \A ref : MeantAt(ref, published, newest) \subseteq MeantAt(ref, published', newest')
  BY <1>1, MeantGrows
<1>3. Fetching'
  BY <1>2 DEF IInv, Fetching, Named
<1>4. Whole'
  BY <1>2 DEF IInv, Whole, WholeAt
<1> QED
  BY <1>3, <1>4

-----------------------------------------------------------------------------
(* The plans.                                                                *)

\* Which stage is which, for each kind.
LEMMA StageIs ==
    ASSUME Types, InPlace, NEW r \in Requests, Busy(r)
    PROVE  /\ Stage(r) \in {"world", "hull"} <=>
                <<kind[r], at[r]>> \in {<<"drift", 1>>, <<"drift", 2>>, <<"geometry", 1>>,
                                        <<"discover", 2>>, <<"floor", 1>>}
           /\ Stage(r) = "slot" <=>
                <<kind[r], at[r]>> \in {<<"drift", 3>>, <<"geometry", 2>>, <<"discover", 1>>}
           /\ Stage(r) = "run" <=>
                <<kind[r], at[r]>> \in {<<"drift", 4>>, <<"geometry", 3>>, <<"discover", 3>>,
                                        <<"floor", 2>>}
<1>1. <<kind[r], at[r], Len(worlds[r])>> \in Places
  BY DEF InPlace
<1>2. Stage(r) = Plan(kind[r])[at[r]]
  BY DEF Stage
<1>3. CASE kind[r] = "drift"
  BY <1>1, <1>2, <1>3 DEF Places, Plan
<1>4. CASE kind[r] = "geometry"
  BY <1>1, <1>2, <1>4 DEF Places, Plan
<1>5. CASE kind[r] = "discover"
  BY <1>1, <1>2, <1>5 DEF Places, Plan
<1>6. CASE kind[r] = "floor"
  BY <1>1, <1>2, <1>6 DEF Places, Plan
<1> QED
  BY <1>1, <1>3, <1>4, <1>5, <1>6 DEF Places

\* Who works under a slot.
LEMMA InSlotIs ==
    ASSUME Types, InPlace, NEW r \in Requests
    PROVE  InSlot(r) <=>
             <<kind[r], at[r]>> \in {<<"drift", 4>>, <<"geometry", 3>>,
                                     <<"discover", 2>>, <<"discover", 3>>}
<1>1. CASE ~Busy(r)
  BY <1>1 DEF InSlot, Busy, Over
<1>2. CASE Busy(r)
  <2>1. <<kind[r], at[r], Len(worlds[r])>> \in Places
    BY <1>2 DEF InPlace
  <2>2. InSlot(r) <=> \E i \in 1 .. (at[r] - 1) : Plan(kind[r])[i] = "slot"
    BY <1>2 DEF InSlot
  <2>3. CASE kind[r] = "drift"
    BY <2>1, <2>2, <2>3 DEF Places, Plan
  <2>4. CASE kind[r] = "geometry"
    BY <2>1, <2>2, <2>4 DEF Places, Plan
  <2>5. CASE kind[r] = "discover"
    BY <2>1, <2>2, <2>5 DEF Places, Plan
  <2>6. CASE kind[r] = "floor"
    BY <2>1, <2>2, <2>6 DEF Places, Plan
  <2> QED
    BY <2>1, <2>3, <2>4, <2>5, <2>6 DEF Places
<1> QED
  BY <1>1, <1>2

\* Who is where says who is under a slot.
LEMMA UnderSame ==
    ASSUME NEW q \in Requests, kind'[q] = kind[q], at'[q] = at[q]
    PROVE  InSlot(q)' <=> InSlot(q)
BY DEF InSlot, Busy

-----------------------------------------------------------------------------
(* The channels.                                                             *)

\* Nobody takes or returns a slot.
LEMMA BalanceSame ==
    ASSUME Balance, kind' = kind, used' = used,
           \A q \in Requests : InSlot(q)' <=> InSlot(q)
    PROVE  Balance'
<1>1. \A p : Under(p)' = Under(p)
  BY DEF Under
<1> QED
  BY <1>1 DEF Balance

\* A request takes a slot.
LEMMA BalanceTaken ==
    ASSUME Types, Balance, NEW r \in Requests, kind' = kind, kind[r] \in Pools,
           ~InSlot(r), InSlot(r)',
           \A q \in Requests \ {r} : InSlot(q)' <=> InSlot(q),
           used[kind[r]] < Slots[kind[r]],
           used' = [used EXCEPT ![kind[r]] = @ + 1]
    PROVE  Balance'
<1> SUFFICES ASSUME NEW p \in Pools
             PROVE  /\ IsFiniteSet(Under(p)') /\ used'[p] = Cardinality(Under(p)')
                    /\ used'[p] <= Slots[p]
  BY DEF Balance
<1>1. /\ IsFiniteSet(Under(p)) /\ used[p] = Cardinality(Under(p)) /\ used[p] <= Slots[p]
      /\ used \in [Pools -> Nat] /\ Slots[p] \in Nat
  BY SlotsAssumption DEF Balance, Types
<1>2. CASE p = kind[r]
  <2>1. Under(p)' = Under(p) \cup {r} /\ r \notin Under(p)
    BY <1>2 DEF Under
  <2>2. /\ IsFiniteSet(Under(p) \cup {r})
        /\ Cardinality(Under(p) \cup {r}) = Cardinality(Under(p)) + 1
    BY <1>1, <2>1, FS_AddElement
  <2> QED
    BY <1>1, <1>2, <2>1, <2>2
<1>3. CASE p # kind[r]
  <2>1. Under(p)' = Under(p)
    BY <1>3 DEF Under
  <2> QED
    BY <1>1, <1>3, <2>1
<1> QED
  BY <1>2, <1>3

\* A request returns the slot it has, if it has one.
LEMMA BalanceReturned ==
    ASSUME Types, Balance, NEW r \in Requests, kind' = kind,
           InSlot(r) => kind[r] \in Pools, ~InSlot(r)',
           \A q \in Requests \ {r} : InSlot(q)' <=> InSlot(q),
           used' = IF InSlot(r) THEN [used EXCEPT ![kind[r]] = @ - 1] ELSE used
    PROVE  Balance'
<1>1. CASE ~InSlot(r)
  BY <1>1, BalanceSame
<1>2. CASE InSlot(r)
  <2> SUFFICES ASSUME NEW p \in Pools
               PROVE  /\ IsFiniteSet(Under(p)') /\ used'[p] = Cardinality(Under(p)')
                      /\ used'[p] <= Slots[p]
    BY DEF Balance
  <2>1. /\ IsFiniteSet(Under(p)) /\ used[p] = Cardinality(Under(p)) /\ used[p] <= Slots[p]
        /\ used \in [Pools -> Nat] /\ Slots[p] \in Nat
    BY SlotsAssumption DEF Balance, Types
  <2>2. CASE p = kind[r]
    <3>1. Under(p)' = Under(p) \ {r} /\ r \in Under(p)
      BY <1>2, <2>2 DEF Under
    <3>2. /\ IsFiniteSet(Under(p) \ {r})
          /\ Cardinality(Under(p) \ {r}) = Cardinality(Under(p)) - 1
      BY <2>1, <3>1, FS_RemoveElement
    <3>3. used'[p] = used[p] - 1
      BY <1>2, <2>1, <2>2
    <3> QED
      BY <2>1, <3>1, <3>2, <3>3
  <2>3. CASE p # kind[r]
    <3>1. Under(p)' = Under(p)
      BY <2>3 DEF Under
    <3> QED
      BY <1>2, <2>1, <2>3, <3>1
  <2> QED
    BY <2>2, <2>3
<1> QED
  BY <1>1, <1>2

-----------------------------------------------------------------------------
(* The steps.                                                                *)

LEMMA IInvInit == Init => IInv
<1> SUFFICES ASSUME Init PROVE IInv
  OBVIOUS
<1>1. Types
  BY RevisionsAssumption DEF Init, Types, WorldsType, ReplyType, Over
<1>2. InPlace
  BY DEF Init, InPlace, Busy
<1>3. Balance
  <2>1. \A p : Under(p) = {}
    BY DEF Init, Under, InSlot, Busy
  <2> QED
    <3>1. IsFiniteSet({}) /\ Cardinality({}) = 0
      BY FS_EmptySet
    <3>2. \A p \in Pools : used[p] = 0 /\ 0 <= Slots[p]
      BY SlotsAssumption DEF Init
    <3> QED
      BY <2>1, <3>1, <3>2 DEF Balance
<1>4. Fetching /\ Whole
  BY DEF Init, Fetching, Whole
<1> QED
  BY <1>1, <1>2, <1>3, <1>4 DEF IInv

LEMMA ArriveKeeps ==
    ASSUME IInv, NEW r \in Requests, Arrive(r)
    PROVE  IInv'
<1>1. Types'
  BY DEF IInv, Arrive, Types, WorldsType, ReplyType, outside
<1>2. InPlace'
  <2> SUFFICES ASSUME NEW q \in Requests
               PROVE  /\ Busy(q)' => <<kind[q], at'[q], Len(worlds[q])>> \in Places
                      /\ ~Busy(q)' => worlds[q] = <<>>
                      /\ src[q] # None => Stage(q)' \in {"world", "hull"}
                      /\ hull[q] # None => src[q] # None /\ Stage(q)' = "world"
    BY DEF InPlace, Arrive
  <2>1. CASE q = r
    <3>1. /\ at[r] = 0 /\ at'[r] = 1 /\ worlds[r] = <<>> /\ src[r] = None /\ hull[r] = None
          /\ kind[r] \in Kinds
      BY DEF IInv, Arrive, InPlace, Types, Busy, Stage
    <3> QED
      BY <2>1, <3>1 DEF Busy, Over, Places, Kinds, Pools
  <2>2. CASE q # r
    BY <2>2 DEF IInv, Arrive, InPlace, Types, Busy, Stage
  <2> QED
    BY <2>1, <2>2
<1>3. Balance'
  <2>1. ~InSlot(r) /\ ~InSlot(r)'
    <3>1. at[r] = 0 /\ at'[r] = 1
      BY DEF IInv, Arrive, Types
    <3> QED
      BY <3>1 DEF InSlot, Busy
  <2>2. \A q \in Requests : InSlot(q)' <=> InSlot(q)
    BY <2>1, UnderSame DEF IInv, Arrive, Types
  <2> QED
    BY <2>2, BalanceSame DEF IInv, Arrive
<1>4. Fetching' /\ Whole'
  BY WholeSame, RevisionsAssumption DEF IInv, Types, Arrive, outside
<1> QED
  BY <1>1, <1>2, <1>3, <1>4 DEF IInv

LEMMA ReturnKeeps ==
    ASSUME IInv, NEW r \in Requests, Return(r), reply' \in [Requests -> Seq(Bases)], ReplyType'
    PROVE  IInv'
<1>1. Types'
  <2>1. used' \in [Pools -> Nat]
    <3>1. CASE InSlot(r)
      <4>1. kind[r] \in Pools /\ used \in [Pools -> Nat]
        BY <3>1, InSlotIs DEF IInv, Types, Pools
      <4>2. r \in Under(kind[r]) /\ IsFiniteSet(Under(kind[r]))
        BY <3>1, <4>1 DEF Under, IInv, Balance
      <4>3. Cardinality(Under(kind[r])) # 0
        BY <4>2, FS_EmptySet
      <4>4. used[kind[r]] # 0
        BY <4>1, <4>3 DEF IInv, Balance
      <4> QED
        BY <3>1, <4>1, <4>4 DEF Return
    <3>2. CASE ~InSlot(r)
      BY <3>2 DEF IInv, Return, Types
    <3> QED
      BY <3>1, <3>2
  <2>2. worlds' \in [Requests -> Seq(Worlds)] /\ WorldsType'
    <3>1. <<>> \in Seq(Worlds) /\ Len(<<>>) \in 0 .. 2
      OBVIOUS
    <3> QED
      BY <3>1 DEF IInv, Return, Types, WorldsType
  <2>3. /\ at' \in [Requests -> 0 .. 4 \cup {Over}] /\ src' \in [Requests -> Sources \cup {None}]
        /\ hull' \in [Requests -> Paths \cup {None}]
    BY DEF IInv, Return, Types
  <2> QED
    BY <2>1, <2>2, <2>3 DEF IInv, Return, Types, outside
<1>2. InPlace'
  BY DEF IInv, Return, InPlace, Types, Busy, Stage
<1>3. Balance'
  <2>1. ~InSlot(r)'
    BY DEF IInv, Return, Types, InSlot, Busy
  <2>2. InSlot(r) => kind[r] \in Pools
    BY InSlotIs DEF IInv, Pools
  <2>3. \A q \in Requests \ {r} : InSlot(q)' <=> InSlot(q)
    BY UnderSame DEF IInv, Return, Types
  <2> QED
    BY <2>1, <2>2, <2>3, BalanceReturned DEF IInv, Return
<1>4. Fetching'
  BY DEF IInv, Return, Fetching, Named, Types, outside
<1>5. Whole'
  BY DEF IInv, Return, Whole, Types, outside
<1> QED
  BY <1>1, <1>2, <1>3, <1>4, <1>5 DEF IInv

\* The world that is loaded next has a reference.
LEMMA NamedTyped ==
    ASSUME IInv, NEW r \in Requests, Stage(r) \in {"world", "hull"}
    PROVE  /\ Busy(r) /\ <<kind[r], at[r], Len(worlds[r])>> \in Places
           /\ <<kind[r], at[r]>> \in {<<"drift", 1>>, <<"drift", 2>>, <<"geometry", 1>>,
                                      <<"discover", 2>>, <<"floor", 1>>}
           /\ Len(worlds[r]) \in 0 .. 1 /\ Named(r) \in Refs
<1>1. Busy(r)
  BY DEF Stage
<1>2. <<kind[r], at[r], Len(worlds[r])>> \in Places
  BY <1>1 DEF IInv, InPlace
<1>3. <<kind[r], at[r]>> \in {<<"drift", 1>>, <<"drift", 2>>, <<"geometry", 1>>,
                              <<"discover", 2>>, <<"floor", 1>>}
  BY <1>1, StageIs DEF IInv
<1>4. Len(worlds[r]) \in 0 .. 1
  BY <1>2, <1>3 DEF Places
<1>5. refs[r][1] \in Refs /\ refs[r][2] \in Refs
  BY DEF IInv, Types
<1>6. Named(r) \in Refs
  <2>1. CASE Len(worlds[r]) = 0
    BY <1>5, <2>1 DEF Named
  <2>2. CASE Len(worlds[r]) = 1
    BY <1>5, <2>2 DEF Named
  <2> QED
    BY <1>4, <2>1, <2>2
<1> QED
  BY <1>1, <1>2, <1>3, <1>4, <1>6

\* A source under way is a source.
LEMMA SrcTyped ==
    ASSUME IInv, NEW r \in Requests, src[r] # None
    PROVE  src[r] \in Sources /\ Stage(r) \in {"world", "hull"}
BY DEF IInv, Types, InPlace

LEMMA ResolveKeeps ==
    ASSUME IInv, NEW r \in Requests, Resolve(r)
    PROVE  IInv'
<1>1. PICK s : s = RevisionSource(Named(r))
  OBVIOUS
<1>2. s \in MeantAt(Named(r), published, newest)
  BY <1>1, SourceIsMeant DEF IInv
<1>3. s \in Sources
  <2>1. Named(r) \in Refs
    BY NamedTyped DEF Resolve
  <2>2. published \in 0 .. Len(Revisions) /\ newest \in 0 .. Len(Revisions)
    BY RevisionsAssumption DEF IInv, Types
  <2> QED
    BY <1>2, <2>1, <2>2, MeantTyped
<1>4. /\ Stage(r) \in {"world", "hull"} /\ src[r] = None /\ src' = [src EXCEPT ![r] = s]
      /\ UNCHANGED <<kind, refs, at, hull, worlds, reply, used, gone, published, newest>>
  BY <1>1 DEF Resolve, outside
<1>5. hull[r] = None
  BY <1>4 DEF IInv, InPlace
<1>6. Types'
  <2>1. src' \in [Requests -> Sources \cup {None}]
    BY <1>3, <1>4 DEF IInv, Types
  <2> QED
    BY <1>4, <2>1 DEF IInv, Types, WorldsType, ReplyType
<1>7. InPlace'
  BY <1>4, <1>5 DEF IInv, InPlace, Types, Busy, Stage
<1>8. Balance'
  BY <1>4, UnderSame, BalanceSame DEF IInv
<1>9. Fetching'
  BY <1>2, <1>4, <1>5 DEF IInv, Types, Fetching, Named
<1>10. Whole'
  BY <1>4 DEF IInv, Whole
<1> QED
  BY <1>6, <1>7, <1>8, <1>9, <1>10 DEF IInv

LEMMA LoadHullKeeps ==
    ASSUME IInv, NEW r \in Requests, LoadHull(r)
    PROVE  IInv'
<1>1. PICK h \in Found(src[r], "hull") \ {None} : hull' = [hull EXCEPT ![r] = h]
  BY DEF LoadHull
<1>2. /\ Stage(r) = "world" /\ src[r] # None
      /\ UNCHANGED <<kind, refs, at, src, worlds, reply, used, gone, published, newest>>
  BY DEF LoadHull, outside
<1>3. h \in Paths
  BY <1>1, <1>2, SrcTyped, FoundTyped
<1>4. Types'
  <2>1. hull' \in [Requests -> Paths \cup {None}]
    BY <1>1, <1>3 DEF IInv, Types
  <2> QED
    BY <1>2, <2>1 DEF IInv, Types, WorldsType, ReplyType
<1>5. InPlace'
  BY <1>1, <1>2 DEF IInv, InPlace, Types, Busy, Stage
<1>6. Balance'
  BY <1>2, UnderSame, BalanceSame DEF IInv
<1>7. Fetching'
  BY <1>1, <1>2 DEF IInv, Types, Fetching, Named
<1>8. Whole'
  BY <1>2 DEF IInv, Whole
<1> QED
  BY <1>4, <1>5, <1>6, <1>7, <1>8 DEF IInv

\* A world that is of the source takes the place the stage leaves for it.
LEMMA LoadedKeeps ==
    ASSUME IInv, NEW r \in Requests, NEW w \in Worlds, Loaded(r, w), src[r] # None,
           IsOf(w, src[r], Assets(kind[r]))
    PROVE  IInv'
<1>1. src[r] \in MeantAt(Named(r), published, newest)
  BY DEF IInv, Fetching
<1>2. WholeAt(w, refs[r][Len(worlds[r]) + 1], kind[r], published, newest)
  BY <1>1 DEF WholeAt, Named
<1>3. /\ <<kind[r], at[r], Len(worlds[r])>> \in Places
      /\ <<kind[r], at[r]>> \in {<<"drift", 1>>, <<"drift", 2>>, <<"geometry", 1>>,
                                 <<"discover", 2>>, <<"floor", 1>>}
      /\ Busy(r)
  BY SrcTyped, NamedTyped
<1>4. /\ <<kind[r], at[r] + 1, Len(worlds[r]) + 1>> \in Places
      /\ at[r] + 1 \in 0 .. 4 /\ Len(worlds[r]) + 1 \in 0 .. 2
  <2> DEFINE k == kind[r]  a == at[r]  n == Len(worlds[r])
  <2>1. \/ k = "drift" /\ a = 1 /\ n = 0
        \/ k = "drift" /\ a = 2 /\ n = 1
        \/ k = "geometry" /\ a = 1 /\ n = 0
        \/ k = "discover" /\ a = 2 /\ n = 0
        \/ k = "floor" /\ a = 1 /\ n = 0
    BY <1>3 DEF Places
  <2> HIDE DEF k, a, n
  <2>2. <<k, a + 1, n + 1>> \in Places /\ a + 1 \in 0 .. 4 /\ n + 1 \in 0 .. 2
    BY <2>1 DEF Places
  <2> QED
    BY <2>2 DEF k, a, n
<1>5. /\ worlds' = [worlds EXCEPT ![r] = Append(worlds[r], w)]
      /\ src' = [src EXCEPT ![r] = None]
      /\ hull' = [hull EXCEPT ![r] = None]
      /\ at' = [at EXCEPT ![r] = at[r] + 1]
      /\ UNCHANGED <<kind, refs, reply, used, gone, published, newest>>
  BY DEF Loaded, outside
<1>6. /\ worlds[r] \in Seq(Worlds)
      /\ Append(worlds[r], w) \in Seq(Worlds)
      /\ Len(Append(worlds[r], w)) = Len(worlds[r]) + 1
      /\ \A i \in 1 .. Len(worlds[r]) : Append(worlds[r], w)[i] = worlds[r][i]
      /\ Append(worlds[r], w)[Len(worlds[r]) + 1] = w
  BY DEF IInv, Types
<1>7. Types'
  <2>1. worlds' \in [Requests -> Seq(Worlds)] /\ WorldsType'
    BY <1>4, <1>5, <1>6 DEF IInv, Types, WorldsType
  <2>2. /\ at' \in [Requests -> 0 .. 4 \cup {Over}] /\ src' \in [Requests -> Sources \cup {None}]
        /\ hull' \in [Requests -> Paths \cup {None}]
    BY <1>4, <1>5 DEF IInv, Types
  <2> QED
    BY <1>5, <2>1, <2>2 DEF IInv, Types, ReplyType
<1>8. InPlace'
  <2> SUFFICES ASSUME NEW q \in Requests
               PROVE  /\ Busy(q)' => <<kind[q], at'[q], Len(worlds'[q])>> \in Places
                      /\ ~Busy(q)' => worlds'[q] = <<>>
                      /\ src'[q] # None => Stage(q)' \in {"world", "hull"}
                      /\ hull'[q] # None => src'[q] # None /\ Stage(q)' = "world"
    BY <1>5 DEF InPlace
  <2>1. CASE q = r
    <3>1. /\ at'[r] = at[r] + 1 /\ worlds'[r] = Append(worlds[r], w) /\ src'[r] = None
          /\ hull'[r] = None
      BY <1>5 DEF IInv, Types
    <3>2. Busy(r)'
      BY <1>3, <3>1 DEF Busy, Over, Places
    <3> QED
      BY <1>4, <1>6, <2>1, <3>1, <3>2
  <2>2. CASE q # r
    BY <1>5, <2>2 DEF IInv, InPlace, Types, Busy, Stage
  <2> QED
    BY <2>1, <2>2
<1>9. Balance'
  <2>1. ASSUME NEW q \in Requests PROVE InSlot(q)' <=> InSlot(q)
    <3>1. CASE q = r
      <4>1. Types' /\ InPlace' /\ at'[r] = at[r] + 1 /\ kind'[r] = kind[r]
        BY <1>5, <1>7, <1>8 DEF IInv, Types
      <4>2. InSlot(r) <=> <<kind[r], at[r]>> \in {<<"drift", 4>>, <<"geometry", 3>>,
                                                  <<"discover", 2>>, <<"discover", 3>>}
        BY InSlotIs DEF IInv
      <4>3. InSlot(r)' <=> <<kind[r], at[r]>> = <<"discover", 2>>
        <5>1. InSlot(r)' <=> \E i \in 1 .. at[r] : Plan(kind[r])[i] = "slot"
          <6>1. Busy(r)'
            BY <1>3, <4>1 DEF Busy, Over, Places
          <6> QED
            BY <1>3, <4>1, <6>1 DEF InSlot, Places
        <5> QED
          BY <1>3, <5>1 DEF Plan
      <4> QED
        BY <1>3, <3>1, <4>2, <4>3
    <3>2. CASE q # r
      BY <1>5, <3>2, UnderSame DEF IInv, Types
    <3> QED
      BY <3>1, <3>2
  <2> QED
    BY <1>5, <2>1, BalanceSame DEF IInv
<1>10. Fetching'
  BY <1>5 DEF IInv, Types, Fetching, Named
<1>11. Whole'
  <2> SUFFICES ASSUME NEW q \in Requests, NEW i \in 1 .. Len(worlds'[q])
               PROVE  WholeAt(worlds'[q][i], refs[q][i], kind[q], published, newest)
    BY <1>5 DEF Whole
  <2>1. CASE q # r \/ i \in 1 .. Len(worlds[q])
    <3>1. i \in 1 .. Len(worlds[q]) /\ worlds'[q][i] = worlds[q][i]
      BY <1>5, <1>6, <2>1 DEF IInv, Types
    <3> QED
      BY <3>1 DEF IInv, Whole
  <2>2. CASE q = r /\ i \notin 1 .. Len(worlds[q])
    <3>1. worlds'[q][i] = w /\ i = Len(worlds[r]) + 1
      BY <1>5, <1>6, <2>2 DEF IInv, Types
    <3> QED
      BY <1>2, <2>2, <3>1
  <2> QED
    BY <2>1, <2>2
<1> QED
  BY <1>7, <1>8, <1>9, <1>10, <1>11 DEF IInv

LEMMA LoadClipKeeps ==
    ASSUME IInv, NEW r \in Requests, LoadClip(r)
    PROVE  IInv'
<1>1. PICK c \in Found(src[r], "clip") :
        Loaded(r, [hull |-> hull[r], clip |-> c, label |-> src[r].label])
  BY DEF LoadClip
<1>2. src[r] # None /\ Stage(r) = "world" /\ hull[r] \in Found(src[r], "hull") /\ hull[r] \in Paths
  BY DEF LoadClip, IInv, InPlace, Fetching, Types
<1>3. src[r] \in Sources /\ c \in Paths \cup {None}
  BY <1>1, <1>2, SrcTyped, FoundTyped
<1>4. kind[r] # "geometry"
  <2>1. CASE kind[r] = "geometry"
    <3>1. Busy(r) /\ at[r] = 1
      BY <1>2, <2>1, NamedTyped
    <3> QED
      BY <1>2, <2>1, <3>1 DEF Stage, Plan
  <2> QED
    BY <2>1
<1>5. PICK w : w = [hull |-> hull[r], clip |-> c, label |-> src[r].label]
  OBVIOUS
<1>6. w \in Worlds /\ IsOf(w, src[r], Assets(kind[r]))
  <2>1. src[r].label \in Bases
    BY <1>3 DEF Sources
  <2> QED
    BY <1>1, <1>2, <1>3, <1>4, <1>5, <2>1 DEF Worlds, IsOf, Assets
<1> QED
  BY <1>1, <1>2, <1>5, <1>6, LoadedKeeps

LEMMA LoadMeshKeeps ==
    ASSUME IInv, NEW r \in Requests, LoadMesh(r)
    PROVE  IInv'
<1>1. PICK h \in Found(src[r], "hull") \ {None} :
        Loaded(r, [hull |-> h, clip |-> None, label |-> src[r].label])
  BY DEF LoadMesh
<1>2. src[r] # None /\ Stage(r) = "hull"
  BY DEF LoadMesh
<1>3. src[r] \in Sources /\ h \in Paths
  BY <1>1, <1>2, SrcTyped, FoundTyped
<1>4. kind[r] = "geometry"
  <2>1. /\ Busy(r)
        /\ <<kind[r], at[r]>> \in {<<"drift", 1>>, <<"drift", 2>>, <<"geometry", 1>>,
                                   <<"discover", 2>>, <<"floor", 1>>}
    BY <1>2, NamedTyped
  <2>2. Stage(r) = Plan(kind[r])[at[r]]
    BY <2>1 DEF Stage
  <2> QED
    BY <1>2, <2>1, <2>2 DEF Plan
<1>5. PICK w : w = [hull |-> h, clip |-> None, label |-> src[r].label]
  OBVIOUS
<1>6. w \in Worlds /\ IsOf(w, src[r], Assets(kind[r]))
  <2>1. src[r].label \in Bases
    BY <1>3 DEF Sources
  <2> QED
    BY <1>1, <1>3, <1>4, <1>5, <2>1 DEF Worlds, IsOf, Assets
<1> QED
  BY <1>1, <1>2, <1>5, <1>6, LoadedKeeps

LEMMA TakeSlotKeeps ==
    ASSUME IInv, NEW r \in Requests, TakeSlot(r)
    PROVE  IInv'
<1>1. /\ Busy(r)
      /\ \/ kind[r] = "drift" /\ at[r] = 3 /\ Len(worlds[r]) = 2
         \/ kind[r] = "geometry" /\ at[r] = 2 /\ Len(worlds[r]) = 1
         \/ kind[r] = "discover" /\ at[r] = 1 /\ Len(worlds[r]) = 0
  <2>1. Busy(r)
    BY DEF TakeSlot, Stage
  <2>2. <<kind[r], at[r], Len(worlds[r])>> \in Places
    BY <2>1 DEF IInv, InPlace
  <2> QED
    BY <2>1, <2>2, StageIs DEF IInv, TakeSlot, Places
<1>2. src[r] = None /\ hull[r] = None
  BY DEF IInv, InPlace, TakeSlot
<1>3. /\ at' = [at EXCEPT ![r] = at[r] + 1] /\ at'[r] = at[r] + 1
      /\ used' = [used EXCEPT ![kind[r]] = used[kind[r]] + 1]
      /\ used[kind[r]] < Slots[kind[r]]
      /\ UNCHANGED <<kind, refs, src, hull, worlds, reply, gone, published, newest>>
  BY DEF TakeSlot, IInv, Types, outside
<1>4. Types'
  <2>1. at' \in [Requests -> 0 .. 4 \cup {Over}]
    <3>1. at[r] + 1 \in 0 .. 4
      BY <1>1
    <3> QED
      BY <1>3, <3>1 DEF IInv, Types
  <2>2. used' \in [Pools -> Nat]
    <3>1. kind[r] \in Pools /\ used \in [Pools -> Nat]
      BY <1>1 DEF IInv, Types, Pools
    <3>2. used[kind[r]] + 1 \in Nat
      BY <3>1
    <3> QED
      BY <1>3, <3>1, <3>2
  <2> QED
    BY <1>3, <2>1, <2>2 DEF IInv, Types, WorldsType, ReplyType
<1>5. InPlace'
  <2> SUFFICES ASSUME NEW q \in Requests
               PROVE  /\ Busy(q)' => <<kind[q], at'[q], Len(worlds[q])>> \in Places
                      /\ ~Busy(q)' => worlds[q] = <<>>
                      /\ src[q] # None => Stage(q)' \in {"world", "hull"}
                      /\ hull[q] # None => src[q] # None /\ Stage(q)' = "world"
    BY <1>3 DEF InPlace
  <2>1. CASE q = r
    <3>1. Busy(r)' /\ <<kind[r], at'[r], Len(worlds[r])>> \in Places
      BY <1>1, <1>3 DEF Busy, Over, Places
    <3> QED
      BY <1>2, <2>1, <3>1
  <2>2. CASE q # r
    BY <1>3, <2>2 DEF IInv, InPlace, Types, Busy, Stage
  <2> QED
    BY <2>1, <2>2
<1>6. Balance'
  <2>1. kind[r] \in Pools /\ ~InSlot(r)
    BY <1>1, InSlotIs DEF IInv, Pools
  <2>2. InSlot(r)'
    <3>1. Busy(r)'
      BY <1>1, <1>3 DEF Busy, Over
    <3>2. at[r] \in 1 .. (at'[r] - 1) /\ Plan(kind[r])[at[r]] = "slot"
      BY <1>1, <1>3 DEF Plan
    <3> QED
      BY <1>3, <3>1, <3>2 DEF InSlot
  <2>3. \A q \in Requests \ {r} : InSlot(q)' <=> InSlot(q)
    BY <1>3, UnderSame DEF IInv, Types
  <2> QED
    BY <1>3, <2>1, <2>2, <2>3, BalanceTaken DEF IInv
<1>7. Fetching' /\ Whole'
  BY <1>3, WholeSame, RevisionsAssumption DEF IInv, Types
<1> QED
  BY <1>4, <1>5, <1>6, <1>7 DEF IInv

\* A report names, world by world, sources that give them.
LEMMA AnswerNames ==
    ASSUME IInv, NEW r \in Requests, Answer(r)
    PROVE  /\ reply' \in [Requests -> Seq(Bases)] /\ ReplyType'
           /\ \A q \in Requests : reply'[q] # reply[q] =>
                /\ Len(reply'[q]) = Len(worlds[q])
                /\ \A i \in 1 .. Len(worlds[q]) :
                     \E s \in MeantAt(refs[q][i], published, newest) :
                       reply'[q][i] = s.label /\ IsOf(worlds[q][i], s, Assets(kind[q]))
<1> DEFINE named == [i \in 1 .. Len(worlds[r]) |-> worlds[r][i].label]
<1>1. reply \in [Requests -> Seq(Bases)] /\ ReplyType
  BY DEF IInv, Types
<1>2. CASE reply' = reply
  BY <1>1, <1>2 DEF ReplyType
<1>3. CASE reply' = [reply EXCEPT ![r] = named]
  <2>1. worlds[r] \in Seq(Worlds) /\ Len(worlds[r]) \in 0 .. 2
    BY DEF IInv, Types, WorldsType
  <2>2. ASSUME NEW i \in 1 .. Len(worlds[r]) PROVE worlds[r][i].label \in Bases
    <3>1. worlds[r][i] \in Worlds
      BY <2>1
    <3> QED
      BY <3>1 DEF Worlds
  <2>3. named \in Seq(Bases) /\ Len(named) = Len(worlds[r])
    BY <2>1, <2>2
  <2>4. \A i \in 1 .. Len(worlds[r]) :
          \E s \in MeantAt(refs[r][i], published, newest) :
            named[i] = s.label /\ IsOf(worlds[r][i], s, Assets(kind[r]))
    BY DEF IInv, Whole, WholeAt, IsOf
  <2> HIDE DEF named
  <2>5. reply' \in [Requests -> Seq(Bases)] /\ ReplyType'
    BY <1>1, <1>3, <2>1, <2>3 DEF ReplyType
  <2> QED
    BY <1>1, <1>3, <2>3, <2>4, <2>5
<1> QED
  BY <1>2, <1>3 DEF Answer

LEMMA IInvStep == IInv /\ [Next]_vars => IInv'
<1> SUFFICES ASSUME IInv, [Next]_vars PROVE IInv'
  OBVIOUS
<1>1. ASSUME NEW r \in Requests, Arrive(r) PROVE IInv'
  BY <1>1, ArriveKeeps
<1>2. ASSUME NEW r \in Requests, Resolve(r) PROVE IInv'
  BY <1>2, ResolveKeeps
<1>3. ASSUME NEW r \in Requests, LoadHull(r) \/ LoadClip(r) \/ LoadMesh(r) PROVE IInv'
  BY <1>3, LoadHullKeeps, LoadClipKeeps, LoadMeshKeeps
<1>4. ASSUME NEW r \in Requests, Return(r), UNCHANGED reply PROVE IInv'
  BY <1>4, ReturnKeeps DEF IInv, Types, ReplyType
<1>5. ASSUME NEW r \in Requests, TakeSlot(r) PROVE IInv'
  BY <1>5, TakeSlotKeeps
<1>6. ASSUME NEW r \in Requests, Answer(r) PROVE IInv'
  BY <1>6, AnswerNames, ReturnKeeps DEF Answer
<1>7. ASSUME UNCHANGED <<progress, used>>, gone' \in [Requests -> BOOLEAN],
             published' \in 0 .. Len(Revisions), newest' \in 0 .. published',
             published <= published', newest <= newest'
      PROVE  IInv'
  <2>1. Types'
    BY <1>7 DEF IInv, Types, WorldsType, ReplyType, progress
  <2>2. InPlace'
    BY <1>7 DEF IInv, InPlace, progress, Busy, Stage
  <2>3. Balance'
    BY <1>7, UnderSame, BalanceSame DEF IInv, progress
  <2>4. Fetching' /\ Whole'
    BY <1>7, WholeSame, RevisionsAssumption DEF progress
  <2> QED
    BY <2>1, <2>2, <2>3, <2>4 DEF IInv
<1>8. ASSUME NEW r \in Requests, Leave(r) PROVE IInv'
  BY <1>7, <1>8, RevisionsAssumption DEF IInv, Types, Leave, outside
<1>9. CASE Publish
  BY <1>7, <1>9, RevisionsAssumption DEF IInv, Types, Publish
<1>10. CASE Adopt
  BY <1>7, <1>10, RevisionsAssumption DEF IInv, Types, Adopt
<1>11. CASE UNCHANGED vars
  BY <1>7, <1>11, RevisionsAssumption DEF IInv, Types, vars, outside
<1> QED
  BY <1>1, <1>2, <1>3, <1>4, <1>5, <1>6, <1>8, <1>9, <1>10, <1>11 DEF Next, LoadFails, GiveUp

LEMMA IInvAlways == Spec => []IInv
BY IInvInit, IInvStep, PTL DEF Spec

-----------------------------------------------------------------------------
(* The properties.                                                           *)

\* The pools' channels are neither overdrawn nor drained, a slot bounds the
\* worlds that searches hold and the computations that run, and every world is
\* what one source of its reference gives: LoadGrenadeWorld loads both assets
\* from the source it has resolved, wherever that source has them.
THEOREM SlotsAreCoherent == Spec => []SlotsCoherent
<1>1. IInv => SlotsCoherent
  <2> SUFFICES ASSUME IInv PROVE SlotsCoherent
    OBVIOUS
  <2>1. TypeOK
    <3>1. ASSUME NEW S, NEW s \in Seq(S), Len(s) \in 0 .. 2
          PROVE  s \in UNION {[1 .. n -> S] : n \in 0 .. 2}
      <4>1. s \in [1 .. Len(s) -> S]
        BY <3>1
      <4> QED
        BY <3>1, <4>1
    <3>2. \A r \in Requests : worlds[r] \in UNION {[1 .. n -> Worlds] : n \in 0 .. 2}
      BY <3>1 DEF IInv, Types, WorldsType
    <3>3. \A r \in Requests : reply[r] \in UNION {[1 .. n -> Bases] : n \in 0 .. 2}
      BY <3>1 DEF IInv, Types, ReplyType
    <3> QED
      BY <3>2, <3>3 DEF IInv, Types, TypeOK
  <2>2. SlotsBalance
    BY DEF IInv, Balance, SlotsBalance, Under
  <2>3. ASSUME NEW p \in Pools, NEW S \in SUBSET Under(p)
        PROVE  Cardinality(S) <= Slots[p]
    <3>1. /\ IsFiniteSet(Under(p)) /\ Cardinality(Under(p)) = used[p] /\ used[p] <= Slots[p]
          /\ used[p] \in Nat /\ Slots[p] \in Nat
      BY SlotsAssumption DEF IInv, Balance, Types
    <3>2. IsFiniteSet(S) /\ Cardinality(S) <= Cardinality(Under(p)) /\ Cardinality(S) \in Nat
      BY <3>1, FS_Subset, FS_CardinalityType
    <3> QED
      BY <3>1, <3>2
  <2>4. WithinSlots
    <3> SUFFICES ASSUME NEW p \in Pools
                 PROVE  {r \in Requests : kind[r] = p /\ Stage(r) = "run"} \in SUBSET Under(p)
      BY <2>3 DEF WithinSlots
    <3>1. ASSUME NEW r \in Requests, kind[r] = p, Stage(r) = "run" PROVE InSlot(r)
      <4>1. Busy(r)
        BY <3>1 DEF Stage
      <4> QED
        BY <3>1, <4>1, StageIs, InSlotIs DEF IInv, Pools
    <3> QED
      BY <3>1 DEF Under
  <2>5. DiscoverHoldsUnderSlot
    <3>1. ASSUME NEW r \in Requests, kind[r] = "discover", worlds[r] # <<>> PROVE InSlot(r)
      <4>1. <<kind[r], at[r], Len(worlds[r])>> \in Places
        BY <3>1 DEF IInv, InPlace
      <4>2. Len(worlds[r]) # 0
        BY <3>1 DEF IInv, Types
      <4>3. <<kind[r], at[r]>> = <<"discover", 3>>
        BY <3>1, <4>1, <4>2 DEF Places
      <4> QED
        BY <4>3, InSlotIs DEF IInv
    <3>2. {r \in Requests : kind[r] = "discover" /\ worlds[r] # <<>>} \in SUBSET Under("discover")
      BY <3>1 DEF Under
    <3> QED
      BY <2>3, <3>2 DEF DiscoverHoldsUnderSlot, Pools
  <2>6. WorldsAreWhole
    BY MeantIs DEF IInv, Whole, WholeAt, WorldsAreWhole
  <2> QED
    BY <2>1, <2>2, <2>4, <2>5, <2>6 DEF SlotsCoherent
<1> QED
  BY <1>1, IInvAlways, PTL

\* A report names, for each of its worlds, a source that its reference has had
\* and that gives this world's files, whatever has been published since: the
\* handler echoes Revision(), which is the label of the source it loaded from.
THEOREM ReportsNameTheirWorlds == Spec => ReportNamesItsWorlds
<1>1. IInv /\ [Next]_vars =>
        [\A r \in Requests : reply'[r] # reply[r] =>
           /\ Len(reply'[r]) = Len(worlds[r])
           /\ \A i \in 1 .. Len(worlds[r]) :
                \E s \in HasMeant(refs[r][i]) :
                  reply'[r][i] = s.label /\ IsOf(worlds[r][i], s, Assets(kind[r]))]_vars
  <2> SUFFICES ASSUME IInv, Next, NEW q \in Requests, reply'[q] # reply[q]
               PROVE  /\ Len(reply'[q]) = Len(worlds[q])
                      /\ \A i \in 1 .. Len(worlds[q]) :
                           \E s \in HasMeant(refs[q][i]) :
                             reply'[q][i] = s.label /\ IsOf(worlds[q][i], s, Assets(kind[q]))
    OBVIOUS
  <2>1. PICK r \in Requests : Answer(r)
    BY DEF Next, Arrive, Resolve, LoadHull, LoadClip, LoadMesh, Loaded, LoadFails, TakeSlot,
           GiveUp, Leave, Publish, Adopt, progress
  <2> QED
    BY <2>1, AnswerNames, MeantIs
<1> QED
  BY <1>1, IInvAlways, PTL DEF Spec, ReportNamesItsWorlds
=============================================================================
