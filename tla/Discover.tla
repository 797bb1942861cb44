------------------------------ MODULE Discover ------------------------------
(***************************************************************************)
(* How /discover looks for throws (Search in internal/discover/search.go,   *)
(* called by handleDiscover in cmd/server/discover.go): the spots of the    *)
(* area a player can stand on, nearest the target first, times the kinds of *)
(* throw asked for, are fed one by one to a pool of searchers through an    *)
(* unbuffered channel until all are fed or the budget (or the client) is    *)
(* gone; whatever was found by then is ranked and answered.                 *)
(*                                                                          *)
(* Spots, targets and aims are integers, a kind is a technique with a       *)
(* button. What a full search of a spot finds is part of the request,       *)
(* flights being deterministic; one cut short may have found anything of    *)
(* RoughFinds.                                                              *)
(***************************************************************************)
EXTENDS Floors, Orders

CONSTANTS
    Searchers,   \* the pool, at least one
    ThrowKinds,  \* techniques with their buttons
    Requests,    \* the requests /discover may get, as RequestsAssumption says
    RoughFinds,  \* what a search cut short may have found
    MaxStands,
    NearPlace,   \* how far apart the spots of two near-copies may be,
    NearAim      \* and their aims

Find  == [spread : Nat, aim : Int]
Slab  == [low : Int, high : Int, level : BOOLEAN]
Spots == [at : Int, columns : Seq(SUBSET Slab), walled : BOOLEAN]

ASSUME SearchersAssumption == Searchers # {} /\ IsFiniteSet(Searchers)
ASSUME StandsAssumption    == MaxStands \in Nat \ {0}
ASSUME RequestsAssumption  ==
    \A r \in Requests :
      /\ {r.meshed, r.valid, r.snap} \subseteq BOOLEAN
      /\ {r.guess, r.target, r.low, r.high} \subseteq Int
      /\ r.limit \in Nat \ {0}
      /\ r.column \in SUBSET Slab /\ IsColumn(r.column)
      /\ r.spots \in Seq(Spots)
      /\ \A i \in DOMAIN r.spots : \A c \in Range(r.spots[i].columns) : IsColumn(c)
      /\ \A i, j \in DOMAIN r.spots : r.spots[i].at = r.spots[j].at => i = j
      /\ r.asked \in Seq(ThrowKinds)
      /\ \A i \in DOMAIN r.spots : \A k \in ThrowKinds : r.throws[r.spots[i].at, k] \in Seq(Find)
ASSUME RoughAssumption == RoughFinds \subseteq Seq(Find)

-----------------------------------------------------------------------------
(* What a request comes to.                                                  *)

\* standsIn: the spots a player fits on, thinned out evenly.
StandsIn(r) ==
    LET out == SubSequence(r.spots, {i \in DOMAIN r.spots :
                 /\ ~r.spots[i].walled
                 /\ \E feet \in FeetAt(r.spots[i].columns, r.low, r.high, r.snap) :
                        Headroom(Head(r.spots[i].columns), feet)})
    IN  IF Len(out) > MaxStands
        THEN [k \in 1 .. MaxStands |-> out[((k - 1) * Len(out)) \div MaxStands + 1]]
        ELSE out

\* Wrong: in the order of the grid.
AsInGrid(r) == StandsIn(r)

\* The order by the distance to the target, of the places i and j of s.
Before(s, target, i, j) ==
    \/ Distance(s[i].at, target) < Distance(s[j].at, target)
    \/ Distance(s[i].at, target) = Distance(s[j].at, target) /\ i < j

NearestFirst(r) ==
    LET s == StandsIn(r)
    IN  Ordered(s, {x \in (DOMAIN s) \X (DOMAIN s) : Before(s, r.target, x[1], x[2])})

\* Wrong: a kind asked for twice is searched twice.
AsAsked(s) == s

\* Validate's techniques and strengths, each once.
Once(s) == SubSequence(s, {i \in DOMAIN s : \A j \in DOMAIN s : j < i => s[j] # s[i]})

SpecsOf(places, kinds) ==
    [i \in 1 .. Len(places) * Len(kinds) |->
        [at   |-> places[((i - 1) \div Len(kinds)) + 1].at,
         kind |-> kinds[((i - 1) % Len(kinds)) + 1]]]

-----------------------------------------------------------------------------
VARIABLES
    query,      \* the request
    expired,    \* ctx.Err() # nil
    handler,    \* where Search is
    aimedAt,    \* the height searched for, once snapped
    stands,     \* the spots to search, nearest first,
    specs,      \* and times the kinds: in this order they are fed
    fed,        \* how many of them the channel took
    seeker,     \* where each searcher is
    job,        \* the spec each searcher last took
    finds,      \* results
    searched

setup      == <<query, aimedAt, stands, specs>>
searchVars == <<setup, expired, handler, fed, seeker, job, finds, searched>>

SearchInit ==
    /\ query \in Requests
    /\ expired = FALSE
    /\ handler = "begin"
    /\ aimedAt = query.guess
    /\ stands = NearestFirst(query)
    /\ specs = SpecsOf(stands, Once(query.asked))
    /\ fed = 0
    /\ seeker = [w \in Searchers |-> "off"]
    /\ job = [w \in Searchers |-> 0]
    /\ finds = [i \in DOMAIN specs |-> <<>>]
    /\ searched = [i \in DOMAIN specs |-> FALSE]

-----------------------------------------------------------------------------
(* The feeder and the pool.                                                  *)

\* No mesh, a request Validate refuses, or a target to be snapped with no floor
\* near it: a 400. Otherwise the pool is started.
BeginSearch ==
    /\ handler = "begin"
    /\ LET floor == FloorNear(query.column, query.guess)
       IN  \/ /\ ~query.meshed \/ ~query.valid \/ (query.snap /\ floor = {})
              /\ handler' = "refused"
              /\ UNCHANGED <<aimedAt, seeker>>
           \/ /\ query.meshed /\ query.valid
              /\ IF query.snap THEN aimedAt' \in floor ELSE UNCHANGED aimedAt
              /\ handler' = "feed"
              /\ seeker' = [w \in Searchers |-> "idle"]
    /\ UNCHANGED <<query, stands, specs, expired, fed, job, finds, searched>>

\* jobs <- i: some waiting searcher takes it. The select may feed an index
\* even when the budget has just run out.
FeedJob(w) ==
    /\ handler = "feed"
    /\ fed < Len(specs)
    /\ seeker[w] = "idle"
    /\ fed' = fed + 1
    /\ job' = [job EXCEPT ![w] = fed + 1]
    /\ seeker' = [seeker EXCEPT ![w] = "sweep"]
    /\ UNCHANGED <<setup, expired, handler, finds, searched>>

\* Wrong: the channel is closed only when the budget cut the feeding short.
CloseWhenBudgetEnds ==
    /\ handler = "feed"
    /\ fed < Len(specs) /\ expired
    /\ handler' = "join"
    /\ UNCHANGED <<setup, expired, fed, seeker, job, finds, searched>>

\* close(jobs), after the last one was fed or the budget ran out.
CloseJobs ==
    /\ handler = "feed"
    /\ fed = Len(specs) \/ expired
    /\ handler' = "join"
    /\ UNCHANGED <<setup, expired, fed, seeker, job, finds, searched>>

ThrowsOf(spec) == query.throws[spec.at, spec.kind]

\* The coarse pass looks at the clock before every row and gives up with
\* nothing.
Sweep(w) ==
    /\ seeker[w] = "sweep"
    /\ IF expired
       THEN /\ finds' = [finds EXCEPT ![job[w]] = <<>>]
            /\ seeker' = [seeker EXCEPT ![w] = "mark"]
       ELSE /\ seeker' = [seeker EXCEPT ![w] = "refine"]
            /\ UNCHANGED finds
    /\ UNCHANGED <<setup, expired, handler, fed, job, searched>>

\* refine, descend and candidate for every dip: out of time, a descent stops
\* where it is, and what is near the target there is a candidate all the same.
Refine(w) ==
    /\ seeker[w] = "refine"
    /\ \E found \in IF expired THEN RoughFinds ELSE {ThrowsOf(specs[job[w]])} :
          finds' = [finds EXCEPT ![job[w]] = found]
    /\ seeker' = [seeker EXCEPT ![w] = "mark"]
    /\ UNCHANGED <<setup, expired, handler, fed, job, searched>>

\* Wrong: what was started counts as searched.
MarkAnyway(w) ==
    /\ seeker[w] = "mark"
    /\ searched' = [searched EXCEPT ![job[w]] = TRUE]
    /\ seeker' = [seeker EXCEPT ![w] = "idle"]
    /\ UNCHANGED <<setup, expired, handler, fed, job, finds>>

Mark(w) ==
    /\ seeker[w] = "mark"
    /\ searched' = [searched EXCEPT ![job[w]] = ~expired]
    /\ seeker' = [seeker EXCEPT ![w] = "idle"]
    /\ UNCHANGED <<setup, expired, handler, fed, job, finds>>

\* The range over jobs ends, and the searcher with it.
Leave(w) ==
    /\ handler = "join"
    /\ seeker[w] = "idle"
    /\ seeker' = [seeker EXCEPT ![w] = "done"]
    /\ UNCHANGED <<setup, expired, handler, fed, job, finds, searched>>

-----------------------------------------------------------------------------
(* The answer.                                                               *)

\* sort.SliceStable by spread, then spot (its distance, then its place), then
\* aim.
Easier(a, b) == \/ a.spread < b.spread
                \/ a.spread = b.spread /\ a.at < b.at
                \/ a.spread = b.spread /\ a.at = b.at /\ a.aim < b.aim

NearCopies(a, b) == /\ a.kind = b.kind
                    /\ Distance(a.at, b.at) <= NearPlace
                    /\ Distance(a.aim, b.aim) <= NearAim

\* Wrong: a candidate is compared with the last one kept.
KeptUnlikeLast(sorted, K) ==
    \A i \in DOMAIN sorted :
      i \in K <=> \A j \in K : j < i /\ (\A k \in K : ~(j < k /\ k < i)) =>
                       ~NearCopies(sorted[j], sorted[i])

\* A candidate is kept unless a kept one before it is a near-copy of it.
IsKept(sorted, K) ==
    \A i \in DOMAIN sorted :
      i \in K <=> \A j \in K : j < i => ~NearCopies(sorted[j], sorted[i])

\* rank: of those kept, the first ones up to the limit.
Rank(all, limit) ==
    LET goesBefore(i, j) == Easier(all[i], all[j]) \/ (~Easier(all[j], all[i]) /\ i < j)
        sorted == Ordered(all, {x \in (DOMAIN all) \X (DOMAIN all) : goesBefore(x[1], x[2])})
        kept == CHOOSE K \in SUBSET DOMAIN all : IsKept(sorted, K)
    IN  SubSequence(sorted, {i \in kept : Cardinality({j \in kept : j < i}) < limit})

\* The candidates of every spec, in the order of the specs.
All(found) ==
    FlattenSeq([i \in DOMAIN specs |->
        [d \in DOMAIN found[i] |->
            [at |-> specs[i].at, kind |-> specs[i].kind,
             spread |-> found[i][d].spread, aim |-> found[i][d].aim]]])

Searched == {i \in DOMAIN specs : searched[i]}

\* wg.Wait, then the response is made of what is there.
JoinSearch ==
    /\ handler = "join"
    /\ \A w \in Searchers : seeker[w] = "done"
    /\ handler' = "answered"
    /\ UNCHANGED <<setup, expired, fed, seeker, job, finds, searched>>

Response == [candidates |-> Rank(All(finds), query.limit),
             truncated  |-> Cardinality(Searched) < Len(specs),
             searched   |-> Cardinality(Searched)]

\* The budget runs out, or the client is gone.
Expire ==
    /\ handler \in {"feed", "join"}
    /\ ~expired
    /\ expired' = TRUE
    /\ UNCHANGED <<setup, handler, fed, seeker, job, finds, searched>>

SearchStep == BeginSearch \/ CloseJobs \/ JoinSearch

SeekerStep(w) == FeedJob(w) \/ Sweep(w) \/ Refine(w) \/ Mark(w) \/ Leave(w)

SearchNext == SearchStep \/ Expire \/ \E w \in Searchers : SeekerStep(w)

SearchSpec == SearchInit /\ [][SearchNext]_searchVars

\* As in DriftPool: the handler and its searchers are goroutines, and a search
\* of one spot flies a bounded number of bounded flights.
SearchFairSpec == /\ SearchSpec
                  /\ WF_searchVars(SearchStep)
                  /\ \A w \in Searchers : WF_searchVars(SeekerStep(w))

-----------------------------------------------------------------------------
SearchTypeOK ==
    /\ handler \in {"begin", "feed", "join", "refused", "answered"}
    /\ expired \in BOOLEAN
    /\ fed \in 0 .. Len(specs)
    /\ seeker \in [Searchers -> {"off", "idle", "sweep", "refine", "mark", "done"}]
    /\ job \in [Searchers -> 0 .. fed]
    /\ DOMAIN finds = DOMAIN specs
    /\ searched \in [DOMAIN specs -> BOOLEAN]

Working == {w \in Searchers : seeker[w] \in {"sweep", "refine", "mark"}}

\* No spec is in two hands, or in one after it was handed in: results and
\* searched need no lock.
JobsAreOwned ==
    /\ \A v, w \in Working : job[v] = job[w] => v = w
    /\ \A w \in Working : job[w] \in 1 .. fed /\ ~searched[job[w]]

\* What counts as searched was searched to the end.
SearchedIsComplete == \A i \in Searched : finds[i] = ThrowsOf(specs[i])

\* Every spot a player can stand on is searched once with every kind of throw
\* asked for, and no other spot, unless there are too many spots.
SpecsAreTheRequest ==
    handler = "answered" =>
      LET standing == {p \in Range(query.spots) :
                         /\ ~p.walled
                         /\ \E z \in FeetAt(p.columns, query.low, query.high, query.snap) :
                                Headroom(Head(p.columns), z)}
          wanted == {[at |-> p.at, kind |-> k] : p \in standing, k \in Range(query.asked)}
      IN  /\ IsInjective(specs)
          /\ Range(specs) \subseteq wanted
          /\ Cardinality(standing) <= MaxStands => Range(specs) = wanted

\* A search that left something out says so: an answer not truncated is that
\* of the same search without a budget, one spot after the other.
TruncationIsTold ==
    handler = "answered" =>
      /\ Response.truncated <=> Searched # DOMAIN specs
      /\ ~Response.truncated =>
            Response.candidates = Rank(All([i \in DOMAIN specs |-> ThrowsOf(specs[i])]), query.limit)

\* A snapped target is on a walkable floor near the height guessed, on the
\* nearest unless the column has more faces than are looked at, and is refused
\* only when there is none; a spot's feet are on a walkable floor of one of its
\* columns. Both but for the columns whose faces deceive.
FloorsAreWalkable ==
    /\ query.snap /\ ~Deceptive(query.column, query.guess + SnapReach) =>
         LET floors == WalkableNear(query.column, query.guess)
         IN  /\ handler = "answered" => aimedAt \in floors
             /\ Cardinality(FacesOf(query.column)) <= MaxFaces =>
                  /\ handler = "refused" /\ query.meshed /\ query.valid => floors = {}
                  /\ handler = "answered" => \A z \in floors :
                        Distance(aimedAt, query.guess) <= Distance(z, query.guess)
    /\ handler = "answered" => \A i \in DOMAIN stands :
         (\A c \in Range(stands[i].columns) : ~Deceptive(c, query.high + PlayerHeight)) =>
           \E z \in FeetAt(stands[i].columns, query.low, query.high, query.snap) :
             /\ query.low - Slack <= z /\ z <= query.high + Slack
             /\ \E c \in Range(stands[i].columns) : z \in Walkable(c)

\* The answer accounts for what was searched: each spec by one searcher, to the
\* end if it counts as searched, and told if any does not.
SearchIsAccountedFor ==
    /\ SearchTypeOK
    /\ JobsAreOwned
    /\ SearchedIsComplete
    /\ TruncationIsTold

\* rank answers the easiest throws first and no two near-copies, and what it
\* dropped is a near-copy of an answered one that is as easy, or is not easier
\* than any of a full answer.
RankKeepsTheEasiest ==
    handler = "answered" =>
      LET kept == Response.candidates
      IN  /\ Len(kept) <= query.limit
          /\ Range(kept) \subseteq Range(All(finds))
          /\ \A i, j \in DOMAIN kept :
               i < j => ~Easier(kept[j], kept[i]) /\ ~NearCopies(kept[i], kept[j])
          /\ \A c \in Range(All(finds)) \ Range(kept) :
               \/ \E k \in Range(kept) : NearCopies(k, c) /\ ~Easier(c, k)
               \/ Len(kept) = query.limit /\ \A k \in Range(kept) : ~Easier(c, k)

\* The answer is to the request made: its spots on their floors, each kind of
\* throw once, and the easiest of what was found.
AnswerIsToTheRequest ==
    /\ SpecsAreTheRequest
    /\ FloorsAreWalkable
    /\ RankKeepsTheEasiest

\* "when the budget runs out, the spots nearest the smoke have been searched":
\* but for what the other searchers had in hand.
NearestIsSearchedFirst ==
    \A j \in Searched :
      Cardinality({i \in DOMAIN specs \ Searched :
                     Distance(specs[i].at, query.target) < Distance(specs[j].at, query.target)})
        < Cardinality(Searchers)

\* Answered or refused.
SearchOver == handler \in {"refused", "answered"}
=============================================================================
