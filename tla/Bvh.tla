-------------------------------- MODULE Bvh --------------------------------
(***************************************************************************)
(* The tree over a mesh's triangles, and the rays cast through it           *)
(* (internal/geometry/bvh.go, mesh.go): build splits the triangles by a     *)
(* binned surface area heuristic into a tree laid out depth first, and then *)
(* puts them in the order of its leaves, in place; anyHit and nearestHitTri *)
(* walk the tree with a stack of fixed size, the nearer child first.        *)
(*                                                                          *)
(* The world has two axes and is one unit high, and a triangle is what it   *)
(* covers at the height of the rays: a part of a wall along an axis, from   *)
(* one corner to another. Coordinates and distances are integers, so what   *)
(* the float32 boxes and the float64 slab test may round is left out; the   *)
(* infinities of a ray across an axis are not.                              *)
(***************************************************************************)
EXTENDS Integers, Sequences, FiniteSets, SequencesExt

CONSTANTS
    LeafSize, MaxLeaf, Bins, MaxDepth,  \* bvhLeafSize, bvhMaxLeaf, bvhBins, bvhMaxDepth
    Near,    \* 1e-4: how far from its origin a ray meets nothing
    Never,   \* the infinite distance
    Meshes,  \* sequences of triangles, each a pair of corners
    Rays     \* [from, dir, any, low, high]

Axes      == {1, 2}
Corners   == Int \X Int
Triangles == Corners \X Corners
Placed    == 0  \* math.MaxUint32: no triangle's place

\* A mesh is any triangles. A ray goes along an axis or a diagonal, so that it
\* comes one unit farther along each at a time.
ASSUME BvhAssumption ==
    /\ LeafSize \in Nat \ {0} /\ Bins \in Nat /\ MaxDepth \in Nat /\ Never \in Nat
    /\ Meshes \subseteq Seq(Triangles)
    /\ Rays \subseteq [from : Corners, dir : {-1, 0, 1} \X {-1, 0, 1}, any : BOOLEAN,
                      low : Nat, high : 0 .. Never]

-----------------------------------------------------------------------------
(* The tree.                                                                 *)

Lowest(t, a)  == Min({t[c][a] : c \in DOMAIN t})
Highest(t, a) == Max({t[c][a] : c \in DOMAIN t})
Centre(t, a)  == t[1][a] + t[2][a]

\* The box of the triangles at the places of a set.
BoxOf(tris, places) ==
    [lo |-> [a \in Axes |-> Min({Lowest(tris[i], a) : i \in places})],
     hi |-> [a \in Axes |-> Max({Highest(tris[i], a) : i \in places})]]

Area(box) ==
    LET d(a) == box.hi[a] - box.lo[a] IN d(1) * d(2) + d(1) + d(2)

\* binOf.
BinOf(tris, places, i, a) ==
    LET centres == {Centre(tris[k], a) : k \in places}
        k == ((Centre(tris[i], a) - Min(centres)) * Bins) \div (Max(centres) - Min(centres))
    IN  IF k >= Bins THEN Bins - 1 ELSE k

\* sahSplit: the planes that separate anything, and the first of the cheapest.
Planes(tris, places) ==
    IF Area(BoxOf(tris, places)) <= 0 THEN {}
    ELSE {s \in Axes \X (1 .. Bins - 1) :
            /\ \E i, k \in places : Centre(tris[i], s[1]) # Centre(tris[k], s[1])
            /\ \E i \in places : BinOf(tris, places, i, s[1]) < s[2]
            /\ \E i \in places : BinOf(tris, places, i, s[1]) >= s[2]}

Left(tris, places, s) == {i \in places : BinOf(tris, places, i, s[1]) < s[2]}

Price(tris, places, s) ==
    LET price(side) == Area(BoxOf(tris, side)) * Cardinality(side)
        left == Left(tris, places, s)
    IN  price(left) + price(places \ left)

SahSplit(tris, places) ==
    LET planes == Planes(tris, places)
        before(s, q) == s[1] < q[1] \/ (s[1] = q[1] /\ s[2] < q[2])
    IN  CHOOSE s \in planes : \A q \in planes \ {s} :
            \/ Price(tris, places, s) < Price(tris, places, q)
            \/ Price(tris, places, s) = Price(tris, places, q) /\ before(s, q)

\* What partitioning does with the first ref it has not looked at: one left of
\* the plane stays, another changes places with the last not looked at.
Settled(x, left) ==
    IF x.order[x.i] \in left THEN [x EXCEPT !.i = @ + 1]
    ELSE [x EXCEPT !.order = [@ EXCEPT ![x.i] = x.order[x.j], ![x.j] = x.order[x.i]],
                   !.j = @ - 1]

\* The refs left of the plane to the front, in place, one at a time.
Partition(order, left) ==
    LET part[n \in 0 .. Len(order)] ==
          IF n = 0 THEN [order |-> order, i |-> 1, j |-> Len(order)]
          ELSE Settled(part[n - 1], left)
    IN  part[Len(order)].order

-----------------------------------------------------------------------------
VARIABLES
    mesh,     \* the triangles as they were loaded
    tris,     \* m.tris
    nodes,    \* m.nodes
    refs,     \* refs[i].tri: the triangle to be placed at i
    calls,    \* the calls of buildNode that remain, the next one last
    first,    \* the place the current cycle began at,
    hole,     \* the one to be filled next, if any,
    saved,    \* and the triangle that was at the first
    ray,      \* the ray cast
    walk,     \* split, place, ready, walking or done
    node,     \* ni
    stack,
    best,
    hit       \* the triangle that gave best; 0 for none

bvhVars == <<mesh, tris, nodes, refs, calls, first, hole, saved, ray, walk, node, stack, best, hit>>

NoRay == [from |-> <<0, 0>>, dir |-> <<0, 0>>, any |-> FALSE, low |-> 0, high |-> 0]

\* A call of buildNode for a run of refs, for the right child of a node if it
\* has one.
Call(start, n, depth, parent) ==
    [start |-> start, n |-> n, depth |-> depth, parent |-> parent]

BvhInit ==
    /\ mesh \in Meshes
    /\ tris = mesh
    /\ nodes = <<>>
    /\ refs = [i \in DOMAIN mesh |-> i]
    /\ calls = IF mesh = <<>> THEN <<>> ELSE <<Call(1, Len(mesh), 0, 0)>>
    /\ first = 1 /\ hole = 0 /\ saved = <<>>
    /\ ray = NoRay
    /\ walk = "split"
    /\ node = 1 /\ stack = <<>> /\ best = Never /\ hit = 0

\* Wrong: the right child is taken to follow its parent's left one at once.
RightAfter(at, parent) == parent + 2

\* The right child follows the whole subtree of the left one.
RightOf(at, parent) == at

\* buildNode appends a node, a leaf or one whose children are built next.
BuildNode ==
    /\ walk = "split" /\ calls # <<>>
    /\ LET call == Last(calls)
           run == SubSeq(refs, call.start, call.start + call.n - 1)
           places == {run[i] : i \in DOMAIN run}
           box == BoxOf(mesh, places)
           planes == Planes(mesh, places)
           plane == SahSplit(mesh, places)
           left == Left(mesh, places, plane)
           mid == IF planes = {} THEN call.n \div 2 ELSE Cardinality(left)
           leaf == \/ call.n <= LeafSize \/ call.depth >= MaxDepth
                   \/ /\ call.n <= MaxLeaf
                      /\ \/ planes = {}
                         \/ Area(box) + Price(mesh, places, plane) >= call.n * Area(box)
           at == Len(nodes) + 1
           known == IF call.parent = 0 THEN nodes
                    ELSE [nodes EXCEPT ![call.parent].index = RightOf(at, call.parent)]
       IN  IF leaf
           THEN /\ nodes' = Append(known, [box |-> box, count |-> call.n,
                                           index |-> call.start, axis |-> 0])
                /\ calls' = Front(calls)
                /\ UNCHANGED refs
           ELSE /\ nodes' = Append(known, [box |-> box, count |-> 0, index |-> 0,
                                           axis |-> IF planes = {} THEN 1 ELSE plane[1]])
                /\ calls' = Front(calls)
                               \o <<Call(call.start + mid, call.n - mid, call.depth + 1, at),
                                    Call(call.start, mid, call.depth + 1, 0)>>
                /\ refs' = IF planes = {} THEN refs
                           ELSE SubSeq(refs, 1, call.start - 1) \o Partition(run, left)
                                    \o SubSeq(refs, call.start + call.n, Len(refs))
    /\ UNCHANGED <<mesh, tris, first, hole, saved, ray, walk, node, stack, best, hit>>

cast  == <<ray, node, stack, best, hit>>
split == <<mesh, nodes, calls>>

EndSplit ==
    /\ walk = "split" /\ calls = <<>>
    /\ walk' = "place"
    /\ UNCHANGED <<split, cast, tris, refs, first, hole, saved>>

\* The next cycle of the permutation, if it is not a part of one placed before.
StartCycle ==
    /\ walk = "place" /\ hole = 0
    /\ first <= Len(refs)
    /\ IF refs[first] = Placed
       THEN first' = first + 1 /\ UNCHANGED <<hole, saved>>
       ELSE hole' = first /\ saved' = tris[first] /\ UNCHANGED first
    /\ UNCHANGED <<split, cast, tris, refs, walk>>

\* The hole is filled with the triangle that belongs there, whose place is the
\* next hole, until it is the one saved.
FollowCycle ==
    /\ walk = "place" /\ hole # 0
    /\ refs' = [refs EXCEPT ![hole] = Placed]
    /\ IF refs[hole] = first
       THEN /\ tris' = [tris EXCEPT ![hole] = saved]
            /\ hole' = 0 /\ first' = first + 1
       ELSE /\ tris' = [tris EXCEPT ![hole] = tris[refs[hole]]]
            /\ hole' = refs[hole] /\ UNCHANGED first
    /\ UNCHANGED <<split, cast, saved, walk>>

EndBuild ==
    /\ walk = "place" /\ hole = 0 /\ first > Len(refs)
    /\ walk' = "ready"
    /\ UNCHANGED <<split, cast, tris, refs, first, hole, saved>>

built == <<split, tris, refs, first, hole, saved>>

-----------------------------------------------------------------------------
(* A ray.                                                                    *)

\* rayTriangle, as the set of its answer: where the ray crosses the wall, if
\* within it; a ray along the wall does not.
Crossings(r, t) ==
    {d \in {(Lowest(t, a) - r.from[a]) * r.dir[a] :
                a \in {b \in Axes : Lowest(t, b) = Highest(t, b) /\ r.dir[b] # 0}} :
        \A a \in Axes : /\ Lowest(t, a) <= r.from[a] + d * r.dir[a]
                        /\ r.from[a] + d * r.dir[a] <= Highest(t, a)}

\* Where the ray enters a box along an axis, and where it leaves: for a ray
\* across the axis everywhere or nowhere, and on a face of the box everywhere,
\* no comparison being true of 0 times infinity.
Enters(r, box, a) ==
    IF r.dir[a] = 0 THEN IF r.from[a] < box.lo[a] THEN Never ELSE -Never
    ELSE IF r.dir[a] > 0 THEN box.lo[a] - r.from[a] ELSE r.from[a] - box.hi[a]

Leaves(r, box, a) ==
    IF r.dir[a] = 0 THEN IF r.from[a] > box.hi[a] THEN -Never ELSE Never
    ELSE IF r.dir[a] > 0 THEN box.hi[a] - r.from[a] ELSE r.from[a] - box.lo[a]

\* Wrong: a box that is left where it is entered, as every flat one is, is
\* taken to be missed.
SlabHitInside(r, box, t0, t1) ==
    \A a, b \in Axes : /\ Enters(r, box, a) < Leaves(r, box, b)
                       /\ t0 < Leaves(r, box, b) /\ Enters(r, box, a) < t1

SlabHit(r, box, t0, t1) ==
    \A a, b \in Axes : /\ Enters(r, box, a) <= Leaves(r, box, b)
                       /\ t0 <= Leaves(r, box, b) /\ Enters(r, box, a) <= t1

\* children, the one nearer the ray's origin along the split axis first.
Children(n) ==
    IF ray.dir[nodes[n].axis] < 0 THEN <<nodes[n].index, n + 1>>
                                  ELSE <<n + 1, nodes[n].index>>

\* RayHitSurface and RayHitDist, for which nothing is the nearest yet, and
\* Occluded. Nothing is hit in an empty mesh.
Cast ==
    /\ walk = "ready"
    /\ ray' \in Rays
    /\ best' = ray'.high
    /\ walk' = IF tris = <<>> THEN "done" ELSE "walking"
    /\ UNCHANGED <<built, node, stack, hit>>

\* The node left for later on top of the stack is next, if there is one.
Pop ==
    IF stack = <<>> THEN walk' = "done" /\ UNCHANGED <<node, stack>>
    ELSE node' = Last(stack) /\ stack' = Front(stack) /\ UNCHANGED walk

\* Any hit is enough for anyHit, whose t1 is tmax throughout.
Within == IF ray.any THEN ray.high ELSE best

Met(n) == walk = "walking" /\ SlabHit(ray, nodes[n].box, ray.low, Within)

VisitInner ==
    /\ Met(node) /\ nodes[node].count = 0
    /\ node' = Children(node)[1]
    /\ stack' = Append(stack, Children(node)[2])
    /\ UNCHANGED <<built, ray, walk, best, hit>>

\* The triangles of a leaf that the ray crosses nearer than the best.
Candidates(n) ==
    {i \in nodes[n].index .. nodes[n].index + nodes[n].count - 1 :
        \E d \in Crossings(ray, tris[i]) : ray.low < d /\ d < Within}

VisitLeaf ==
    /\ Met(node) /\ nodes[node].count > 0
    /\ LET near == Candidates(node)
           dist(i) == CHOOSE d \in Crossings(ray, tris[i]) : TRUE
           nearest == CHOOSE i \in near : \A k \in near :
                        dist(i) < dist(k) \/ (dist(i) = dist(k) /\ i <= k)
           found == IF ray.any THEN Min(near) ELSE nearest
       IN  IF near = {} THEN Pop /\ UNCHANGED <<best, hit>>
           ELSE /\ best' = dist(found) /\ hit' = found
                /\ IF ray.any THEN walk' = "done" /\ UNCHANGED <<node, stack>> ELSE Pop
    /\ UNCHANGED <<built, ray>>

\* Culled: nothing in its box is nearer than the best.
Miss ==
    /\ walk = "walking" /\ ~Met(node)
    /\ Pop
    /\ UNCHANGED <<built, ray, best, hit>>

BvhNext == BuildNode \/ EndSplit \/ StartCycle \/ FollowCycle \/ EndBuild \/ Cast \/ VisitInner \/ VisitLeaf \/ Miss

BvhSpec == BvhInit /\ [][BvhNext]_bvhVars

-----------------------------------------------------------------------------
\* What is under a node.
Under(ns) ==
    LET under[n \in DOMAIN ns] ==
          IF ns[n].count > 0 THEN ns[n].index .. ns[n].index + ns[n].count - 1
          ELSE under[n + 1] \cup under[ns[n].index]
    IN  under

\* Every triangle is under the root and in one leaf, where the leaf expects it,
\* and under no node whose box it is not in; children come after their parent.
Whole ==
    LET under == Under(nodes)
        as(ts, t) == Cardinality({i \in DOMAIN ts : ts[i] = t})
    IN  mesh # <<>> =>
        /\ under[1] = DOMAIN mesh /\ DOMAIN tris = DOMAIN mesh
        /\ \A i \in DOMAIN mesh : as(tris, mesh[i]) = as(mesh, mesh[i])
        /\ \A n \in DOMAIN nodes :
             nodes[n].count = 0 =>
                /\ nodes[n].index \in n + 2 .. Len(nodes) /\ nodes[n].axis \in Axes
                /\ under[n + 1] \cap under[nodes[n].index] = {}
        /\ \A n \in DOMAIN nodes : \A i \in under[n] : \A a \in Axes :
             /\ nodes[n].box.lo[a] <= Lowest(tris[i], a)
             /\ Highest(tris[i], a) <= nodes[n].box.hi[a]

\* The stack of fixed size is never overrun.
StackFits == Len(stack) <= MaxDepth

\* What a ray meets is what it would meet if every triangle were tried.
RayMeetsTheNearest ==
    walk = "done" =>
      LET met == {i \in DOMAIN mesh : \E d \in Crossings(ray, mesh[i]) : ray.low < d /\ d < ray.high}
      IN  IF met = {} THEN hit = 0
          ELSE /\ hit \in DOMAIN tris
               /\ best \in Crossings(ray, tris[hit]) /\ ray.low < best /\ best < ray.high
               /\ ~ray.any => \A i \in met : \A d \in Crossings(ray, mesh[i]) :
                                 ray.low < d => best <= d

\* The tree over the mesh answers every ray as the triangles themselves would,
\* with the stack it has.
TreeIsTheMesh ==
    /\ walk = "ready" => Whole
    /\ StackFits
    /\ RayMeetsTheNearest
=============================================================================
