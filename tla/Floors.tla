------------------------------- MODULE Floors -------------------------------
(***************************************************************************)
(* The floors of a column of the map, and where a player can stand          *)
(* (floorsDown, nearest, FloorNear, floorAt, floorNearAt and fits in        *)
(* internal/discover/search.go): a ray is cast down again and again, each   *)
(* time from just below the face it met, and every face it meets is turned  *)
(* up, a slab's underside as well as its top.                               *)
(*                                                                          *)
(* A column is a set of solid slabs, which do not touch; a slab's top may   *)
(* be too steep to stand on.  Where floors really are is said of the slabs  *)
(* (Walkable); the code sees the faces only.                                *)
(***************************************************************************)
EXTENDS Integers, Sequences, FiniteSets, SequencesExt

CONSTANTS
    FloorGap,      \* floorGap
    SnapReach,     \* snapReach
    MaxFaces,      \* the faces one column is searched for, 32 in the code
    PlayerHeight,  \* playerHeight
    Slack          \* how far out of the area's heights a floor may be, 8

ASSUME FloorsAssumption ==
    {FloorGap, SnapReach, MaxFaces, PlayerHeight, Slack} \subseteq Nat \ {0}

Distance(a, b) == IF a < b THEN b - a ELSE a - b

\* What a map has above one place.
IsColumn(column) ==
    /\ IsFiniteSet(column)
    /\ \A s \in column :
         /\ s.low < s.high
         /\ \A q \in column : q = s \/ q.high < s.low \/ s.high < q.low

FacesOf(column) == UNION {{s.low, s.high} : s \in column}

\* The faces a ray from top meets on its way to bottom, in its order.
FacesDown(column, top, bottom) ==
    LET met == {z \in FacesOf(column) : bottom <= z /\ z <= top}
    IN  [k \in 1 .. Min({Cardinality(met), MaxFaces}) |->
            CHOOSE z \in met : Cardinality({y \in met : y > z}) = k - 1]

\* hit.Normal.Z >= 0.7; an underside is level.
LevelAt(column, z) == \A s \in column : z = s.high => s.level

\* Wrong: every face is a floor.
AirAboveNone(faces, z) == TRUE

\* The air between a face and the last one met above it.
AirAbove(faces, z) == \A f \in Range(faces) : f > z => f - z >= FloorGap

\* floorsDown.
FloorsDown(column, top, bottom) ==
    LET faces == FacesDown(column, top, bottom)
    IN  {z \in Range(faces) : LevelAt(column, z) /\ AirAbove(faces, z)}

\* nearest, as the set of its answer: of two as near the first, which is the
\* higher; none if no floor is in range.
Nearest(floors, low, high, near) ==
    LET inRange == {z \in floors : low <= z /\ z <= high}
    IN  {z \in inRange : \A y \in inRange :
            \/ Distance(z, near) < Distance(y, near)
            \/ Distance(z, near) = Distance(y, near) /\ y <= z}

FloorNear(column, z) ==
    Nearest(FloorsDown(column, z + SnapReach, z - SnapReach), z - SnapReach, z + SnapReach, z)

\* What floorAt takes of one column: the first face down from a player's
\* height above the area.
FirstFloor(column, low, high) ==
    LET faces == FacesDown(column, high + PlayerHeight, low - Slack)
    IN  {z \in {faces[i] : i \in DOMAIN faces \cap {1}} :
            LevelAt(column, z) /\ z <= high + Slack}

\* What floorNearAt takes of one column.
NearestFloor(column, low, high, near) ==
    Nearest(FloorsDown(column, high + PlayerHeight, low - Slack),
            low - Slack, high + Slack, near)

\* floorAt and floorNearAt, as the set of the answer: the highest floor under
\* any part of the player. The first column is the middle of the spot.
FeetAt(columns, low, high, snap) ==
    LET floors == UNION {IF snap THEN NearestFloor(c, low, high, (low + high) \div 2)
                                 ELSE FirstFloor(c, low, high) : c \in Range(columns)}
    IN  {z \in floors : \A y \in floors : y <= z}

\* The headroom fits asks for.
Headroom(column, feet) ==
    \A z \in FacesOf(column) : ~(feet + 1 <= z /\ z < feet + 1 + PlayerHeight)

-----------------------------------------------------------------------------
(* What floors there are.                                                   *)

Walkable(column) ==
    {s.high : s \in {r \in column :
                       /\ r.level
                       /\ \A q \in column : q.low > r.high => q.low - r.high >= FloorGap}}

WalkableNear(column, z) == {f \in Walkable(column) : Distance(f, z) <= SnapReach}

\* Where the faces do not tell: the ray is cast from inside a slab, so that
\* its underside is the first face met, or from between two slabs with too
\* little air for a floor, or a slab is thick enough for its underside to
\* look like a floor.
Deceptive(column, top) ==
    \/ \E s \in column : \/ s.low <= top /\ top < s.high
                         \/ s.high - s.low >= FloorGap
    \/ \E s, q \in column : s.high <= top /\ top < q.low /\ q.low - s.high < FloorGap
=============================================================================
