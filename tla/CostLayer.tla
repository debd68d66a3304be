-------------------------------- MODULE CostLayer --------------------------------
(***************************************************************************)
(* intensity_voxel_layer.cpp within the costmap it is a layer of: a window *)
(* that rolls with the robot.  Every update marks what the last cloud      *)
(* holds afresh, clears the footprint, and tells the costmap which bounds  *)
(* to write; outside of them the costmap keeps what it had.                *)
(*                                                                         *)
(* Space is a line; a cell is Res units and keeps its number when the      *)
(* window moves, whose origin is a number of cells.  The costmap, its      *)
(* observation buffer and its inflation layer belong to Nav2.              *)
(***************************************************************************)
EXTENDS Integers, FiniteSetsExt

CONSTANTS
  Res,          \* resolution_
  WindowSize,   \* size_x_, in cells
  ZVoxels,      \* size_z_
  MarkThreshold,    \* mark_threshold_
  MinHeight, MaxHeight,         \* of an obstacle, in voxels above origin_z_
  MinIntensity, MaxIntensity,   \* of an obstacle
  MinRange, MaxRange,           \* of an obstacle, in units
  FootprintHalf,    \* of the robot, in units
  InflationRadius,  \* in units
  Places,       \* where the robot can be
  Observed        \* what is seen: sets of [x, z, i] and the sensor's place

ASSUME CostAssumption ==
  /\ {Res, WindowSize, ZVoxels} \subseteq Nat \ {0}
  /\ {MarkThreshold, FootprintHalf, InflationRadius, MinRange, MaxRange} \subseteq Nat
  /\ Places \subseteq Int
  /\ \A points \in Observed : IsFiniteSet(points) /\ \A p \in points : p.x \in Int

VARIABLES
  enabled,      \* enabled_, a parameter that may change
  robot,        \* where the robot was at the last update
  buffer,       \* the observation buffer: the cloud seen last
  layerOrigin, layerCost,     \* the layer's origin_x_, and its lethal cells
  masterOrigin, masterCost,   \* the same of the costmap
  lastBounds    \* what the inflation layer remembers: the last bounds

costVars == <<enabled, robot, buffer, layerOrigin, layerCost, masterOrigin, masterCost, lastBounds>>


-------------------------------------------------------------------------------
Floor(x) == x \div Res
CellsFrom(origin) == origin .. origin + WindowSize - 1

\* updateOrigin, of the layer and, alike, of the costmap: the difference in cells is
\* truncated towards zero.
MovedOrigin(origin, at) ==
  LET ahead == at - (WindowSize * Res) \div 2 - origin * Res
  IN IF ahead >= 0 THEN origin + ahead \div Res ELSE origin - (-ahead) \div Res

\* After the first update, before any cloud.
CostInit ==
  /\ enabled = TRUE /\ robot = 0
  /\ buffer = [points |-> {}, at |-> 0]
  /\ layerOrigin = MovedOrigin(0, 0) /\ masterOrigin = layerOrigin
  /\ layerCost = {} /\ masterCost = {}
  /\ lastBounds = {}

\* A point that updateBounds takes for an obstacle.
IsObstacle(p) ==
  LET away == IF p.x < buffer.at THEN buffer.at - p.x ELSE p.x - buffer.at
  IN /\ p.z \in MinHeight .. MaxHeight
     /\ p.i \in MinIntensity .. MaxIntensity
     /\ MinRange < away /\ away < MaxRange

\* worldToMap3D: one below origin_z_ is in the lowest voxel, one above the grid in none.
Voxel(p) == <<Floor(p.x), IF p.z < 0 THEN 0 ELSE p.z>>
Seen(origin) ==
  {p \in buffer.points : /\ IsObstacle(p)
                         /\ Floor(p.x) \in CellsFrom(origin)
                         /\ Voxel(p)[2] < ZVoxels}
\* markVoxelInMap: the cell is an obstacle as more than MarkThreshold of its voxels are.
Hits(origin) ==
  LET voxels == {Voxel(p) : p \in Seen(origin)}
  IN {c \in CellsFrom(origin) : Cardinality({v \in voxels : v[1] = c}) > MarkThreshold}

\* The polygon is not filled when a corner is off the map.
Footprint(origin, at) ==
  LET from == Floor(at - FootprintHalf)
      to == Floor(at + FootprintHalf)
  IN IF {from, to} \subseteq CellsFrom(origin) THEN from .. to ELSE {}

\* Mutant of Touched: an obstacle is marked without touching it.
TouchedFootprint(origin, at) == {at - FootprintHalf, at + FootprintHalf}
\* What is touched: the points of the obstacles and the corners of the footprint.
Touched(origin, at) ==
  {at - FootprintHalf, at + FootprintHalf}
    \cup {p.x : p \in {q \in Seen(origin) : Floor(q.x) \in Hits(origin)}}

\* LayeredCostmap::updateMap: bounds, of which the inflation layer keeps the last, then the
\* costmap is cleared and the layers are written within them.
Bounded(bounds) ==
  LET all == bounds \cup lastBounds
  IN IF all = {} THEN {}
     ELSE Floor(Min(all) - InflationRadius) .. Floor(Max(all) + InflationRadius)

UpdateMap(at) ==
  /\ robot' = at
  /\ layerOrigin' = MovedOrigin(layerOrigin, at)
  /\ masterOrigin' = MovedOrigin(masterOrigin, at)
  /\ LET touched == IF enabled THEN Touched(layerOrigin', at) ELSE {}
         written == Bounded(touched)
         index(c) == c - layerOrigin' + masterOrigin'
     IN /\ layerCost' = IF enabled THEN Hits(layerOrigin') \ Footprint(layerOrigin', at) ELSE {}
        /\ masterCost' = ((masterCost \cap CellsFrom(masterOrigin')) \ written)
                           \cup ({index(c) : c \in layerCost'} \cap written)
        /\ lastBounds' = touched
  /\ UNCHANGED <<enabled, buffer>>

\* The buffer keeps the last cloud only, and keeps it until the next.
BufferCloud(points) ==
  /\ buffer' = [points |-> points, at |-> robot]
  /\ UNCHANGED <<enabled, robot, layerOrigin, layerCost, masterOrigin, masterCost, lastBounds>>

\* ClearCostmap calls the layers' reset, and clears the costmap.
Reset ==
  /\ layerCost' = {} /\ masterCost' = {}
  /\ UNCHANGED <<enabled, robot, buffer, layerOrigin, masterOrigin, lastBounds>>

SetEnabled(on) ==
  /\ enabled' = on
  /\ UNCHANGED <<robot, buffer, layerOrigin, layerCost, masterOrigin, masterCost, lastBounds>>

CostNext ==
  \/ \E at \in Places : UpdateMap(at)
  \/ \E points \in Observed : BufferCloud(points)
  \/ Reset
  \/ \E on \in BOOLEAN : SetEnabled(on)

-------------------------------------------------------------------------------
\* Only some of the costmap is written at a time, the window rolls, and layer and costmap
\* each round their own origin.  Still the costmap shows what the layer holds, all of it
\* and nothing that has gone since; and it reaches about as far to either side of the robot.
CostmapShowsLayer ==
  /\ masterCost = layerCost
  /\ LET ahead == robot - (WindowSize * Res) \div 2 - masterOrigin * Res
     IN -Res < ahead /\ ahead < Res
===============================================================================
