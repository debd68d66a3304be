----------------------------- MODULE TerrainVoxels -----------------------------
(***************************************************************************)
(* The rolling grid in which terrain_analysis stacks the registered scans. *)
(* The cells are counted from the corner of a grid that follows the        *)
(* vehicle by whole voxels; points are put into cells by their distance to *)
(* the vehicle itself.  Places are leaves of the voxel filter, and lengths *)
(* are counted in leaves: the points of a leaf differ in their stamps.     *)
(* The ground is flat: the crops by height keep every point.               *)
(***************************************************************************)
EXTENDS Integers, Sequences, FiniteSetsExt

CONSTANTS Half,        \* terrainVoxelHalfWidth
          View,        \* cells to each side of the centre that are analysed
          Unit,        \* leaves in a voxel's side, an even number
          Drive,       \* bound: the places the vehicle comes to, in turn
          Returns,     \* the places where the lidar may see points
          UpdateThre,  \* voxelPointUpdateThre
          TimeThre,    \* voxelTimeUpdateThre
          Decay, NoDecayDis,  \* decayTime, noDecayDis
          ClearingDis,
          Stamps       \* bound: the times at which scans may be taken

ASSUME TerrainAssumption ==
  /\ {Half, View, Decay, TimeThre, UpdateThre} \subseteq Nat /\ View <= Half
  /\ Stamps \subseteq Nat /\ IsFiniteSet(Returns)
  /\ Unit \in Nat \ {0} /\ Unit % 2 = 0
  /\ Returns \subseteq Int \X Int /\ Drive \in Seq(Int \X Int) /\ Drive # <<>>

VARIABLES leg,          \* the place in Drive where the vehicle is: vehicleX, vehicleY
          shift,        \* terrainVoxelShiftX, -Y
          voxels,       \* terrainVoxelCloud
          updateNum, updateTime,
          crop,         \* laserCloudCrop
          newScan,      \* newlaserCloud
          time,         \* laserCloudTime - systemInitTime
          clearing,     \* clearingCloud
          inited, start,  \* noDataInited, vehicleXRec and -YRec
          served,       \* terrainCloud of the last pass
          due           \* places that must be served, and since when (only observed)

terrainVars == <<leg, shift, voxels, updateNum, updateTime, crop, newScan, time, clearing,
                 inited, start, served, due>>

Width == 2 * Half + 1
Cells == (0 .. Width - 1) \X (0 .. Width - 1)

\* Distances are compared squared; so that no root is needed.
Dist2(p, q) == (p[1] - q[1]) * (p[1] - q[1]) + (p[2] - q[2]) * (p[2] - q[2])

vehicle == Drive[leg]

TerrainInit ==
  /\ leg = 1 /\ shift = <<0, 0>>
  /\ voxels = [c \in Cells |-> {}]
  /\ updateNum = [c \in Cells |-> 0] /\ updateTime = [c \in Cells |-> 0]
  /\ crop = {} /\ newScan = FALSE /\ time = 0 /\ clearing = FALSE
  /\ inited = 0 /\ start = <<0, 0>> /\ served = {} /\ due = {}

OdometryHandler ==
  /\ leg < Len(Drive) /\ leg' = leg + 1
  /\ start' = IF inited = 0 THEN vehicle' ELSE start
  /\ inited' = IF inited < 2 /\ Dist2(vehicle', start') >= NoDecayDis * NoDecayDis
               THEN 2 ELSE IF inited = 0 THEN 1 ELSE inited
  /\ UNCHANGED <<shift, voxels, updateNum, updateTime, crop, newScan, time, clearing, served, due>>

\* A point is taken up if it lies within half the grid's width.
InReach(p) == Dist2(p, vehicle) < (Unit * (Half + 1)) * (Unit * (Half + 1))

\* A point's intensity is the time of its scan.  A later scan replaces one that was not
\* processed yet.
LaserCloudHandler ==
  /\ time' \in Stamps /\ time' > time
  /\ \E ps \in SUBSET Returns :
       crop' = {[at |-> p, t |-> time'] : p \in {q \in ps : InReach(q)}}
  /\ newScan' = TRUE
  /\ UNCHANGED <<leg, shift, voxels, updateNum, updateTime, clearing, inited, start, served, due>>

ClearingHandler ==
  /\ ~clearing /\ clearing' = TRUE /\ inited' = 0
  /\ UNCHANGED <<leg, shift, voxels, updateNum, updateTime, crop, newScan, time, start, served,
                 due>>

----------------------------------------------------------------------------
(* One pass of the main loop over a new scan. *)

\* The loops that roll the grid stop with its centre within a voxel of the vehicle.
Rolled(s, v) ==
  CASE v - Unit * s < -Unit -> s - ((Unit * s - v - 1) \div Unit)
    [] v - Unit * s > Unit  -> s + ((v - Unit * s - 1) \div Unit)
    [] OTHER                -> s

\* Mutant of Moved: rolled the wrong way along one axis.
MovedBack(grid, dx, dy) ==
  [c \in Cells |-> LET from == <<c[1] - dx, c[2] + dy>>
                   IN  IF from \in Cells THEN grid[from] ELSE {}]

\* What leaves the grid is cleared and its cells come in empty on the other side; the
\* counters and times of the cells stay where they are.
Moved(grid, dx, dy) ==
  [c \in Cells |-> LET from == <<c[1] + dx, c[2] + dy>>
                   IN  IF from \in Cells THEN grid[from] ELSE {}]

\* The index along one axis of a point d units from the vehicle: the cast to int cuts
\* towards zero, and one is taken off what is negative.
Index(d) ==
  LET n == d + Unit \div 2
  IN  Half + IF n >= 0 THEN n \div Unit ELSE -((-n) \div Unit) - 1
CellOf(p) == <<Index(p.at[1] - vehicle[1]), Index(p.at[2] - vehicle[2])>>

\* The mean of the stamps of some points, rounded up, which matters only when it is averaged
\* again: the code keeps the fraction.
MeanTime(ps) ==
  LET sum[n \in 0 .. time] ==
        IF n = 0 THEN 0 ELSE sum[n - 1] + n * Cardinality({p \in ps : p.t = n})
  IN  (sum[time] + (Cardinality(ps) - 1)) \div Cardinality(ps)

\* Mutant of Thinned: leaves as large as the cell.
ThinnedCell(ps) == {[at |-> p.at, t |-> MeanTime(ps)] : p \in ps}

\* downSizeFilter leaves one point of each leaf.  It averages every field, so the intensity
\* too, in which the stamp is.
Thinned(ps) == {[at |-> a, t |-> MeanTime({p \in ps : p.at = a})] : a \in {p.at : p \in ps}}

Kept(p) ==
  /\ time - p.t < Decay \/ Dist2(p.at, vehicle) < NoDecayDis * NoDecayDis
  /\ ~(clearing /\ Dist2(p.at, vehicle) < ClearingDis * ClearingDis)

\* A cell is filtered when enough points have come in since the last time, when that is
\* long ago, or when a part is cleared.
Filtered(c, num) == num >= UpdateThre \/ time - updateTime[c] >= TimeThre \/ clearing

Viewed == (Half - View .. Half + View) \X (Half - View .. Half + View)

\* The places that the pass may not lose: those near the vehicle, due since a time that is
\* not long ago, and not cleared.  A point strays at most one and a half voxels from the
\* place of its cell.
MustServe(ps) ==
  {p \in ps : /\ \A i \in {1, 2} :
                    p.at[i] - vehicle[i] \in -((View - 2) * Unit) .. (View - 2) * Unit
              /\ time - p.t < Decay
              /\ ~(clearing /\ Dist2(p.at, vehicle) < ClearingDis * ClearingDis)}

Pass ==
  /\ newScan /\ newScan' = FALSE
  /\ shift' = <<Rolled(shift[1], vehicle[1]), Rolled(shift[2], vehicle[2])>>
  /\ LET rolled == Moved(voxels, shift'[1] - shift[1], shift'[2] - shift[2])
         new(c) == {p \in crop : CellOf(p) = c}
         num(c) == updateNum[c] + Cardinality(new(c))
         visit == {c \in Cells : Filtered(c, num(c))}
         stamps(a) == {q.t : q \in {p \in crop \cup UNION {rolled[c] : c \in Cells} : p.at = a}}
     IN  /\ voxels' = [c \in Cells |-> LET all == rolled[c] \cup new(c)
                                       IN  IF c \in visit THEN {p \in Thinned(all) : Kept(p)}
                                           ELSE all]
         /\ updateNum' = [c \in Cells |-> IF c \in visit THEN 0 ELSE num(c)]
         /\ updateTime' = [c \in Cells |-> IF c \in visit THEN time ELSE updateTime[c]]
         /\ due' = MustServe(due \cup {[at |-> p.at, t |-> Min(stamps(p.at))] : p \in crop})
  /\ served' = UNION {voxels'[c] : c \in Viewed}
  /\ clearing' = FALSE
  /\ UNCHANGED <<leg, crop, time, inited, start>>

TerrainNext == OdometryHandler \/ LaserCloudHandler \/ ClearingHandler \/ Pass
----------------------------------------------------------------------------
(* Properties *)

\* A place that is seen is analysed by this and every later pass, however the grid rolls,
\* whichever cells are filtered and whatever they average, until the vehicle is away from
\* it, it is cleared, or the oldest stamp that the grid had for it when it was seen is
\* decayTime ago.  So a place that comes up is not lost before its time.  (One that is seen
\* again may be, if an old stamp is averaged with the new one.)
KeepsRecentNear == \A d \in due : \E p \in served : p.at = d.at
===============================================================================
