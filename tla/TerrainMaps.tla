------------------------------ MODULE TerrainMaps ------------------------------
(***************************************************************************)
(* What terrain_analysis and terrain_analysis_ext make of the points they  *)
(* have stacked: the ground under each planar voxel, the points that stand *)
(* on it, what moved away, where there is no data, and, in the extended    *)
(* map, which ground is connected to the ground under the vehicle.         *)
(*                                                                         *)
(* A point has its planar voxel, its height over the vehicle's, how it is  *)
(* seen (low, high enough and in the field of view to be an obstacle that  *)
(* moves, or close to the vehicle) and whether the latest scan has it.     *)
(***************************************************************************)
EXTENDS TerrainVoxels, SequencesExt

CONSTANTS PlanarWidth,         \* planarVoxelWidth, odd
          MinRelZ, MaxRelZ,
          QuantileNum, QuantileDen,  \* quantileZ
          LimitGroundLift, MaxGroundLift,
          MinBlockPointNum, MinDyObsPointNum, VehicleHeight,
          NoDataBlockSkipNum,
          Reach,               \* the reach of the connectivity search, 10
          TerrainUnderVehicle, TerrainConnThre, CeilingFilteringThre,
          Clouds, ExtClouds    \* the clouds that are analysed

ASSUME PlanarAssumption ==
  /\ PlanarWidth \in Nat /\ PlanarWidth % 2 = 1 /\ QuantileNum \in 0 .. QuantileDen
  /\ MinBlockPointNum \in Nat /\ NoDataBlockSkipNum \in Nat /\ Reach \in Nat
  /\ MinDyObsPointNum \in Nat \ {0}
  /\ {TerrainUnderVehicle, TerrainConnThre, CeilingFilteringThre} \subseteq Int
  /\ TerrainConnThre <= CeilingFilteringThre /\ LimitGroundLift \in BOOLEAN
  /\ \A cloud \in ExtClouds : IsFiniteSet(cloud) /\ \A p \in cloud : p.z \in Int

VARIABLES terrainCloud,  \* the points analysed
          terrainMap,    \* the obstacles and the no-data blocks published
          edge,          \* planarVoxelEdge
          sweeps,        \* noDataBlockSkipCount
          elev,          \* planarVoxelElev, in the extended analysis
          conn           \* planarVoxelConn and planarVoxelQueue
mapsVars == <<terrainCloud, terrainMap, edge, sweeps, elev, conn>>

Planar == (0 .. PlanarWidth - 1) \X (0 .. PlanarWidth - 1)
\* The voxels in the order in which the loops visit them.
Voxels == PlanarWidth * PlanarWidth
Raster == [i \in 1 .. Voxels |-> <<(i - 1) \div PlanarWidth, (i - 1) % PlanarWidth>>]
Centre == <<PlanarWidth \div 2, PlanarWidth \div 2>>
Within(c, d, r) == c[1] - d[1] \in -r .. r /\ c[2] - d[2] \in -r .. r

\* planarPointElev: a point counts for the nine voxels around it.
PointElev(cloud, c) ==
  {p \in cloud : p.z > MinRelZ /\ p.z < MaxRelZ /\ Within(p.cell, c, 1)}
Known(cloud, c) == Cardinality(PointElev(cloud, c)) >= MinBlockPointNum

Lowest(ps) == Min({p.z : p \in ps})
\* The height with rank quantileZ among the points (useSorting).
Quantile(ps) ==
  LET id == Min({(QuantileNum * Cardinality(ps)) \div QuantileDen, Cardinality(ps) - 1})
      below(z) == Cardinality({p \in ps : p.z < z})
  IN  Max({z \in {p.z : p \in ps} : below(z) <= id})

\* planarVoxelElev; zero where there is no point.
Ground(cloud, c) ==
  LET ps == PointElev(cloud, c)
  IN  IF ps = {} THEN 0
      ELSE IF LimitGroundLift /\ Quantile(ps) > Lowest(ps) + MaxGroundLift
           THEN Lowest(ps) + MaxGroundLift ELSE Quantile(ps)

\* planarVoxelDyObs: points stacked that could have moved, unless the latest scan still
\* sees something of the voxel high enough.
DyObs(cloud, c) ==
  LET here == {p \in cloud : p.cell = c}
      high == {p \in here : p.seen = "high"}
      close == {p \in here : p.seen = "close"}
  IN  IF \E p \in high : p.fresh THEN 0
      ELSE Cardinality(high) + MinDyObsPointNum * Cardinality(close)

\* terrainCloudElev: the points that stand on the ground, with their height above it.
Obstacle(cloud, p) ==
  LET disZ == p.z - Ground(cloud, p.cell)
  IN  /\ p.z > MinRelZ /\ p.z < MaxRelZ /\ p.cell \in Planar
      /\ DyObs(cloud, p.cell) < MinDyObsPointNum
      /\ disZ >= 0 /\ disZ < VehicleHeight /\ Known(cloud, p.cell)

NoMapYet == [obstacles |-> {}, blocks |-> {}]
\* The connected voxels are kept in the order in which they were visited.
NoSearch == [queue |-> <<>>, connected |-> <<>>, ceiling |-> {}]

MapsInit == /\ terrainCloud = {} /\ terrainMap = NoMapYet /\ edge = <<>> /\ sweeps = 0
            /\ elev = <<>> /\ conn = NoSearch

\* Every pass clears what the last one left: one is enough.
NothingYet == edge = <<>> /\ elev = <<>>

\* Mutant of EdgeStep: known voxels are raised too.
EdgeStepAll(e, c) ==
  IF \A d \in Planar : Within(c, d, 1) => e[d] >= e[c] THEN [e EXCEPT ![c] = @ + 1] ELSE e

\* planarVoxelEdge: 1 where too few points are known, then raised wherever no voxel
\* around has less, in place, noDataBlockSkipNum times.
BeginGround ==
  /\ NothingYet
  /\ \E cloud \in Clouds :
       /\ terrainCloud' = cloud
       /\ edge' = [c \in Planar |-> IF Known(cloud, c) THEN 0 ELSE 1]
  /\ UNCHANGED <<terrainMap, sweeps, elev, conn>>

EdgeStep(e, c) ==
  IF e[c] >= 1 /\ \A d \in Planar : Within(c, d, 1) => e[d] >= e[c]
  THEN [e EXCEPT ![c] = @ + 1] ELSE e

Sweep ==
  /\ edge # <<>> /\ sweeps < NoDataBlockSkipNum /\ sweeps' = sweeps + 1
  /\ LET swept[i \in 0 .. Voxels] ==
           IF i = 0 THEN edge ELSE EdgeStep(swept[i - 1], Raster[i])
     IN  edge' = swept[Voxels]
  /\ UNCHANGED <<terrainCloud, terrainMap, elev, conn>>

Swept == edge # <<>> /\ sweeps = NoDataBlockSkipNum

EndGround ==
  /\ Swept
  /\ terrainMap' = [obstacles |-> {p \in terrainCloud : Obstacle(terrainCloud, p)},
                    blocks |-> {c \in Planar : edge[c] > NoDataBlockSkipNum}]
  /\ UNCHANGED <<terrainCloud, edge, sweeps, elev, conn>>

----------------------------------------------------------------------------
(* terrain_analysis_ext, with checkTerrainConn. *)

\* planarVoxelElev before the search: the lowest point, or what is assumed to be under
\* the vehicle.
ExtElev(cloud) ==
  [c \in Planar |->
     CASE PointElev(cloud, c) # {} -> Lowest(PointElev(cloud, c))
       [] PointElev(cloud, c) = {} /\ c = Centre -> TerrainUnderVehicle
       [] OTHER -> 0]
Apart(c, d) == IF elev[c] > elev[d] THEN elev[c] - elev[d] ELSE elev[d] - elev[c]

\* The search begins under the vehicle.  planarVoxelConn of a voxel is 2 where it is
\* connected, 1 in the queue, -1 where it is taken for a ceiling.
BeginExt ==
  /\ NothingYet
  /\ \E cloud \in ExtClouds : terrainCloud' = cloud /\ elev' = ExtElev(cloud)
  /\ conn' = [NoSearch EXCEPT !.queue = <<Centre>>]
  /\ UNCHANGED <<terrainMap, edge, sweeps>>

\* Mutant of Unmet: voxels without a point are taken too.
UnmetEmpty(front) ==
  {d \in Planar : /\ Within(front, d, Reach)
                  /\ d \notin Range(conn.connected) \cup conn.ceiling \cup Range(conn.queue)}

Unmet(front) ==
  {d \in Planar : /\ Within(front, d, Reach) /\ PointElev(terrainCloud, d) # {}
                  /\ d \notin Range(conn.connected) \cup conn.ceiling \cup Range(conn.queue)}

\* The voxels of a set as the loops come to them.
InRaster(ds) ==
  LET met[i \in 0 .. Voxels] ==
        IF i = 0 THEN <<>>
        ELSE IF Raster[i] \in ds THEN Append(met[i - 1], Raster[i]) ELSE met[i - 1]
  IN  met[Voxels]

Visit ==
  /\ conn.queue # <<>>
  /\ LET front == Head(conn.queue)
         near == {d \in Unmet(front) : Apart(front, d) < TerrainConnThre}
         over == {d \in Unmet(front) : Apart(front, d) > CeilingFilteringThre}
     IN  conn' = [queue |-> Tail(conn.queue) \o InRaster(near),
                  connected |-> Append(conn.connected, front),
                  ceiling |-> conn.ceiling \cup over]
  /\ UNCHANGED <<terrainCloud, terrainMap, edge, sweeps, elev>>

Searched == elev # <<>> /\ conn.queue = <<>>

EndExt ==
  /\ Searched
  /\ LET stands(p) == /\ p.z > MinRelZ /\ p.z < MaxRelZ /\ p.cell \in Range(conn.connected)
                      /\ p.z - elev[p.cell] \in -(VehicleHeight - 1) .. VehicleHeight - 1
     IN  terrainMap' = [NoMapYet EXCEPT !.obstacles = {p \in terrainCloud : stands(p)}]
  /\ UNCHANGED <<terrainCloud, edge, sweeps, elev, conn>>

MapsNext == BeginGround \/ Sweep \/ EndGround \/ BeginExt \/ Visit \/ EndExt

\* The whole analysis.
AnalysisInit == TerrainInit /\ MapsInit
AnalysisNext ==
  \/ TerrainNext /\ UNCHANGED mapsVars
  \/ MapsNext /\ UNCHANGED terrainVars
AnalysisSpec == AnalysisInit /\ [][AnalysisNext]_<<terrainVars, mapsVars>>
----------------------------------------------------------------------------
(* Properties *)

\* However the sweeps in place order their increments, a block counts as without data
\* exactly when every voxel within noDataBlockSkipNum of it has too few points, and no
\* point is published from such a block.
NoDataIsUnknown ==
  Swept /\ terrainMap # NoMapYet =>
    /\ terrainMap.blocks =
         {c \in Planar : \A d \in Planar : Within(c, d, NoDataBlockSkipNum) => ~Known(terrainCloud, d)}
    /\ \A p \in terrainMap.obstacles : p.cell \notin terrainMap.blocks

\* What the latest scan still sees of an obstacle is not dropped as having moved away.
FreshIsKept ==
  Swept /\ terrainMap # NoMapYet =>
    \A p \in terrainCloud :
      LET disZ == p.z - Ground(terrainCloud, p.cell)
      IN  /\ p.fresh /\ p.seen = "high" /\ p.cell \in Planar /\ Known(terrainCloud, p.cell)
          /\ p.z > MinRelZ /\ p.z < MaxRelZ /\ disZ >= 0 /\ disZ < VehicleHeight
          => p \in terrainMap.obstacles

\* Whatever the heights, the extended map takes for connected only ground that small
\* steps lead to from under the vehicle; and it leaves ground out that is such a step
\* from connected ground only where other connected ground within reach is more than
\* ceilingFilteringThre lower or higher.
GroundIsConnected ==
  Searched =>
    LET at == conn.connected
    IN  /\ at[1] = Centre
        /\ \A k \in 2 .. Len(at) :
             /\ PointElev(terrainCloud, at[k]) # {}
             /\ \E j \in 1 .. k - 1 :
                  Within(at[j], at[k], Reach) /\ Apart(at[j], at[k]) < TerrainConnThre
        /\ \A d \in {c \in Planar : PointElev(terrainCloud, c) # {}} \ Range(at) :
             \/ \A c \in Range(at) : Within(c, d, Reach) => Apart(c, d) >= TerrainConnThre
             \/ \E c \in Range(at) : Within(c, d, Reach) /\ Apart(c, d) > CeilingFilteringThre

\* The terrain analysis from its voxels to both of its maps: see each.
TerrainIsSound == KeepsRecentNear /\ NoDataIsUnknown /\ FreshIsKept /\ GroundIsConnected
===============================================================================
