-------------------------------- MODULE LocalMap --------------------------------
(***************************************************************************)
(* The map that Point-LIO matches its scans with: the points of a scan,    *)
(* group by group of equal time, look for their neighbours in iVox, which  *)
(* forgets the grids used least recently; the pose moves where a group     *)
(* could be matched; and at the end of the scan the points the map does    *)
(* not have yet are added (laserMapping.cpp, h_model_output, ivox3d.h).    *)
(*                                                                         *)
(* Space is a line, the pose a shift, and a point the position of itself.  *)
(* A grid holds GridCells filter cells of CellSize positions.  Whether     *)
(* neighbours make a plane that the point fits is open.                    *)
(***************************************************************************)
EXTENDS Integers, SequencesExt, FiniteSetsExt

CONSTANTS
  CellSize,      \* filter_size_map
  GridCells,     \* ivox_grid_resolution, in filter cells
  Capacity,      \* Options::capacity_
  Matches,       \* NUM_MATCH_POINTS
  InitMapSize,   \* init_map_size
  FewPoints,     \* a scan with no more points than this is not added
  SleepScans,    \* scans a prior map is left as it is
  Priors,        \* prior_pcd_map_path: the points, or <<>> where it is not enabled
  TakenScans,    \* scans: the points of each group, seen from the body
  Moves,         \* what predictions and corrections shift the pose by
  MaxTaken       \* bound

ASSUME LocalMapAssumption ==
  /\ {CellSize, GridCells, Matches} \subseteq Nat \ {0}
  /\ Capacity \in Nat \ {0, 1}
  /\ {InitMapSize, FewPoints, SleepScans, MaxTaken} \subseteq Nat
  /\ Moves \subseteq Int /\ 0 \in Moves
  /\ Priors \subseteq Seq(Int) /\ TakenScans \subseteq Seq(Seq(Int))

VARIABLES
  prior,       \* enable_prior_pcd with its map
  cache,       \* grids_cache_: [grid, points], the grid used last in front
  keys,        \* the keys of grids_map_
  initFeats,   \* init_feats_world
  mapReady,    \* init_map
  shifted,     \* the position of the state
  groups,      \* the groups of the scan not processed yet
  world,       \* feats_down_world, as far as it is processed
  nearest,     \* Nearest_Points: [points, scan], where scan is history
  scanned,     \* scans so far, those that initialize included
  slept,       \* sleep_time
  firstPose,   \* is_first_kf
  log          \* history: every point given to AddPoints, in order

voxelVars == <<cache, keys, log>>
localVars == <<prior, voxelVars, initFeats, mapReady, shifted, groups, world, nearest,
               scanned, slept, firstPose>>

LocalInit ==
  /\ prior \in Priors
  /\ cache = <<>> /\ keys = {} /\ log = <<>>
  /\ initFeats = <<>> /\ mapReady = FALSE
  /\ shifted = 0 /\ groups = <<>> /\ world = <<>> /\ nearest = <<>>
  /\ scanned = 0 /\ slept = 0 /\ firstPose = TRUE

-------------------------------------------------------------------------------
Cell(p) == p \div CellSize
Pos2Grid(p) == Cell(p) \div GridCells

\* Mutant of Recent: a grid found in the map keeps its place in the cache.
RecentWhereItIs(list, i) == list
\* splice: the grid found in the map moves to the front.
Recent(list, i) == <<list[i]>> \o RemoveAt(list, i)

\* AddPoints, a point at a time; st is [cache, keys, log].
AddPoint(st, p) ==
  LET g == Pos2Grid(p)
      own == {i \in DOMAIN st.cache : st.cache[i].grid = g}
      grown == <<[grid |-> g, points |-> <<p>>]>> \o st.cache
      all == Append(st.log, p)
  IN CASE g \in st.keys ->
            LET i == CHOOSE j \in own : TRUE
            IN [cache |-> Recent([st.cache EXCEPT ![i].points = Append(@, p)], i),
                keys |-> st.keys, log |-> all]
       [] g \notin st.keys /\ Cardinality(st.keys) + 1 < Capacity ->
            [cache |-> grown, keys |-> st.keys \cup {g}, log |-> all]
       [] OTHER ->
            [cache |-> Front(grown), keys |-> (st.keys \cup {g}) \ {Last(grown).grid}, log |-> all]

AddPoints(points) ==
  LET st[n \in 0 .. Len(points)] ==
        IF n = 0 THEN [cache |-> cache, keys |-> keys, log |-> log]
        ELSE AddPoint(st[n - 1], points[n])
      end == st[Len(points)]
  IN cache' = end.cache /\ keys' = end.keys /\ log' = end.log

\* The points of a grid, and the order of two of them by their distance from p; which of
\* two at the same distance comes first is open in the code, and settled here.
PointsIn(i) == {<<i, j>> : j \in DOMAIN cache[i].points}
At(c) == cache[c[1]].points[c[2]]
Distance(c, p) == IF At(c) < p THEN p - At(c) ELSE At(c) - p
Nearer(c, d, p) == \/ Distance(c, p) < Distance(d, p)
                   \/ Distance(c, p) = Distance(d, p) /\ c[1] < d[1]
                   \/ Distance(c, p) = Distance(d, p) /\ c[1] = d[1] /\ c[2] < d[2]

\* A grid offers its nearest points, as many as are asked for.
KNNPointByCondition(i, p) ==
  {c \in PointsIn(i) : Cardinality({d \in PointsIn(i) : Nearer(d, c, p)}) < Matches}

\* GetClosestPoint with NEARBY6: at most Matches points, none farther than one left out.
Around(p) ==
  UNION {KNNPointByCondition(i, p) :
           i \in {k \in DOMAIN cache : cache[k].grid - Pos2Grid(p) \in {-1, 0, 1}}}
Rank(c, p) == Cardinality({d \in Around(p) : Nearer(d, c, p)})
GetClosestPoint(p) ==
  [k \in {n \in 1 .. Matches : n <= Cardinality(Around(p))} |->
     At(CHOOSE c \in Around(p) : Rank(c, p) = k - 1)]

-------------------------------------------------------------------------------
Idle == groups = <<>> /\ world = <<>>
Size(scan) == Len(FlattenSeq(scan))
PointBodyToWorld(points, shift) == [i \in DOMAIN points |-> points[i] + shift]

\* The points from before the map is there, or the prior map, become the map.
InitMap(scan) ==
  /\ Idle /\ ~mapReady /\ scanned < MaxTaken
  /\ scanned' = scanned + 1
  /\ LET feats == initFeats \o PointBodyToWorld(FlattenSeq(scan), shifted)
     IN IF Len(feats) >= InitMapSize
        THEN /\ AddPoints(IF prior # <<>> THEN prior ELSE feats)
             /\ initFeats' = <<>> /\ mapReady' = TRUE
        ELSE initFeats' = feats /\ UNCHANGED <<voxelVars, mapReady>>
  /\ UNCHANGED <<prior, shifted, groups, world, nearest, slept, firstPose>>

\* Nearest_Points is resized: what an earlier scan left in its elements stays.
BeginScan(scan) ==
  /\ Idle /\ mapReady /\ scanned < MaxTaken
  /\ scanned' = scanned + 1
  /\ groups' = scan
  /\ nearest' = [i \in 1 .. Size(scan) |->
       IF i \in DOMAIN nearest THEN nearest[i] ELSE [points |-> <<>>, scan |-> 0]]
  /\ UNCHANGED <<prior, voxelVars, initFeats, mapReady, shifted, world, slept, firstPose>>

\* A group: prediction, h_model_output and, where some point fits, the correction, after
\* which its points are projected again.  A point without neighbours keeps the list it had.
UpdateGroup(ahead, correction) ==
  /\ groups # <<>>
  /\ LET body == Head(groups)
         predicted == PointBodyToWorld(body, shifted + ahead)
         idx == Len(world)
         found == [j \in DOMAIN body |-> GetClosestPoint(predicted[j])]
         list(j) == IF found[j] # <<>> THEN found[j] ELSE nearest[idx + j].points
     IN /\ correction # 0 => \E j \in DOMAIN body : Len(list(j)) >= Matches
        /\ shifted' = shifted + ahead + correction
        /\ world' = world \o PointBodyToWorld(body, shifted')
        /\ nearest' = [i \in DOMAIN nearest |->
             IF i - idx \in DOMAIN body /\ found[i - idx] # <<>>
             THEN [points |-> found[i - idx], scan |-> scanned] ELSE nearest[i]]
  /\ groups' = Tail(groups)
  /\ UNCHANGED <<prior, voxelVars, initFeats, mapReady, scanned, slept, firstPose>>

\* Mutant of NeedAdd: any neighbour will do.
NeedAddWhereNone(i) == nearest[i].points = <<>>
\* MapIncremental adds a point unless a neighbour found for it is in its filter cell.
NeedAdd(i) == \A j \in DOMAIN nearest[i].points : Cell(nearest[i].points[j]) # Cell(world[i])

\* The elements of a sequence that have their places in ns, in order.
Pick(s, ns) ==
  LET some[n \in 0 .. Len(s)] ==
        IF n = 0 THEN <<>> ELSE IF n \in ns THEN Append(some[n - 1], s[n]) ELSE some[n - 1]
  IN some[Len(s)]
Added == Pick(world, {i \in DOMAIN world : NeedAdd(i)})

\* publish_odometry: with a prior map its first call puts the state back to the initial
\* pose.
PublishOdometry ==
  /\ shifted' = IF prior # <<>> /\ firstPose THEN 0 ELSE shifted
  /\ firstPose' = (firstPose /\ prior = <<>>)

\* The end of the iteration: publish_odometry and MapIncremental.
EndScan ==
  /\ groups = <<>> /\ world # <<>>
  /\ LET big == Len(world) > FewPoints
     IN /\ slept' = IF big /\ prior # <<>> /\ slept <= SleepScans THEN slept + 1 ELSE slept
        /\ IF big /\ (prior = <<>> \/ slept' > SleepScans) THEN AddPoints(Added)
           ELSE UNCHANGED voxelVars
  /\ PublishOdometry
  /\ world' = <<>>
  /\ UNCHANGED <<prior, initFeats, mapReady, groups, nearest, scanned>>

LocalNext ==
  \/ \E scan \in TakenScans : InitMap(scan) \/ BeginScan(scan)
  \/ \E ahead, correction \in Moves : UpdateGroup(ahead, correction)
  \/ EndScan
LocalSpec == LocalInit /\ [][LocalNext]_localVars

-------------------------------------------------------------------------------
\* The list and the hash map forget together, a grid at a time, while the grids keep
\* changing places: a point is in the map as long as, since it was added, there was never
\* a stretch in which Capacity - 1 other grids were used and its own was not.
KeepsRecentlyUsed ==
  LET used(a, b) == {Pos2Grid(log[k]) : k \in a .. b}
      kept(n) == \A a \in n + 1 .. Len(log) : \A b \in a .. Len(log) :
        Pos2Grid(log[n]) \in used(a, b) \/ Cardinality(used(a, b)) < Capacity - 1
      held == {n \in DOMAIN log : kept(n)}
      pointsOf(g) == Pick(log, {n \in held : Pos2Grid(log[n]) = g})
  IN /\ keys = {Pos2Grid(log[n]) : n \in held} /\ Cardinality(keys) = Len(cache)
     /\ \A i \in DOMAIN cache : cache[i].grid \in keys
                                /\ cache[i].points = pointsOf(cache[i].grid)

\* The pose is corrected after a point has found its neighbours.  Still a point of a scan
\* is left out only where the map has one of its cell, except that a list which an
\* earlier scan left in its place may name a point the map has forgotten.
LeftOutIsKnown ==
  groups = <<>> => \A i \in DOMAIN world :
    \/ NeedAdd(i)
    \/ nearest[i].scan # scanned
    \/ \E j \in DOMAIN cache, k \in DOMAIN log :
         Cell(log[k]) = Cell(world[i]) /\ Contains(cache[j].points, log[k])

\* What the map keeps and what it is not given again: see each.
MapKeepsUp == KeepsRecentlyUsed /\ LeftOutIsKnown
===============================================================================
