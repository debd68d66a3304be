------------------------------ MODULE MCNavigation ------------------------------
(***************************************************************************)
(* Instances for TLC of the nodes from the odometry to the command, and of *)
(* what starts and watches them, explored one at a time: part says which,  *)
(* and the others stay as they begin.                                      *)
(*   "map"      the local map of Point-LIO                                 *)
(*   "chain"    from its scans to odometry and velocity                    *)
(*   "lazy"     the thread of a converter between clouds and scans         *)
(*   "voxels"   the rolling voxels of the terrain analysis                 *)
(*   "ground"   the terrain maps made of them                              *)
(*   "costs"    the costmap layer that takes them in                       *)
(*   "attack"   the choice of a pose to attack from                        *)
(*   "pursuit"  the path controller                                        *)
(*   "bringup"  the launch files                                           *)
(*   "form"     the referee simulator's form, "monitor" its monitor        *)
(*   "panel"    the waypoint editor's panel                                *)
(***************************************************************************)
EXTENDS LocalMap, ScanChain, TerrainMaps, CostLayer, AttackPose,
        PursuitController, Bringup, RefereeMock, WaypointPanel

\* LocalMap: scans that stay in a grid, leave it between two groups, or fill two.
GroupedScans == {<<<<0, 1>>>>, <<<<0>>, <<5>>>>, <<<<2, 6>>>>}
PriorMaps == {<<>>, <<0, 3, 9>>}
Shifts == {-4, 0, 1}

\* TerrainVoxels: a drive that rolls the voxels both ways and back; places in one cell or in
\* two, seen so far apart that a mean with the first stamp is old.
DrivenPlaces == <<<<0, 0>>, <<8, -8>>, <<3, 2>>>>
ReturnedPoints == {<<4, -4>>, <<3, -3>>}
CloudStamps == {1, 2, 5}

\* TerrainMaps: ground with gaps, obstacles over one voxel, and steps in a row.
Pt(x, y, z, visible, fresh) == [cell |-> <<x, y>>, z |-> z + 4, seen |-> visible, fresh |-> fresh]
FlatClouds == {{Pt(c[1], c[2], 0, "low", TRUE) : c \in s} : s \in SUBSET ({1, 2, 4} \X {1, 3})}
MixedClouds == SUBSET {Pt(2, 2, 0, "low", FALSE), Pt(2, 2, 1, "high", FALSE), Pt(2, 2, 2, "high", TRUE),
  Pt(1, 2, -3, "low", FALSE), Pt(3, 2, 3, "close", FALSE), Pt(3, 2, 1, "high", TRUE)}
AnalysedClouds == FlatClouds \cup MixedClouds
SteppedRows == {{Pt(x, 3, h[x], "low", TRUE) : x \in {y \in {1, 3, 5, 7} : h[y] < 9}} :
                  h \in [{1, 3, 5, 7} -> {-3, -1, 1, 9}]}

\* CostLayer: points on, below and above the grid of voxels, faint, near and far.
Hit(x, z, i) == [x |-> x, z |-> z, i |-> i]
ObservedClouds ==
  {{}, {Hit(0, 0, 1), Hit(1, 1, 1)}, {Hit(4, 0, 1), Hit(4, 1, 1), Hit(9, 0, 1), Hit(9, 1, 1)},
   {Hit(-4, -1, 1), Hit(-4, 0, 1), Hit(-3, 1, 1), Hit(3, 3, 1), Hit(4, 1, 0)}}
RobotPlaces == -3 .. 4
MinusOne == -1

\* AttackPose: arcs of cost around the target, that wrap or not, of every length.
Arc(from, len, cost) == {[dir |-> (from + k) % (4 * Candidates), cost |-> cost] : k \in 0 .. len - 1}
LocalArcs == {{}} \cup {Arc(f, l, 100) : f \in {0, 1, 2, 3, 26, 29, 30, 31}, l \in {1, 4, 9, 14, 32}}
  \cup {Arc(30, 2, 50), Arc(1, 2, 50), Arc(0, 32, 49), Arc(0, 32, -1)}
GlobalArcs == {{}} \cup {Arc(f, l, 100) : f \in {0, 3, 28, 31}, l \in {1, 8}}
  \cup {Arc(29, 1, 50), Arc(0, 1, 50)}

\* PursuitController: a plan that turns and comes back beside itself.
UTurn == {[i \in 1 .. 4 |-> <<i, 0>>] \o [i \in 1 .. 4 |-> <<5 - i, 1>>]}
Straying == {<<0, 0>>, <<0, 1>>}
Walls == {{}, {<<4, 0>>, <<4, 1>>}}

\* The condition under which MotionProofs proves StopsForObstacle.
ASSUME WideCostmap == CostmapReaches

\* Bringup: what the entries' arguments combine to.
Plain == [entry |-> "live", mode |-> "localization", matching |-> "static", nav |-> FALSE,
          composed |-> FALSE, respawn |-> FALSE, model |-> FALSE, rviz |-> FALSE,
          decision |-> FALSE, mock |-> FALSE, record |-> FALSE]
TriedLaunches ==
  {[Plain EXCEPT !.mode = m[1], !.matching = m[2], !.nav = n, !.composed = c, !.respawn = r,
                 !.model = v, !.rviz = v, !.decision = d[1], !.mock = d[2], !.record = (v /\ d[1])] :
     m \in {<<"slam", "static">>, <<"localization", "gicp">>, <<"localization", "static">>},
     n, c, r, v \in BOOLEAN, d \in {<<FALSE, FALSE>>, <<TRUE, FALSE>>, <<TRUE, TRUE>>}}
  \cup {[Plain EXCEPT !.entry = "replay", !.mode = "slam", !.composed = c, !.respawn = r,
                      !.model = v, !.rviz = v] : c, r, v \in BOOLEAN}
  \cup {[Plain EXCEPT !.entry = e, !.decision = TRUE, !.mock = m] :
          e \in {"decision", "simulation"}, m \in BOOLEAN}

\* RefereeMock: values within and beyond what the form and the messages hold.
Shipped == [gp |-> 4, hp |-> 400, stage |-> 420, ammo |-> 300, outpost |-> 1500, other |-> 7,
            rate |-> 100]
MockConfigs == {Shipped, [Shipped EXCEPT !.gp = 7, !.hp = 65536 + 20000, !.rate = 1]}
TypedHp == [k \in Names |-> IF k = "hp" THEN {0, 200} ELSE {}]

-------------------------------------------------------------------------------
VARIABLE part

terrain == <<terrainVars, mapsVars>>
perception == <<localVars, chainVars, lazyVars>>
driving == <<costVars, attackVars, pursuitVars>>
tools == <<formVars, monitorVars, ended, panelVars>>
navVars == <<perception, terrain, driving, bringupVars, tools, part>>

\* The voxels are not laid out where they are not explored.
NoVoxels ==
  /\ leg = 1 /\ shift = <<0, 0>> /\ voxels = <<>> /\ updateNum = <<>> /\ updateTime = <<>>
  /\ crop = {} /\ newScan = FALSE /\ time = 0 /\ clearing = FALSE
  /\ inited = 0 /\ start = <<0, 0>> /\ served = {} /\ due = {}

NavInit ==
  /\ part \in {"map", "chain", "lazy", "voxels", "ground", "costs", "attack", "pursuit",
              "bringup", "form", "monitor", "panel"}
  /\ LocalInit /\ (part # "map" => prior = <<>>)
  /\ ChainInit
  /\ IF part = "voxels" THEN TerrainInit ELSE NoVoxels
  /\ MapsInit
  /\ CostInit /\ AttackInit
  /\ PursuitInit /\ (part # "pursuit" => minLook = MaxLook)
  /\ RefereeInit /\ (part # "form" => form["hp"] = 400)
  /\ PanelInit /\ (part # "panel" => shown.dist = 1 /\ tool.dist = 1)
  /\ LazyInit /\ BringupInit
  /\ part # "bringup" => args = Plain

Mapping == part = "map" /\ LocalNext /\ UNCHANGED <<chainVars, lazyVars>>
Chaining == part = "chain" /\ ChainNext /\ UNCHANGED <<localVars, lazyVars>>
Listening == part = "lazy" /\ LazyNext /\ UNCHANGED <<localVars, chainVars>>
Perceiving ==
  /\ Mapping \/ Chaining \/ Listening
  /\ UNCHANGED <<terrain, driving, bringupVars, tools, part>>

Analysing ==
  /\ \/ part = "voxels" /\ TerrainNext /\ UNCHANGED mapsVars
     \/ part = "ground" /\ MapsNext /\ UNCHANGED terrainVars
  /\ UNCHANGED <<perception, driving, bringupVars, tools, part>>

Driving ==
  /\ \/ part = "costs" /\ CostNext /\ UNCHANGED <<attackVars, pursuitVars>>
     \/ part = "attack" /\ AttackNext /\ UNCHANGED <<costVars, pursuitVars>>
     \/ part = "pursuit" /\ PursuitNext /\ UNCHANGED <<costVars, attackVars>>
  /\ UNCHANGED <<perception, terrain, bringupVars, tools, part>>

Launching ==
  part = "bringup" /\ BringupNext /\ UNCHANGED <<perception, terrain, driving, tools, part>>

Helping ==
  /\ \/ /\ part = "form" /\ (Type \/ Apply \/ Toggle \/ PublishTimer \/ ClickPreset \/ Close)
        /\ UNCHANGED panelVars
     \/ part = "monitor" /\ (Output \/ SpinTimer \/ Later \/ Close) /\ UNCHANGED panelVars
     \/ part = "panel" /\ PanelNext /\ UNCHANGED <<formVars, monitorVars, ended>>
  /\ UNCHANGED <<perception, terrain, driving, bringupVars, part>>

\* What is fair of a part that is not explored must never be enabled: the converter's
\* loop is asked for within its part, and no launch is running in the others.
NavSpec ==
  /\ NavInit
  /\ [][Perceiving \/ Analysing \/ Driving \/ Launching \/ Helping]_navVars
  /\ WF_lazyVars(part = "lazy" /\ (Count \/ TakeEvent \/ Wake))
  /\ WF_bringupVars(part = "bringup" /\ (Setup \/ StartGroup \/ LoadComponents \/ Respawn
                                         \/ HandleExit \/ StopProcess))
===============================================================================
