-------------------------------- MODULE Bringup --------------------------------
(***************************************************************************)
(* What the launch files start, and what becomes of it: the live bringup,  *)
(* the replay of a recording, the decision on its own and the decision     *)
(* simulation.  An entry and its arguments give the groups that are        *)
(* launched in turn; a group has processes of its own and components that  *)
(* are loaded into the shared container.                                   *)
(*                                                                         *)
(* Nodes are wired by channels: topics after their remappings, and edges   *)
(* of the transform tree.                                                  *)
(***************************************************************************)
EXTENDS Integers, Sequences, SequencesExt, FiniteSets

CONSTANTS Launches,    \* the entries and arguments that are tried
          MaxCrashes   \* bound: how many processes crash

VARIABLES args,     \* the arguments of the launch
          phase,    \* "asked", "refused", "running", "stopping" or "stopped"
          todo,     \* the groups that are still to be started
          up,       \* the processes that run
          pending,  \* groups whose components wait to be loaded
          loaded,   \* groups whose components the container holds
          back,     \* processes that will be started again
          exits,    \* exits that the launch has not handled yet
          crashes
bringupVars == <<args, phase, todo, up, pending, loaded, back, exits, crashes>>

Container == "nav2_container"
Manager == "map_odom_tf_manager"
Files == {"params", "map", "image", "pcd", "decision", "xacro", "rviz"}

\* The arguments of an entry, with their choices.
Arguments ==
  [entry : {"live", "replay", "decision", "simulation"}, mode : {"slam", "localization"},
   matching : {"gicp", "static"}, nav : BOOLEAN, composed : BOOLEAN, respawn : BOOLEAN,
   model : BOOLEAN, rviz : BOOLEAN, decision : BOOLEAN, mock : BOOLEAN, record : BOOLEAN]

ASSUME BringupAssumption == Launches \subseteq Arguments /\ MaxCrashes \in Nat

----------------------------------------------------------------------------
(* What is checked before anything starts: files that exist, frames that agree with the *)
(* manager's, SLAM's own broadcast switched off.                                        *)

LiveRefused(a, have, framesAgree, slamQuiet) ==
  \/ "params" \notin have \/ ~framesAgree
  \/ a.mode = "slam" /\ ~slamQuiet
  \/ a.mode = "localization" /\ ~({"map", "image"} \subseteq have)
  \/ a.mode = "localization" /\ a.matching = "gicp" /\ "pcd" \notin have
  \/ a.decision /\ "decision" \notin have
  \/ a.model /\ "xacro" \notin have
  \/ a.rviz /\ "rviz" \notin have

ReplayRefused(a, have, framesAgree, slamQuiet) ==
  \/ "params" \notin have \/ ~framesAgree \/ ~slamQuiet
  \/ a.model /\ "xacro" \notin have
  \/ a.rviz /\ "rviz" \notin have

\* Map, tree and, without looking whether it is used, the view.
SimulationRefused(have) == ~({"map", "decision", "rviz"} \subseteq have)

Refused(a, have, framesAgree, slamQuiet) ==
  CASE a.entry = "live" -> LiveRefused(a, have, framesAgree, slamQuiet)
    [] a.entry = "replay" -> ReplayRefused(a, have, framesAgree, slamQuiet)
    [] a.entry = "simulation" -> SimulationRefused(have)
    [] OTHER -> FALSE

\* The groups in the order in which they are started.
If(c, group) == IF c THEN <<group>> ELSE <<>>
LiveGroups(a) ==
  <<"manager">> \o If(a.composed, "container") \o <<"data">>
    \o <<IF a.mode = "slam" THEN "slam" ELSE "localization">>
    \o If(a.nav, "navigation") \o If(a.decision, "decision")
    \o If(a.model, "model") \o If(a.rviz, "rviz") \o If(a.record, "recording")
ReplayGroups(a) ==
  <<"manager">> \o If(a.composed, "container") \o <<"data", "slam">>
    \o If(a.model, "model") \o If(a.rviz, "rviz")
SimulationGroups(a) == <<"simulation">> \o If(a.decision, "tree")

Groups(a) ==
  CASE a.entry = "live" -> LiveGroups(a)
    [] a.entry = "replay" -> ReplayGroups(a)
    [] a.entry = "simulation" -> SimulationGroups(a)
    [] OTHER -> <<"decision">>

Slam(a) == a.entry = "replay" \/ (a.entry = "live" /\ a.mode = "slam")

----------------------------------------------------------------------------
(* What each group starts: processes, and components for the container. *)

Chain == {"loam_interface", "sensor_scan_generation"}
DataNodes(a) ==
  (IF a.entry = "live" THEN {"livox_ros_driver2", "merge_cloud_node"} ELSE {})
    \cup {"point_lio", "terrain_analysis", "terrain_analysis_ext"}
    \cup (IF Slam(a) THEN {"pointcloud_to_laserscan"} ELSE {})
    \cup (IF a.composed THEN {} ELSE Chain)
\* Mutant of DataComponents: they are loaded only with the navigation.
DataComponentsIfDriving(a) == IF a.composed /\ a.nav THEN Chain ELSE {}
DataComponents(a) == IF a.composed THEN Chain ELSE {}

SlamNodes == {"map_saver", "lifecycle_manager_slam", "slam_toolbox"}

Located(a) ==
  {"map_server", "lifecycle_manager_localization"}
    \cup (IF a.matching = "gicp" THEN {"small_gicp_relocalization"} ELSE {})
LocalizationNodes(a) == IF a.composed THEN {} ELSE Located(a)
LocalizationComponents(a) == IF a.composed THEN Located(a) ELSE {}

Servers == {"controller_server", "smoother_server", "planner_server", "behavior_server",
            "bt_navigator", "waypoint_follower", "velocity_smoother"}
NavigationNodes(a) ==
  IF a.composed THEN {} ELSE {"fake_vel_transform", "lifecycle_manager_navigation"} \cup Servers
NavigationComponents(a) ==
  IF a.composed THEN {"fake_vel_transform", "lifecycle_manager_navigation"} \cup Servers ELSE {}

DecisionNodes(a) == {"tree_exec"} \cup (IF a.mock THEN {"referee_mock"} ELSE {})
ModelNodes == {"joint_state_publisher", "robot_state_publisher"}
\* The tree comes as a group of its own, after a delay.
SimulationNodes(a) ==
  {"map_server", "lifecycle_manager_map", "decision_result_mock"}
    \cup (IF a.mock THEN {"referee_mock"} ELSE {}) \cup (IF a.rviz THEN {"rviz2"} ELSE {})

Processes(g, a) ==
  CASE g = "manager" -> {Manager}
    [] g = "container" -> {Container}
    [] g = "data" -> DataNodes(a)
    [] g = "slam" -> SlamNodes
    [] g = "localization" -> LocalizationNodes(a)
    [] g = "navigation" -> NavigationNodes(a)
    [] g = "decision" -> DecisionNodes(a)
    [] g = "model" -> ModelNodes
    [] g = "rviz" -> {"rviz2"}
    [] g = "recording" -> {"rosbag2"}
    [] g = "simulation" -> SimulationNodes(a)
    [] OTHER -> {"tree_exec"}
Components(g, a) ==
  CASE g = "data" -> DataComponents(a)
    [] g = "localization" -> LocalizationComponents(a)
    [] g = "navigation" -> NavigationComponents(a)
    [] OTHER -> {}

\* use_respawn reaches the nodes of these groups, but no lifecycle manager.
Respawns(p, a) ==
  /\ a.respawn /\ a.entry \in {"live", "replay"}
  /\ p \notin {Manager, Container, "rviz2", "rosbag2", "lifecycle_manager_slam",
               "lifecycle_manager_localization", "lifecycle_manager_navigation"}

\* Mutant of Watched: the exit of the manager has no handler.
WatchedViewOnly(a) == IF a.entry \in {"live", "replay"} THEN {"rviz2"} ELSE {}
\* The processes whose exit ends the launch.
Watched(a) == IF a.entry \in {"live", "replay"} THEN {Manager, "rviz2"} ELSE {}

\* The nodes that run: processes, and what the container holds.
Running == (up \ {Container}) \cup UNION {Components(g, args) : g \in loaded}

----------------------------------------------------------------------------
(* The wires. *)

\* Mutant of GicpWrites: its default of publish_tf.
GicpWritesDirectly == {"map->odom"}
\* Relocalization is always started with publish_tf off.
GicpWrites == {"gicp_transform"}

\* What a node writes; a node that is not named writes nothing that is looked at.
Writes(n, a) ==
  CASE n = "livox_ros_driver2" -> {"lidar", "imu"}
    [] n = "merge_cloud_node" -> {"lidar_merged"}
    [] n = "point_lio" -> {"cloud_registered", "aft_mapped_to_init"}
    [] n = "loam_interface" -> {"registered_scan", "lidar_odometry"}
    [] n = "sensor_scan_generation" -> {"odometry", "odom->base"}
    [] n = "terrain_analysis" -> {"terrain_map"}
    [] n = "terrain_analysis_ext" -> {"terrain_map_ext"}
    [] n = "pointcloud_to_laserscan" -> {"obstacle_scan"}
    [] n = "slam_toolbox" -> {"map", "slam_pose"}
    [] n = "map_server" -> {"map"}
    [] n = "small_gicp_relocalization" -> GicpWrites
    [] n = Manager -> {"map->odom"}
    [] n = "controller_server" -> {"cmd_vel_controller"}
    [] n = "velocity_smoother" -> {"cmd_vel_nav2_result"}
    [] n = "behavior_server" -> {"cmd_vel_nav2_result"}
    [] n = "planner_server" -> {"plan"}
    [] n = "bt_navigator" -> {"navigate_to_pose"}
    [] n = "fake_vel_transform" -> {"cmd_vel", "gimbal->fake"}
    [] n = "robot_state_publisher" -> {"model"}
    [] n = "joint_state_publisher" -> {"joint_states"}
    [] n = "referee_mock" -> {"game_state"}
    [] n = "decision_result_mock" -> {"navigate_to_pose", "map->base"}
    [] OTHER -> {}

\* What the manager listens to is its source_mode.
ManagerReads(a) ==
  IF Slam(a) THEN {"slam_pose", "odom->base"}
  ELSE IF a.matching = "gicp" THEN {"gicp_transform"} ELSE {}

\* What a node cannot do its work without.
Reads(n, a) ==
  CASE n = "merge_cloud_node" -> {"lidar"}
    [] n = "point_lio" -> {"lidar_merged", "imu"}
    [] n = "loam_interface" -> {"cloud_registered", "aft_mapped_to_init", "model"}
    [] n = "sensor_scan_generation" -> {"registered_scan", "lidar_odometry", "model"}
    [] n = "terrain_analysis" -> {"registered_scan", "lidar_odometry"}
    [] n = "terrain_analysis_ext" -> {"registered_scan", "lidar_odometry", "terrain_map"}
    [] n = "pointcloud_to_laserscan" -> {"terrain_map_ext", "odom->base"}
    [] n = "slam_toolbox" -> {"obstacle_scan", "odom->base"}
    [] n = "map_saver" -> {"map"}
    [] n = "small_gicp_relocalization" -> {"registered_scan", "model", "odom->base"}
    [] n = Manager -> ManagerReads(a)
    [] n = "controller_server" -> {"odometry", "map", "terrain_map", "gimbal->fake", "odom->base"}
    [] n = "velocity_smoother" -> {"cmd_vel_controller", "odometry"}
    [] n = "behavior_server" -> {"gimbal->fake", "map->odom"}
    [] n = "planner_server" -> {"map", "terrain_map_ext", "gimbal->fake", "map->odom"}
    [] n = "bt_navigator" -> {"odometry", "gimbal->fake", "map->odom"}
    [] n = "fake_vel_transform" -> {"cmd_vel_nav2_result", "odometry"}
    [] n = "robot_state_publisher" -> {"joint_states"}
    [] n = "tree_exec" -> {"game_state"}
    [] OTHER -> {}

\* What comes from elsewhere: the recording, the robot's model, the serial link.
External(a) ==
  (IF a.entry = "replay" THEN {"lidar_merged", "imu"} ELSE {})
    \cup (IF a.entry \in {"live", "replay"} /\ ~a.model THEN {"model"} ELSE {})
    \cup (IF a.mock THEN {} ELSE {"game_state"})

----------------------------------------------------------------------------
(* The launch service. *)

BringupInit ==
  /\ args \in Launches /\ phase = "asked" /\ todo = <<>> /\ up = {}
  /\ pending = {} /\ loaded = {} /\ back = {} /\ exits = {} /\ crashes = 0

\* The entry's function is run, with any one of its files missing, or its checks failing.
Setup ==
  /\ phase = "asked"
  /\ \E have \in {Files} \cup {Files \ {f} : f \in Files}, framesAgree, slamQuiet \in BOOLEAN :
       IF Refused(args, have, framesAgree, slamQuiet)
       THEN phase' = "refused" /\ UNCHANGED todo
       ELSE phase' = "running" /\ todo' = Groups(args)
  /\ UNCHANGED <<args, up, pending, loaded, back, exits, crashes>>

\* The topics to record are only read here: a list that is wrong ends a running launch.
StartGroup ==
  /\ phase = "running" /\ todo # <<>>
  /\ LET g == Head(todo)
     IN  \/ /\ up' = up \cup Processes(g, args)
            /\ pending' = IF Components(g, args) = {} THEN pending ELSE pending \cup {g}
            /\ todo' = Tail(todo) /\ UNCHANGED phase
         \/ /\ g = "recording" /\ phase' = "stopping" /\ todo' = <<>> /\ UNCHANGED <<up, pending>>
  /\ UNCHANGED <<args, loaded, back, exits, crashes>>

\* A request waits until there is a container to serve it.
LoadComponents ==
  /\ phase = "running" /\ Container \in up
  /\ \E g \in pending : pending' = pending \ {g} /\ loaded' = loaded \cup {g}
  /\ UNCHANGED <<args, phase, todo, up, back, exits, crashes>>

\* A process ends on its own; components end with their container.
Crash(p) ==
  /\ phase = "running" /\ p \in up /\ crashes < MaxCrashes /\ crashes' = crashes + 1
  /\ up' = up \ {p}
  /\ loaded' = IF p = Container THEN {} ELSE loaded
  /\ back' = IF Respawns(p, args) THEN back \cup {p} ELSE back
  /\ exits' = IF p \in Watched(args) THEN exits \cup {p} ELSE exits
  /\ UNCHANGED <<args, phase, todo, pending>>

Respawn ==
  /\ phase = "running"
  /\ \E p \in back : back' = back \ {p} /\ up' = up \cup {p}
  /\ UNCHANGED <<args, phase, todo, pending, loaded, exits, crashes>>

\* The handlers of the manager's exit and of the view's end the launch.
HandleExit ==
  /\ phase = "running" /\ exits # {} /\ exits' = {}
  /\ phase' = "stopping" /\ todo' = <<>>
  /\ UNCHANGED <<args, up, pending, loaded, back, crashes>>

Interrupt ==
  /\ phase = "running" /\ phase' = "stopping" /\ todo' = <<>>
  /\ UNCHANGED <<args, up, pending, loaded, back, exits, crashes>>

\* Every process is signalled; its exit during the shutdown causes nothing.
StopProcess ==
  /\ phase = "stopping"
  /\ IF up = {} THEN phase' = "stopped" /\ UNCHANGED <<up, loaded>>
     ELSE /\ LET p == CHOOSE q \in up : TRUE
             IN  /\ up' = up \ {p}
                 /\ loaded' = IF p = Container THEN {} ELSE loaded
          /\ UNCHANGED phase
  /\ back' = {} /\ pending' = {}
  /\ UNCHANGED <<args, todo, exits, crashes>>

BringupNext ==
  \/ Setup \/ StartGroup \/ LoadComponents \/ Respawn \/ HandleExit \/ Interrupt \/ StopProcess
  \/ \E p \in up : Crash(p)

\* The launch service handles its events, and processes obey the signals it escalates.
BringupFairness ==
  WF_bringupVars(Setup \/ StartGroup \/ LoadComponents \/ Respawn \/ HandleExit \/ StopProcess)
----------------------------------------------------------------------------
(* Properties *)

Shared == {"cmd_vel_nav2_result"}  \* the smoother's and the recoveries'
Writers(c) == {n \in Running : c \in Writes(n, args)}

\* In every launch and at every moment of it, crashes and restarts included, no topic
\* and no edge of the transform tree has two writers.
OneWriterEach ==
  \A n \in Running : \A c \in Writes(n, args) \ Shared :
    Writers(c) = {n} /\ c \notin External(args)

\* Once everything is started, every node finds what it reads: a writer in the same
\* launch, or outside where the launch leaves it to others; and that, with the nodes that
\* run, is the same whether components share the container or not.
EveryReaderIsFed ==
  phase = "running" /\ todo = <<>> /\ pending = {} /\ crashes = 0 =>
    /\ \A n \in Running : Reads(n, args) \subseteq
         External(args) \cup UNION {Writes(m, args) : m \in Running}
    /\ LET other == [args EXCEPT !.composed = ~@]
           groups == ToSet(Groups(other))
       IN  Running = UNION {Processes(g, other) \cup Components(g, other) : g \in groups}
                       \ {Container}

\* A bringup that has lost the publisher of map -> odom does not go on without it, and
\* what it started is stopped.
StopsWithoutManager ==
  (phase = "running" /\ Manager \notin up /\ "manager" \notin ToSet(todo)
     /\ args.entry \in {"live", "replay"}) ~> (phase = "stopped" /\ up = {})

\* What is started fits together, neither twice written nor unfed: see each.
WiringIsComplete == OneWriterEach /\ EveryReaderIsFed
===============================================================================
