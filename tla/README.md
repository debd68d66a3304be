# Verification of the SPR sentry software

TLA+ specifications of the autonomous sentry robot in this repository, with TLC
configurations that model-check them and TLAPS proofs about them. Paths are relative to the
repository root, whose ROS 2 workspace is `src/`; short names such as `spr_decision` are
packages of that workspace.

## 1. Inventory

### The system

The referee system and the gimbal board talk to the robot's computer over a serial line.
A decision node ticks a behaviour tree that reads the referee's reports from a blackboard and
commands a posture, a spin mode and navigation goals. Navigation (Nav2 with the packages of
`src/spr_sentry_nav`) drives to the goals, localized by SLAM or by registration against a map.

```
 referee/gimbal --serial--> spr_sentry_serial --game_state--> spr_decision (behaviour tree)
      ^                          ^   ^                          |   |        |
      |        posture, spin ----+   |          posture, spin --+   |  navigate_to_pose (action)
      +--- 20 ms command frame ------+-- cmd_vel <- fake_vel_transform <- Nav2 <---+
                                                        ^       ^
 livox_ros_driver2 -> dual_mid360_merge -> point_lio ---+       |  costs, odometry
        loam_interface, sensor_scan_generation, terrain_analysis, intensity voxel layer
 point_lio / small_gicp / slam -> map_odom_tf_manager --> map -> odom
```

| component | state it keeps | operations | how it interacts |
|---|---|---|---|
| executor, `spr_decision/src/tree_exec_node.cpp` | the tree with the status of every node | tick every 100 ms, `spin_some` between ticks | calls the leaves; callbacks run only while the node is spun |
| `Nav2Pose` | goal handle, its result | onStart, onRunning, onHalted | action client; waits (spinning the node) for goal and cancel replies |
| `Topics2Blackboard` | last reports, last target and its time | tick, callbacks | referee and target topics to blackboard |
| `PostureChange`, `SpinOrNot` | `last_sent_` of every node | tick | publish to the serial node |
| `AlignChassis` | rate, target | onStart, onRunning, onHalted | tf in, `cmd_vel` out |
| `Attack` | last costmaps | tick | target and costmaps to a goal pose |
| trees `RMUC_adaptation_2026_A/B.xml` | blackboard flags | guards (`_while`), Scripts | what the executor runs |
| `map_odom_tf_manager` | held value, its source stamp, pending pose, last clock reading | onGicp, onSlam, tick, publishStatus | tf buffer in; sole publisher of map -> odom |
| `small_gicp_relocalization` | target, gathered cloud, last estimate | cloud, timer, initial pose | results to `map_odom_tf_manager` |
| `spr_sentry_serial` | last commands, receive buffer | receive thread, 20 ms timer, subscriptions | bytes to messages and back |
| `fake_vel_transform` | cached velocity, base angle, time of the last plan | velocity, plan, odometry, synchronized pair | between controller and serial node |
| `back_up_free_space` | start pose, end time | run, cycle | Nav2 behaviour server |
| `livox_ros_driver2` | set bits, packets, frames and rings of each lidar | SDK callbacks, gathering thread, poll thread, destructor | lidars to topics |
| `dual_mid360_merge` | last published stamp | synchronized pair | driver to odometry |
| `point_lio` | deques of scans and IMU samples, the filter's time, the local map | callbacks, sync_packages, main loop | odometry and clouds |
| `loam_interface`, `sensor_scan_generation` | base -> lidar, previous odometry | callbacks, synchronized pair | odometry to Nav2 |
| `terrain_analysis(_ext)` | rolling voxels, ground heights | cloud, odometry, clearing; one pass per scan | clouds to costmap |
| intensity voxel layer | its grid, its costs | updateBounds, updateCosts, reset | plugin of the costmaps |
| pursuit controller | plan, PID, last scale | setPlan, computeVelocityCommands | plugin of the controller server |
| `pointcloud_to_laserscan` | is it subscribed | listener thread, destructor | clouds to scans and back |
| launch files | processes, components | start, load, respawn, stop | everything |
| `spr_bt_sim` mock | goals, a sequence number | execute threads, cancel, pose | stands in for Nav2 |
| `spr_referee_mock` | form, node's copy, timers | edit, publish, presets, monitor | stands in for the referee |
| `waypoint_editor` | waypoints, history, markers, panel | edits, undo, redo, capture, save, load | RViz tool and panel |

`PROJECT.json` lists every component with its status, and every hazard with its line and the
properties that look for it.

### What is hard here, and what makes each part correct

*Decision.* The tick is not atomic. Whenever a `Nav2Pose` leaf waits for a reply it spins the
node, so a `game_state` message can rewrite the blackboard between two guards of one tick; the
server preempts, aborts or finishes goals at the same points; a request may time out and be
served later. Reactive fallbacks preempt branches at every tick, and the trees order themselves
by some sixteen blackboard flags that a preempted Sequence leaves half updated. Correct means:
the server only works for the leaf that waits for it; no leaf waits for a goal nobody works on;
no goal survives the end of the match; a robot that retreats heals before it attacks; a state of
the robot that lasts leads to the place and the posture meant for it; the flags follow the robot.

*map -> odom.* The clock may be rewound between any two reads, in the middle of a callback
too; results arrive late, ahead, out of order, and without their transform. Correct means: only
fresh results newer than the one in use are accepted; nothing of a previous pass counts as
fresh after a rewind; a rewind never resets the held value; publication never stalls; and what is
held is the pose of a registration, never the operator's guess.

*Serial line and velocities.* Reads cut the byte stream anywhere, frames have no checksum, and
payload bytes may look like delimiters. Writes may be cut short. Velocities are cached until their
odometry pairs up. Correct means: the frames delivered depend on the line only; a stop is final;
once everybody is quiet the board stands still.

*Lidars and odometry.* Threads of the SDK, a gathering thread, a poll thread and a destructor share
rings without locks. Packets, scans and samples overlap and jitter. Correct means: a lidar is
published only as configured; each packet is in one frame, each point of two scans in the merged
one at its own time, each IMU sample integrated once; rings are first-in first-out and no wake-up is lost.

*Terrain, costs, control.* Grids roll under a moving vehicle and are updated in place, a bit at a
time. Correct means: no place near the vehicle is lost whose stamps are all young; what the costmap shows is what the
layer holds; pruning skips nothing ahead; no command goes out into a visible obstacle.

*Around the robot.* Many launch arguments, each with other processes; user interfaces with several copies of
the same data and answers that arrive late. Correct means: one writer for each topic and transform and
none missing; a bringup never outlives its only map -> odom publisher; what is shown is what there is.

## 2. Plan and its status

| order | modules | of what | status |
|---|---|---|---|
| 1 | `ReactiveTree`, `ReactiveTreeProofs` | executor, control nodes, leaves, Topics2Blackboard, action server; its safety for every tree | done |
| 2 | `RmucTreeA`, `RmucTreeB`, `RmucTreeProofs` | ReactiveTree with each tree of 2026, and what each promises | done |
| 3 | `MapOdomTfManager`, `LocalizationProofs` | the transform authority | done |
| 4 | `FrameStream` (abstract), `SerialLink`, `SerialLinkProofs` | the receive thread implements the frames of a line | done |
| 5 | `GoalService` (abstract), `MockGoalServer` | the mock implements what the trees assume of a server | done |
| 6 | `FakeVelTransform`, `BackUpFreeSpace`, `SerialSender`, `VelocityPath` | three nodes and their composition, the way of a velocity to the board | done |
| 7 | `GicpRelocalization`, `Localization` | the relocalization, composed with the manager | done |
| 8 | `LivoxSetup`, `LidarFrames`, `FrameQueue` (abstract), `LivoxQueue` | the driver; its rings implement queues that drop when full | done |
| 9 | `MergeScans`, `PointLio`, `LocalMap`, `ScanChain` | from two scans to odometry and velocity | done |
| 10 | `TerrainVoxels`, `TerrainMaps`, `CostLayer` | from clouds to costs | done |
| 11 | `PursuitController`, `AttackPose` | the controller; the choice of an attack pose | done |
| 12 | `EditHistory` (abstract), `WaypointEditor`, `WaypointFile`, `WaypointPanel` | the editor implements a history of versions; files; panel | done |
| 13 | `Bringup`, `RefereeMock` | launch files; the referee simulator | done |
| 14 | `SensingProofs` | lidars, rings, frames, merged scans, reported speed | done |
| 15 | `MotionProofs`, `ToolsProofs` | what moves the robot and what it attacks from; mock, editor, panel, referee | done |
| 16 | `CostmapShowsLayer` (in `MotionProofs`) | what is marked in the costmap | done |
| 17 | `SlowsInBends`, `StopsForObstacle` (in `MotionProofs`) | the parts of `PursuitIsSafe` that do not depend on the plan's shape | done |
| 18 | `DataLemmas`; theorems in `MotionProofs`, `LocalizationProofs`, `SensingProofs` | what recursive functions compute: the direction to back up in, odometry samples, the local map, the terrain | done |

MC modules hold instances for TLC. `MCNodes`, `MCSensing` and `MCNavigation` put several
components that share nothing side by side: `part` is chosen in the initial state, the actions
of that part run, and the others stay as they begin. This is a union of state spaces and not a
product, so it explores exactly what separate runs would. Components that do interact are composed in
modules of their own (`VelocityPath`, `Localization`, `RmucTreeA/B`).

## 3. The models

Every definition's lines are in `PROJECT.json` under `map`. Where a definition has a mutant, an
operator of the same shape stands before it, named in a comment; no specification uses it.

### Decision: `ReactiveTree`, `RmucTreeA`, `RmucTreeB`

A tree is a constant: `Phases` (the inner ReactiveFallbacks and their branches), `PhaseGuard` and
`BranchGuard` (the `_while` conditions), `Steps` (a Sequence of leaves per branch, built from the
values of its first section: `Nav2Pose`, `Script`, ...), `RootScripts` and `Flags0` (the root's Scripts). `Reports` are the
`game_state` messages to explore, `Faults` the failures that may happen. All theorems quantify over
them; the configurations bind them to the definitions of a tree module.

| state | code |
|---|---|
| `ref`, `flag` | the blackboard: what Topics2Blackboard writes, what Scripts write |
| `pc`, `after`, `ph`, `at`, `failed` | where `tickRoot` is in the tree |
| `cur`, `run` | the branch being ticked, the branch left RUNNING: leaf index, whether it has started, and what its goal handle (or timer) says |
| `active`, `late` | the action server's goal and whose it is; requests that timed out |
| `place` | where the robot last arrived |
| `posture`, `spin`, `sent`, `omega` | last values on the topics, each SpinOrNot node's `last_sent_` |

One action is the code between two points at which something else may run. The executor is
single threaded, so the only such points are between ticks (`BeginTick`), the wait for a goal reply
(`NavSend` to `NavAccepted`, `NavRefused` or `NavTimedOut`) and the wait for a cancel reply (`Halt`).
Other cuts (one action per leaf, `TryPhase`, `Select`) keep actions small: `Spinning` is false there,
so nothing interleaves. Environment actions are `GameState`, the server's `GoalReached`, `GoalAborted`,
`LateAccept`, `LateDrop`, and `SleepExpired`.

Order of events that matters and is kept: a branch that takes over has its goal accepted
*before* the old branch is halted, so the old goal is preempted by the server and its cancel
finds a finished goal; a failing leaf lets the fallback try the next branch in the same tick;
a branch whose `_while` turned false is halted when the fallback passes it.

BehaviorTree.CPP and the action server are not in the repository. They are modelled from how
the trees and `nav2pose.cpp` use them, and marked external in `PROJECT.json`.

`RmucTreeA`, `RmucTreeB` are the guards and leaves of the XML files, one operator per tag group.
The history variable `retreating` of `RmucTreeA` (is a retreat open) constrains no step of `Spec`; `HSpec` adds it.

Abstractions: poses are named places; a heading is reached or not; `stage_remain_time`, hp and ammo
take values on both sides of every threshold; the 100 ms tick has no duration; the server answers
every cancel request.

`AttackPose` is the branch of the older trees: the target's half of Topics2Blackboard (the time a target was
last seen, judged only when the tracker speaks) and the leaf `Attack`, which counts obstacles of two costmaps in
sectors of a ring and looks for a clear candidate from the vehicle's direction outwards. Directions are
counted in quarters of a sector, so the code's shift by half a sector (`attack.cpp:194`) is there.

### map -> odom: `MapOdomTfManager`, `GicpRelocalization`, `Localization`

Every callback is cut at each clock read, because another thread sets the ROS clock: `tick` reads
the time, runs `trySlam`, which reads it again for the lookup and, in `accept`, once more, and then
publishes with the *first* time. A transform is identified with the stamp of the result it came
from, 0 being the configured initial pose. `mode` is `source_mode`, fixed at start. `Timeout` and `FutureTol`
are `source_timeout` and `future_tolerance`. `GicpRelocalization` gathers clouds, registers them from the
last estimate or the operator's pose and publishes what converges; a pose is named by the scan it is of, so
that a guess and a match can be told apart. `Localization` composes them by the topic between them.

### Serial link and velocities

`FrameStream` says what a receiver of frames promises: of the bytes received it delivers, from left to
right, every stretch of `FrameSize` bytes that begins with SOF, ends with EOF and overlaps no earlier
one. `SerialLink` is the receive thread: `Read` (one successful `read`), then rounds of the inner loop until
it breaks: `NoStart` and `Incomplete` break, `Reject` drops one byte, `Deliver` publishes. An action is one round; the
thread shares nothing with the executor's thread but the published payloads. `received` and
`delivered` are history variables, which make the promise expressible: the thread itself only has its buffer.

`SerialSender` is the other half: a port that opened or did not, the last commands, and a timer whose
`write` may be whole, cut short or refused. `FakeVelTransform` publishes a velocity at once or, after a
plan, with the odometry it pairs up with. `BackUpFreeSpace` scans for the widest free sector and drives
until it is done, cancelled, timed out, blocked or lost. `VelocityPath` connects them, with `AlignChassis` as
the other publisher of the topic. A command is its rank and whether it is zero.

### Lidars, odometry and velocity

`LivoxSetup`: the callback that sends the options of a lidar under `config_mutex_`, their answers, which
may come before it has finished or fail and be asked again, and the step to "sampling". `LidarFrames`: packets of all lidars through one
queue; frames end by the sensor's time or by the host's clock according to one shared flag. `LivoxQueue`: the producer,
the poll thread and the destructor at the level of single reads and writes of the ring's indices and
of the semaphore's count; it implements `FrameQueue`, a bounded queue for each lidar that drops when full.
`MergeScans`: `dual_mid360_merge` for every pair the synchronizer may hand over. `PointLio`: the points
that `avia_handler` leaves of a message, the deques, `sync_packages` and the loops that take IMU samples before each group of points. `LocalMap`:
the list of grids in order of use with its index (`ivox3d.h`), the search for the nearest points, and what `MapIncremental` adds;
space is a line. `ScanChain`: `loam_interface`, the exact-time pairs of `sensor_scan_generation` and the velocity it
derives, with losses and replays that start over, and the listener thread of the scan converters.

### Terrain, costs and control

`TerrainVoxels`: the grid rolls by whole voxels, takes points by their distance to the vehicle (with the
code's cast, which truncates towards zero and is corrected below it), and filters a voxel when it has seen
enough points or time. A place is a leaf of the filter, and as `pcl::VoxelGrid` averages every field of the points in a leaf,
so the stamp in `intensity` that the decay test then reads, `Thinned` gives each place the mean of its stamps (`MeanTime`).
`due` remembers the places that a scan saw, with the oldest stamp the grid then had for them. `TerrainMaps`: the ground as a quantile or a lifted minimum, dynamic obstacles,
blocks without data with their edge sweeps in place, and the queue search for connected ground. Both work on
points with a voxel and a height in steps. `CostLayer` is one row of the costmap: a rolling layer with marks in `ZVoxels` levels,
intensity and range limits, its footprint, the bounds it reports and the master map that rolls by
itself. `PursuitController`: pruning, carrot, PID of the translation, curvature and approach limits, collision
check; plans are unit steps on a lattice, speeds are integers, a period is a unit of time. The deployed parameters
select Nav2's MPPI controller; this plugin is the repository's own.

### Launch files, simulators, editor

`Bringup`: the arguments of an entry give the groups that start in turn, as processes or as components of a
container; checks that refuse a launch; a process that ends is respawned, ignored or stops everything, as its file says.
What a node reads and writes is given as channels (topics after remapping, edges of the transform tree).
`RefereeMock`: the form with its ranges and the message's casts, the node's copy, timers with the period they
were started with, presets, and the monitor of outputs with its age limit. `GoalService` is what `ReactiveTree` assumes of a
server (one active goal, a later one preempts it, every goal ends once, a reached goal's place was visited);
`MockGoalServer` implements it with a thread per goal, cut at its lock, its handle calls and its sleep.
`EditHistory` is a line of versions with a current one; `WaypointEditor` implements it with snapshots, undo, redo, drags,
captures and loading; `WaypointFile` has both formats on texts of letters, blanks, commas and quotes; `WaypointPanel` has the capture
button, the two services behind it, and the events its answers post to the window.

## 4. Runs

| run | checks | distinct states |
|---|---|---|
| `RmucTreeA_retreat` | `HealsBeforeAttack`, `LastingStateDecides`, no faults | 6450 |
| `RmucTreeA_match` | `NoGoalOutsideMatch` over a match that may end and begin again, with aborts and refusals | 32046 |
| `RmucTreeB_final` | `HoldsInPlace`, `FlagsFollowRobot`, `PatrolsForever` in the final phase | 295838 |
| `RmucTreeB_faults` | `GoalTracked`, `NoForgottenGoal` with goals aborted, refused, timed out and served late and transforms missing | 192753 |
| `MapOdom` | manager and relocalization: `TimesInOrder`, `OnlyMatchesHeld`, `NoRegression`, `TrackingIsFresh`, `PublisherNotStalled`; rings: `ImplementsFrameQueue`, `FramesGoOut` | 331548 |
| `SerialLink` | the ten parts of `MCNodes`, see below | 288392 |
| `Navigation` | the twelve parts of `MCNavigation`, see below | 340356 |
| `RmucTreeA_retreat_broken` | violation of `HealsBeforeAttack` with aborted goals | finding |
| `RmucTreeB_outpost`, `RmucTreeB_depleted`, `RmucTreeB_late` | violations of what the tree's comments promise | findings |
| `WaypointCsv` | violation of `CsvKeepsWaypoints` | finding |

`SerialLink` has the parts

| part | properties | instance |
|---|---|---|
| receive | `NoFrameDropped`, `ImplementsFrameStream` | every line of up to eight bytes over SOF, EOF and another, in reads of one to three |
| path | `StopIsFinal`, `QuietMeansStill` | four commands, two plans, recovery and AlignChassis; writes whole, cut or refused |
| scan | `FreeDirection` | every seven directions, free or not |
| goals | `ImplementsGoalService`, `ThreadBecomesFree`, `DisplaysAreTrue` | three goals to two places on two threads, each mode |
| editor | `ImplementsEditHistory`, `DisplaysAreTrue` | two waypoints, three versions |
| files | `FilesKeepCommands` | up to two waypoints with any texts of three characters |
| setup | `SamplesAsConfigured` | two lidars, two options with a bit and two without, two reports |
| frames | `FramesCarryEachPacketOnce` | three packets of two lidars at three times |
| merge | `MergeKeepsPoints` | scans at three bases with five sets of points |
| odometry | `SamplesIntegratedOnce` | five samples, three scans that may overlap |

and `Navigation` the parts

| part | properties | instance |
|---|---|---|
| map | `MapKeepsUp` | three grids kept, three scans of one or two groups, an empty and a prior map |
| chain, lazy | `SpeedIsTrue`, `ConverterFollows` | three stamps, one replay, queues of two; two listeners |
| voxels | `TerrainIsSound` (`KeepsRecentNear`) | a grid of eleven voxels a side, a drive that rolls it both ways and back, three scans at 1, 2 and 5, so that a mean of old and new stamps is old, or not |
| ground | `TerrainIsSound` (the rest) | seven by seven planar voxels with gaps, obstacles and rows of steps |
| costs | `CostmapShowsLayer` | a window of six cells on a robot that moves over eight half-cells, four clouds |
| attack | `AttackIsSound` | eight candidates, arcs of cost in both maps that wrap or not |
| pursuit | `PursuitIsSafe` | a U-turn that comes back beside itself, with a wall |
| bringup | `WiringIsComplete`, `StopsWithoutManager` | 156 combinations of entry and arguments, one crash |
| form, monitor | `MockIsTruthful` | values in and out of range, two rates; one output, four seconds |
| panel | `ClickRestoresAgreement` | three clicks, two distances, one other button, answers in any order |

### Bounds

The trees compare hp with 100, 120 and 350, ammo with 0, 20 and 100, `stage_remain_time` with
0 and 120 and `game_progress` with 4; `Reports` holds values on both sides of those thresholds that
the run's phase can meet, and any report may follow any other. Nothing else is unbounded: the
state of a tree is finite. `RmucTreeB_final` has no failures, because `PatrolsForever` needs
none; its other two properties are proved with aborted goals and missing transforms too. With a *refused* goal
`HoldsInPlace` fails: R3, let in by a stale `supply_loop_to_hg`, has changed the posture when its goal is
refused, and the fallback resumes B-3, whose hold timer never stopped. `MapOdom` uses times 0 (not started), 1 and 3 and stamps 0, 1, 2 and 4
with timeout and tolerance 1: for each of the four comparisons of `validStamp` there is a pair just
inside and one just outside, and 1 <- 3 and 0 <- 1 rewind the clock; the theorems cover all other values.

A frame has four bytes in `SerialLink`, so a read can end at every position of a frame, two
frames fit into eight bytes, and a false start can contain the beginning of a true one. The mock has two threads where
the code starts four, which makes them scarce for three goals. The rings have two slots and indices modulo four instead of 2^32: full,
empty and wrapped all happen within four frames; a slot count that divides the modulus is what the code needs too.
Each of the other bounds is named in its module's CONSTANTS and is the least at which the case its
property is about happens (a third grid evicted, a grid rolled and rolled back, an answer overtaken by two
clicks); every property has a mutant in `PROJECT.json` that TLC refutes within the same bounds.

### Fairness

`ReactiveTree`: weak fairness of the tick (the loop of `main` never stops, and every wait of
`Nav2Pose` ends); strong fairness of `GoalReached`, `Aligned` and `SleepExpired`: a goal, a turn or a
hold timer that the tree asks for again and again is at some time left alone long enough to end.
That is an assumption about the robot and the match, not about the code, and only the liveness
properties, whose premises hold the referee's state still, use it. `MapOdomTfManager`: a callback
that has begun ends (weak fairness of its continuations), and the wall timer keeps firing (strong
fairness of `Tick`, since other callbacks disable it for a moment at a time). `SerialLink`: the inner loop
goes on (weak fairness of `Scan`); nothing says that bytes arrive. `VelocityPath`: timers and deliveries of messages that
wait, and that not every write fails; nobody has to give a command. `MockGoalServer`: its threads run. `LivoxQueue`: its threads run; the SDK need
not deliver. `ScanChain`: the listener thread runs; nobody has to listen. `Bringup`: the launch service goes on with
what it has begun; nothing has to crash. Fairness conditions of a part that is not explored hold trivially, since its
actions are never enabled there.

## 5. Findings

Each is a run TLC finds violated; `PROJECT.json` quotes the lines.

1. Tree A: one aborted goal ends a retreat. The fallback goes on to the unguarded default branch,
   whose Script clears `at_supply`; a robot with 100 <= hp <= 350 drives back and attacks.
2. Tree B: `return_outpost_arrived` is never reset, so after a second early supply trip the robot
   holds in the attack posture at the supply point. The simulator's copy of the tree resets it.
3. Tree B: a robot depleted between B-2 and B-3 satisfies no guard and is never resupplied.
4. `Nav2Pose` does not withdraw a request that timed out; it may be served after the match has ended.
5. Waypoint editor: a CSV file whose waypoints have no command is read back as empty.

Met while modelling, and part of the models where they say so, without a run of their own:

- `SpinOrNot` remembers what *this node* sent last, so when another node has published the opposite value, a node
  that repeats its own stays silent and the topic keeps the other value (`spin_or_not.cpp:26`).
- B-R1 has no PostureChange, so the retreat happens in the attack posture of the hold it left, where the comment
  (B.xml:83) says the moving posture. `supply_loop_to_hg` stays set when R3 is preempted in its hold, and R3
  later takes over from a patrol leg that is holding its point, which B.xml:114 wants to rule out.
- While the clock is paused a pending pose of the manager is not retried (`map_odom_tf_manager.cpp:234`; the
  comment at :223 expects a retry).
- `Attack` shifts its sectors by half of one (`attack.cpp:194`), and takes the target for lost only
  when the tracker speaks, so a tracker that dies leaves it tracked.
- `terrainAnalysis.cpp` does not roll `updateNum` and `updateTime` with the voxels. `limitGroundLift` also pulls ground
  down to the minimum plus its limit (516-521), where `nav2_params.yaml:132` speaks of lift only.
- The filter of `terrainAnalysis.cpp:375-377` averages the time stamps of a leaf, so the decay test of line 389 may drop a place that the
  present scan sees when older sightings are averaged with it: with `decayTime` 0.5 and `voxelTimeUpdateThre` 1.0, sightings at 0.1, 0.2, 0.3
  and 1.0 give 0.4. The next sighting brings it back. `KeepsRecentNear` therefore promises a place only until its oldest stamp has decayed.
- `ivox3d.h:188` returns without clearing its result, so a point may keep the neighbours an earlier scan left in
  its place; `laserMapping.cpp:529` reads a prior map that may be null.
- With `con_frame` Point-LIO drops every 11th message, whatever `con_frame_num` (`li_initialization.cpp:58`); overlapping merged scans make the filter
  predict backwards in time; `meas.imu` and `flg_reset` are written and never reset.
- A lidar none of whose options leave a bit, or that refuses one, never gets to "sampling"; `xfer_format` 2 makes the poll thread
  spin without taking frames (`lddc.cpp:135`).
- The controller's PID integral is clamped after it is used and survives a new goal, its gains cannot be
  changed while running, and a first collision sample outside the costmap ends the check.
- With sixteen voxels of 0.05 m nothing above 0.8 m is marked, although `max_obstacle_height` is 2.0; the layer keeps the last
  cloud for ever when its source dies.
- The converter from scans to clouds sets `alive_` in its destructor (`laserscan_to_pointcloud_node.cpp:95`), so its join never
  returns; `ConverterFollows` is checked for the other one.
- Launches: lifecycle managers and the container are not respawned; a decision without navigation has no action
  server; the topics to be recorded are looked at after everything has started.
- The referee simulator's timer keeps its period until it is toggled; the form clamps configured values that are out of range.
- The panel's button comes up when its stop service is not available while the tool still captures; answers that
  cross may leave button and tool apart until the next undisturbed click.

## 6. Proofs

Eight modules hold the theorems. Constants are arbitrary everywhere, restricted by the named assumptions of
the modules that declare them (each is evaluated by TLC on the constants of a run) and by what a theorem
states in its ASSUME. Each section below names the inductive invariant, because finding it is most of the work:
hardly any property is inductive as a run states it.

### The executor with any tree

`ReactiveTreeProofs` proves, for **every** tree, every set of reports and every set of faults (one
exception below), from the assumptions `TreeAssumption` and `FaultsAssumption` alone:

- `TypeInvariance`: types;
- `GoalAlwaysTracked`: the server's goal is that of a leaf that waits, or a timed-out request's;
- `GoalNeverForgotten`: no leaf waits for a goal nobody works on;
- `OneOwner`: between ticks only the running branch owns the goal;
- `NoDriveOutsideMatch`: a tick outside the match leaves no goal, *provided requests never time out*
  (finding 4 shows the condition is needed).

None of these is inductive. The invariant (`IInv`, theorem `Invariance`) adds the shape of the two
slots `cur` and `run` at every program point (which may be empty, which has started, that they are
different branches), and the match between slots and server in both directions: a live Nav2Pose
leaf with an executing handle owns the goal, and an owned goal has such a leaf. The delicate step is
`NavAccepted`: it changes the owner while the old branch is still in `run`, and keeps the match only
because the preempted handle turns to "aborted" in the same step; `Halt` then cancels only what is its own.
The proof has a lemma per part of the invariant, and in it a step per action.

`Swept`, for the last theorem, says that the branch left RUNNING always lies ahead of the tick (`Ahead`), so that a
tick which selects nothing has halted it before it ends.

### The two trees

`RmucTreeProofs` first proves for every tree, without request timeouts, `ArrivalInvariance`: a branch past a
`Nav2Pose` leaf finds the robot where that leaf sent it. This needs more than the leaf's own success, because the robot is
shared: another branch may have been ticked, and have sent its goal, while this one was RUNNING. `ArrivalInv` says
which of the two slots may still rely on the place at each program point: the old branch until a new one is being settled
for, and the new one only from its first `Nav2Pose` on. `NothingLost` is what the absence of timeouts gives (no goal without
its leaf). With a timeout the invariant is false: the server may take up a request later and drive the robot away
under a branch that has arrived. `PostureInv` says the same of the posture topic; it also needs that no
goal is refused, because then a branch that changed the posture gives way to one that did so before.

From the two invariants and from how the branches are written (`TreeBWritten`, one step per branch of B.xml)

- `HoldsWherePromised`: `HoldsInPlace`, with aborted goals and missing transforms;
- `FlagsFollow`: `FlagsFollowRobot`, with every fault but timeouts; the root's Scripts only touch other flags (`RootFollows`).

`HealsFirst` proves `HealsBeforeAttack` of tree A, for every set of reports, without failures of goals. `RetreatInv` follows
the retreat through the tree: while it is open `at_supply` is set, hp has not exceeded 350, the posture is the moving one, only
S1 is ticked, and a fallback that is selecting has not passed S1 yet, wherever a report arrives. `StatusInv` says that no handle is ever "aborted" but that of
the branch being settled for; without it the fallback might have fallen through to the branch that clears `at_supply`, which is
what finding 1 does with an aborted goal. So the hypothesis on `Faults` is needed.

### map -> odom

`LocalizationProofs` proves type correctness, `SourceNeverAhead`, `PendingAlwaysNewer`, both together as
`TimesAlwaysInOrder`, `HeldValueNeverRegresses` and `TrackingAlwaysFresh` for every set of times and stamps,
every timeout and tolerance and all modes. The strengthening `SourceInv` says that only SLAM mode has a pending
pose and that a value whose source is known is that source's. One lemma (`ReadInWindow`) states what a read of
the clock leaves true; every callback begins with one. `HeldAlwaysMatched` is about the manager
together with the relocalization: its invariant `HeldInv` types the topic between them as poses of registrations.

### Serial line

`SerialLinkProofs` proves for every frame size of at least two, every alphabet and every set of reads that the
thread implements `FrameStream`'s safety half (`ImplementsSafety`), and `NoFrameDropped`. The invariant
says that the buffer is the end of the line (`BufferIsTail`), that no delivered frame reaches into it
(`FreeBehind`), and that no byte dropped in between can begin a frame, now or later (`NoFrameDropped`): without the last
part the frame the thread finds could not be shown to be the leftmost one. The rounds that erase bytes share
the lemma `EraseKeepsInvariant`; `DeliverStep` carries the refinement.

### Lidars and odometry

`SensingProofs`: `ConfiguredBeforeSampling` (`SamplesAsConfigured`). The invariant `NothingForgotten` says that every option of a
lidar that has been told anything is still to be sent, waits for its answer (its bit is set) or is accepted; the
step to "sampling" looks at the bits only, so this is what makes them mean something.
`RingsImplementFrameQueue`: the rings implement `FrameQueue`, for every size that divides the width of the indices. The
refinement mapping computes the queue from the indices modulo that width, so the proof begins with lemmas about
remainders (`NearRemaindersDiffer`). `RoomIsKept` says that a producer that has seen room still has it when it writes, and
`CopyIsOldest` that the slot under copy is not overwritten; `PushStep` and `PollStep` carry the refinement.

Of frames and clouds: `EachPacketOnce` (`FramesCarryEachPacketOnce`), however the stamps jump and the shared flag flips;
`MergeLosesNoPoint` (`MergeKeepsPoints`), for every pair of scans; `ReportedSpeedIsTrue` (`SpeedIsTrue`), whose invariant
`PreviousIsTrue` says that the remembered odometry, unless mispaired, is where the source was at the stamp it is divided by.

`EachSampleOnce` (`SamplesIntegratedOnce`, in `LocalizationProofs`), for every sequence of samples and scans, in order or not: the samples
that wait have consecutive numbers and times that do not fall (`SamplesWait`), and what was taken ends where they begin
(`LoopFollows`). The loops that skip, predict and integrate are one recursive function along the deque; its lemmas say
where it stops (`StopsAt`) and that it moves a prefix of the deque from one side to the other.

### The local map

`MapAlwaysKeepsUp` (`MapKeepsUp`, in `LocalizationProofs`) holds for every capacity of at least two, size of cells and grids, prior map and sequence
of scans. The property is about points (one is forgotten exactly when a stretch of the log without its grid used `Capacity - 1` others), the code
about a list of grids, and `InOrderOfUse` connects them: *after the last point of a grid came points of exactly the grids
before it in the list*. So the grids before a grid count the stretch in which it was not used, and the one that is
evicted is at the end of the longest. The operations keep it in two lemmas, a point whose grid returns to the front (`GridReturns`) and
one whose grid is new, with or without an eviction (`GridComes`). `ListsOfScans` says that lists of neighbours with
the present scan's number name points of the map: a stale list is told apart by its number, which the property needs because
`ivox3d.h:188` leaves it in place. The search returns points by their rank in distance; every rank is taken (`RanksExist`),
so what it returns are points of the map.

### Terrain

`TerrainSound` (`TerrainIsSound`) has an invariant for each of its parts. `VoxelInv`: a point lies at most one and a
half voxels from the middle of its cell, whichever way the grid rolled, which is why what is near the vehicle is in a cell that is viewed; and
a place that is due is held by points stamped since then (`Backed`), so that the mean of their stamps, which lies between the least of them and
the present (`MeanBetween`, along the recursive sum), is young enough not to be dropped.
`GroundInv`: after *m* sweeps the edge of a voxel is its distance to known ground, capped at *m + 1* (`IsLevel`, `Far`). The code
sweeps in place, so a voxel sees neighbours of this sweep and of the last one; the cap is what makes both give the same. `SearchInv`
is about the search for connected ground while its queue is not empty (`SearchOk`): every voxel connected or queued is a small step from
an earlier one, and a known one that is neither has been compared with all that are connected.

### What moves the robot, and what it attacks from

`MotionProofs`: `PathInvariance` is an invariant of the whole way of a velocity from recovery, leaf and
controller to the board. `StopStays` (`StopIsFinal`) follows from the part `StopIsHeld`: a stop empties the cache, so no plan
and no odometry can publish an older command. `QuietStaysStill` is the safety half of `QuietMeansStill`.
`BacksUpIntoFree` (`FreeDirection`) holds for every number of directions and whatever is free: `ScanKnows` says after each direction that the best
sector and the one begun are free and that, without a best sector, nothing free has ended yet; `ScanStepKnows` keeps it.
`AttacksSoundly` (`AttackIsSound`) holds for every number of candidates, because the sectors of both costmaps are shown to
be arcs of the ring (`LocalSectorIsArc`, `GlobalSectorIsArc`), the last one shared with the first.
`CostmapAlwaysShowsLayer` (`CostmapShowsLayer`) holds for every resolution, window, way of the robot and sequence of finite
clouds. The invariant adds `OriginsAgree`, that layer and costmap round alike (`MovedOriginCentres` bounds the rounding), and
`WithinBounds`, that every cell the layer holds has a point in the bounds it reported last: what disappears is then
written over (`BoundsAreWritten`), and so is what is new. Bounds are finite sets, whose least and greatest elements
(`FiniteHasMin`, `FiniteHasMax`) come from `LeastNatural`, an induction over explicit sets.
Of the path controller two parts of `PursuitIsSafe` are proved for every plan. `SlowsInEveryBend`: `BendLimited` says that in a
bend each period takes `Rate` off the highest speed until what the curvature allows is reached; `LongBend` periods are enough.
`StopsBeforeObstacles` assumes `CostmapReaches`: half the costmap is as long as the largest look ahead distance, one advance
and the robot's sway together (the node's default is 1 m on a costmap of 10 m; TLC evaluates the assumption on the
run's instance). `SampleInEveryRow` finds a sample in every row of `width` poses, `CentreNear` (from `StepsBetween`) keeps all
samples up to the carrot on the costmap, so the check is not ended early by one outside, and `AnswerIsSampled` says that no
command outlives the plan, place and costmap it was sampled on.

### Around the robot

`ToolsProofs`: `MockServesGoals`, that the mock implements the safety half of `GoalService`, with `MockInv` connecting each
thread's program point with its goal's status; `DisplayIsOfLatestGoal`, with `NumbersNameGoals`, which says that the last
sequence number is the latest goal's; `EditorKeepsHistory`, that the editor implements `EditHistory`; `RefereeIsTruthful`, where
`AgesAreBounded` says how long an output shown as live may have been silent; and `ClicksRestoreAgreement`, whose invariant
`PanelInv` says of every answer under way which click it belongs to and what the panel will look like after it.

### Lemmas about data

`DataLemmas` holds what several proofs need of numbers, sets and sequences. `Recursion` proves that a function
given by its value at 0 and a step exists on every interval, and so that a recursive definition of the models equals what it
says; `UpTo` is induction along an interval, on an explicit set of numbers. With the two, what the scan over directions, the walks
along deques and lists, and the sweeps over a raster compute is proved for inputs of every length, which otherwise needs a
theorem of the library with an operator for a parameter.

## 7. Only model-checked

- Liveness (`LastingStateDecides`, `PatrolsForever`, `PublisherNotStalled`, `FramesGoOut`, `QuietMeansStill`, `ThreadBecomesFree`,
  `ConverterFollows`, `StopsWithoutManager`) and the fairness halves of `ImplementsFrameStream` and `ImplementsGoalService`:
  TLAPS does not handle ENABLED.
- What the operators of the community modules for folding, filtering and sorting sequences compute: they are defined with operators for
  parameters, which the installed provers cannot instantiate. Recursive functions are not affected (`Recursion`, section 6). This leaves
  `FilesKeepCommands`, whose parsers fold over the characters of a line, and `DisplaysAreTrue`, whose length of the route is a fold;
  the half of it about states is `DisplayIsOfLatestGoal`.
- `PursuitIsSafe`: its part `PruningFollowsRobot` depends on the shape of the plan (a plan may come so close to itself that
  pruning jumps ahead), so no theorem over all plans states the whole; the run takes a U-turn that comes back beside itself.
  The other two parts are proved.
- `WiringIsComplete` is about finitely many arguments of four launch files, so a proof would add little to its run but the
  number of crashes.

## 8. Not modelled

- A dying action server: `onHalted` waits for the answer to its cancel request without a timeout
  (`nav2pose.cpp:149`), so the tick would never end. The server is assumed to answer.
- A serial port that is lost while open, and one that did not open, beyond that nothing is then sent
  (`serial_node.cpp:52` never tries again).
- Numbers: the filter of Point-LIO, the registration, rotations, the positions averaged within a leaf of a voxel filter, and how many points
  of one scan a leaf weighs with, the conversion between clouds and
  scans, the controller's angular speed, plotting. Real numbers that are compared became steps around the threshold.
- The merge of the local terrain map into the extended one by distance, and that one's copy of the rolling grid; in the
  controller, single poses of a plan whose transform fails are used as they are.
- Vendored numeric headers (`matplotlibcpp.h`, `hilbert.hpp`, the IKFoM toolkit) and the JSON parser and formats of messages of the
  lidar driver.
- Packets of a `data_type` that the driver does not know, which it drops (`pub_handler.cpp:361`).
- The IMU list of the driver, which has a lock; weakly ordered memory: the ring's indices are volatile, and the
  model reads and writes them in program order.
- The trees RMUL and rmuc2026_usual, which no configuration names, and B_demo, a shortened copy of B for demonstrations, as instances
  of `ReactiveTree`; the leaves `AntiAutoAim`, `Spin` and `SentryCmd`, which are in no tree.
- `AlignChassis` and the recovery behaviour publish no stop when the transform is missing; `QuietMeansStill` excepts exactly that
  (`lost`), because no document says otherwise.
- Markers of the editor are named by the waypoint's index, so feedback under way while waypoints are removed may reach another one.
- Interfaces of the ROS tools: parameters of the capture set by others than the panel, invalid topic names.
- Messages, robot descriptions, simulation assets and helper scripts: data.
