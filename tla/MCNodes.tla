-------------------------------- MODULE MCNodes --------------------------------
(***************************************************************************)
(* Instances for TLC of the nodes around the decision trees, explored one  *)
(* at a time: part says which, and the others stay as they begin.          *)
(*   "receive"  the receive thread of the serial node                      *)
(*   "path"     the way of a velocity command to the board                 *)
(*   "scan"     the recovery behaviour's choice of a direction             *)
(*   "goals"    the server that stands in for navigation                   *)
(*   "editor"   the waypoint editor                                        *)
(*   "files"    its file formats                                           *)
(*   "setup"    the lidar driver configuring the lidars                    *)
(*   "frames"   the lidar driver gathering packets into frames             *)
(*   "merge"    the merge of the two lidars' scans                         *)
(*   "odometry" the order in which Point-LIO feeds its filter              *)
(***************************************************************************)
EXTENDS SerialLink, VelocityPath, MockGoalServer, WaypointEditor, WaypointFile,
        LivoxSetup, LidarFrames, MergeScans, PointLio

CONSTANT MaxChunk

ShortChunks == BoundedSeq(Byte, MaxChunk) \ {<<>>}
\* Two goals for one place, and another between them.
PlaceOf == [g \in Goals |-> IF g = "g2" THEN "b" ELSE "a"]
Offsets == {{}, {0}, {0, 2}, {0, 5}, {2, 5}}
\* Every second point is copied.  Of the first scan no point is left; the others leave
\* {0, 2} and {2, 4}, of points that are refused, out of range or where nothing is.
Point(off, line, inRange, place) ==
  [off |-> off, line |-> line, inRange |-> inRange, place |-> place]
Overlapping ==
  {<<Point(0, TRUE, TRUE, 1), Point(1, TRUE, TRUE, 1), Point(2, FALSE, TRUE, 2)>>,
   <<Point(9, TRUE, TRUE, 1), Point(9, TRUE, TRUE, 1), Point(0, TRUE, TRUE, 2),
     Point(9, TRUE, TRUE, 1), Point(9, FALSE, TRUE, 3), Point(2, TRUE, TRUE, 3),
     Point(9, TRUE, TRUE, 1), Point(9, TRUE, TRUE, 0)>>,
   <<Point(9, TRUE, TRUE, 1), Point(9, TRUE, TRUE, 1), Point(9, TRUE, FALSE, 2),
     Point(9, TRUE, TRUE, 1), Point(2, TRUE, TRUE, 1), Point(9, TRUE, TRUE, 2),
     Point(4, TRUE, TRUE, 2)>>}
ShortTexts == BoundedSeq({Letter, Comma, Blank, Quote}, 3)

VARIABLE part

NodesInit ==
  /\ part \in {"receive", "path", "scan", "goals", "editor", "files",
              "setup", "frames", "merge", "odometry"}
  /\ Init /\ BUInit /\ FVInit /\ SSInit /\ MockInit /\ EditorInit
  /\ cmds = <<>> /\ said = NoCommand /\ sent = vel
  /\ turning = FALSE /\ lost = FALSE
  /\ IF part = "files" THEN FileInit ELSE doc = <<>>
  /\ SetupInit /\ FramesInit /\ MergeInit /\ LioInit
  /\ part # "setup" => config = [l \in Lidars |-> {}]
  /\ part # "path" => ~fd
  /\ part # "goals" => mode = "hold"

sensing == <<setupVars, frameVars, merged, lioVars>>
tools == <<mockVars, editorVars, doc, sensing, part>>
Receiving == part = "receive" /\ Next /\ UNCHANGED <<pathVars, tools>>
\* Where the robot backs up to is the matter of "scan", for directions enough to make two
\* sectors, one of them touching +pi.
Moving == part = "path" /\ UNCHANGED <<vars, safe, tools>> /\ PathNext
Scanning ==
  part = "scan" /\ (Run \/ PoseLost) /\ UNCHANGED <<vars, fvVars, sendVars, ownVars, tools>>
nodes == <<vars, pathVars, doc, part>>
Serving == part = "goals" /\ MockNext /\ UNCHANGED <<nodes, sensing, editorVars>>
Editing == part = "editor" /\ EditorNext /\ UNCHANGED <<nodes, sensing, mockVars>>
Saving == part = "files" /\ Again /\ UNCHANGED <<vars, pathVars, mockVars, editorVars, sensing, part>>

rest == <<nodes, mockVars, editorVars>>
Configuring ==
  part = "setup" /\ SetupNext /\ UNCHANGED <<rest, frameVars, merged, lioVars>>
Gathering ==
  part = "frames" /\ FramesNext /\ UNCHANGED <<rest, setupVars, merged, lioVars>>
Merging ==
  part = "merge" /\ MergeNext /\ UNCHANGED <<rest, setupVars, frameVars, lioVars>>
Integrating ==
  part = "odometry" /\ LioNext /\ UNCHANGED <<rest, setupVars, frameVars, merged>>
nodeVars == <<vars, pathVars, tools>>

\* The bounds of these parts end them.
AtBound == part \in {"setup", "merge", "odometry"} /\ UNCHANGED nodeVars

\* What is fair of a node that is not explored is never enabled.
NodesSpec ==
  /\ NodesInit
  /\ [][\/ Receiving \/ Moving \/ Scanning \/ Serving \/ Editing \/ Saving
        \/ Configuring \/ Gathering \/ Merging \/ Integrating \/ AtBound]_nodeVars
  /\ WF_vars(Scan) /\ PathFairness /\ MockFairness

\* What the user reads is what there is: the mock's display is about the goal it works
\* for, the editor's markers and distances are those of the waypoints it would save.
DisplaysAreTrue == StateIsOfLatest /\ ViewIsCurrent
===============================================================================
