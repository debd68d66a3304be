---------------------------- MODULE WaypointEditor ----------------------------
(***************************************************************************)
(* The waypoint editor of RViz: WaypointSequence with its history, and the *)
(* tool that edits it from mouse poses, marker feedback, captured robot    *)
(* poses and the services behind the panel's buttons.  RViz runs all of    *)
(* them on one thread, and a modal dialog keeps the others waiting, so     *)
(* each handler is one action.  But a drag is many pose updates, and other *)
(* handlers run between them.                                              *)
(*                                                                         *)
(* Waypoints lie on a line, and a waypoint is [pos, cmd].                  *)
(***************************************************************************)
EXTENDS Integers, Sequences, SequencesExt

CONSTANTS
  Positions, Commands,  \* of waypoints: function_command is one of Commands
  Empty,                \* the empty command
  MinDist,              \* auto_min_distance_m_
  MaxLength, MaxEdits   \* bounds: waypoints, and versions in the history

ASSUME EditorAssumption == Positions \subseteq Int /\ Empty \in Commands /\ MinDist \in Nat

VARIABLES
  wps,       \* waypoints_
  total,     \* total_distance_
  history,   \* history_
  index,     \* history_index_, counted from 1
  dirty,     \* pose_dirty_
  markers,   \* what the interactive markers show
  metrics,   \* the distances last published: total_wp_dist, last_displayed_distance_
  auto,      \* auto_enabled_
  file       \* the waypoints that loading the file last saved gives

editorVars == <<wps, total, history, index, dirty, markers, metrics, auto, file>>

Abs(x) == IF x < 0 THEN -x ELSE x
\* computeSegment, and the sum of recalcDistances
Segment(s, i) == Abs(s[i + 1].pos - s[i].pos)
Length(s) == FoldLeftDomain(LAMBDA d, i : IF i = 1 THEN 0 ELSE d + Segment(s, i - 1), 0, s)

\* updateLastDistanceFromWaypoint(i): the segment that ends in the waypoint.
LastDistance(s, i) ==
  IF Len(s) < 2 THEN 0
  ELSE IF i <= 1 THEN Segment(s, 1)
  ELSE Segment(s, (IF i > Len(s) THEN Len(s) ELSE i) - 1)

\* updateLastDistanceFromWaypoint and publishRangeMetrics
Measure(i) == metrics' = [total |-> total', last |-> LastDistance(wps', i)]

\* Mutant of Snapshot: the undone versions stay.
SnapshotKeepsUndone == history' = Append(history, wps') /\ index' = Len(history')

\* snapshotHistory
Snapshot ==
  /\ Len(history) < MaxEdits
  /\ history' = Append(SubSeq(history, 1, index), wps')
  /\ index' = index + 1

\* commitWaypointChanges
Commit(i) == Snapshot /\ dirty' = FALSE /\ Measure(i)

Recalculated == total' = Length(wps')
\* What the sequence does to its waypoints: the total grows with one that is appended, and
\* is computed anew otherwise.
AppendTo(wp) ==
  /\ wps' = Append(wps, wp)
  /\ total' = IF Len(wps') >= 2 THEN total + Segment(wps', Len(wps)) ELSE 0
AssignAll(s) == wps' = s /\ Recalculated
EraseWaypoint(i) == wps' = RemoveAt(wps, i) /\ Recalculated
InsertWaypoint(s, j, wp) == wps' = InsertAt(s, j, wp) /\ Recalculated
UpdatePose(i, p) == wps' = [wps EXCEPT ![i].pos = p] /\ Recalculated

\* createWaypointMarker: the marker is named after the index and shows pose and command.
WaypointMarker(s, i) == [pos |-> s[i].pos, text |-> s[i].cmd]
\* updateWaypointMarker
MarkersOf(s) == [i \in DOMAIN s |-> WaypointMarker(s, i)]
Redrawn == markers' = MarkersOf(wps')

EditorInit ==
  /\ wps = <<>> /\ total = 0
  /\ history = <<<<>>>> /\ index = 1
  /\ dirty = FALSE /\ markers = <<>>
  /\ metrics = [total |-> 0, last |-> 0]
  /\ auto = FALSE
  /\ file = <<>>

-------------------------------------------------------------------------------
\* appendWaypointAndRefresh: one more marker, and the total grows by the last segment.
AppendWaypoint(p) ==
  /\ Len(wps) < MaxLength
  /\ AppendTo([pos |-> p, cmd |-> Empty])
  /\ markers' = Append(markers, WaypointMarker(wps', Len(wps')))
  /\ Commit(Len(wps'))

\* onPoseSet
PoseSet(p) == AppendWaypoint(p) /\ UNCHANGED <<auto, file>>

\* handleAutoPose
AutoPose(p) ==
  /\ auto
  /\ wps # <<>> => Abs(p - Last(wps).pos) >= MinDist
  /\ AppendWaypoint(p)
  /\ UNCHANGED <<auto, file>>

AutoCapture(on) ==
  /\ auto' = on
  /\ UNCHANGED <<wps, total, history, index, dirty, markers, metrics, file>>

\* processFeedback, POSE_UPDATE: a marker is being dragged.
PoseUpdate(i, p) ==
  /\ UpdatePose(i, p)
  /\ dirty' = TRUE
  /\ markers' = [markers EXCEPT ![i].pos = p]
  /\ Measure(i)
  /\ UNCHANGED <<history, index, auto, file>>

\* MOUSE_UP
MouseUp(i) ==
  /\ dirty
  /\ UNCHANGED <<wps, total, markers, auto, file>>
  /\ Commit(i)

\* MENU_SELECT: Delete Waypoint, Change Waypoint ID, Edit Function Command
Delete(i) ==
  /\ EraseWaypoint(i) /\ Redrawn /\ Commit(i)
  /\ UNCHANGED <<auto, file>>

ChangeId(i, j) ==
  /\ InsertWaypoint(RemoveAt(wps, i), j, wps[i]) /\ Redrawn /\ Commit(j)
  /\ UNCHANGED <<auto, file>>

EditCommand(i, c) ==
  /\ wps' = [wps EXCEPT ![i].cmd = c]
  /\ UNCHANGED <<total, auto, file>>
  /\ Redrawn /\ Commit(i)

\* handleUndoWaypoints, handleRedoWaypoints
Step(to) ==
  /\ to \in DOMAIN history
  /\ index' = to /\ AssignAll(history[to]) /\ Redrawn /\ Measure(Len(wps'))
  /\ dirty' = FALSE
  /\ UNCHANGED <<history, auto, file>>
UndoWaypoints == Step(index - 1)
RedoWaypoints == Step(index + 1)

\* handleClearWaypoints
ClearWaypoints ==
  /\ wps' = <<>> /\ total' = 0 /\ history' = <<<<>>>> /\ index' = 1
  /\ Redrawn /\ Measure(0) /\ dirty' = FALSE
  /\ UNCHANGED <<auto, file>>

\* WaypointCsv: rows of waypoints none of which has a command are not read back.
ThroughCsv(s) == IF \A i \in DOMAIN s : s[i].cmd = Empty THEN <<>> ELSE s

\* handleSaveWaypoints, as YAML or CSV; one that is cancelled, or fails, saves nothing.
SaveWaypoints ==
  /\ file' \in {wps, ThroughCsv(wps)}
  /\ UNCHANGED <<wps, total, history, index, dirty, markers, metrics, auto>>

\* Mutant of LoadWaypoints: the markers are those of the old waypoints.
LoadUndrawn ==
  /\ AssignAll(file) /\ Commit(Len(wps'))
  /\ UNCHANGED <<markers, auto, file>>

\* handleLoadWaypoints; one that is cancelled, or fails, changes nothing.
LoadWaypoints ==
  /\ AssignAll(file) /\ Redrawn /\ Commit(Len(wps'))
  /\ UNCHANGED <<auto, file>>

Feedback ==
  \E i \in DOMAIN wps :
    \/ \E p \in Positions : PoseUpdate(i, p)
    \/ MouseUp(i) \/ Delete(i)
    \/ \E j \in DOMAIN wps : ChangeId(i, j)
    \/ \E c \in Commands : EditCommand(i, c)
Services ==
  UndoWaypoints \/ RedoWaypoints \/ ClearWaypoints \/ SaveWaypoints \/ LoadWaypoints
  \/ \E on \in BOOLEAN : AutoCapture(on)

EditorNext == Feedback \/ Services \/ \E p \in Positions : PoseSet(p) \/ AutoPose(p)
EditorSpec == EditorInit /\ [][EditorNext]_editorVars

-------------------------------------------------------------------------------
\* "step backward or forward through waypoint edits": the committed waypoints behave
\* like a document with linear undo, whatever drags and captures come between.
Document == INSTANCE EditHistory WITH
  past    <- SubSeq(history, 1, index - 1),
  present <- history[index],
  future  <- SubSeq(history, index + 1, Len(history))
ImplementsEditHistory == Document!Spec

\* What the user sees is what Save would write: the markers and both distances are those
\* of the waypoints, and the waypoints are the current version unless a drag is going on.
ViewIsCurrent ==
  /\ markers = MarkersOf(wps)
  /\ metrics.total = Length(wps)
  /\ \E i \in 0..Len(wps) : metrics.last = LastDistance(wps, i)
  /\ ~dirty => wps = history[index]
===============================================================================
