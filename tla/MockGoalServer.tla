---------------------------- MODULE MockGoalServer ----------------------------
(***************************************************************************)
(* decision_result_mock.py: the server that stands in for navigation when  *)
(* the decision trees are tried alone.  Every accepted goal runs           *)
(* _execute_callback on a thread of the executor, ten times a second,      *)
(* until it ends; a sequence number tells it whether it is still the       *)
(* latest.  Each action is what happens between two points at which the    *)
(* threads can be switched with an effect: the sections under _lock, the   *)
(* calls on the goal handle, and the sleep.                                *)
(***************************************************************************)
EXTENDS Naturals, FiniteSets

CONSTANTS
  Goals, Place,   \* the goals clients may send, and the place of each
  Modes,          \* result_mode: "manual_pose", "hold", "succeed" or "abort"
  Threads         \* num_threads of the executor

NoGoal == "no goal"
ASSUME MockAssumption == /\ NoGoal \notin Goals
                         /\ Threads \in Nat /\ Threads >= 2
                         /\ Modes \subseteq {"manual_pose", "hold", "succeed", "abort"}

VARIABLES
  mode,       \* _mode
  status,     \* of the goal handles
  at,         \* where the thread of each goal is: "none" before and "done" after
  seq,        \* sequence, 0 before _set_goal
  sequence,   \* _latest_sequence, and _sequence: the same number
  latest,     \* _latest_goal
  seen,       \* goal: the copy of _latest_goal that a thread works on
  robot,      \* _robot_pose
  nav,        \* _nav_state, and the sequence of the goal that wrote it
  visited     \* history: goals whose place the robot was at while they ran

mockVars == <<mode, status, at, seq, sequence, latest, seen, robot, nav, visited>>
goalVars == <<mode, status, robot, visited>>

Ended(g) == status[g] \in {"succeeded", "aborted", "canceled"}
Busy == {g \in Goals : at[g] \notin {"none", "done"}}
AtPlace(pos) == {g \in Goals : Place[g] = pos}

MockInit ==
  /\ mode \in Modes
  /\ status = [g \in Goals |-> "none"] /\ at = [g \in Goals |-> "none"]
  /\ seq = [g \in Goals |-> 0] /\ sequence = 0
  /\ latest = NoGoal /\ seen = [g \in Goals |-> NoGoal]
  /\ robot = "elsewhere" /\ visited = {}
  /\ nav = [of |-> 0, text |-> "idle"]

Goto(g, l) == at' = [at EXCEPT ![g] = l]

-------------------------------------------------------------------------------
\* _goal_callback accepts everything; a free thread takes the goal up: _set_goal.
SetGoal(g) ==
  /\ at[g] = "none" /\ Cardinality(Busy) < Threads
  /\ status' = [status EXCEPT ![g] = "executing"]
  /\ sequence' = sequence + 1
  /\ seq' = [seq EXCEPT ![g] = sequence']
  /\ latest' = g
  /\ nav' = [of |-> sequence', text |-> IF mode = "manual_pose" THEN "waits for the pose"
                                        ELSE IF mode = "hold" THEN "holds" ELSE "waits"]
  /\ visited' = visited \cup ({g} \cap AtPlace(robot))
  /\ Goto(g, "top")
  /\ UNCHANGED <<mode, seen, robot>>

\* is_cancel_requested
Canceled(g) ==
  /\ at[g] = "top" /\ status[g] = "canceling"
  /\ status' = [status EXCEPT ![g] = "canceled"]
  /\ Goto(g, "report")
  /\ UNCHANGED <<mode, seq, sequence, latest, seen, robot, nav, visited>>

\* Mutant of CheckLatest: the goal is read without looking at the sequence.
CheckNothing(g) ==
  /\ at[g] = "top" /\ status[g] # "canceling"
  /\ seen' = [seen EXCEPT ![g] = latest]
  /\ Goto(g, "decide")
  /\ UNCHANGED <<seq, sequence, latest, nav, goalVars>>

\* Under _lock: is this still the latest goal?  A copy of it is taken.
CheckLatest(g) ==
  /\ at[g] = "top" /\ status[g] # "canceling"
  /\ seen' = [seen EXCEPT ![g] = latest]
  /\ Goto(g, IF seq[g] = sequence THEN "decide" ELSE "superseded")
  /\ UNCHANGED <<seq, sequence, latest, nav, goalVars>>

Superseded(g) ==
  /\ at[g] = "superseded"
  /\ status' = [status EXCEPT ![g] = "aborted"]
  /\ Goto(g, "done")
  /\ UNCHANGED <<mode, seq, sequence, latest, seen, robot, nav, visited>>

\* _manual_goal_reached, or the delay is over.
Decide(g) ==
  /\ at[g] = "decide"
  /\ \/ mode = "manual_pose" /\ robot = Place[seen[g]] /\ Goto(g, "succeed")
     \/ mode = "manual_pose" /\ robot # Place[seen[g]] /\ Goto(g, "top")
     \/ mode = "hold" /\ Goto(g, "top")
     \/ mode = "succeed" /\ Goto(g, "succeed")
     \/ mode = "abort" /\ Goto(g, "abort")
     \/ mode \in {"succeed", "abort"} /\ Goto(g, "top")
  /\ seen' = [seen EXCEPT ![g] = NoGoal]
  /\ UNCHANGED <<seq, sequence, latest, nav, goalVars>>

\* succeed() and abort() also end a goal whose cancellation was accepted meanwhile.
Finish(g) ==
  /\ at[g] \in {"succeed", "abort"}
  /\ status' = [status EXCEPT ![g] = IF at[g] = "succeed" THEN "succeeded" ELSE "aborted"]
  /\ Goto(g, "report")
  /\ UNCHANGED <<mode, seq, sequence, latest, seen, robot, nav, visited>>

Report(g) ==
  /\ at[g] = "report"
  /\ nav' = IF seq[g] = sequence THEN [of |-> seq[g], text |-> status[g]] ELSE nav
  /\ Goto(g, "done")
  /\ UNCHANGED <<seq, sequence, latest, seen, goalVars>>

\* _cancel_callback accepts every request, on a thread of the same executor.
CancelGoal(g) ==
  /\ status[g] = "executing" /\ Cardinality(Busy) < Threads
  /\ status' = [status EXCEPT ![g] = "canceling"]
  /\ UNCHANGED <<mode, at, seq, sequence, latest, seen, robot, nav, visited>>

\* _initial_pose_callback: somebody puts the robot elsewhere.
InitialPose(pos) ==
  /\ pos # robot /\ Cardinality(Busy) < Threads
  /\ robot' = pos
  /\ visited' = visited \cup ((Busy \ {g \in Goals : Ended(g)}) \cap AtPlace(pos))
  /\ UNCHANGED <<mode, status, at, seq, sequence, latest, seen, nav>>

Execute(g) ==
  Canceled(g) \/ CheckLatest(g) \/ Superseded(g) \/ Decide(g) \/ Finish(g) \/ Report(g)
Poses == {Place[g] : g \in Goals}

MockNext ==
  \/ \E g \in Goals : SetGoal(g) \/ Execute(g) \/ CancelGoal(g)
  \/ \E pos \in Poses : InitialPose(pos)

\* The threads of the executor go on.  Nobody has to send, cancel or move.
MockFairness == \A g \in Goals : WF_mockVars(Execute(g))
MockSafety == MockInit /\ [][MockNext]_mockVars
MockSpec == MockSafety /\ MockFairness

-------------------------------------------------------------------------------
\* Whatever its threads do, the mock is a goal service.
Service == INSTANCE GoalService WITH
  pretends <- mode = "succeed", newest <- latest,
  status <- status, robot <- robot, visited <- visited
ImplementsGoalService == Service!Spec

\* What the display says is about the latest goal, and its end once it has reported.
StateIsOfLatest ==
  /\ nav.of = sequence
  /\ latest # NoGoal /\ at[latest] = "done" => nav.text = status[latest]

\* However many goals are sent and held, a thread becomes free again: the server never
\* stops taking goals, requests to cancel and poses.
ThreadBecomesFree == []<>(Cardinality(Busy) < Threads)
===============================================================================
