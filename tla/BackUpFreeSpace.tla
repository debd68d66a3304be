---------------------------- MODULE BackUpFreeSpace ----------------------------
(***************************************************************************)
(* The recovery behaviour BackUpFreeSpace of spr_nav2_plugins, run by the  *)
(* behaviour server: onRun picks a direction on the costmap of that moment *)
(* and onCycleUpdate drives there until a distance or a time is reached.   *)
(* Directions are the steps of the scan, numbered 1..Angles from -pi.      *)
(***************************************************************************)
EXTENDS Naturals, Sequences

CONSTANTS
  Angles,   \* number of directions the scan tries
  Ahead,    \* the one of angle 0
  MaxCmds   \* bound: commands sent on cmd_vel_nav2_result

ASSUME ScanAssumption == Angles \in Nat \ {0} /\ Ahead \in 1..Angles

VARIABLES
  st,     \* "idle" or "running"
  safe,   \* which directions findBestDirection found free
  dir,    \* twice the direction it chose: the sum of a sector's bounds
  cmds,   \* topic cmd_vel_nav2_result: commands not yet received
  said    \* the last command published there

buVars == <<st, safe, dir, cmds, said>>

-------------------------------------------------------------------------------
(* findBestDirection: the sector of free directions with the widest span.  *)

\* first_safe_angle, last_unsafe_angle (0: the -1.0f that stands for unset), and the
\* bounds of the best sector so far, both 0.0f at first.
Scan0 == [first |-> 0, last |-> 0, from |-> Ahead, to |-> Ahead]

\* Mutant of ScanStep: the start of a recorded sector is kept.
ScanStepKeepsFirst(s, a) ==
  LET first == IF safe'[a] /\ s.first = 0 THEN a ELSE s.first
      last == IF ~safe'[a] /\ first # 0 /\ s.last = 0 THEN a ELSE s.last
  IN IF first # 0 /\ last # 0 /\ last - first > s.to - s.from
     THEN [first |-> first, last |-> 0, from |-> first, to |-> last]
     ELSE [s EXCEPT !.first = first, !.last = last]

\* One direction of the scan.
ScanStep(s, a) ==
  LET first == IF safe'[a] /\ s.first = 0 THEN a ELSE s.first
      last == IF ~safe'[a] /\ first # 0 /\ s.last = 0 THEN a ELSE s.last
  IN IF first # 0 /\ last # 0 /\ last - first > s.to - s.from
     THEN [first |-> 0, last |-> 0, from |-> first, to |-> last]
     ELSE [s EXCEPT !.first = first, !.last = last]

FindBestDirection ==
  LET scan[a \in 0..Angles] == IF a = 0 THEN Scan0 ELSE ScanStep(scan[a - 1], a)
  IN scan[Angles].from + scan[Angles].to

-------------------------------------------------------------------------------
BUInit == st = "idle" /\ safe = [a \in 1..Angles |-> TRUE] /\ dir = 2 * Ahead

\* A twist on cmd_vel_nav2_result: stopRobot's is zero.
Publish(zero) ==
  /\ said' = [n |-> said.n + 1, zero |-> zero]
  /\ cmds' = Append(cmds, said')
  /\ said.n < IF zero THEN MaxCmds ELSE MaxCmds - 2

\* onRun: the costmap service and the robot pose are available.
Run ==
  /\ st = "idle"
  /\ safe' \in [1..Angles -> BOOLEAN]
  /\ dir' = FindBestDirection
  /\ st' = "running"
  /\ UNCHANGED <<cmds, said>>

\* onCycleUpdate: nothing has ended the motion.
Drive == st = "running" /\ Publish(FALSE) /\ UNCHANGED <<st, safe, dir>>

\* Time is up, the distance is covered, or isCollisionFree says no: stopRobot.  The
\* server does the same when the goal is cancelled.
StopRobot ==
  /\ st = "running"
  /\ Publish(TRUE)
  /\ st' = "idle"
  /\ UNCHANGED <<safe, dir>>

\* The robot pose is not available: the behaviour fails without stopRobot.
PoseLost == st = "running" /\ st' = "idle" /\ UNCHANGED <<safe, dir, cmds, said>>

-------------------------------------------------------------------------------
\* The robot backs up into a free direction whenever the scan meets an obstacle after
\* a free direction.  (If none is free, or the only free sector reaches +pi, the scan
\* answers 0: straight ahead.)
FreeDirection ==
  st = "running" /\ (\E a, b \in 1..Angles : a < b /\ safe[a] /\ ~safe[b])
    => safe[dir \div 2]
===============================================================================
