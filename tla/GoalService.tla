----------------------------- MODULE GoalService -----------------------------
(***************************************************************************)
(* What a navigate_to_pose server promises its clients: each goal ends     *)
(* once, a goal succeeds only if the robot has been at its place while the *)
(* goal was under way (unless the server only pretends to drive), and a    *)
(* goal that a later one has replaced, or that is cancelled, ends before   *)
(* long.                                                                   *)
(***************************************************************************)
CONSTANTS
  Goals,    \* goal handles
  Place     \* the place each asks for

VARIABLES
  pretends, \* does the server report success without driving
  status,   \* of each goal: "none", "executing", "canceling" or how it ended
  newest,   \* the goal begun last
  robot,    \* where the robot is
  visited   \* the goals whose place the robot has visited while they were under way

vars == <<pretends, status, newest, robot, visited>>

Ends == {"succeeded", "aborted", "canceled"}
Active == {g \in Goals : status[g] \in {"executing", "canceling"}}
AtPlace(pos) == {g \in Goals : Place[g] = pos}

Init ==
  /\ pretends \in BOOLEAN
  /\ status = [g \in Goals |-> "none"]
  /\ newest = "no goal"
  /\ robot \in {Place[g] : g \in Goals} \cup {"elsewhere"}
  /\ visited = {}

Begin(g) ==
  /\ status[g] = "none"
  /\ status' = [status EXCEPT ![g] = "executing"]
  /\ newest' = g
  /\ visited' = visited \cup ({g} \cap AtPlace(robot))
  /\ UNCHANGED <<pretends, robot>>

Cancel(g) ==
  /\ status[g] = "executing"
  /\ status' = [status EXCEPT ![g] = "canceling"]
  /\ UNCHANGED <<pretends, newest, robot, visited>>

Move ==
  /\ robot' # robot
  /\ visited' = visited \cup (Active \cap AtPlace(robot'))
  /\ UNCHANGED <<pretends, status, newest>>

End(g) ==
  /\ g \in Active
  /\ status' \in {[status EXCEPT ![g] = e] : e \in Ends}
  /\ status'[g] = "succeeded" => pretends \/ g \in visited
  /\ status'[g] = "canceled" => status[g] = "canceling"
  /\ UNCHANGED <<pretends, newest, robot, visited>>

Next == Move \/ \E g \in Goals : Begin(g) \/ Cancel(g) \/ End(g)

Overdue(g) == status[g] = "canceling" \/ g # newest

SafetySpec == Init /\ [][Next]_vars
Spec == SafetySpec /\ \A g \in Goals : WF_vars(Overdue(g) /\ End(g))
===============================================================================
