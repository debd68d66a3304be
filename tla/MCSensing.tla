-------------------------------- MODULE MCSensing --------------------------------
(***************************************************************************)
(* Instances for TLC of the two ends of the way from the lidars to the     *)
(* map -> odom transform, explored one at a time: part says which, and the *)
(* others stay as they begin.                                              *)
(*   "rings"         the driver's frames on their way to the poll thread   *)
(*   "manager"       the publisher of map -> odom, following SLAM, or fixed *)
(*   "localization"  the same with the relocalization it listens to        *)
(***************************************************************************)
EXTENDS Localization, LivoxQueue

\* With Timeout = FutureTol = 1: stamp 1 is fresh at time 1 and stale at 3; 2 is as far
\* ahead at time 1, and as old at 3, as is allowed; 4 is too far ahead at 1 and just
\* valid at 3.  The clock has not started at 0.
ClockTimes == {0, 1, 3}
\* The zero stamp is that of an unset header.
SourceStamps == {0, 1, 2, 4}
ScannedStamps == {1, 2}

VARIABLE part

\* The rings begin when the first lidar is sampling and the second has one answer left.
RingsInit ==
  /\ config = [l \in Lidars |-> {"type"}]
  /\ informing = 0 /\ todo = {} /\ infos = 0
  /\ setBits = [l \in Lidars |-> IF l = 1 THEN {} ELSE {"type"}]
  /\ asked = [l \in Lidars |-> [o \in Settings |-> IF o \in setBits[l] THEN 1 ELSE 0]]
  /\ accepted = [l \in Lidars |-> config[l] \ setBits[l]]
  /\ connected = [l \in Lidars |-> setBits[l] = {}]

DriverEnded == RingsEmpty /\ poll = "done" /\ exit = "set"

SensingInit ==
  /\ part \in {"rings", "manager", "localization"}
  /\ RingsInit /\ GicpInit /\ Init
  /\ IF part = "rings" THEN QueueInit ELSE DriverEnded
  /\ (mode = "gicp") = (part = "localization")
  /\ part = "rings" => mode = "static" /\ clock = 0

driverVars == <<setupVars, queueVars>>
Moving ==
  /\ part = "rings"
  /\ \/ (Pushing \/ Polling \/ Exiting) /\ UNCHANGED setupVars
     \/ \E l \in Lidars : Accepts(l, "type") /\ UNCHANGED queueVars
  /\ UNCHANGED <<vars, gicpVars, part>>
Managed == part = "manager" /\ Next /\ UNCHANGED <<gicpVars, driverVars, part>>
Locating == part = "localization" /\ LocalizationNext /\ UNCHANGED <<driverVars, part>>

\* What is fair of a part that is not explored is never enabled.
SensingSpec ==
  /\ SensingInit
  /\ [][Moving \/ Managed \/ Locating]_<<vars, gicpVars, driverVars, part>>
  /\ Fairness /\ QueueFairness
===============================================================================
