--------------------------- MODULE GicpRelocalization ---------------------------
(***************************************************************************)
(* small_gicp_relocalization.cpp, as the bringup starts it: it registers   *)
(* the scans gathered since its last attempt against the prior map and     *)
(* hands each success, and only these, to the manager of map -> odom.      *)
(*                                                                         *)
(* A pose is named after what it came from: the stamp of the newest scan   *)
(* registered, or the operator, or the configuration.                      *)
(***************************************************************************)
EXTENDS Integers, Sequences

CONSTANTS
  Scanned,      \* the stamps of registered_scan
  MaxResults    \* bound: results under way to the manager

ASSUME ScannedAssumption == Scanned \subseteq Int /\ MaxResults \in Nat

Configured == 0   \* init_pose
Operator == -1    \* a pose from initialpose

VARIABLES
  targetTree, \* the map has been prepared: target_tree_ is set
  lastScan,   \* last_scan_time_, 0 before the first scan
  gathered,   \* accumulated_cloud_ is not empty
  estimate,   \* result_t_ = previous_result_t_
  results,    \* localization/gicp_transform
  matched     \* history: the stamps at which a registration has been accepted

gicpVars == <<targetTree, lastScan, gathered, estimate, results, matched>>

GicpInit ==
  /\ targetTree = FALSE /\ lastScan = 0 /\ gathered = FALSE
  /\ estimate = Configured /\ results = <<>> /\ matched = {}

\* initializeTarget, until the transform of the robot is known and the map is dense
\* enough; then performRegistration finds no points yet.
InitializeTarget ==
  /\ ~targetTree
  /\ targetTree' = TRUE
  /\ UNCHANGED <<lastScan, gathered, estimate, results, matched>>

\* registeredPcdCallback; a scan may hold no finite point.
RegisteredPcd(stamp) ==
  /\ targetTree
  /\ lastScan' = stamp
  /\ gathered' \in {gathered, TRUE}
  /\ UNCHANGED <<targetTree, estimate, results, matched>>

\* performRegistration.
Accepted ==
  /\ targetTree /\ gathered /\ Len(results) < MaxResults
  /\ gathered' = FALSE
  /\ estimate' = lastScan
  /\ matched' = matched \cup {lastScan}
  /\ results' = Append(results, [stamp |-> lastScan, pose |-> estimate'])
  /\ UNCHANGED <<targetTree, lastScan>>

\* Mutant of Rejected: the pose held is sent as a heartbeat.
RejectedWithHeartbeat ==
  /\ targetTree /\ gathered /\ Len(results) < MaxResults
  /\ gathered' = FALSE
  /\ results' = Append(results, [stamp |-> lastScan, pose |-> estimate])
  /\ UNCHANGED <<targetTree, lastScan, estimate, matched>>

\* Too sparse, not converged or too few inliers: the scans are given up, and nothing is
\* published.
Rejected ==
  /\ targetTree /\ gathered
  /\ gathered' = FALSE
  /\ UNCHANGED <<targetTree, lastScan, estimate, results, matched>>

\* initialPoseCallback: the guess of the next attempt, once the frame of the scans is
\* known and its transform is found.
InitialPose2d ==
  /\ lastScan # 0
  /\ estimate' = Operator
  /\ UNCHANGED <<targetTree, lastScan, gathered, results, matched>>

GicpNext ==
  \/ InitializeTarget \/ Accepted \/ Rejected \/ InitialPose2d
  \/ \E stamp \in Scanned : RegisteredPcd(stamp)
===============================================================================
