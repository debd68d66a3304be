------------------------------ MODULE AttackPose ------------------------------
(***************************************************************************)
(* The branch of the trees RMUL and rmuc2026_usual that attacks a tracked  *)
(* enemy: what Topics2Blackboard makes of the tracker's messages, and the  *)
(* pose the leaf Attack chooses around the target.                         *)
(*                                                                         *)
(* A sighting of the target is named by the time it was made.  Directions  *)
(* around the target are counted in quarters of the angle between two      *)
(* candidate poses, from the direction of the vehicle on: candidate i lies *)
(* at 4 * i.  Costmaps are given by their cells in the ring of the attack. *)
(***************************************************************************)
EXTENDS Integers, FiniteSetsExt

CONSTANTS Candidates,       \* pose_candidate_num
          MinObs,           \* min_obs_num_
          OccThreshold,     \* occ_threshold_
          TrackingTimeout,  \* tracking_timeout_s_
          StartTime,        \* the clock when the node starts
          LastTime,         \* bound: the clock stops here
          LocalMaps, GlobalMaps  \* sets of sets of cells [dir, cost]

ASSUME AttackAssumption ==
  /\ Candidates \in Nat \ {0} /\ MinObs \in Nat /\ OccThreshold \in Nat \ {0}
  /\ StartTime \in Nat /\ TrackingTimeout \in Nat /\ StartTime > TrackingTimeout
  /\ LastTime \in Nat
  /\ \A m \in LocalMaps \cup GlobalMaps : \A c \in m : c.dir \in 0 .. 4 * Candidates - 1

VARIABLES now, tracking, targetPosition,  \* the blackboard's entries
          seen,        \* has a target message arrived: target_
          targetPose,  \* target_pose_: the last sighting transformed
          lastTracking,
          heard,       \* when the last target message arrived (only observed)
          localMap, globalMap,  \* the costmaps, as they lie around the target
          attackPose   \* the leaf's output

attackVars ==
  <<now, tracking, targetPosition, seen, targetPose, lastTracking, heard, localMap, globalMap,
    attackPose>>

NoSighting == 0
Unset == -2  \* nothing on the blackboard yet
Stay == -1   \* the pose of the robot itself
NoMap == [arrived |-> FALSE, cells |-> {}]

AttackInit ==
  /\ now = StartTime /\ tracking = FALSE /\ targetPosition = NoSighting
  /\ seen = FALSE /\ targetPose = NoSighting /\ lastTracking = 0 /\ heard = 0
  /\ localMap = NoMap /\ globalMap = NoMap /\ attackPose = Unset

\* Mutant of TargetTracked: the time is kept although there is no transform.
TargetTrackedAnyway ==
  /\ seen' = TRUE /\ heard' = now /\ lastTracking' = now
  /\ \/ tracking' = TRUE /\ targetPose' = now /\ targetPosition' = now
     \/ tracking' = FALSE /\ UNCHANGED <<targetPose, targetPosition>>
  /\ UNCHANGED <<now, localMap, globalMap, attackPose>>

TargetTracked ==
  /\ seen' = TRUE /\ heard' = now
  /\ \/ /\ tracking' = TRUE
        /\ targetPose' = now /\ targetPosition' = now /\ lastTracking' = now
     \/ /\ tracking' = FALSE  \* no transform from the target's frame
        /\ UNCHANGED <<targetPose, targetPosition, lastTracking>>
  /\ UNCHANGED <<now, localMap, globalMap, attackPose>>

TargetLost ==
  /\ seen' = TRUE /\ heard' = now
  /\ tracking' = (now - lastTracking <= TrackingTimeout)
  /\ targetPosition' = IF tracking' THEN targetPose ELSE targetPosition
  /\ UNCHANGED <<now, targetPose, lastTracking, localMap, globalMap, attackPose>>

\* Bound: the cells around the target do not change once they are known.
LocalCostmap ==
  /\ ~localMap.arrived /\ \E m \in LocalMaps : localMap' = [arrived |-> TRUE, cells |-> m]
  /\ UNCHANGED <<now, tracking, targetPosition, seen, targetPose, lastTracking, heard, globalMap,
                 attackPose>>

GlobalCostmap ==
  /\ ~globalMap.arrived /\ \E m \in GlobalMaps : globalMap' = [arrived |-> TRUE, cells |-> m]
  /\ UNCHANGED <<now, tracking, targetPosition, seen, targetPose, lastTracking, heard, localMap,
                 attackPose>>

----------------------------------------------------------------------------
(* The leaf Attack. *)

\* Mutant of LocalSector: the last half sector is not taken round to the first.
LocalSectorNoWrap(d) == (d + 2) \div 4

\* The candidate a cell of the local costmap counts against: the nearest one.
LocalSector(d) == LET i == (d + 2) \div 4 IN IF i = Candidates THEN 0 ELSE i

\* For the global costmap half a step is added before the angle is rounded.
GlobalSector(d) == LET i == (d + 4) \div 4 IN IF i >= Candidates THEN 0 ELSE i

\* data / occ_threshold_ in integers: -1 is unknown, 100 may count twice.
Weight(c) == IF c.cost < 0 THEN 0 ELSE c.cost \div OccThreshold

Counted(cells) == MapThenSumSet(Weight, cells)

Obstacles(i) == Counted({c \in localMap.cells : LocalSector(c.dir) = i})
                + Counted({c \in globalMap.cells : GlobalSector(c.dir) = i})

Poses == 0 .. Candidates - 1

\* The candidates in the order they are tried: 0, n-1, 1, n-2, ...
Tried == 0 .. 2 * (Candidates \div 4) + 1
Candidate(k) == IF k % 2 = 0 THEN k \div 2 ELSE Candidates - 1 - k \div 2

IsFree(k) == Obstacles(Candidate(k)) < MinObs

\* The first free candidate, or none.
Chosen(p) ==
  \/ \E k \in Tried : p = Candidate(k) /\ IsFree(k) /\ \A j \in 0 .. k - 1 : ~IsFree(j)
  \/ p = Stay /\ \A k \in Tried : ~IsFree(k)

\* One tick of the tree's attack branch: Topics2Blackboard, the guard, Attack.
AttackTick ==
  /\ tracking' = (tracking /\ seen)
  /\ tracking'
  /\ \/ /\ localMap.arrived /\ globalMap.arrived
        /\ \E p \in {Stay} \cup Poses : Chosen(p) /\ attackPose' = p
     \/ UNCHANGED attackPose  \* no pose of the robot, or a costmap is missing
  /\ UNCHANGED <<now, targetPosition, seen, targetPose, lastTracking, heard, localMap, globalMap>>

ClockAdvances ==
  /\ now < LastTime /\ now' = now + 1
  /\ UNCHANGED <<tracking, targetPosition, seen, targetPose, lastTracking, heard, localMap,
                 globalMap, attackPose>>

AttackNext ==
  TargetTracked \/ TargetLost \/ LocalCostmap \/ GlobalCostmap \/ AttackTick \/ ClockAdvances

AttackSpec == AttackInit /\ [][AttackNext]_attackVars
----------------------------------------------------------------------------
(* Properties *)

\* Where the blackboard says that a target is tracked there is one: it was seen, and
\* the last message of the tracker came at most tracking_timeout_s_ after that.
TrackingIsRecent ==
  tracking => /\ targetPosition # NoSighting /\ targetPosition = targetPose
              /\ heard - targetPosition <= TrackingTimeout

\* Does direction d lie from lo to hi after candidate i, going round the target.
Lies(d, i, lo, hi) ==
  \E k \in lo .. hi : d - (4 * i + k) \in {-(4 * Candidates), 0, 4 * Candidates}
Angle(i) == IF 2 * i <= Candidates THEN i ELSE Candidates - i
Clear(i) == Counted({c \in localMap.cells : Lies(c.dir, i, -2, 1)})
            + Counted({c \in globalMap.cells : Lies(c.dir, i, -4, -1)}) < MinObs

\* The pose chosen has fewer than min_obs_num_ obstacles in its sector of the ring, on
\* either side of the direction of the vehicle, and so has none nearer to the vehicle;
\* the robot stays only where no pose within a quarter of the circle is clear.
AttacksFromNearest ==
  /\ attackPose = Stay => \A i \in Poses : Angle(i) <= Candidates \div 4 => ~Clear(i)
  /\ attackPose \in Poses =>
       Clear(attackPose) /\ \A i \in Poses : Angle(i) < Angle(attackPose) => ~Clear(i)

\* Between the tracker's messages, the maps and the ticks, both hold: see each.
AttackIsSound == TrackingIsRecent /\ AttacksFromNearest
===============================================================================
