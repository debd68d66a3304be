--------------------------- MODULE PursuitController ---------------------------
(***************************************************************************)
(* The omnidirectional pursuit controller: it prunes the plan it follows,  *)
(* picks a carrot on it, sets the speed with a PID, limits it in bends and *)
(* near the end, and refuses to drive where the costmap shows an obstacle. *)
(*                                                                         *)
(* Poses lie on a lattice and a plan takes unit steps; speeds are whole    *)
(* numbers, and a control period is one unit of time.  The curvature at    *)
(* the carrot, and whether the heading is off, are any; the angular speed  *)
(* is left out.                                                            *)
(***************************************************************************)
EXTENDS Integers, Sequences, FiniteSetsExt

CONSTANTS Plans,            \* the plans that are followed
          Sways, Stride,    \* bounds: how the robot strays from its place on the plan,
                            \* and how far it advances in a period
          HalfX, HalfY,     \* the local costmap reaches this far from its centre
          Blocks,           \* what the costmap may show: sets of lethal cells
          SearchDist,       \* max_robot_pose_search_dist
          Looks,            \* values given to min_lookahead_dist
          MaxLook,          \* max_lookahead_dist
          SamplePoints,     \* sample_points
          Kp, Ki, Kd, VMax, VMin, MaxSum,  \* the PID of the translation
          RatioNum, RatioDen,  \* reduction_ratio_at_high_curvature
          Rate,             \* max_velocity_scaling_factor_rate * control_duration
          MinApproach, ApproachDist

ASSUME PursuitAssumption ==
  /\ Plans \subseteq Seq(Int \X Int) /\ Sways \subseteq Int \X Int
  /\ \A p \in Plans : Len(p) > 0 /\ \A i \in 2 .. Len(p) :
       {p[i][1] - p[i-1][1], p[i][2] - p[i-1][2]} \in {{0, 1}, {0, -1}}
  /\ {HalfX, HalfY, SearchDist, MaxLook, Stride} \subseteq Nat
  /\ {Kp, Ki, Kd, VMax, VMin, RatioNum} \subseteq Int /\ MaxSum \in Nat
  /\ {SamplePoints, RatioDen, Rate, MinApproach, ApproachDist} \subseteq Nat \ {0}
  /\ \A l \in Looks : l \in 1 .. MaxLook
  /\ 0 <= RatioNum /\ RatioNum <= RatioDen /\ VMin < 0 /\ 2 * MinApproach <= VMax

VARIABLES plan, head,     \* global_plan_: what setPlan gave, and its first pose kept
          at, pose,       \* how far on the plan the robot really is, and where
          centre, lethal, \* the costmap
          minLook,        \* min_lookahead_dist_
          integral, preError,  \* move_pid_
          lastScale,      \* last_velocity_scaling_factor_
          answer,         \* what the last call gave, until something changes
          bends           \* control periods in a sharp bend (only observed)
pursuitVars == <<plan, head, at, pose, centre, lethal, minLook, integral, preError, lastScale,
                 answer, bends>>

Gap2(p, q) == (p[1] - q[1]) * (p[1] - q[1]) + (p[2] - q[2]) * (p[2] - q[2])
Near(p) == {<<p[1] + d[1], p[2] + d[2]>> : d \in Sways}
Clamp(v, lo, hi) == IF v > hi THEN hi ELSE IF v < lo THEN lo ELSE v
Root(n) == Max({r \in 0 .. n : r * r <= n})
Least(a, b) == IF a < b THEN a ELSE b
Most(a, b) == IF a > b THEN a ELSE b

None == [kind |-> "none", speed |-> 0, carrot |-> 0, last |-> 0]
Exception == [None EXCEPT !.kind = "exception"]
LongBend == (VMax + Rate - 1) \div Rate

PursuitInit ==
  /\ plan = <<>> /\ head = 1 /\ at = 1 /\ pose = <<1, 0>>
  /\ centre = <<1, 0>> /\ lethal = {} /\ minLook \in Looks
  /\ integral = 0 /\ preError = 0 /\ lastScale = 0 /\ answer = None /\ bends = 0

\* A plan begins where the robot is.
SetPlan ==
  /\ plan' \in {p \in Plans : pose \in Near(p[1])}
  /\ head' = 1 /\ at' = 1 /\ answer' = None
  /\ UNCHANGED <<pose, centre, lethal, minLook, integral, preError, lastScale, bends>>

\* Between two periods the robot moves and the costmap is updated, or not yet.
Travels ==
  /\ plan # <<>>
  /\ \E k \in 0 .. Stride : at' = Least(at + k, Len(plan))
  /\ pose' \in Near(plan[at'])
  /\ \E s \in Blocks \cup {lethal} : lethal' = s
  /\ centre' \in {pose, pose'}
  /\ answer' = None
  /\ UNCHANGED <<plan, head, minLook, integral, preError, lastScale, bends>>

SetParameters ==
  /\ minLook' \in Looks \ {minLook} /\ answer' = None
  /\ UNCHANGED <<plan, head, at, pose, centre, lethal, integral, preError, lastScale, bends>>

----------------------------------------------------------------------------
(* computeVelocityCommands *)

\* Mutant of Closest: the whole plan is searched.
ClosestOfAll ==
  LET ahead == head .. Len(plan)
  IN  Min({i \in ahead : \A j \in ahead : Gap2(plan[i], pose) <= Gap2(plan[j], pose)})

\* The pose the plan is pruned to: the first of the closest ones that lie within the
\* search distance along the plan.
Closest ==
  LET ahead == head .. Least(head + SearchDist, Len(plan))
  IN  Min({i \in ahead : \A j \in ahead : Gap2(plan[i], pose) <= Gap2(plan[j], pose)})

\* The last pose before the first one outside the costmap's larger half extent.
LastSampled(first) ==
  LET far == {i \in first .. Len(plan) :
                4 * Gap2(plan[i], pose) > (2 * Most(HalfX, HalfY) + 1) * (2 * Most(HalfX, HalfY) + 1)}
  IN  IF far = {} THEN Len(plan) ELSE Min(far) - 1

LookAhead(speed) == Clamp(speed, minLook, MaxLook)

Carrot(first, last, look) ==
  LET far == {i \in first .. last : Gap2(plan[i], pose) >= look * look}
  IN  IF far = {} THEN last ELSE Min(far)

\* With interpolation the carrot is moved back to the look ahead distance.
CarrotDist(first, last, look) ==
  LET c == Carrot(first, last, look)
  IN  IF c > first /\ Gap2(plan[c], pose) >= look * look THEN look ELSE Root(Gap2(plan[c], pose))

\* The integral is limited after it has been used.
Pid(error) ==
  Clamp(Kp * error + Ki * (integral + error) + Kd * (error - preError), VMin, VMax)

\* Mutant of CurvatureLimited: the speed falls from what is wanted, not from the last one.
CurvatureLimitedAnew(v, curve) ==
  LET target == CASE curve = "sharp" -> (v * RatioNum) \div RatioDen
                  [] curve = "slight" -> (v * (RatioNum + RatioDen)) \div (2 * RatioDen)
                  [] OTHER -> v
  IN  Least(v, Most(v + Clamp(target - v, -Rate, Rate), 2 * MinApproach))

CurvatureLimited(v, curve) ==
  LET target == CASE curve = "sharp" -> (v * RatioNum) \div RatioDen
                  [] curve = "slight" -> (v * (RatioNum + RatioDen)) \div (2 * RatioDen)
                  [] OTHER -> v
      scaled == IF curve = "straight" THEN v
                ELSE lastScale + Clamp(target - lastScale, -Rate, Rate)
  IN  Least(v, Most(scaled, 2 * MinApproach))

Approaching(v, first, last) ==
  LET scaled == IF last - first < ApproachDist
                THEN (v * Root(Gap2(plan[last], pose))) \div ApproachDist ELSE v
  IN  Least(v, Most(scaled, MinApproach))

\* Mutant of Sampled: one step further each time.
SampledLate(first, last) ==
  LET n == last - first + 1
  IN  [i \in 0 .. SamplePoints - 1 |-> plan[first + Least(((i + 1) * n) \div SamplePoints, n - 1)]]

Sampled(first, last) ==
  LET n == last - first + 1
  IN  [i \in 0 .. SamplePoints - 1 |-> plan[first + Least((i * n) \div SamplePoints, n - 1)]]

InCostmap(p) == p[1] - centre[1] \in -HalfX .. HalfX /\ p[2] - centre[2] \in -HalfY .. HalfY

\* The first sample outside the costmap ends the check.
CollisionDetected(samples) ==
  \E i \in DOMAIN samples : samples[i] \in lethal /\ \A j \in 0 .. i : InCostmap(samples[j])

\* What limits the speed changes even if no command goes out for a collision.
Steer(first, last, curve) ==
  \E speed \in 0 .. MaxLook, headingOff \in BOOLEAN :
    LET look == LookAhead(speed)
        error == IF headingOff THEN 0 ELSE CarrotDist(first, last, look)
        limited == CurvatureLimited(Pid(error), curve)
    IN  /\ integral' = Clamp(integral + error, -MaxSum, MaxSum) /\ preError' = error
        /\ lastScale' = limited
        /\ bends' = IF curve = "sharp" THEN Least(bends + 1, LongBend) ELSE 0
        /\ answer' = IF CollisionDetected(Sampled(first, last)) THEN Exception
                     ELSE [kind |-> "velocity", speed |-> Approaching(limited, first, last),
                           carrot |-> Carrot(first, last, look), last |-> last]

ComputeVelocityCommands ==
  /\ answer = None
  /\ \/ /\ answer' = Exception  \* no plan, or no transform to its frame
        /\ UNCHANGED <<head, integral, preError, lastScale, bends>>
     \/ /\ plan # <<>> /\ head' = Closest
        /\ IF LastSampled(head') < head'
           THEN answer' = Exception /\ UNCHANGED <<integral, preError, lastScale, bends>>
           ELSE \E curve \in {"straight", "slight", "sharp"} : Steer(head', LastSampled(head'), curve)
  /\ UNCHANGED <<plan, at, pose, centre, lethal, minLook>>

PursuitNext == SetPlan \/ Travels \/ SetParameters \/ ComputeVelocityCommands

\* However the robot strays, the costmap reaches as far as the carrot can be, also when its
\* centre is where the robot was before it advanced: a condition on how the node is set up.
CostmapReaches ==
  \A d, e \in Sways : /\ d[1] - e[1] + Stride + MaxLook - 1 <= HalfX
                      /\ d[2] - e[2] + Stride + MaxLook - 1 <= HalfY

----------------------------------------------------------------------------
(* Properties *)

\* Pruning never loses a part of the plan that lies ahead, except for turns that the
\* robot can cut within the search distance, also where the plan comes back past itself.
PruningFollowsRobot == head <= at + SearchDist

\* No command goes out while enough lethal cells to be sampled lie in a row between the
\* robot and its carrot, also on a costmap that is one update old.
StopsForObstacle ==
  answer.kind = "velocity" =>
    LET width == (answer.last - head + SamplePoints) \div SamplePoints
    IN  \A i \in head .. answer.carrot - width :
          ~(\A j \in i .. i + width - 1 : plan[j] \in lethal)

\* In a bend that lasts the speed comes down to what the curvature allows, although it
\* changes by no more than the rate in a period.
SlowsInBends ==
  bends >= LongBend /\ answer.kind = "velocity" =>
    answer.speed <= Most((VMax * RatioNum) \div RatioDen, 2 * MinApproach)

\* Pruning, the collision check and the limit in bends, on one path: see each.
PursuitIsSafe == PruningFollowsRobot /\ StopsForObstacle /\ SlowsInBends
===============================================================================
