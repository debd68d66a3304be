--------------------------- MODULE FakeVelTransform ---------------------------
(***************************************************************************)
(* fake_vel_transform: commands computed in the frame that does not turn   *)
(* with the gimbal are turned into the gimbal's frame.  While a controller *)
(* is active a command waits for an odometry message paired with a local   *)
(* plan; otherwise it is published at once.  A zero command always is.     *)
(*                                                                         *)
(* A command is a record: n, its rank among all commands, and zero.        *)
(***************************************************************************)
EXTENDS Naturals

CONSTANTS
  Yaws,       \* robot headings
  SpinSpeeds, \* values on cmd_spin
  MaxPlans,   \* bound: local plans that wait for their odometry message
  OdomAlive   \* does each plan find its odometry message within CONTROLLER_TIMEOUT

ASSUME FakeVelAssumption == OdomAlive \in BOOLEAN /\ MaxPlans \in Nat \ {0}

VARIABLES
  active,   \* now() - last_controller_activate_time_ <= CONTROLLER_TIMEOUT
  plans,    \* number of plans the synchronizer has not paired yet
  cache,    \* latest_cmd_vel_
  angle,    \* current_robot_base_angle_
  spin,     \* spin_speed_
  got,      \* history: the last command received
  vel       \* the last twist published on cmd_vel

fvVars == <<active, plans, cache, angle, spin, got, vel>>

NoCommand == [n |-> 0, zero |-> TRUE]   \* nothing yet, or a reset pointer
Twist(c, yaw) == [n |-> c.n, zero |-> c.zero, yaw |-> yaw, wz |-> spin]

FVInit ==
  /\ active = FALSE /\ plans = 0
  /\ cache = NoCommand /\ got = NoCommand
  /\ angle \in Yaws /\ spin \in SpinSpeeds
  /\ vel = Twist(NoCommand, angle)

CmdSpin(s) == spin' = s /\ UNCHANGED <<active, plans, cache, angle, got, vel>>

\* Half a second without a local plan.
Expire ==
  /\ active /\ (OdomAlive => plans = 0)
  /\ active' = FALSE
  /\ UNCHANGED <<plans, cache, angle, spin, got, vel>>

\* Mutant of CmdVel: a zero command leaves the cached one.
CmdVelKeepsCache(c) ==
  /\ got' = c
  /\ IF c.zero \/ ~active THEN vel' = Twist(c, angle) /\ UNCHANGED cache
                          ELSE cache' = c /\ UNCHANGED vel
  /\ UNCHANGED <<active, plans, angle, spin>>

CmdVel(c) ==
  /\ got' = c
  /\ IF c.zero \/ ~active THEN vel' = Twist(c, angle) ELSE UNCHANGED vel
  /\ cache' = IF c.zero THEN NoCommand ELSE IF active THEN c ELSE cache
  /\ UNCHANGED <<active, plans, angle, spin>>

\* localPlanCallback runs before the synchronizer takes the plan; a pair that the plan
\* completes finds no command.
LocalPlan ==
  /\ active' = TRUE
  /\ cache' = NoCommand
  /\ plans' \in 0..(plans + 1) /\ plans' <= MaxPlans
  /\ UNCHANGED <<angle, spin, got, vel>>

\* An odometry message: the synchronizer may now match any number of waiting plans,
\* each with this message or an earlier one (heading paired).  The cached command is
\* published for every pair, and stays cached.
Odometry(y, paired) ==
  \E k \in 0..plans :
    /\ plans' = plans - k
    /\ IF k > 0 /\ cache # NoCommand /\ ~cache.zero
       THEN angle' = paired /\ vel' = Twist(cache, paired)
       ELSE angle' = (IF active THEN angle ELSE y) /\ UNCHANGED vel
    /\ UNCHANGED <<active, cache, spin, got>>

Clock == Expire
Sensed == LocalPlan \/ (\E y, p \in Yaws : Odometry(y, p)) \/ \E s \in SpinSpeeds : CmdSpin(s)

-------------------------------------------------------------------------------
\* A stop is final: once a zero command has been received nothing but a later command
\* moves the robot, whatever the synchronizer still holds.
StopIsFinal == got.zero => vel.n = got.n
===============================================================================
