------------------------------ MODULE RmucTreeB ------------------------------
(***************************************************************************)
(* The decision tree of RMUC_adaptation_2026_B.xml: until 120 s before the *)
(* end attack the outpost, with early trips to the supply point; then one  *)
(* trip to the supply point, over the bump, and a patrol between the high  *)
(* ground points HG1 and HG2, with retreats over the bump to the supply    *)
(* point.                                                                  *)
(***************************************************************************)
EXTENDS ReactiveTree

Flags0B ==
  [spin_cmd |-> 0, early_supply |-> FALSE, initial_outpost_arrived |-> FALSE,
   return_outpost_arrived |-> FALSE, final_supply_done |-> FALSE, align_done_b |-> FALSE,
   bump_crossed_b |-> FALSE, high_ground_arrived |-> FALSE, hg_patrol_idx |-> 0,
   hg_patrol_arrived |-> FALSE, hg_holding |-> FALSE, need_resupply |-> FALSE,
   return_to_supply |-> FALSE, supply_loop_to_hg |-> FALSE, first_hg1_done |-> FALSE,
   patrol_leg_active |-> FALSE]

\* (0,120] is the final phase; 0 stands for "no valid time yet".
FinalStage(r) == r.stage > 0 /\ r.stage <= 120
Depleted(r) == r.hp <= 120 \/ r.ammo <= 20

LatchEarlySupply(r, f) ==
  IF r.gp = 4 /\ r.stage > 120 /\ (r.ammo = 0 \/ r.hp < 120)
  THEN [f EXCEPT !.early_supply = TRUE] ELSE f

LatchNeedResupply(r, f) ==
  IF /\ r.gp = 4 /\ FinalStage(r)
     /\ f.high_ground_arrived /\ ~f.return_to_supply /\ Depleted(r)
  THEN [f EXCEPT !.need_resupply = TRUE] ELSE f

StopSpin(f) ==
  IF f.need_resupply /\ ~f.return_to_supply THEN [f EXCEPT !.spin_cmd = 0] ELSE f

RootScriptsB(r, f) == StopSpin(LatchNeedResupply(r, LatchEarlySupply(r, f)))

PhasesB == << <<"R1", "R2", "R3", "B0", "B0b", "B1", "B2", "B3", "B4b", "B4d">>,
             <<"A1", "A2", "A2hold", "A3", "A3hold">> >>

PhaseGuardB(p, r, f) ==
  /\ r.gp = 4
  /\ IF p = 1 THEN FinalStage(r) ELSE r.stage > 120 \/ r.stage = 0

\* The _while of the two patrol legs; side is the value of hg_patrol_idx.
PatrolLeg(side, r, f) ==
  /\ f.first_hg1_done /\ f.high_ground_arrived /\ ~f.return_to_supply
  /\ f.hg_patrol_idx = side
  /\ f.patrol_leg_active \/ ~f.hg_patrol_arrived \/ f.hg_holding
  /\ ~Depleted(r)

Resupplied(r) == r.ammo >= 100 /\ r.hp >= 120

BranchGuardB(b, r, f) ==
  CASE b = "R1"  -> /\ f.high_ground_arrived /\ ~f.return_to_supply
                    /\ f.need_resupply \/ Depleted(r)
    [] b = "R2"  -> f.return_to_supply /\ r.hp <= 350
    [] b = "R3"  -> (f.return_to_supply \/ f.supply_loop_to_hg) /\ r.hp > 350
    [] b = "B0"  -> ~f.final_supply_done
    [] b = "B0b" -> f.final_supply_done /\ ~f.align_done_b /\ r.hp <= 350
    [] b = "B1"  -> f.final_supply_done /\ ~f.align_done_b /\ r.hp > 350
    [] b = "B2"  -> f.final_supply_done /\ f.align_done_b /\ ~f.bump_crossed_b
    [] b = "B3"  -> /\ f.final_supply_done /\ f.bump_crossed_b /\ ~f.first_hg1_done
                    /\ ~f.return_to_supply /\ ~Depleted(r)
    [] b = "B4b" -> PatrolLeg(1, r, f)
    [] b = "B4d" -> PatrolLeg(0, r, f)
    [] b = "A1"  -> f.early_supply /\ (r.ammo < 100 \/ r.hp < 120)
    [] b = "A2"  -> f.early_supply /\ Resupplied(r) /\ ~f.return_outpost_arrived
    [] b = "A2hold" -> f.early_supply /\ Resupplied(r) /\ f.return_outpost_arrived
    [] b = "A3"     -> ~f.early_supply /\ ~f.initial_outpost_arrived
    [] b = "A3hold" -> ~f.early_supply /\ f.initial_outpost_arrived

\* Mutant of HoldHere: the posture follows the timer.
HoldHereLatePosture == << Script([spin_cmd |-> 1]), SpinOrNot, Sleep, PostureChange(Attack) >>

\* Hold a point: spin, attack posture, 15 s.
HoldHere == << Script([spin_cmd |-> 1]), SpinOrNot, PostureChange(Attack), Sleep >>

\* Mutant of PatrolSteps: the index is not handed over to the other leg.
PatrolStepsSameSide(side, to) ==
  << Script([patrol_leg_active |-> TRUE, spin_cmd |-> 0]), SpinOrNot,
     PostureChange(Moving), Nav2Pose(to),
     Script([hg_holding |-> TRUE, hg_patrol_idx |-> side, hg_patrol_arrived |-> TRUE]) >>
  \o HoldHere \o
  << Script([patrol_leg_active |-> FALSE, hg_holding |-> FALSE,
             hg_patrol_idx |-> side, hg_patrol_arrived |-> FALSE]) >>

\* One leg of the patrol; side is the hg_patrol_idx of the leg.
PatrolSteps(side, to) ==
  << Script([patrol_leg_active |-> TRUE, spin_cmd |-> 0]), SpinOrNot,
     PostureChange(Moving), Nav2Pose(to),
     Script([hg_holding |-> TRUE, hg_patrol_idx |-> side, hg_patrol_arrived |-> TRUE]) >>
  \o HoldHere \o
  << Script([patrol_leg_active |-> FALSE, hg_holding |-> FALSE,
             hg_patrol_idx |-> 1 - side, hg_patrol_arrived |-> FALSE]) >>

MoveTo(p) == << PostureChange(Moving), Script([spin_cmd |-> 0]), Nav2Pose(p) >>
MoveSpinOff(p) == << PostureChange(Moving), Script([spin_cmd |-> 0]), SpinOrNot, Nav2Pose(p) >>
HoldOutpost == << PostureChange(Attack), Script([spin_cmd |-> 0]) >>

StepsB ==
  [R1 |->
       << Script([need_resupply |-> TRUE, spin_cmd |-> 0, hg_patrol_arrived |-> FALSE,
                  hg_holding |-> FALSE, patrol_leg_active |-> FALSE]),
          SpinOrNot, Nav2Pose("bump_hg"), AlignChassis,
          Nav2Pose("bump_home"), Nav2Pose("supply"),
          Script([return_to_supply |-> TRUE, need_resupply |-> FALSE]) >>,
   R2 |-> MoveTo("supply"),
   R3 |->
       << Script([supply_loop_to_hg |-> TRUE]) >> \o MoveTo("bump_home") \o
       << AlignChassis, Nav2Pose("bump_hg"), Nav2Pose("hg1"),
          Script([hg_holding |-> TRUE, return_to_supply |-> FALSE,
                  high_ground_arrived |-> TRUE, hg_patrol_idx |-> 0,
                  hg_patrol_arrived |-> TRUE]) >> \o HoldHere \o
       << Script([supply_loop_to_hg |-> FALSE, hg_holding |-> FALSE,
                  first_hg1_done |-> TRUE, hg_patrol_idx |-> 1,
                  hg_patrol_arrived |-> FALSE]) >>,
   B0 |-> MoveSpinOff("supply") \o << Script([final_supply_done |-> TRUE]) >>,
   B0b |-> MoveSpinOff("supply"),
   B1 |-> MoveSpinOff("bump_home") \o << AlignChassis, Script([align_done_b |-> TRUE]) >>,
   B2 |-> MoveTo("bump_hg") \o << Script([bump_crossed_b |-> TRUE]) >>,
   B3 |->
       MoveSpinOff("hg1") \o
       << Script([hg_holding |-> TRUE, high_ground_arrived |-> TRUE,
                  hg_patrol_idx |-> 0, hg_patrol_arrived |-> TRUE]) >> \o HoldHere \o
       << Script([first_hg1_done |-> TRUE, hg_holding |-> FALSE,
                  hg_patrol_idx |-> 1, hg_patrol_arrived |-> FALSE]) >>,
   B4b |-> PatrolSteps(1, "hg2"),
   B4d |-> PatrolSteps(0, "hg1"),
   A1 |-> MoveTo("supply"),
   A2 |-> MoveTo("outpost") \o
         << PostureChange(Attack), Script([return_outpost_arrived |-> TRUE]) >>,
   A3 |-> MoveTo("outpost") \o
         << PostureChange(Attack), Script([initial_outpost_arrived |-> TRUE]) >>,
   A2hold |-> HoldOutpost,
   A3hold |-> HoldOutpost]

-------------------------------------------------------------------------------

\* Where each branch holds with its 15 s Sleep.
HoldPoint(b) == IF b = "B4b" THEN "hg2" ELSE "hg1"
Holding(c) == c.live /\ Steps[c.br][c.ix].kind = "sleep"

\* Between ticks, while a hold timer runs, the robot is where the branch was to hold, in the
\* attack posture: no preemption, abort or restart separates the timer from the
\* drive and the posture that the same Sequence put before it.
HoldsInPlace == pc = "idle" /\ Holding(run) => place = HoldPoint(run.br) /\ posture = Attack

Sets(name) == ~flag[name] /\ flag'[name]
Clears(name) == flag[name] /\ ~flag'[name]

\* The flags that order the final phase follow the robot, however often the
\* branches are preempted and restarted: a resupply is over only at the supply
\* point, a return to the high ground only at HG1, the bump is crossed only on
\* the far side.
FlagsFollowRobot ==
  [][/\ Sets("final_supply_done") => place = "supply"
     /\ Sets("align_done_b") => place = "bump_home"
     /\ Sets("bump_crossed_b") => place = "bump_hg"
     /\ Sets("return_to_supply") \/ Clears("need_resupply") => place = "supply"
     /\ Clears("return_to_supply") \/ Sets("first_hg1_done") => place = "hg1"]_vars

\* A-2 brings the robot back to the outpost after an early trip to the supply
\* point, so the hold that follows is at the outpost.
HoldsAtOutpost == pc = "idle" /\ posture = Attack /\ ref.stage > 120 => place = "outpost"

Ready == ref.gp = 4 /\ FinalStage(ref) /\ ref.hp > 350 /\ ref.ammo > 20

\* A robot that remains in good state in the final phase patrols both high ground
\* points for ever, whatever happened before.
PatrolsForever ==
  <>[]Ready => /\ []<>(Holding(run) /\ place = "hg1")
               /\ []<>(Holding(run) /\ place = "hg2")

\* "... high ground patrol + resupply loop": a robot that remains depleted in the
\* final phase gets to the supply point.
DepletedResupplies ==
  <>[](ref.gp = 4 /\ FinalStage(ref) /\ Depleted(ref)) => []<>(place = "supply")
===============================================================================
