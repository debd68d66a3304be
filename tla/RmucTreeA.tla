------------------------------ MODULE RmucTreeA ------------------------------
(***************************************************************************)
(* The decision tree of RMUC_adaptation_2026_A.xml: go to the outpost and  *)
(* attack; go to the supply point when hp < 100 or ammo < 20 and stay      *)
(* there until hp > 350.                                                   *)
(***************************************************************************)
EXTENDS ReactiveTree

Flags0A == [spin_cmd |-> 0, at_supply |-> FALSE, at_outpost |-> FALSE]

RootScriptsA(r, f) == f

PhasesA == << <<"S1", "S2", "S3", "S4">> >>

PhaseGuardA(p, r, f) == TRUE

\* Mutants of BranchGuardA: no hysteresis, no test of the outpost's flag.
BranchGuardANoHysteresis(b, r, f) ==
  \/ b = "S1" /\ (r.hp < 100 \/ r.ammo < 20)
  \/ b = "S2" /\ r.hp > 350 /\ ~f.at_outpost
  \/ b = "S3" /\ f.at_outpost /\ r.hp >= 100 /\ r.ammo >= 20
  \/ b = "S4"

BranchGuardARestless(b, r, f) ==
  \/ b = "S1" /\ (r.hp < 100 \/ r.ammo < 20 \/ (f.at_supply /\ r.hp <= 350))
  \/ b = "S2" /\ r.hp > 350
  \/ b = "S3" /\ f.at_outpost /\ r.hp >= 100 /\ r.ammo >= 20
  \/ b = "S4"

BranchGuardA(b, r, f) ==
  \/ b = "S1" /\ (r.hp < 100 \/ r.ammo < 20 \/ (f.at_supply /\ r.hp <= 350))
  \/ b = "S2" /\ r.hp > 350 /\ ~f.at_outpost
  \/ b = "S3" /\ f.at_outpost /\ r.hp >= 100 /\ r.ammo >= 20
  \/ b = "S4"

ToOutpost == << PostureChange(Moving),
                Script([spin_cmd |-> 0, at_supply |-> FALSE]),
                Nav2Pose("outpost"),
                PostureChange(Attack),
                Script([at_outpost |-> TRUE]) >>

StepsA ==
  [S1 |-> << PostureChange(Moving),
             Script([spin_cmd |-> 0, at_supply |-> TRUE, at_outpost |-> FALSE]),
             Nav2Pose("supply") >>,
   S2 |-> ToOutpost,
   S3 |-> << PostureChange(Attack), Script([spin_cmd |-> 0]) >>,
   S4 |-> ToOutpost]

-------------------------------------------------------------------------------
\* History, which constrains no step of the tree: is a retreat to the supply point open,
\* that is, begun with hp at most 350 and with no report of more than 350 since.
VARIABLE retreating

StartsRetreat == At("script") /\ cur.br = "S1"

History ==
  retreating' = IF StartsRetreat THEN ref.hp <= 350 ELSE retreating /\ ref'.hp <= 350

HInit == Init /\ retreating = FALSE
HSpec == HInit /\ [][Next /\ History]_<<vars, retreating>>
HFairSpec == HSpec /\ Fairness

\* A robot that retreated attacks again only after its hp exceeded 350 (header of
\* RMUC_adaptation_2026_A.xml, step 3): wherever the reports fall in the tick, the
\* hysteresis of the first branch (at_supply, hp <= 350) holds it back.
HealsBeforeAttack == retreating => posture # Attack

Fit == ref.gp = 4 /\ ref.hp > 350 /\ ref.ammo >= 20
Unfit == ref.gp = 4 /\ ref.hp < 100

\* A robot that remains fit ends up attacking at the outpost.
FitAttacks == <>[]Fit => <>[](place = "outpost" /\ posture = Attack)

\* A robot that remains unfit ends up at the supply point, in moving posture.
UnfitRetreats == <>[]Unfit => <>[](place = "supply" /\ posture = Moving)

\* Whatever happened before, the last state of the robot that lasts decides where the
\* branches lead it, and in which posture: no flag of an earlier retreat or attack holds
\* it back.
LastingStateDecides == FitAttacks /\ UnfitRetreats
===============================================================================
