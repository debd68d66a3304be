----------------------------- MODULE ReactiveTree -----------------------------
(***************************************************************************)
(* The decision node of spr_decision: tree_exec_node.cpp's loop over a     *)
(* tree of the shape the RMUC trees have,                                  *)
(*                                                                         *)
(*   ReactiveSequence                                                      *)
(*     RunOnce(Script), Topics2Blackboard, Script ...                      *)
(*     ReactiveFallback _while="game_progress==4"                          *)
(*       ReactiveFallback _while=...      (a phase)                        *)
(*         Sequence _while=...            (a branch: a list of leaves)     *)
(*     SpinOrNot                                                           *)
(*                                                                         *)
(* together with the NavigateToPose action server its Nav2Pose leaves      *)
(* talk to.  A tree is given by the constant operators; RmucTreeA and      *)
(* RmucTreeB supply them.                                                  *)
(*                                                                         *)
(* A tick is cut where the code can be interleaved: while a Nav2Pose leaf  *)
(* waits for the reply to a goal or a cancel request it spins the node, so *)
(* game_state callbacks rewrite the blackboard in the middle of the tick.  *)
(***************************************************************************)
EXTENDS Naturals, Sequences

-------------------------------------------------------------------------------
(* The leaves a tree is written with, as values.  A branch is a              *)
(* BehaviorTree.CPP Sequence, given here as the sequence of its leaves.      *)

\* <Script code="...">: the blackboard entries it assigns, as a record.
Script(assignments) == [kind |-> "script", set |-> assignments]

\* <PostureChange posture_change="n">: 1 attack, 2 protect, 3 moving.
PostureChange(n) == [kind |-> "posture", to |-> n]

\* <SpinOrNot spin_or_not="{spin_cmd}">
SpinOrNot == [kind |-> "spin"]

\* <Nav2Pose goal="...">: the place the literal goal names.
Nav2Pose(place) == [kind |-> "nav", pose |-> place]

\* <AlignChassis target_angle=... min_angle_diff=... angular_speed=...>
AlignChassis == [kind |-> "align"]

\* <Sleep msec="15000">
Sleep == [kind |-> "sleep"]

LeafKinds == {"script", "posture", "spin", "nav", "align", "sleep"}

Attack == 1   \* the posture_change values of PostureChange
Protect == 2
Moving == 3

\* The places the Nav2Pose leaves of a tree name, and its SpinOrNot nodes: one per
\* leaf, <<branch, position>>, and the one at the end of the root.
PosesOf(steps) ==
  UNION {{steps[b][i].pose : i \in {i \in DOMAIN steps[b] : steps[b][i].kind = "nav"}} :
           b \in DOMAIN steps}
SpinNodesOf(steps) ==
  {<<"root", 0>>} \cup
  UNION {{<<b, i>> : i \in {i \in DOMAIN steps[b] : steps[b][i].kind = "spin"}} :
           b \in DOMAIN steps}

\* The effect of a Script on the blackboard entries f.
Assign(f, assignments) ==
  [k \in DOMAIN f |-> IF k \in DOMAIN assignments THEN assignments[k] ELSE f[k]]

-------------------------------------------------------------------------------
(* The tree, and the state of the executor.                                  *)

CONSTANTS
  Phases,                \* inner ReactiveFallbacks in order, each a sequence of branch names
  PhaseGuard(_, _, _),   \* _while of phase p on referee entries r and flags f
  BranchGuard(_, _, _),  \* _while of branch b
  Steps,                 \* the leaves of every branch, a sequence each
  RootScripts(_, _),     \* the flags after the root's Scripts have run
  Flags0,                \* the flags RunOnce's Script sets
  Reports,               \* the referee states (game_state messages) to explore
  Faults                 \* which failures may happen: subset of FaultKinds

FaultKinds == {"abort", "refuse", "timeout", "tf"}

ASSUME FaultsAssumption == Faults \subseteq FaultKinds

Branches == DOMAIN Steps

\* A tree is made of non-empty sequences of leaves, and its phases of its branches.
ASSUME TreeAssumption ==
  /\ \A b \in Branches : Len(Steps[b]) \in Nat \ {0} /\ DOMAIN Steps[b] = 1..Len(Steps[b])
  /\ Branches \cap {"none", "nobody", "lost"} = {}
  /\ Len(Phases) \in Nat /\ DOMAIN Phases = 1..Len(Phases)
  /\ \A p \in DOMAIN Phases : /\ DOMAIN Phases[p] \subseteq Nat \ {0}
                             /\ \A i \in DOMAIN Phases[p] : Phases[p][i] \in Branches

Poses == PosesOf(Steps)
SpinNodes == SpinNodesOf(Steps)

VARIABLES
  ref,      \* blackboard entries Topics2Blackboard writes: hp, ammo, stage, gp
  flag,     \* blackboard entries the Scripts write
  pc,       \* where the executor is in the tick
  after,    \* where a halt returns to
  ph, at,   \* index of the phase, and of the last branch tried in it
  failed,   \* has a child of the fallbacks failed in this tick
  cur,      \* the branch being ticked
  run,      \* the branch left RUNNING by an earlier tick
  active,   \* the server's goal: where to, and for whom ("lost": nobody tracks it)
  late,     \* goals whose request timed out and that the server may still accept
  place,    \* where the robot last arrived, "away" once it is sent elsewhere
  posture,  \* last value on the posture topic
  spin,     \* last value on the spin_or_not topic, 2 before the first
  sent,     \* last_sent_ of every SpinOrNot node, 2 while unset
  omega     \* is the last angular velocity AlignChassis published nonzero

bbVars == <<ref, flag>>
ctlVars == <<pc, after, ph, at, failed>>
navVars == <<active, late, place>>
outVars == <<posture, spin, sent, omega>>
vars == <<ref, flag, pc, after, ph, at, failed, cur, run, active, late, place,
          posture, spin, sent, omega>>

\* What check_subscriber_ writes while no game_state has been received.
NoReport == [hp |-> 0, ammo |-> 0, stage |-> 420, gp |-> 0]
NoBranch == [br |-> "none", ix |-> 0, live |-> FALSE, st |-> "none"]
NoGoal == [pose |-> "none", by |-> "nobody"]

Init ==
  /\ ref = NoReport
  /\ flag = Flags0
  /\ pc = "idle" /\ after = "spin" /\ ph = 0 /\ at = 0 /\ failed = FALSE
  /\ cur = NoBranch /\ run = NoBranch
  /\ active = NoGoal /\ late = {} /\ place = "away"
  /\ posture = Moving /\ spin = 2 /\ omega = FALSE
  /\ sent = [n \in SpinNodes |-> 2]

Leaf == Steps[cur.br][cur.ix]
RunningLeaf == Steps[run.br][run.ix]
At(kind) == pc = "leaf" /\ Leaf.kind = kind
Fresh == ~cur.live

-------------------------------------------------------------------------------
(* How the result of a leaf travels up the tree.                           *)

\* The leaf succeeded: on to the next one; after the last the branch, its
\* phase and the outer fallback succeed, and any other running branch is reset.
Advance ==
  IF cur.ix < Len(Steps[cur.br])
  THEN /\ cur' = [br |-> cur.br, ix |-> cur.ix + 1, live |-> FALSE, st |-> "none"]
       /\ UNCHANGED <<pc, after>>
  ELSE /\ cur' = NoBranch
       /\ IF run = NoBranch THEN pc' = "spin" /\ UNCHANGED after
                            ELSE pc' = "halt" /\ after' = "spin"

\* The leaf failed: its Sequence fails and the fallback tries the next branch.
Fail ==
  /\ cur' = NoBranch
  /\ failed' = TRUE
  /\ pc' = "select"
  /\ UNCHANGED after

\* The leaf (now in state st) is RUNNING: so is the tree.  The fallbacks halt a
\* branch that was running before and the tick ends.
Running(st, r) ==
  LET c == [cur EXCEPT !.live = TRUE, !.st = st]
  IN IF r = NoBranch
     THEN /\ run' = c /\ cur' = NoBranch /\ pc' = "idle" /\ UNCHANGED after
     ELSE /\ run' = r /\ cur' = c /\ pc' = "halt" /\ after' = "settle"

-------------------------------------------------------------------------------
(* The executor and the control nodes.                                     *)

\* Mutant of BeginTick: the running branch is not halted outside the match.
BeginTickWithoutHalt ==
  /\ pc = "idle"
  /\ flag' = RootScripts(ref, flag)
  /\ failed' = FALSE
  /\ ph' = 1 /\ at' = 0
  /\ pc' = IF ref.gp = 4 THEN "phase" ELSE "spin"
  /\ UNCHANGED <<ref, after, cur, run, navVars, outVars>>

\* One round of tree_exec_node's loop: the root's leading children, then the
\* outer fallback's _while.
BeginTick ==
  /\ pc = "idle"
  /\ flag' = RootScripts(ref, flag)
  /\ failed' = FALSE
  /\ ph' = 1 /\ at' = 0
  /\ IF ref.gp = 4 THEN pc' = "phase" /\ UNCHANGED after
     ELSE IF run = NoBranch THEN pc' = "spin" /\ UNCHANGED after
     ELSE pc' = "halt" /\ after' = "spin"
  /\ UNCHANGED <<ref, cur, run, navVars, outVars>>

InPhase(b) == \E i \in DOMAIN Phases[ph] : Phases[ph][i] = b

\* The _while of the next phase.  A phase left behind is halted; when none is
\* left the outer fallback is SKIPPED, and the root goes on to its SpinOrNot, or
\* it FAILS and so does the root.
TryPhase ==
  /\ pc = "phase"
  /\ \/ /\ ph > Len(Phases)
        /\ pc' = IF failed THEN "idle" ELSE "spin"
        /\ UNCHANGED <<after, ph, at>>
     \/ /\ ph <= Len(Phases)
        /\ PhaseGuard(ph, ref, flag)
        /\ pc' = "select" /\ at' = 0
        /\ UNCHANGED <<after, ph>>
     \/ /\ ph <= Len(Phases)
        /\ ~PhaseGuard(ph, ref, flag)
        /\ ph' = ph + 1
        /\ IF InPhase(run.br) THEN pc' = "halt" /\ after' = "phase"
                              ELSE UNCHANGED <<pc, after>>
        /\ UNCHANGED at
  /\ UNCHANGED <<bbVars, failed, cur, run, navVars, outVars>>

\* The ReactiveFallback of a phase ticks its branches in order: those whose
\* _while is false are SKIPPED, and halted if they were running.
Eligible(i) == i > at /\ (BranchGuard(Phases[ph][i], ref, flag) \/ Phases[ph][i] = run.br)

Select ==
  /\ pc = "select"
  /\ \/ /\ ~\E i \in DOMAIN Phases[ph] : Eligible(i)
        /\ pc' = "phase" /\ ph' = ph + 1
        /\ UNCHANGED <<after, at, cur, run>>
     \/ \E i \in DOMAIN Phases[ph] :
          LET b == Phases[ph][i]
          IN /\ Eligible(i) /\ \A j \in DOMAIN Phases[ph] : Eligible(j) => i <= j
             /\ at' = i /\ UNCHANGED ph
             /\ IF ~BranchGuard(b, ref, flag)
                THEN pc' = "halt" /\ after' = "select" /\ UNCHANGED <<cur, run>>
                ELSE /\ pc' = "leaf" /\ UNCHANGED after
                     /\ IF b = run.br
                        THEN cur' = run /\ run' = NoBranch
                        ELSE /\ cur' = [br |-> b, ix |-> 1, live |-> FALSE, st |-> "none"]
                             /\ UNCHANGED run
  /\ UNCHANGED <<bbVars, failed, navVars, outVars>>

-------------------------------------------------------------------------------
(* The leaves.                                                             *)

TickScript ==
  /\ At("script")
  /\ flag' = Assign(flag, Leaf.set)
  /\ Advance
  /\ UNCHANGED <<ref, ph, at, failed, run, navVars, outVars>>

TickPostureChange ==
  /\ At("posture")
  /\ posture' = IF Leaf.to \in 1..3 THEN Leaf.to ELSE Moving
  /\ Advance
  /\ UNCHANGED <<bbVars, ph, at, failed, run, navVars, spin, sent, omega>>

\* Every SpinOrNot node publishes only when the value differs from the one this
\* node published last.
PublishSpin(node) ==
  LET out == IF flag.spin_cmd # 0 THEN 1 ELSE 0
  IN IF sent[node] = out
     THEN UNCHANGED <<spin, sent>>
     ELSE spin' = out /\ sent' = [sent EXCEPT ![node] = out]

TickSpinOrNot ==
  /\ At("spin")
  /\ PublishSpin(<<cur.br, cur.ix>>)
  /\ Advance
  /\ UNCHANGED <<bbVars, ph, at, failed, run, navVars, posture, omega>>

\* The SpinOrNot that ends the root's sequence, and the tick.
RootSpin ==
  /\ pc = "spin"
  /\ PublishSpin(<<"root", 0>>)
  /\ pc' = "idle"
  /\ UNCHANGED <<bbVars, after, ph, at, failed, cur, run, navVars, posture, omega>>

\* Nav2Pose::onStart: the goal is sent and the node is spun until the reply.
NavSend ==
  /\ At("nav") /\ Fresh
  /\ pc' = "send"
  /\ UNCHANGED <<bbVars, after, ph, at, failed, cur, run, navVars, outVars>>

\* A goal the server accepts preempts the one it had, whose client will read
\* "aborted" from its handle.
Superseded(c) == IF c.br = active.by THEN [c EXCEPT !.st = "aborted"] ELSE c
Depart(to) == place' = IF place = to THEN place ELSE "away"

NavAccepted ==
  /\ pc = "send"
  /\ Running("executing", Superseded(run))
  /\ active' = [pose |-> Leaf.pose, by |-> cur.br]
  /\ Depart(Leaf.pose)
  /\ UNCHANGED <<bbVars, ph, at, failed, late, outVars>>

\* The server is not there within 5 s, or it rejects the goal.
NavRefused ==
  /\ pc = "send" /\ "refuse" \in Faults
  /\ Fail
  /\ UNCHANGED <<bbVars, ph, at, run, navVars, outVars>>

\* Mutant of NavTimedOut: the leaf goes on waiting for the goal it has no handle of.
NavTimedOutWaits ==
  /\ pc = "send" /\ "timeout" \in Faults
  /\ Running("executing", run)
  /\ late' = late \cup {Leaf.pose}
  /\ UNCHANGED <<bbVars, ph, at, failed, active, place, outVars>>

\* No reply within send_goal_timeout: the leaf fails without withdrawing the goal.
NavTimedOut ==
  /\ pc = "send" /\ "timeout" \in Faults
  /\ Fail
  /\ late' = late \cup {Leaf.pose}
  /\ UNCHANGED <<bbVars, ph, at, run, active, place, outVars>>

\* Mutant of NavRunning: success before the robot has arrived.
NavRunningEager ==
  /\ At("nav") /\ ~Fresh
  /\ Advance
  /\ UNCHANGED <<bbVars, ph, at, failed, run, navVars, outVars>>

\* Nav2Pose::onRunning (the goal of these trees is a literal: never resent).
NavRunning ==
  /\ At("nav") /\ ~Fresh
  /\ \/ cur.st = "succeeded" /\ Advance /\ UNCHANGED <<failed, run>>
     \/ cur.st = "aborted" /\ Fail /\ UNCHANGED run
     \/ cur.st = "executing" /\ Running(cur.st, run) /\ UNCHANGED failed
  /\ UNCHANGED <<bbVars, ph, at, navVars, outVars>>

\* AlignChassis::onStart publishes nothing; onRunning turns until the heading
\* error is small, and fails when the chassis transform is missing.
AlignStart ==
  /\ At("align") /\ Fresh
  /\ Running("executing", run)
  /\ UNCHANGED <<bbVars, ph, at, failed, navVars, outVars>>

AlignRunning ==
  /\ At("align") /\ ~Fresh
  /\ \/ Running("executing", run) /\ omega' = TRUE /\ UNCHANGED failed
     \/ "tf" \in Faults /\ Fail /\ UNCHANGED <<run, omega>>
  /\ UNCHANGED <<bbVars, ph, at, navVars, posture, spin, sent>>

Aligned ==
  /\ At("align") /\ ~Fresh
  /\ Advance
  /\ omega' = FALSE
  /\ UNCHANGED <<bbVars, ph, at, failed, run, navVars, posture, spin, sent>>

SleepStart ==
  /\ At("sleep") /\ Fresh
  /\ Running("executing", run)
  /\ UNCHANGED <<bbVars, ph, at, failed, navVars, outVars>>

SleepRunning ==
  /\ At("sleep") /\ ~Fresh
  /\ IF cur.st = "succeeded" THEN Advance /\ UNCHANGED run ELSE Running(cur.st, run)
  /\ UNCHANGED <<bbVars, ph, at, failed, navVars, outVars>>

\* Mutant of Halt: Nav2Pose does not cancel its goal.
HaltKeepsGoal ==
  /\ pc = "halt"
  /\ omega' = IF RunningLeaf.kind = "align" THEN FALSE ELSE omega
  /\ IF after = "settle" THEN run' = cur /\ cur' = NoBranch /\ pc' = "idle"
                         ELSE run' = NoBranch /\ pc' = after /\ UNCHANGED cur
  /\ UNCHANGED <<bbVars, after, ph, at, failed, navVars, posture, spin, sent>>

\* halt() of the running branch: Nav2Pose cancels its goal and waits for the
\* answer, AlignChassis publishes zero, Sleep drops its timer.
Halt ==
  /\ pc = "halt"
  /\ active' = IF RunningLeaf.kind = "nav" /\ active.by = run.br THEN NoGoal ELSE active
  /\ omega' = IF RunningLeaf.kind = "align" THEN FALSE ELSE omega
  /\ IF after = "settle" THEN run' = cur /\ cur' = NoBranch /\ pc' = "idle"
                         ELSE run' = NoBranch /\ pc' = after /\ UNCHANGED cur
  /\ UNCHANGED <<bbVars, after, ph, at, failed, late, place, posture, spin, sent>>

-------------------------------------------------------------------------------
(* What happens while the node is spun: between ticks (spin_some), and      *)
(* while a Nav2Pose leaf waits for a goal or a cancel reply.                *)

Spinning ==
  \/ pc \in {"idle", "send"}
  \/ pc = "halt" /\ RunningLeaf.kind = "nav"

\* Topics2Blackboard::game_state_callback_
GameState(r) ==
  /\ Spinning
  /\ ref' = r
  /\ UNCHANGED <<flag, ctlVars, cur, run, navVars, outVars>>

Resolve(outcome) ==
  /\ cur' = IF cur.br = active.by THEN [cur EXCEPT !.st = outcome] ELSE cur
  /\ run' = IF run.br = active.by THEN [run EXCEPT !.st = outcome] ELSE run

\* The server ends its goal.
GoalReached ==
  /\ Spinning /\ active # NoGoal
  /\ Resolve("succeeded")
  /\ active' = NoGoal
  /\ place' = active.pose
  /\ UNCHANGED <<bbVars, ctlVars, late, outVars>>

GoalAborted ==
  /\ Spinning /\ active # NoGoal /\ "abort" \in Faults
  /\ Resolve("aborted")
  /\ active' = NoGoal
  /\ UNCHANGED <<bbVars, ctlVars, late, place, outVars>>

\* A request that timed out at the client is still served, or was lost.
LateAccept(p) ==
  /\ Spinning /\ p \in late
  /\ Resolve("aborted")
  /\ active' = [pose |-> p, by |-> "lost"]
  /\ late' = late \ {p}
  /\ Depart(p)
  /\ UNCHANGED <<bbVars, ctlVars, outVars>>

LateDrop(p) ==
  /\ Spinning /\ p \in late
  /\ late' = late \ {p}
  /\ UNCHANGED <<bbVars, ctlVars, cur, run, active, place, outVars>>

SleepExpired ==
  /\ pc = "idle" /\ run.live /\ RunningLeaf.kind = "sleep" /\ run.st = "executing"
  /\ run' = [run EXCEPT !.st = "succeeded"]
  /\ UNCHANGED <<bbVars, ctlVars, cur, navVars, outVars>>

Tick ==
  \/ BeginTick \/ TryPhase \/ Select \/ RootSpin \/ Halt
  \/ TickScript \/ TickPostureChange \/ TickSpinOrNot
  \/ NavSend \/ NavAccepted \/ NavRefused \/ NavTimedOut \/ NavRunning
  \/ AlignStart \/ AlignRunning \/ Aligned \/ SleepStart \/ SleepRunning

Environment ==
  \/ \E r \in Reports : GameState(r)
  \/ GoalReached \/ GoalAborted
  \/ \E p \in Poses : LateAccept(p) \/ LateDrop(p)
  \/ SleepExpired

Next == Tick \/ Environment

Spec == Init /\ [][Next]_vars

\* The loop keeps ticking and the server answers every request; a goal that the
\* tree keeps asking for is reached, and a chassis that keeps turning aligns.
Fairness ==
  /\ WF_vars(Tick)
  /\ SF_vars(GoalReached) /\ SF_vars(Aligned) /\ SF_vars(SleepExpired)

FairSpec == Spec /\ Fairness

-------------------------------------------------------------------------------
(* Properties of every tree.                                               *)

SlotStates == {"none", "executing", "succeeded", "aborted"}
Slots == [br : Branches \cup {"none"}, ix : Nat, live : BOOLEAN, st : SlotStates]
GoodSlot(c) ==
  /\ c \in Slots
  /\ c # NoBranch => c.br \in Branches /\ c.ix \in DOMAIN Steps[c.br]

TypeOK ==
  /\ pc \in {"idle", "phase", "select", "leaf", "send", "halt", "spin"}
  /\ after \in {"phase", "select", "spin", "settle"}
  /\ ph \in Nat /\ at \in Nat
  /\ failed \in BOOLEAN
  /\ GoodSlot(cur) /\ GoodSlot(run)
  /\ active \in [pose : Poses, by : Branches \cup {"lost"}] \cup {NoGoal}
  /\ late \subseteq Poses
  /\ place \in Poses \cup {"away"}
  /\ posture \in 1..3
  /\ spin \in 0..2
  /\ sent \in [SpinNodes -> 0..2]
  /\ omega \in BOOLEAN

Tracks(c) ==
  /\ c.br = active.by /\ c.live /\ c.st = "executing"
  /\ Steps[c.br][c.ix].kind = "nav" /\ Steps[c.br][c.ix].pose = active.pose

\* The goal the server works on is the one a Nav2Pose leaf of the tree is waiting
\* for, unless it is a goal whose request had timed out: no preemption, halt,
\* abort or late acceptance, in whatever order, leaves the robot driving to a
\* place some other leaf asked for.
GoalTracked == active # NoGoal /\ active.by # "lost" => Tracks(cur) \/ Tracks(run)

\* Between ticks only the one running branch can own the goal: what an earlier
\* branch had asked for has been cancelled or preempted (nav2pose.cpp onHalted).
OneOwnerAtRest == pc = "idle" /\ active # NoGoal => active.by \in {run.br, "lost"}

\* Once a tick finds game_progress other than 4 it leaves the server without a goal
\* (header of the RMUC trees: "game_progress==4 ...": only then is it executed).
NoGoalOutsideMatch == pc = "spin" /\ ref.gp # 4 => active = NoGoal

\* A leaf waiting for its goal has it at the server, or holds its final status:
\* Nav2Pose never waits for a goal nobody works on.
NoForgottenGoal ==
  \A c \in {cur, run} :
    c.live /\ c.st = "executing" /\ Steps[c.br][c.ix].kind = "nav" => active.by = c.br
===============================================================================
