---------------------------- MODULE RmucTreeProofs ----------------------------
(***************************************************************************)
(* What a Sequence of leaves guarantees of the robot, for every tree: when *)
(* the branch has passed a Nav2Pose leaf the robot is where that leaf      *)
(* sent it, and its posture is the one of its last PostureChange.  From    *)
(* this, and from how their branches are written, the promises of the two  *)
(* RMUC trees follow, for every set of referee states: that A heals before *)
(* it attacks again, that B holds where it says, and that B's flags follow *)
(* the robot.                                                              *)
(***************************************************************************)
EXTENDS RmucTreeA, RmucTreeB, ReactiveTreeProofs, SequenceTheorems

-------------------------------------------------------------------------------
(* Every tree: places. *)

Settling == pc = "halt" /\ after = "settle"

IsAt(b, i, kind) == i \in DOMAIN Steps[b] /\ Steps[b][i].kind = kind
PastNav(c) == \E i \in DOMAIN Steps[c.br] : i < c.ix /\ IsAt(c.br, i, "nav")

\* The last Nav2Pose leaf before the current one, which is none itself, named this place.
HasComeTo(c, here) ==
  \A i \in DOMAIN Steps[c.br] :
    i < c.ix /\ IsAt(c.br, i, "nav") /\ (\A j \in i + 1 .. c.ix : ~IsAt(c.br, j, "nav"))
      => here = Steps[c.br][i].pose

\* The current leaf has been told that its goal is reached.
HasArrived(c, here) ==
  c.live /\ c.st = "succeeded" /\ IsAt(c.br, c.ix, "nav") => here = Steps[c.br][c.ix].pose

\* The branch that was RUNNING is as good as gone once another one is being settled for;
\* until then the branch ticked instead of it has sent the robot nowhere.
ArrivalInv ==
  /\ cur.live /\ ~Settling => run = NoBranch
  /\ cur # NoBranch /\ run # NoBranch => ~PastNav(cur)
  /\ Settling /\ IsAt(cur.br, cur.ix, "nav") => active.by # run.br
  /\ cur # NoBranch => HasComeTo(cur, place) /\ HasArrived(cur, place)
  /\ run # NoBranch /\ ~Settling => HasComeTo(run, place) /\ HasArrived(run, place)

\* What depends on branch and position only.
LEMMA SamePosition ==
  ASSUME NEW c, NEW d, d.br = c.br, d.ix = c.ix, NEW here
  PROVE  /\ PastNav(d) <=> PastNav(c)
         /\ HasComeTo(d, here) <=> HasComeTo(c, here)
BY DEF PastNav, HasComeTo

\* The positions of a Sequence are the numbers from 1 to its length.
LEMMA Positions ==
  ASSUME NEW c, GoodSlot(c), c # NoBranch
  PROVE  /\ c.ix \in Nat \ {0} /\ c.ix \in DOMAIN Steps[c.br]
         /\ \A i \in DOMAIN Steps[c.br] : i \in Nat \ {0}
         /\ DOMAIN Steps[c.br] = 1 .. Len(Steps[c.br]) /\ Len(Steps[c.br]) \in Nat
BY TreeAssumption DEF GoodSlot, Slots, Branches

\* At a Nav2Pose leaf nothing is promised of the place, and at the first leaf neither.
LEMMA NothingPromised ==
  ASSUME NEW c, GoodSlot(c), c # NoBranch, NEW here,
         IsAt(c.br, c.ix, "nav") \/ ~PastNav(c)
  PROVE  HasComeTo(c, here)
<1> SUFFICES ASSUME NEW i \in DOMAIN Steps[c.br], i < c.ix, IsAt(c.br, i, "nav"),
                    \A j \in i + 1 .. c.ix : ~IsAt(c.br, j, "nav")
             PROVE  FALSE
  BY DEF HasComeTo
<1>1. i \in Nat /\ c.ix \in Nat /\ c.ix \in i + 1 .. c.ix
  BY Positions
<1> QED
  BY <1>1 DEF PastNav

\* The step to the next leaf, from a Nav2Pose leaf only when the robot is there.
LEMMA NextPosition ==
  ASSUME NEW c, GoodSlot(c), c # NoBranch, NEW here, HasComeTo(c, here),
         NEW d, d.br = c.br, d.ix = c.ix + 1, d.live = FALSE,
         IsAt(c.br, c.ix, "nav") => here = Steps[c.br][c.ix].pose
  PROVE  /\ HasComeTo(d, here) /\ HasArrived(d, here)
         /\ PastNav(d) => PastNav(c) \/ IsAt(c.br, c.ix, "nav")
<1>0. c.ix \in Nat /\ \A i \in DOMAIN Steps[c.br] : i \in Nat
  BY Positions
<1>1. ASSUME NEW i \in DOMAIN Steps[c.br], i < c.ix + 1, IsAt(c.br, i, "nav"),
             \A j \in i + 1 .. c.ix + 1 : ~IsAt(c.br, j, "nav")
      PROVE  here = Steps[c.br][i].pose
  <2>1. CASE i = c.ix
    BY <1>1, <2>1
  <2>2. CASE i # c.ix
    <3>1. i < c.ix /\ \A j \in i + 1 .. c.ix : j \in i + 1 .. c.ix + 1
      BY <1>0, <1>1, <2>2
    <3> QED
      BY <1>1, <3>1 DEF HasComeTo
  <2> QED
    BY <2>1, <2>2
<1>2. HasComeTo(d, here)
  BY <1>1 DEF HasComeTo
<1>3. HasArrived(d, here)
  BY DEF HasArrived
<1>4. ASSUME NEW i \in DOMAIN Steps[c.br], i < c.ix + 1, IsAt(c.br, i, "nav"),
             ~IsAt(c.br, c.ix, "nav")
      PROVE  PastNav(c)
  <2>1. i < c.ix
    BY <1>0, <1>4
  <2> QED
    BY <1>4, <2>1 DEF PastNav
<1> QED
  BY <1>2, <1>3, <1>4 DEF PastNav

\* What a step leaves in a slot when it only writes the slot's status.
LEMMA SlotAfterStatus ==
  ASSUME NEW c, GoodSlot(c), NEW st \in SlotStates, NEW owner, owner # "none",
         NEW d, d = IF c.br = owner THEN [c EXCEPT !.st = st] ELSE c
  PROVE  /\ d.br = c.br /\ d.ix = c.ix /\ d.live = c.live /\ GoodSlot(d)
         /\ d = NoBranch <=> c = NoBranch
         /\ d.st = IF c.br = owner THEN st ELSE c.st
<1>1. CASE c.br = owner
  <2>1. c # NoBranch
    BY <1>1, NoBranchGood
  <2> QED
    BY <1>1, <2>1, StatusKeepsSlot
<1>2. CASE c.br # owner
  BY <1>2
<1> QED
  BY <1>1, <1>2

\* How the ways in which a leaf ends carry ArrivalInv on: success, failure, RUNNING, an accepted
\* goal, a branch selected anew, an aborted goal.
LEMMA AdvanceArrival ==
  ASSUME IInv, ArrivalInv, pc = "leaf", Advance, run' = run, place' = place,
         IsAt(cur.br, cur.ix, "nav") => cur.live /\ cur.st = "succeeded"
  PROVE  ArrivalInv'
<1>1. cur # NoBranch /\ GoodSlot(cur) /\ ~Settling
  BY DEF IInv, Shape, TypeOK, Settling
<1>2. CASE cur.ix < Len(Steps[cur.br])
  <2>1. /\ cur' = [br |-> cur.br, ix |-> cur.ix + 1, live |-> FALSE, st |-> "none"]
        /\ pc' = "leaf"
    BY <1>2 DEF Advance
  <2>2. cur'.br = cur.br /\ cur'.ix = cur.ix + 1 /\ cur'.live = FALSE
    BY <2>1
  <2>3. HasComeTo(cur, place) /\ (IsAt(cur.br, cur.ix, "nav") => place = Steps[cur.br][cur.ix].pose)
    BY <1>1 DEF ArrivalInv, HasArrived
  <2>4. /\ HasComeTo(cur', place) /\ HasArrived(cur', place)
        /\ PastNav(cur') => PastNav(cur) \/ IsAt(cur.br, cur.ix, "nav")
    BY <1>1, <2>2, <2>3, NextPosition
  <2>5. run # NoBranch => ~PastNav(cur')
    BY <1>1, <2>4 DEF ArrivalInv
  <2>6. ~Settling'
    BY <2>1 DEF Settling
  <2> QED
    BY <1>1, <2>2, <2>4, <2>5, <2>6 DEF ArrivalInv
<1>3. CASE ~(cur.ix < Len(Steps[cur.br]))
  <2>1. cur' = NoBranch /\ ~Settling'
    BY <1>1, <1>3 DEF Advance, Settling
  <2> QED
    BY <1>1, <2>1, NoBranchGood DEF ArrivalInv
<1> QED
  BY <1>2, <1>3

LEMMA FailArrival ==
  ASSUME IInv, ArrivalInv, pc \in {"leaf", "send"}, Fail, run' = run, place' = place
  PROVE  ArrivalInv'
<1>1. cur' = NoBranch /\ ~Settling /\ ~Settling'
  BY DEF Fail, Settling
<1> QED
  BY <1>1, NoBranchGood DEF ArrivalInv

LEMMA RunningArrival ==
  ASSUME IInv, ArrivalInv, pc = "leaf", NEW st \in SlotStates, Running(st, run), place' = place,
         IsAt(cur.br, cur.ix, "nav") => cur.live /\ st # "succeeded"
  PROVE  ArrivalInv'
<1> DEFINE c == [cur EXCEPT !.live = TRUE, !.st = st]
<1>1. cur # NoBranch /\ GoodSlot(cur) /\ ~Settling
  BY DEF IInv, Shape, TypeOK, Settling
<1>2. c.br = cur.br /\ c.ix = cur.ix /\ c.live /\ c.st = st
  BY <1>1 DEF GoodSlot, Slots
<1>3. HasComeTo(c, place) /\ HasArrived(c, place) /\ (PastNav(c) <=> PastNav(cur))
  BY <1>1, <1>2, SamePosition DEF ArrivalInv, HasArrived
<1>4. CASE run = NoBranch
  <2>1. run' = c /\ cur' = NoBranch /\ pc' = "idle"
    BY <1>4 DEF Running
  <2> HIDE DEF c
  <2> QED
    BY <1>2, <1>3, <2>1, NoBranchGood DEF ArrivalInv, Settling
<1>5. CASE run # NoBranch
  <2>1. run' = run /\ cur' = c /\ Settling'
    BY <1>5 DEF Running, Settling
  <2> HIDE DEF c
  <2>2. ~PastNav(cur) /\ ~IsAt(cur.br, cur.ix, "nav")
    BY <1>1, <1>5 DEF ArrivalInv
  <2> QED
    BY <1>2, <1>3, <2>1, <2>2 DEF ArrivalInv
<1> QED
  BY <1>4, <1>5

\* A new goal moves the robot only once it is reached.
LEMMA AcceptedArrival ==
  ASSUME IInv, ArrivalInv, NavAccepted
  PROVE  ArrivalInv'
<1> DEFINE c == [cur EXCEPT !.live = TRUE, !.st = "executing"]
<1>1. /\ cur # NoBranch /\ GoodSlot(cur) /\ ~Settling /\ cur.br # run.br
      /\ IsAt(cur.br, cur.ix, "nav") /\ GoodSlot(run)
  BY LeafOfSlot DEF IInv, Shape, TypeOK, Settling, NavAccepted, IsAt, Leaf
<1>2. c.br = cur.br /\ c.ix = cur.ix /\ c.live /\ c.st = "executing" /\ c # NoBranch /\ GoodSlot(c)
  BY <1>1, NoBranchGood DEF GoodSlot, Slots, SlotStates
<1>3. HasComeTo(c, place') /\ HasArrived(c, place') /\ (PastNav(c) <=> PastNav(cur))
  BY <1>1, <1>2, SamePosition, NothingPromised DEF HasArrived
<1>4. Superseded(run).br = run.br /\ (Superseded(run) = NoBranch <=> run = NoBranch)
  <2>1. active.by # "none" /\ "aborted" \in SlotStates
    BY OwnerIsBranch DEF IInv, SlotStates
  <2>2. Superseded(run) = IF run.br = active.by THEN [run EXCEPT !.st = "aborted"] ELSE run
    BY DEF Superseded
  <2> QED
    BY <1>1, <2>1, <2>2, SlotAfterStatus
<1>5. CASE run = NoBranch
  <2>1. run' = c /\ cur' = NoBranch /\ pc' = "idle"
    BY <1>4, <1>5 DEF NavAccepted, Running
  <2> HIDE DEF c
  <2> QED
    BY <1>2, <1>3, <2>1, NoBranchGood DEF ArrivalInv, Settling
<1>6. CASE run # NoBranch
  <2>1. run' = Superseded(run) /\ cur' = c /\ Settling' /\ active'.by = cur.br
    BY <1>4, <1>6 DEF NavAccepted, Running, Settling
  <2> HIDE DEF c
  <2>2. ~PastNav(cur)
    BY <1>1, <1>6 DEF ArrivalInv
  <2> QED
    BY <1>1, <1>2, <1>3, <1>4, <2>1, <2>2 DEF ArrivalInv
<1> QED
  BY <1>5, <1>6

\* A branch selected anew starts at its first leaf and owes nothing yet.
LEMMA SelectArrival ==
  ASSUME IInv, ArrivalInv, Select
  PROVE  ArrivalInv'
<1>1. cur = NoBranch /\ ~Settling /\ ~Settling' /\ place' = place /\ GoodSlot(run)
  BY DEF IInv, Shape, TypeOK, Settling, Select, navVars
<1>2. CASE UNCHANGED <<cur, run>>
  BY <1>1, <1>2 DEF ArrivalInv
<1>3. CASE cur' = run /\ run' = NoBranch
  BY <1>1, <1>3 DEF ArrivalInv
<1>4. ASSUME NEW b \in Branches, run' = run,
             cur' = [br |-> b, ix |-> 1, live |-> FALSE, st |-> "none"]
      PROVE  ArrivalInv'
  <2>1. GoodSlot(cur') /\ cur'.live = FALSE /\ cur'.ix = 1 /\ cur'.br = b
    BY <1>4, TreeAssumption DEF GoodSlot, Slots, SlotStates, Branches
  <2>2. ~PastNav(cur')
    BY <2>1, TreeAssumption DEF PastNav, Branches
  <2>3. cur' # NoBranch
    BY <2>1, TreeAssumption, NoBranchGood
  <2>4. HasComeTo(cur', place) /\ HasArrived(cur', place)
    BY <2>1, <2>2, <2>3, NothingPromised DEF HasArrived
  <2> QED
    BY <1>1, <1>4, <2>1, <2>2, <2>4 DEF ArrivalInv
<1>5. \A i \in DOMAIN Phases[ph] : Phases[ph][i] \in Branches
  BY TreeAssumption DEF IInv, Shape, Select
<1> QED
  BY <1>2, <1>3, <1>4, <1>5 DEF Select

\* The robot arrives: at the goal of the leaf being ticked, then the other branch is
\* being settled for it; or at the goal of the other branch, then the leaf being ticked
\* has asked for nothing yet.
LEMMA ReachedArrival ==
  ASSUME IInv, ArrivalInv, active.by # "lost", GoalReached
  PROVE  ArrivalInv'
<1>1. /\ GoodSlot(cur) /\ GoodSlot(run) /\ active.by # "none" /\ "succeeded" \in SlotStates
      /\ Shape /\ NoGoal.by = "nobody" /\ run.br # "nobody"
  BY OwnerIsBranch DEF IInv, TypeOK, SlotStates, NoGoal
<1>2. /\ cur' = IF cur.br = active.by THEN [cur EXCEPT !.st = "succeeded"] ELSE cur
      /\ run' = IF run.br = active.by THEN [run EXCEPT !.st = "succeeded"] ELSE run
      /\ active' = NoGoal /\ place' = active.pose /\ pc' = pc /\ after' = after
  BY DEF GoalReached, Resolve, ctlVars
<1>3. /\ cur'.br = cur.br /\ cur'.ix = cur.ix /\ cur'.live = cur.live /\ GoodSlot(cur')
      /\ cur' = NoBranch <=> cur = NoBranch
      /\ cur'.st = IF cur.br = active.by THEN "succeeded" ELSE cur.st
  BY <1>1, <1>2, SlotAfterStatus
<1>4. /\ run'.br = run.br /\ run'.ix = run.ix /\ run'.live = run.live /\ GoodSlot(run')
      /\ run' = NoBranch <=> run = NoBranch
      /\ run'.st = IF run.br = active.by THEN "succeeded" ELSE run.st
  BY <1>1, <1>2, SlotAfterStatus
<1>5. (PastNav(cur') <=> PastNav(cur)) /\ (Settling' <=> Settling) /\ active'.by # run'.br
  BY <1>1, <1>2, <1>3, <1>4, SamePosition DEF Settling
<1>6. CASE Tracks(cur)
  <2>1. /\ cur # NoBranch /\ IsAt(cur'.br, cur'.ix, "nav") /\ place' = Steps[cur'.br][cur'.ix].pose
    BY <1>1, <1>2, <1>3, <1>6, LeafOfSlot, NoBranchGood DEF Tracks, IsAt
  <2>2. HasComeTo(cur', place') /\ HasArrived(cur', place')
    BY <1>3, <2>1, NothingPromised DEF HasArrived
  <2>3. run # NoBranch => Settling
    BY <1>6 DEF ArrivalInv, Tracks
  <2> QED
    BY <1>3, <1>4, <1>5, <2>1, <2>2, <2>3 DEF ArrivalInv
<1>7. CASE Tracks(run)
  <2>1. /\ run # NoBranch /\ IsAt(run'.br, run'.ix, "nav") /\ place' = Steps[run'.br][run'.ix].pose
    BY <1>1, <1>2, <1>4, <1>7, LeafOfSlot, NoBranchGood DEF Tracks, IsAt
  <2>2. HasComeTo(run', place') /\ HasArrived(run', place')
    BY <1>4, <2>1, NothingPromised DEF HasArrived
  <2>3. cur # NoBranch => HasComeTo(cur', place')
    BY <1>3, <1>5, <2>1, NothingPromised DEF ArrivalInv
  <2>4. cur # NoBranch => HasArrived(cur', place')
    BY <1>3, <1>7, <2>1 DEF ArrivalInv, HasArrived, Tracks
  <2> QED
    BY <1>3, <1>4, <1>5, <2>1, <2>2, <2>3, <2>4 DEF ArrivalInv
<1> QED
  BY <1>6, <1>7 DEF IInv, GoalTracked, GoalReached

\* A goal that is aborted leaves the robot where it is.
LEMMA AbortedArrival ==
  ASSUME IInv, ArrivalInv, GoalAborted
  PROVE  ArrivalInv'
<1>1. /\ GoodSlot(cur) /\ GoodSlot(run) /\ active.by # "none" /\ "aborted" \in SlotStates
      /\ NoGoal.by = "nobody" /\ run.br # "nobody"
  BY OwnerIsBranch DEF IInv, TypeOK, SlotStates, NoGoal
<1>2. /\ cur' = IF cur.br = active.by THEN [cur EXCEPT !.st = "aborted"] ELSE cur
      /\ run' = IF run.br = active.by THEN [run EXCEPT !.st = "aborted"] ELSE run
      /\ active' = NoGoal /\ place' = place /\ pc' = pc /\ after' = after
  BY DEF GoalAborted, Resolve, ctlVars
<1>3. /\ cur'.br = cur.br /\ cur'.ix = cur.ix /\ cur'.live = cur.live
      /\ cur' = NoBranch <=> cur = NoBranch
      /\ cur'.st \in {"aborted", cur.st}
  BY <1>1, <1>2, SlotAfterStatus
<1>4. /\ run'.br = run.br /\ run'.ix = run.ix /\ run'.live = run.live
      /\ run' = NoBranch <=> run = NoBranch
      /\ run'.st \in {"aborted", run.st}
  BY <1>1, <1>2, SlotAfterStatus
<1>5. /\ (PastNav(cur') <=> PastNav(cur)) /\ (Settling' <=> Settling) /\ active'.by # run'.br
      /\ HasComeTo(cur', place) <=> HasComeTo(cur, place)
      /\ HasComeTo(run', place) <=> HasComeTo(run, place)
  BY <1>1, <1>2, <1>3, <1>4, SamePosition DEF Settling
<1>6. /\ HasArrived(cur, place) => HasArrived(cur', place)
      /\ HasArrived(run, place) => HasArrived(run', place)
  BY <1>3, <1>4 DEF HasArrived
<1> QED
  BY <1>2, <1>3, <1>4, <1>5, <1>6 DEF ArrivalInv

\* The inductive invariant of the places, for every tree and with every fault but a
\* timed-out goal request.
LEMMA ArrivalKept ==
  "timeout" \notin Faults /\ IInv /\ NothingLost /\ ArrivalInv /\ [Next]_vars => ArrivalInv'
<1> SUFFICES ASSUME "timeout" \notin Faults, IInv, NothingLost, ArrivalInv, [Next]_vars
             PROVE  ArrivalInv'
  OBVIOUS
<1>t. TypeOK /\ Shape
  BY DEF IInv
<1>s. SlotStates = {"none", "executing", "succeeded", "aborted"}
  BY DEF SlotStates
<1>k. \A kind \in LeafKinds \ {"nav"} : At(kind) => ~IsAt(cur.br, cur.ix, "nav") /\ pc = "leaf"
  BY DEF At, IsAt, Leaf, LeafKinds
<1>0. ASSUME UNCHANGED <<cur, run, active, place>>, Settling' => FALSE,
             ~Settling
      PROVE  ArrivalInv'
  BY <1>0 DEF ArrivalInv
<1>u. ASSUME UNCHANGED <<cur, run, active, place, pc, after>> PROVE ArrivalInv'
  BY <1>u DEF ArrivalInv, Settling
<1>1. CASE BeginTick \/ TryPhase \/ RootSpin \/ NavSend
  BY <1>0, <1>1 DEF BeginTick, TryPhase, RootSpin, NavSend, At, Settling, navVars
<1>2. CASE Select
  BY <1>2, SelectArrival
<1>3. CASE Halt
  <2>1. place' = place /\ ~Settling'
    BY <1>t, <1>3 DEF Halt, Settling, TypeOK
  <2>2. CASE after = "settle"
    BY <1>t, <1>3, <2>1, <2>2, NoBranchGood DEF Halt, ArrivalInv, Shape
  <2>3. CASE after # "settle"
    BY <1>t, <1>3, <2>1, <2>3, NoBranchGood DEF Halt, ArrivalInv, Shape
  <2> QED
    BY <2>2, <2>3
<1>4. CASE TickScript \/ TickPostureChange \/ TickSpinOrNot \/ Aligned
  BY <1>k, <1>4, AdvanceArrival
  DEF TickScript, TickPostureChange, TickSpinOrNot, Aligned, navVars, LeafKinds
<1>5. CASE NavAccepted
  BY <1>5, AcceptedArrival
<1>6. CASE NavRefused
  BY <1>6, FailArrival DEF NavRefused, navVars
<1>7. CASE NavRunning
  <2>1. pc = "leaf" /\ cur.live /\ place' = place
    BY <1>7 DEF NavRunning, At, Fresh, navVars
  <2>2. CASE cur.st = "succeeded" /\ Advance /\ run' = run
    BY <2>1, <2>2, AdvanceArrival
  <2>3. CASE Fail /\ run' = run
    BY <2>1, <2>3, FailArrival
  <2>4. CASE Running("executing", run)
    BY <1>s, <2>1, <2>4, RunningArrival
  <2> QED
    BY <1>7, <2>2, <2>3, <2>4 DEF NavRunning
<1>8. CASE AlignStart \/ SleepStart
  BY <1>k, <1>s, <1>8, RunningArrival DEF AlignStart, SleepStart, navVars, LeafKinds
<1>9. CASE AlignRunning
  <2>1. ~IsAt(cur.br, cur.ix, "nav") /\ pc = "leaf" /\ place' = place
    BY <1>k, <1>9 DEF AlignRunning, navVars, LeafKinds
  <2> QED
    BY <1>s, <1>9, <2>1, RunningArrival, FailArrival DEF AlignRunning
<1>10. CASE SleepRunning
  <2>1. ~IsAt(cur.br, cur.ix, "nav") /\ pc = "leaf" /\ place' = place /\ cur.st \in SlotStates
    BY <1>k, <1>t, <1>10 DEF SleepRunning, navVars, LeafKinds, TypeOK, GoodSlot, Slots
  <2> QED
    BY <1>10, <2>1, RunningArrival, AdvanceArrival DEF SleepRunning
<1>11. ASSUME NEW r \in Reports, GameState(r) PROVE ArrivalInv'
  BY <1>u, <1>11 DEF GameState, ctlVars, navVars
<1>12. CASE GoalReached
  BY <1>12, ReachedArrival DEF NothingLost
<1>13. CASE GoalAborted
  BY <1>13, AbortedArrival
<1>14. CASE SleepExpired
  <2>1. /\ run # NoBranch /\ GoodSlot(run) /\ run' = [run EXCEPT !.st = "succeeded"]
        /\ UNCHANGED <<cur, active, place, pc, after>> /\ pc = "idle"
        /\ ~IsAt(run.br, run.ix, "nav")
    BY <1>t, <1>14, NoBranchGood
    DEF SleepExpired, TypeOK, ctlVars, navVars, IsAt, RunningLeaf
  <2>2. run'.br = run.br /\ run'.ix = run.ix /\ run' # NoBranch
    BY <1>s, <2>1, StatusKeepsSlot
  <2>3. HasComeTo(run, place) => HasComeTo(run', place)
    BY <2>2, SamePosition
  <2>4. HasArrived(run', place)
    BY <2>1, <2>2 DEF HasArrived
  <2> QED
    BY <1>t, <2>1, <2>2, <2>3, <2>4, NoBranchGood DEF ArrivalInv, Settling, Shape
<1>15. CASE UNCHANGED vars
  BY <1>u, <1>15 DEF vars
<1>16. ~NavTimedOut /\ \A p \in Poses : ~LateAccept(p) /\ ~LateDrop(p)
  BY DEF NavTimedOut, LateAccept, LateDrop, NothingLost
<1> QED
  BY <1>1, <1>2, <1>3, <1>4, <1>5, <1>6, <1>7, <1>8, <1>9, <1>10, <1>11, <1>12, <1>13,
     <1>14, <1>15, <1>16 DEF Next, Tick, Environment

\* For every tree, however goals preempt each other, are aborted or refused: a branch that
\* is past a Nav2Pose leaf finds the robot where that leaf sent it (nav2pose.cpp: success
\* only with the goal's result, a new goal preempts the old one, halting cancels it).
THEOREM ArrivalInvariance ==
  ASSUME "timeout" \notin Faults
  PROVE  Spec => [](IInv /\ NothingLost /\ ArrivalInv)
<1> DEFINE J == IInv /\ NothingLost /\ ArrivalInv
<1>1. Init => J
  BY InitIInv, NoBranchGood DEF Init, NothingLost, NoGoal, ArrivalInv, Settling
<1>2. J /\ [Next]_vars => J'
  <2>1. IInv /\ [Next]_vars => IInv'
    BY TypeCorrect, ShapeKept, MatchedKept DEF IInv, GoalTracked, NoForgottenGoal, Matched, Waits
  <2> QED
    BY <2>1, NothingLostKept, ArrivalKept DEF IInv
<1> QED
  BY <1>1, <1>2, PTL DEF Spec

-------------------------------------------------------------------------------
(* Every tree: postures. *)

\* The posture a PostureChange leaf publishes.
Shown(leaf) == IF leaf.to \in 1..3 THEN leaf.to ELSE Moving

\* The last PostureChange the branch has passed gave this posture.
HasTaken(c, out) ==
  \A i \in DOMAIN Steps[c.br] :
    i < c.ix /\ IsAt(c.br, i, "posture") /\ (\A j \in i + 1 .. c.ix - 1 : ~IsAt(c.br, j, "posture"))
      => out = Shown(Steps[c.br][i])

\* The posture is that of the branch being ticked, or between two of the branch that is
\* RUNNING.
PostureInv ==
  /\ cur # NoBranch => HasTaken(cur, posture)
  /\ cur = NoBranch /\ run # NoBranch /\ pc # "halt" => HasTaken(run, posture)

\* PostureInv through the same ways of ending a leaf.
LEMMA SameTaken ==
  ASSUME NEW c, NEW d, d.br = c.br, d.ix = c.ix, NEW out
  PROVE  HasTaken(d, out) <=> HasTaken(c, out)
BY DEF HasTaken

LEMMA NextTaken ==
  ASSUME NEW c, GoodSlot(c), c # NoBranch, NEW out, HasTaken(c, out),
         NEW d, d.br = c.br, d.ix = c.ix + 1,
         NEW now, now = IF IsAt(c.br, c.ix, "posture") THEN Shown(Steps[c.br][c.ix]) ELSE out
  PROVE  HasTaken(d, now)
<1>0. c.ix \in Nat /\ \A i \in DOMAIN Steps[c.br] : i \in Nat
  BY Positions
<1> SUFFICES ASSUME NEW i \in DOMAIN Steps[c.br], i < d.ix, IsAt(c.br, i, "posture"),
                    \A j \in i + 1 .. d.ix - 1 : ~IsAt(c.br, j, "posture")
             PROVE  now = Shown(Steps[c.br][i])
  BY DEF HasTaken
<1>1. CASE i = c.ix
  BY <1>1
<1>2. CASE i # c.ix
  <2>1. /\ i < c.ix /\ c.ix \in i + 1 .. d.ix - 1
        /\ \A j \in i + 1 .. c.ix - 1 : j \in i + 1 .. d.ix - 1
    BY <1>0, <1>2
  <2> QED
    BY <2>1 DEF HasTaken
<1> QED
  BY <1>1, <1>2

LEMMA AdvanceTaken ==
  ASSUME IInv, PostureInv, pc = "leaf", Advance, run' = run,
         posture' = IF IsAt(cur.br, cur.ix, "posture") THEN Shown(Leaf) ELSE posture
  PROVE  PostureInv'
<1>1. cur # NoBranch /\ GoodSlot(cur)
  BY DEF IInv, Shape, TypeOK
<1>2. CASE cur.ix < Len(Steps[cur.br])
  <2>1. cur' = [br |-> cur.br, ix |-> cur.ix + 1, live |-> FALSE, st |-> "none"]
    BY <1>2 DEF Advance
  <2>2. cur.br # "none" /\ cur'.br = cur.br /\ cur'.ix = cur.ix + 1
    BY <1>1, <2>1, LeafOfSlot
  <2>3. HasTaken(cur', posture')
    BY <1>1, <2>2, NextTaken DEF PostureInv, Leaf
  <2> QED
    BY <2>2, <2>3, NoBranchGood DEF PostureInv
<1>3. CASE ~(cur.ix < Len(Steps[cur.br]))
  BY <1>3 DEF Advance, PostureInv
<1> QED
  BY <1>2, <1>3

LEMMA RunningTaken ==
  ASSUME IInv, PostureInv, pc \in {"leaf", "send"}, NEW st \in SlotStates, NEW r, Running(st, r),
         posture' = posture
  PROVE  PostureInv'
<1> DEFINE c == [cur EXCEPT !.live = TRUE, !.st = st]
<1>1. cur # NoBranch /\ GoodSlot(cur)
  BY DEF IInv, Shape, TypeOK
<1>2. c.br = cur.br /\ c.ix = cur.ix
  BY <1>1 DEF GoodSlot, Slots
<1>3. HasTaken(c, posture)
  BY <1>1, <1>2, SameTaken DEF PostureInv
<1>4. \/ run' = c /\ cur' = NoBranch
      \/ cur' = c /\ pc' = "halt"
  BY DEF Running
<1> HIDE DEF c
<1> QED
  BY <1>3, <1>4 DEF PostureInv

LEMMA SelectTaken ==
  ASSUME IInv, PostureInv, Select
  PROVE  PostureInv'
<1>1. cur = NoBranch /\ pc = "select" /\ posture' = posture
  BY DEF IInv, Shape, Select, outVars
<1>2. CASE UNCHANGED <<cur, run>>
  BY <1>1, <1>2 DEF PostureInv
<1>3. CASE cur' = run /\ run' = NoBranch
  BY <1>1, <1>3 DEF PostureInv
<1>4. ASSUME NEW b \in Branches, cur' = [br |-> b, ix |-> 1, live |-> FALSE, st |-> "none"]
      PROVE  PostureInv'
  <2>1. /\ cur'.br = b /\ cur'.ix = 1 /\ \A i \in DOMAIN Steps[b] : ~(i < 1)
        /\ cur' # NoBranch
    BY <1>4, TreeAssumption, NoBranchGood DEF Branches
  <2> QED
    BY <2>1 DEF PostureInv, HasTaken
<1>5. \A i \in DOMAIN Phases[ph] : Phases[ph][i] \in Branches
  BY TreeAssumption DEF IInv, Shape, Select
<1> QED
  BY <1>2, <1>3, <1>4, <1>5 DEF Select

\* The inductive invariant of the postures.  A goal request that is refused or times out
\* lets a branch fail in its first tick, with the posture it took already published and
\* another branch still RUNNING: with these faults it does not hold.
LEMMA PostureKept ==
  /\ {"timeout", "refuse"} \cap Faults = {}
  /\ IInv /\ ArrivalInv /\ PostureInv /\ [Next]_vars
  => PostureInv'
<1> SUFFICES ASSUME {"timeout", "refuse"} \cap Faults = {}, IInv, ArrivalInv, PostureInv, [Next]_vars
             PROVE  PostureInv'
  OBVIOUS
<1>t. TypeOK /\ Shape
  BY DEF IInv
<1>s. SlotStates = {"none", "executing", "succeeded", "aborted"}
  BY DEF SlotStates
<1>k. \A kind \in LeafKinds \ {"posture"} : At(kind) => ~IsAt(cur.br, cur.ix, "posture") /\ pc = "leaf"
  BY DEF At, IsAt, Leaf, LeafKinds
<1>u. ASSUME UNCHANGED <<cur, run, posture>>, pc \in {"idle", "phase", "spin"} \/ pc' = pc \/ pc = "leaf"
      PROVE  PostureInv'
  BY <1>t, <1>u DEF PostureInv, Shape
<1>1. CASE BeginTick \/ TryPhase \/ RootSpin \/ NavSend
  BY <1>u, <1>1 DEF BeginTick, TryPhase, RootSpin, NavSend, At, outVars
<1>2. CASE Select
  BY <1>2, SelectTaken
<1>3. CASE Halt
  BY <1>t, <1>3 DEF Halt, Shape, PostureInv
<1>4. CASE TickScript \/ TickSpinOrNot \/ Aligned
  BY <1>k, <1>4, AdvanceTaken DEF TickScript, TickSpinOrNot, Aligned, outVars, LeafKinds
<1>5. CASE TickPostureChange
  <2>1. IsAt(cur.br, cur.ix, "posture") /\ posture' = Shown(Leaf)
    BY <1>t, <1>5, LeafOfSlot DEF TickPostureChange, At, IsAt, Leaf, Shown, Shape, TypeOK
  <2> QED
    BY <1>5, <2>1, AdvanceTaken DEF TickPostureChange, At
<1>6. CASE NavAccepted
  BY <1>s, <1>6, RunningTaken DEF NavAccepted, outVars
<1>f. ASSUME Fail, run' = run, cur.live, pc = "leaf" PROVE PostureInv'
  <2>1. run = NoBranch
    BY <1>f DEF ArrivalInv, Settling
  <2> QED
    BY <1>f, <2>1 DEF Fail, PostureInv
<1>7. CASE NavRunning
  <2>1. pc = "leaf" /\ cur.live /\ posture' = posture /\ ~IsAt(cur.br, cur.ix, "posture")
    BY <1>k, <1>7 DEF NavRunning, At, Fresh, outVars, LeafKinds
  <2>2. CASE Advance /\ run' = run
    BY <2>1, <2>2, AdvanceTaken
  <2>3. CASE Fail /\ run' = run
    BY <1>f, <2>1, <2>3
  <2>4. CASE Running("executing", run)
    BY <1>s, <2>1, <2>4, RunningTaken
  <2> QED
    BY <1>7, <2>2, <2>3, <2>4 DEF NavRunning
<1>8. CASE AlignStart \/ SleepStart
  BY <1>k, <1>s, <1>8, RunningTaken DEF AlignStart, SleepStart, outVars, LeafKinds
<1>9. CASE AlignRunning
  <2>1. pc = "leaf" /\ cur.live /\ posture' = posture
    BY <1>9 DEF AlignRunning, At, Fresh
  <2> QED
    BY <1>f, <1>s, <1>9, <2>1, RunningTaken DEF AlignRunning
<1>10. CASE SleepRunning
  <2>1. /\ ~IsAt(cur.br, cur.ix, "posture") /\ pc = "leaf" /\ posture' = posture
        /\ cur.st \in SlotStates
    BY <1>k, <1>t, <1>10 DEF SleepRunning, outVars, LeafKinds, TypeOK, GoodSlot, Slots
  <2> QED
    BY <1>10, <2>1, RunningTaken, AdvanceTaken DEF SleepRunning
<1>11. ASSUME NEW r \in Reports, GameState(r) PROVE PostureInv'
  BY <1>u, <1>11 DEF GameState, ctlVars, outVars
<1>12. ASSUME NEW outcome \in {"succeeded", "aborted"}, Resolve(outcome),
              UNCHANGED <<pc, posture>>
       PROVE  PostureInv'
  <2>1. GoodSlot(cur) /\ GoodSlot(run) /\ active.by # "none" /\ outcome \in SlotStates
    BY <1>t, <1>s, OwnerIsBranch DEF TypeOK
  <2>2. cur'.br = cur.br /\ cur'.ix = cur.ix /\ (cur' = NoBranch <=> cur = NoBranch)
    BY <1>12, <2>1, SlotAfterStatus DEF Resolve
  <2>3. run'.br = run.br /\ run'.ix = run.ix /\ (run' = NoBranch <=> run = NoBranch)
    BY <1>12, <2>1, SlotAfterStatus DEF Resolve
  <2>4. /\ HasTaken(cur', posture) <=> HasTaken(cur, posture)
        /\ HasTaken(run', posture) <=> HasTaken(run, posture)
    BY <2>2, <2>3, SameTaken
  <2> QED
    BY <1>12, <2>2, <2>3, <2>4 DEF PostureInv
<1>13. CASE GoalReached \/ GoalAborted \/ \E p \in Poses : LateAccept(p)
  BY <1>12, <1>13 DEF GoalReached, GoalAborted, LateAccept, ctlVars, outVars
<1>14. CASE SleepExpired
  <2>1. /\ run # NoBranch /\ GoodSlot(run) /\ run' = [run EXCEPT !.st = "succeeded"]
        /\ UNCHANGED <<cur, posture, pc>>
    BY <1>t, <1>14, NoBranchGood DEF SleepExpired, TypeOK, ctlVars, outVars
  <2>2. run'.br = run.br /\ run'.ix = run.ix /\ run' # NoBranch
    BY <1>s, <2>1, StatusKeepsSlot
  <2>3. HasTaken(run', posture) <=> HasTaken(run, posture)
    BY <2>2, SameTaken
  <2> QED
    BY <2>1, <2>2, <2>3 DEF PostureInv
<1>15. CASE UNCHANGED vars \/ \E p \in Poses : LateDrop(p)
  BY <1>u, <1>15 DEF vars, LateDrop, ctlVars, outVars
<1>16. ~NavTimedOut /\ ~NavRefused
  BY DEF NavTimedOut, NavRefused
<1> QED
  BY <1>1, <1>2, <1>3, <1>4, <1>5, <1>6, <1>7, <1>8, <1>9, <1>10, <1>11, <1>13,
     <1>14, <1>15, <1>16 DEF Next, Tick, Environment

-------------------------------------------------------------------------------
(* Every tree: statuses. *)

\* A leaf that is ticked does not find its goal aborted: only the goal of the branch that
\* is about to be halted is preempted.
StatusInv == cur.st # "aborted" /\ (run.st = "aborted" => Settling)

LEMMA StatusKept ==
  {"timeout", "abort"} \cap Faults = {} /\ IInv /\ NothingLost /\ StatusInv /\ [Next]_vars => StatusInv'
<1> SUFFICES ASSUME {"timeout", "abort"} \cap Faults = {}, IInv, NothingLost, StatusInv, [Next]_vars
             PROVE  StatusInv'
  OBVIOUS
<1>t. TypeOK /\ Shape /\ GoodSlot(cur) /\ GoodSlot(run) /\ active.by # "none"
  BY OwnerIsBranch DEF IInv, TypeOK
<1>s. SlotStates = {"none", "executing", "succeeded", "aborted"} /\ NoBranch.st = "none"
  BY DEF SlotStates, NoBranch
<1>u. ASSUME cur' = cur \/ cur' = NoBranch, run' = run, ~Settling PROVE StatusInv'
  BY <1>s, <1>u DEF StatusInv
<1>0. ASSUME UNCHANGED <<cur, run, pc, after>> PROVE StatusInv'
  BY <1>0 DEF StatusInv, Settling
<1>a. ASSUME Advance, run' = run, pc = "leaf" PROVE StatusInv'
  <2>1. cur' = NoBranch \/ cur'.st = "none"
    BY <1>a DEF Advance
  <2> QED
    BY <1>a, <1>s, <2>1 DEF StatusInv, Settling
<1>f. ASSUME Fail, run' = run, pc \in {"leaf", "send"} PROVE StatusInv'
  BY <1>f, <1>u DEF Fail, Settling
<1>r. ASSUME NEW st \in SlotStates \ {"aborted"}, NEW r, Running(st, r), pc = "leaf" \/ pc = "send"
      PROVE  StatusInv'
  <2> DEFINE c == [cur EXCEPT !.live = TRUE, !.st = st]
  <2>1. c.st # "aborted"
    BY <1>t, <1>r DEF GoodSlot, Slots
  <2>2. \/ run' = c /\ cur' = NoBranch
        \/ cur' = c /\ Settling'
    BY <1>r DEF Running, Settling
  <2> HIDE DEF c
  <2> QED
    BY <1>s, <2>1, <2>2 DEF StatusInv
<1>1. CASE BeginTick \/ TryPhase \/ RootSpin \/ NavSend
  BY <1>u, <1>1 DEF BeginTick, TryPhase, RootSpin, NavSend, At, Settling
<1>2. CASE Select
  <2>1. ~Settling /\ pc = "select" /\ cur = NoBranch
    BY <1>t, <1>2 DEF Select, Settling, Shape
  <2>2. \/ UNCHANGED <<cur, run>>
        \/ cur' = run /\ run' = NoBranch
        \/ cur'.st = "none" /\ run' = run
    BY <1>2 DEF Select
  <2> QED
    BY <1>s, <2>1, <2>2 DEF StatusInv
<1>3. CASE Halt
  BY <1>s, <1>t, <1>3 DEF Halt, StatusInv, Shape
<1>4. CASE TickScript \/ TickPostureChange \/ TickSpinOrNot \/ Aligned
  BY <1>a, <1>4 DEF TickScript, TickPostureChange, TickSpinOrNot, Aligned, At
<1>5. CASE NavAccepted
  BY <1>r, <1>s, <1>5 DEF NavAccepted
<1>6. CASE NavRefused
  BY <1>f, <1>6 DEF NavRefused
<1>7. CASE NavRunning
  BY <1>a, <1>f, <1>r, <1>s, <1>7 DEF NavRunning, At
<1>8. CASE AlignStart \/ SleepStart
  BY <1>r, <1>s, <1>8 DEF AlignStart, SleepStart, At
<1>9. CASE AlignRunning
  BY <1>f, <1>r, <1>s, <1>9 DEF AlignRunning, At
<1>10. CASE SleepRunning
  <2>1. cur.st \in SlotStates \ {"aborted"}
    BY <1>t DEF GoodSlot, Slots, StatusInv
  <2> QED
    BY <1>a, <1>r, <1>10, <2>1 DEF SleepRunning, At
<1>11. ASSUME NEW r \in Reports, GameState(r) PROVE StatusInv'
  BY <1>0, <1>11 DEF GameState, ctlVars
<1>12. CASE GoalReached
  <2>1. /\ cur'.st \in {"succeeded", cur.st} /\ run'.st \in {"succeeded", run.st}
        /\ Settling' <=> Settling
    BY <1>s, <1>t, <1>12, SlotAfterStatus DEF GoalReached, Resolve, ctlVars, Settling
  <2> QED
    BY <2>1 DEF StatusInv
<1>13. CASE SleepExpired
  <2>1. /\ run # NoBranch /\ run' = [run EXCEPT !.st = "succeeded"] /\ cur' = cur
    BY <1>t, <1>13, NoBranchGood DEF SleepExpired
  <2>2. run'.st = "succeeded"
    BY <1>s, <1>t, <2>1, StatusKeepsSlot
  <2> QED
    BY <2>1, <2>2 DEF StatusInv
<1>14. CASE UNCHANGED vars
  BY <1>0, <1>14 DEF vars
<1>15. ~NavTimedOut /\ ~GoalAborted /\ \A p \in Poses : ~LateAccept(p) /\ ~LateDrop(p)
  BY DEF NavTimedOut, GoalAborted, LateAccept, LateDrop, NothingLost
<1> QED
  BY <1>1, <1>2, <1>3, <1>4, <1>5, <1>6, <1>7, <1>8, <1>9, <1>10, <1>11, <1>12, <1>13,
     <1>14, <1>15 DEF Next, Tick, Environment

-------------------------------------------------------------------------------
(* RMUC_adaptation_2026_B. *)

\* Its branches are concatenations of these lengths.
LEMMA Concat31 ==
  ASSUME NEW a1, NEW a2, NEW a3, NEW b
  PROVE  <<a1, a2, a3>> \o <<b>> = <<a1, a2, a3, b>>
<1> DEFINE S == {a1, a2, a3, b}
<1> DEFINE s == <<a1, a2, a3>> \o <<b>>
<1> DEFINE t == <<a1, a2, a3, b>>
<1>1. s \in Seq(S) /\ t \in Seq(S) /\ Len(s) = 4 /\ \A i \in 1..4 : s[i] = t[i]
  BY <<a1, a2, a3>> \in Seq(S), <<b>> \in Seq(S)
<1> QED
  BY <1>1, SeqEqual

\* Sequences joined by \o, written out; one lemma per shape of a branch.
LEMMA Concat32 ==
  ASSUME NEW a1, NEW a2, NEW a3, NEW b1, NEW b2
  PROVE  <<a1, a2, a3>> \o <<b1, b2>> = <<a1, a2, a3, b1, b2>>
<1> DEFINE S == {a1, a2, a3, b1, b2}
<1> DEFINE s == <<a1, a2, a3>> \o <<b1, b2>>
<1> DEFINE t == <<a1, a2, a3, b1, b2>>
<1>1. s \in Seq(S) /\ t \in Seq(S) /\ Len(s) = 5 /\ \A i \in 1..5 : s[i] = t[i]
  BY <<a1, a2, a3>> \in Seq(S), <<b1, b2>> \in Seq(S)
<1> QED
  BY <1>1, SeqEqual

LEMMA Concat41 ==
  ASSUME NEW a1, NEW a2, NEW a3, NEW a4, NEW b
  PROVE  <<a1, a2, a3, a4>> \o <<b>> = <<a1, a2, a3, a4, b>>
<1> DEFINE S == {a1, a2, a3, a4, b}
<1> DEFINE s == <<a1, a2, a3, a4>> \o <<b>>
<1> DEFINE t == <<a1, a2, a3, a4, b>>
<1>1. s \in Seq(S) /\ t \in Seq(S) /\ Len(s) = 5 /\ \A i \in 1..5 : s[i] = t[i]
  BY <<a1, a2, a3, a4>> \in Seq(S), <<b>> \in Seq(S)
<1> QED
  BY <1>1, SeqEqual

LEMMA Concat42 ==
  ASSUME NEW a1, NEW a2, NEW a3, NEW a4, NEW b1, NEW b2
  PROVE  <<a1, a2, a3, a4>> \o <<b1, b2>> = <<a1, a2, a3, a4, b1, b2>>
<1> DEFINE S == {a1, a2, a3, a4, b1, b2}
<1> DEFINE s == <<a1, a2, a3, a4>> \o <<b1, b2>>
<1> DEFINE t == <<a1, a2, a3, a4, b1, b2>>
<1>1. s \in Seq(S) /\ t \in Seq(S) /\ Len(s) = 6 /\ \A i \in 1..6 : s[i] = t[i]
  BY <<a1, a2, a3, a4>> \in Seq(S), <<b1, b2>> \in Seq(S)
<1> QED
  BY <1>1, SeqEqual

LEMMA Concat4141 ==
  ASSUME NEW a1, NEW a2, NEW a3, NEW a4, NEW b, NEW c1, NEW c2, NEW c3, NEW c4, NEW d
  PROVE  <<a1, a2, a3, a4>> \o <<b>> \o <<c1, c2, c3, c4>> \o <<d>>
         = <<a1, a2, a3, a4, b, c1, c2, c3, c4, d>>
<1> DEFINE S == {a1, a2, a3, a4, b, c1, c2, c3, c4, d}
<1> DEFINE s == <<a1, a2, a3, a4>> \o <<b>> \o <<c1, c2, c3, c4>> \o <<d>>
<1> DEFINE t == <<a1, a2, a3, a4, b, c1, c2, c3, c4, d>>
<1>1. s \in Seq(S) /\ t \in Seq(S) /\ Len(s) = 10 /\ \A i \in 1..10 : s[i] = t[i]
  BY <<a1, a2, a3, a4>> \in Seq(S), <<b>> \in Seq(S), <<c1, c2, c3, c4>> \in Seq(S),
     <<d>> \in Seq(S)
<1> QED
  BY <1>1, SeqEqual

LEMMA Concat541 ==
  ASSUME NEW a1, NEW a2, NEW a3, NEW a4, NEW a5, NEW b1, NEW b2, NEW b3, NEW b4, NEW c
  PROVE  <<a1, a2, a3, a4, a5>> \o <<b1, b2, b3, b4>> \o <<c>>
         = <<a1, a2, a3, a4, a5, b1, b2, b3, b4, c>>
<1> DEFINE S == {a1, a2, a3, a4, a5, b1, b2, b3, b4, c}
<1> DEFINE s == <<a1, a2, a3, a4, a5>> \o <<b1, b2, b3, b4>> \o <<c>>
<1> DEFINE t == <<a1, a2, a3, a4, a5, b1, b2, b3, b4, c>>
<1>1. s \in Seq(S) /\ t \in Seq(S) /\ Len(s) = 10 /\ \A i \in 1..10 : s[i] = t[i]
  BY <<a1, a2, a3, a4, a5>> \in Seq(S), <<b1, b2, b3, b4>> \in Seq(S), <<c>> \in Seq(S)
<1> QED
  BY <1>1, SeqEqual

LEMMA Concat13441 ==
  ASSUME NEW a, NEW b1, NEW b2, NEW b3, NEW c1, NEW c2, NEW c3, NEW c4, NEW d1, NEW d2,
         NEW d3, NEW d4, NEW e
  PROVE  <<a>> \o <<b1, b2, b3>> \o <<c1, c2, c3, c4>> \o <<d1, d2, d3, d4>> \o <<e>>
         = <<a, b1, b2, b3, c1, c2, c3, c4, d1, d2, d3, d4, e>>
<1> DEFINE S == {a, b1, b2, b3, c1, c2, c3, c4, d1, d2, d3, d4, e}
<1> DEFINE s == <<a>> \o <<b1, b2, b3>> \o <<c1, c2, c3, c4>> \o <<d1, d2, d3, d4>> \o <<e>>
<1> DEFINE t == <<a, b1, b2, b3, c1, c2, c3, c4, d1, d2, d3, d4, e>>
<1>1. s \in Seq(S) /\ t \in Seq(S) /\ Len(s) = 13 /\ \A i \in 1..13 : s[i] = t[i]
  BY <<a>> \in Seq(S), <<b1, b2, b3>> \in Seq(S), <<c1, c2, c3, c4>> \in Seq(S), <<d1, d2, d3,
     d4>> \in Seq(S), <<e>> \in Seq(S)
<1> QED
  BY <1>1, SeqEqual

\* At leaf i of the branch s the last Nav2Pose leaf passed names the point; the last
\* PostureChange passed is this one.
CameTo(s, i, point) ==
  \E n \in DOMAIN s : /\ n < i /\ s[n].kind = "nav" /\ s[n].pose = point
                      /\ \A j \in n + 1 .. i : j \in DOMAIN s => s[j].kind # "nav"
Took(s, i, to) ==
  \E n \in DOMAIN s : /\ n < i /\ s[n].kind = "posture" /\ s[n].to = to
                      /\ \A j \in n + 1 .. i - 1 : j \in DOMAIN s => s[j].kind # "posture"

\* How the branches of the tree are written: a Sleep follows the drive to the point held and
\* the attack posture, and the Scripts write the flags of FlagsFollowRobot at their points.
HoldsWell(s, point) ==
  \A i \in DOMAIN s : s[i].kind = "sleep" => CameTo(s, i, point) /\ Took(s, i, Attack)
Marks(s, i, name) == s[i].kind = "script" /\ name \in DOMAIN s[i].set
MarksWell(s) ==
  \A i \in DOMAIN s :
    /\ Marks(s, i, "final_supply_done") => CameTo(s, i, "supply")
    /\ Marks(s, i, "align_done_b") => CameTo(s, i, "bump_home")
    /\ Marks(s, i, "bump_crossed_b") => CameTo(s, i, "bump_hg")
    /\ Marks(s, i, "first_hg1_done") => CameTo(s, i, "hg1")
    /\ Marks(s, i, "return_to_supply") =>
         \/ s[i].set["return_to_supply"] = TRUE /\ CameTo(s, i, "supply")
         \/ s[i].set["return_to_supply"] = FALSE /\ CameTo(s, i, "hg1")
    /\ Marks(s, i, "need_resupply") =>
         \/ s[i].set["need_resupply"] = TRUE
         \/ CameTo(s, i, "supply")

\* The legs of the patrol, whose three points differ.
LEMMA LegWritten ==
  ASSUME NEW side, NEW to
  PROVE  HoldsWell(PatrolSteps(side, to), to) /\ MarksWell(PatrolSteps(side, to))
<1> DEFINE s == PatrolSteps(side, to)
<1>1. s = << Script([patrol_leg_active |-> TRUE, spin_cmd |-> 0]), SpinOrNot,
             PostureChange(Moving), Nav2Pose(to),
             Script([hg_holding |-> TRUE, hg_patrol_idx |-> side, hg_patrol_arrived |-> TRUE]),
             Script([spin_cmd |-> 1]), SpinOrNot, PostureChange(Attack), Sleep,
             Script([patrol_leg_active |-> FALSE, hg_holding |-> FALSE,
                     hg_patrol_idx |-> 1 - side, hg_patrol_arrived |-> FALSE]) >>
  BY Concat541 DEF PatrolSteps, HoldHere
<1>2. /\ DOMAIN s = 1..10
      /\ s[4].kind = "nav" /\ s[4].pose = to
      /\ s[8].kind = "posture" /\ s[8].to = Attack
      /\ \A i \in 1..10 : i # 9 => s[i].kind # "sleep"
      /\ \A i \in 1..10 : i # 4 => s[i].kind # "nav"
      /\ s[9].kind # "posture"
  BY <1>1 DEF Script, SpinOrNot, PostureChange, Nav2Pose, Sleep
<1>3. \A i \in 1..10 : s[i].kind = "script" =>
        DOMAIN s[i].set \subseteq {"patrol_leg_active", "spin_cmd", "hg_holding",
                                   "hg_patrol_idx", "hg_patrol_arrived"}
  BY <1>1 DEF Script, SpinOrNot, PostureChange, Nav2Pose, Sleep
<1> HIDE DEF s
<1>4. HoldsWell(s, to) /\ MarksWell(s)
  BY <1>2, <1>3 DEF HoldsWell, CameTo, Took, MarksWell, Marks
<1> QED
  BY <1>4 DEF s

\* R3, the way back to the high ground from the supply point.
LEMMA ReturnWritten == HoldsWell(StepsB.R3, "hg1") /\ MarksWell(StepsB.R3)
<1> DEFINE s == StepsB.R3
<1>1. s = << Script([supply_loop_to_hg |-> TRUE]),
             PostureChange(Moving), Script([spin_cmd |-> 0]), Nav2Pose("bump_home"),
             AlignChassis, Nav2Pose("bump_hg"), Nav2Pose("hg1"),
             Script([hg_holding |-> TRUE, return_to_supply |-> FALSE,
                     high_ground_arrived |-> TRUE, hg_patrol_idx |-> 0,
                     hg_patrol_arrived |-> TRUE]),
             Script([spin_cmd |-> 1]), SpinOrNot, PostureChange(Attack), Sleep,
             Script([supply_loop_to_hg |-> FALSE, hg_holding |-> FALSE,
                     first_hg1_done |-> TRUE, hg_patrol_idx |-> 1,
                     hg_patrol_arrived |-> FALSE]) >>
  BY Concat13441 DEF StepsB, MoveTo, HoldHere
<1>2. /\ DOMAIN s = 1..13
      /\ s[7].kind = "nav" /\ s[7].pose = "hg1"
      /\ s[11].kind = "posture" /\ s[11].to = Attack
      /\ \A i \in 1..13 : i # 12 => s[i].kind # "sleep"
      /\ \A i \in 8..13 : s[i].kind # "nav"
      /\ s[12].kind # "posture"
  BY <1>1 DEF Script, SpinOrNot, PostureChange, Nav2Pose, Sleep, AlignChassis
<1>3. \A i \in 1..13 : s[i].kind = "script" =>
        /\ i \in {1, 3, 9} =>
             DOMAIN s[i].set \subseteq {"supply_loop_to_hg", "spin_cmd"}
        /\ i = 8 => /\ s[i].set["return_to_supply"] = FALSE
                    /\ DOMAIN s[i].set \subseteq {"hg_holding", "return_to_supply",
                         "high_ground_arrived", "hg_patrol_idx", "hg_patrol_arrived"}
        /\ i = 13 => DOMAIN s[i].set \subseteq {"supply_loop_to_hg", "hg_holding",
                         "first_hg1_done", "hg_patrol_idx", "hg_patrol_arrived"}
        /\ i \in {1, 3, 8, 9, 13}
  BY <1>1 DEF Script, SpinOrNot, PostureChange, Nav2Pose, Sleep, AlignChassis
<1> HIDE DEF s
<1>4. HoldsWell(s, "hg1")
  BY <1>2 DEF HoldsWell, CameTo, Took
<1>5. CameTo(s, 8, "hg1") /\ CameTo(s, 13, "hg1")
  BY <1>2 DEF CameTo
<1>6. MarksWell(s)
  BY <1>2, <1>3, <1>5 DEF MarksWell, Marks
<1> QED
  BY <1>4, <1>6 DEF s

\* B-3, the first hold on the high ground.
LEMMA FirstHoldWritten == HoldsWell(StepsB.B3, "hg1") /\ MarksWell(StepsB.B3)
<1> DEFINE s == StepsB.B3
<1>1. s = << PostureChange(Moving), Script([spin_cmd |-> 0]), SpinOrNot, Nav2Pose("hg1"),
             Script([hg_holding |-> TRUE, high_ground_arrived |-> TRUE,
                     hg_patrol_idx |-> 0, hg_patrol_arrived |-> TRUE]),
             Script([spin_cmd |-> 1]), SpinOrNot, PostureChange(Attack), Sleep,
             Script([first_hg1_done |-> TRUE, hg_holding |-> FALSE,
                     hg_patrol_idx |-> 1, hg_patrol_arrived |-> FALSE]) >>
  BY Concat4141 DEF StepsB, MoveSpinOff, HoldHere
<1>2. /\ DOMAIN s = 1..10
      /\ s[4].kind = "nav" /\ s[4].pose = "hg1"
      /\ s[8].kind = "posture" /\ s[8].to = Attack
      /\ \A i \in 1..10 : i # 9 => s[i].kind # "sleep"
      /\ \A i \in 1..10 : i # 4 => s[i].kind # "nav"
      /\ s[9].kind # "posture"
  BY <1>1 DEF Script, SpinOrNot, PostureChange, Nav2Pose, Sleep
<1>3. \A i \in 1..10 : s[i].kind = "script" =>
        \/ DOMAIN s[i].set \subseteq {"spin_cmd", "hg_holding", "high_ground_arrived",
                                      "hg_patrol_idx", "hg_patrol_arrived"}
        \/ i = 10 /\ DOMAIN s[i].set \subseteq {"first_hg1_done", "hg_holding",
                                                "hg_patrol_idx", "hg_patrol_arrived"}
  BY <1>1 DEF Script, SpinOrNot, PostureChange, Nav2Pose, Sleep
<1> HIDE DEF s
<1>4. HoldsWell(s, "hg1")
  BY <1>2 DEF HoldsWell, CameTo, Took
<1>5. CameTo(s, 10, "hg1")
  BY <1>2 DEF CameTo
<1>6. MarksWell(s)
  BY <1>2, <1>3, <1>5 DEF MarksWell, Marks
<1> QED
  BY <1>4, <1>6 DEF s

\* Every branch of tree B drives to the high ground point and takes the attack posture before it
\* holds, and drives to a place before its Script marks it; one step per branch.
LEMMA TreeBWritten ==
  ASSUME NEW b \in DOMAIN StepsB
  PROVE  HoldsWell(StepsB[b], HoldPoint(b)) /\ MarksWell(StepsB[b])
<1>d. b \in {"R1", "R2", "R3", "B0", "B0b", "B1", "B2", "B3", "B4b", "B4d",
             "A1", "A2", "A2hold", "A3", "A3hold"}
  BY DEF StepsB
<1>1. CASE b = "R1"
  <2> DEFINE s == StepsB.R1
  <2>1. /\ DOMAIN s = 1..7
        /\ \A i \in 1..7 : s[i].kind # "sleep"
        /\ s[6].kind = "nav" /\ s[6].pose = "supply" /\ s[7].kind # "nav"
        /\ \A i \in 1..7 : s[i].kind = "script" => i \in {1, 7}
        /\ DOMAIN s[1].set \subseteq {"need_resupply", "spin_cmd", "hg_patrol_arrived",
                                      "hg_holding", "patrol_leg_active"}
        /\ DOMAIN s[7].set \subseteq {"return_to_supply", "need_resupply"}
        /\ s[1].set["need_resupply"] = TRUE /\ s[7].set["return_to_supply"] = TRUE
    BY DEF StepsB, Script, SpinOrNot, PostureChange, Nav2Pose, AlignChassis
  <2> HIDE DEF s
  <2>2. HoldsWell(s, HoldPoint(b)) /\ MarksWell(s)
    BY <2>1 DEF HoldsWell, MarksWell, Marks, CameTo, Took
  <2> QED
    BY <1>1, <2>2 DEF s
<1>2. CASE b \in {"R2", "A1"}
  <2> DEFINE s == MoveTo("supply")
  <2>1. /\ DOMAIN s = 1..3
        /\ \A i \in 1..3 : s[i].kind # "sleep" /\ (s[i].kind = "script" => DOMAIN s[i].set = {"spin_cmd"})
    BY DEF MoveTo, Script, SpinOrNot, PostureChange, Nav2Pose, AlignChassis
  <2>2. StepsB[b] = s
    BY <1>2 DEF StepsB
  <2> QED
    BY <2>1, <2>2 DEF HoldsWell, MarksWell, Marks, CameTo, Took
<1>3. CASE b = "R3"
  BY <1>3, ReturnWritten DEF HoldPoint
<1>4. CASE b = "B0"
  <2> DEFINE s == StepsB.B0
  <2>1. s = << PostureChange(Moving), Script([spin_cmd |-> 0]), SpinOrNot, Nav2Pose("supply"),
               Script([final_supply_done |-> TRUE]) >>
    BY Concat41 DEF StepsB, MoveSpinOff
  <2>2. /\ DOMAIN s = 1..5
        /\ \A i \in 1..5 : s[i].kind # "sleep" /\ (s[i].kind = "script" => i \in {2, 5})
        /\ DOMAIN s[2].set = {"spin_cmd"} /\ DOMAIN s[5].set = {"final_supply_done"}
        /\ s[4].kind = "nav" /\ s[4].pose = "supply" /\ s[5].kind # "nav"
    BY <2>1 DEF Script, SpinOrNot, PostureChange, Nav2Pose, AlignChassis
  <2> HIDE DEF s
  <2>3. HoldsWell(s, HoldPoint(b)) /\ MarksWell(s)
    BY <2>2 DEF HoldsWell, MarksWell, Marks, CameTo, Took
  <2> QED
    BY <1>4, <2>3 DEF s
<1>5. CASE b = "B0b"
  <2> DEFINE s == MoveSpinOff("supply")
  <2>1. /\ DOMAIN s = 1..4
        /\ \A i \in 1..4 : s[i].kind # "sleep" /\ (s[i].kind = "script" => DOMAIN s[i].set = {"spin_cmd"})
    BY DEF MoveSpinOff, Script, SpinOrNot, PostureChange, Nav2Pose, AlignChassis
  <2>2. StepsB[b] = s
    BY <1>5 DEF StepsB
  <2> QED
    BY <2>1, <2>2 DEF HoldsWell, MarksWell, Marks, CameTo, Took
<1>6. CASE b = "B1"
  <2> DEFINE s == StepsB.B1
  <2>1. s = << PostureChange(Moving), Script([spin_cmd |-> 0]), SpinOrNot, Nav2Pose("bump_home"),
               AlignChassis, Script([align_done_b |-> TRUE]) >>
    BY Concat42 DEF StepsB, MoveSpinOff
  <2>2. /\ DOMAIN s = 1..6
        /\ \A i \in 1..6 : s[i].kind # "sleep" /\ (s[i].kind = "script" => i \in {2, 6})
        /\ DOMAIN s[2].set = {"spin_cmd"} /\ DOMAIN s[6].set = {"align_done_b"}
        /\ s[4].kind = "nav" /\ s[4].pose = "bump_home" /\ s[5].kind # "nav" /\ s[6].kind # "nav"
    BY <2>1 DEF Script, SpinOrNot, PostureChange, Nav2Pose, AlignChassis
  <2> HIDE DEF s
  <2>3. HoldsWell(s, HoldPoint(b)) /\ MarksWell(s)
    BY <2>2 DEF HoldsWell, MarksWell, Marks, CameTo, Took
  <2> QED
    BY <1>6, <2>3 DEF s
<1>7. CASE b = "B2"
  <2> DEFINE s == StepsB.B2
  <2>1. s = << PostureChange(Moving), Script([spin_cmd |-> 0]), Nav2Pose("bump_hg"),
               Script([bump_crossed_b |-> TRUE]) >>
    BY Concat31 DEF StepsB, MoveTo
  <2>2. /\ DOMAIN s = 1..4
        /\ \A i \in 1..4 : s[i].kind # "sleep" /\ (s[i].kind = "script" => i \in {2, 4})
        /\ DOMAIN s[2].set = {"spin_cmd"} /\ DOMAIN s[4].set = {"bump_crossed_b"}
        /\ s[3].kind = "nav" /\ s[3].pose = "bump_hg" /\ s[4].kind # "nav"
    BY <2>1 DEF Script, SpinOrNot, PostureChange, Nav2Pose, AlignChassis
  <2> HIDE DEF s
  <2>3. HoldsWell(s, HoldPoint(b)) /\ MarksWell(s)
    BY <2>2 DEF HoldsWell, MarksWell, Marks, CameTo, Took
  <2> QED
    BY <1>7, <2>3 DEF s
<1>8. CASE b = "B3"
  BY <1>8, FirstHoldWritten DEF HoldPoint
<1>9. CASE b \in {"B4b", "B4d"}
  <2>1. StepsB.B4b = PatrolSteps(1, "hg2") /\ StepsB.B4d = PatrolSteps(0, "hg1")
    BY DEF StepsB
  <2>2. HoldPoint("B4b") = "hg2" /\ HoldPoint("B4d") = "hg1"
    BY DEF HoldPoint
  <2> QED
    BY <1>9, <2>1, <2>2, LegWritten
<1>10. CASE b \in {"A2", "A3"}
  <2> DEFINE marks == IF b = "A2" THEN [return_outpost_arrived |-> TRUE]
                                  ELSE [initial_outpost_arrived |-> TRUE]
  <2>1. /\ StepsB.A2 = MoveTo("outpost") \o
              << PostureChange(Attack), Script([return_outpost_arrived |-> TRUE]) >>
        /\ StepsB.A3 = MoveTo("outpost") \o
              << PostureChange(Attack), Script([initial_outpost_arrived |-> TRUE]) >>
    BY DEF StepsB
  <2>2. /\ DOMAIN marks \subseteq {"return_outpost_arrived", "initial_outpost_arrived"}
        /\ StepsB[b] = MoveTo("outpost") \o << PostureChange(Attack), Script(marks) >>
    BY <1>10, <2>1
  <2> HIDE DEF marks
  <2> DEFINE s == << PostureChange(Moving), Script([spin_cmd |-> 0]), Nav2Pose("outpost"),
                     PostureChange(Attack), Script(marks) >>
  <2>3. StepsB[b] = s
    BY <2>2, Concat32 DEF MoveTo
  <2>4. /\ DOMAIN s = 1..5
        /\ \A i \in 1..5 : s[i].kind # "sleep" /\ (s[i].kind = "script" => i \in {2, 5})
        /\ DOMAIN s[2].set = {"spin_cmd"} /\ s[5].set = marks
    BY DEF Script, SpinOrNot, PostureChange, Nav2Pose, AlignChassis
  <2> HIDE DEF s
  <2>5. HoldsWell(s, HoldPoint(b)) /\ MarksWell(s)
    BY <2>2, <2>4 DEF HoldsWell, MarksWell, Marks, CameTo, Took
  <2> QED
    BY <2>3, <2>5
<1>11. CASE b \in {"A2hold", "A3hold"}
  <2> DEFINE s == HoldOutpost
  <2>1. /\ DOMAIN s = 1..2
        /\ \A i \in 1..2 : s[i].kind # "sleep" /\ (s[i].kind = "script" => DOMAIN s[i].set = {"spin_cmd"})
    BY DEF HoldOutpost, Script, SpinOrNot, PostureChange, Nav2Pose, AlignChassis
  <2>2. StepsB[b] = s
    BY <1>11 DEF StepsB
  <2> QED
    BY <2>1, <2>2 DEF HoldsWell, MarksWell, Marks, CameTo, Took
<1> QED
  BY <1>d, <1>1, <1>2, <1>3, <1>4, <1>5, <1>6, <1>7, <1>8, <1>9, <1>10, <1>11

\* A branch past the leaf that drives to a point finds the robot there.
LEMMA CameToPlace ==
  ASSUME NEW c, GoodSlot(c), c # NoBranch, NEW here, NEW point,
         HasComeTo(c, here), CameTo(Steps[c.br], c.ix, point)
  PROVE  here = point
BY DEF HasComeTo, CameTo, IsAt

\* A branch past its PostureChange finds its posture on the topic.
LEMMA TookPosture ==
  ASSUME NEW c, GoodSlot(c), c # NoBranch, NEW out,
         HasTaken(c, out), Took(Steps[c.br], c.ix, Attack)
  PROVE  out = Attack
BY DEF HasTaken, Took, IsAt, Shown, Attack

\* Whatever the guards and the reports, and whether goals are aborted or the chassis
\* transform is missing: the 15 s at a high ground point are spent there, attacking.
THEOREM HoldsWherePromised ==
  ASSUME Steps = StepsB, {"timeout", "refuse"} \cap Faults = {}
  PROVE  Spec => []HoldsInPlace
<1> DEFINE J == IInv /\ NothingLost /\ ArrivalInv /\ PostureInv
<1>1. Init => J
  BY InitIInv, NoBranchGood
  DEF Init, NothingLost, NoGoal, ArrivalInv, Settling, PostureInv
<1>2. J /\ [Next]_vars => J'
  <2>1. IInv /\ [Next]_vars => IInv'
    BY TypeCorrect, ShapeKept, MatchedKept DEF IInv, GoalTracked, NoForgottenGoal, Matched, Waits
  <2> QED
    BY <2>1, NothingLostKept, ArrivalKept, PostureKept DEF IInv
<1>3. J => HoldsInPlace
  <2> SUFFICES ASSUME J, pc = "idle", Holding(run)
               PROVE  place = HoldPoint(run.br) /\ posture = Attack
    BY DEF HoldsInPlace
  <2>1. /\ run # NoBranch /\ GoodSlot(run) /\ cur = NoBranch
        /\ HasComeTo(run, place) /\ HasTaken(run, posture)
    BY NoBranchGood DEF Holding, IInv, TypeOK, Shape, ArrivalInv, PostureInv, Settling
  <2>2. run.br \in DOMAIN StepsB /\ run.ix \in DOMAIN StepsB[run.br] /\ StepsB[run.br][run.ix].kind = "sleep"
    BY <2>1, LeafOfSlot DEF Branches, Holding
  <2>3. /\ CameTo(Steps[run.br], run.ix, HoldPoint(run.br))
        /\ Took(Steps[run.br], run.ix, Attack)
    BY <2>2, TreeBWritten DEF HoldsWell
  <2> QED
    BY <2>1, <2>3, CameToPlace, TookPosture
<1> QED
  BY <1>1, <1>2, <1>3, PTL DEF Spec

\* The Scripts neither add nor drop a blackboard entry.
FlagsThere == DOMAIN flag = DOMAIN Flags0B

\* What the root's Scripts may change.
LEMMA RootKeeps ==
  ASSUME NEW r, NEW f, DOMAIN f = DOMAIN Flags0B
  PROVE  /\ DOMAIN RootScriptsB(r, f) = DOMAIN f
         /\ \A k \in DOMAIN f : \/ k \in {"early_supply", "need_resupply", "spin_cmd"}
                                \/ RootScriptsB(r, f)[k] = f[k]
<1> DEFINE f1 == LatchEarlySupply(r, f)
<1> DEFINE f2 == LatchNeedResupply(r, f1)
<1> DEFINE f3 == StopSpin(f2)
<1>1. f1 = f \/ f1 = [f EXCEPT !["early_supply"] = TRUE]
  BY DEF LatchEarlySupply
<1>2. f2 = f1 \/ f2 = [f1 EXCEPT !["need_resupply"] = TRUE]
  BY DEF LatchNeedResupply
<1>3. f3 = f2 \/ f3 = [f2 EXCEPT !["spin_cmd"] = 0]
  BY DEF StopSpin
<1>4. RootScriptsB(r, f) = f3
  BY DEF RootScriptsB
<1> HIDE DEF f1, f2, f3
<1> QED
  BY <1>1, <1>2, <1>3, <1>4

\* The root's Scripts latch a depletion and never clear it.
LEMMA RootLatches ==
  ASSUME NEW r, NEW f, DOMAIN f = DOMAIN Flags0B, ~RootScriptsB(r, f)["need_resupply"]
  PROVE  ~f["need_resupply"]
<1> DEFINE f1 == LatchEarlySupply(r, f)
<1> DEFINE f2 == LatchNeedResupply(r, f1)
<1> DEFINE f3 == StopSpin(f2)
<1>0. "need_resupply" \in DOMAIN f
  BY DEF Flags0B
<1>1. f1 = f \/ f1 = [f EXCEPT !["early_supply"] = TRUE]
  BY DEF LatchEarlySupply
<1>2. f2 = f1 \/ f2 = [f1 EXCEPT !["need_resupply"] = TRUE]
  BY DEF LatchNeedResupply
<1>3. f3 = f2 \/ f3 = [f2 EXCEPT !["spin_cmd"] = 0]
  BY DEF StopSpin
<1>4. RootScriptsB(r, f) = f3
  BY DEF RootScriptsB
<1> HIDE DEF f1, f2, f3
<1>5. f3["need_resupply"] = f2["need_resupply"] /\ f1["need_resupply"] = f["need_resupply"]
  BY <1>0, <1>1, <1>2, <1>3
<1>6. f2["need_resupply"] = f1["need_resupply"] \/ f2["need_resupply"] = TRUE
  BY <1>0, <1>1, <1>2
<1> QED
  BY <1>4, <1>5, <1>6

\* The root's Scripts neither set a flag that stands for a place nor forget a depletion.
LEMMA RootFollows ==
  ASSUME FlagsThere, flag' = RootScriptsB(ref, flag)
  PROVE  /\ \A name \in {"final_supply_done", "align_done_b", "bump_crossed_b",
                        "return_to_supply", "first_hg1_done"} : ~Sets(name) /\ ~Clears(name)
         /\ ~Clears("need_resupply")
<1>1. DOMAIN flag = DOMAIN Flags0B
  BY DEF FlagsThere
<1>2. \A k \in DOMAIN flag : k \in {"early_supply", "need_resupply", "spin_cmd"} \/ flag'[k] = flag[k]
  BY <1>1, RootKeeps
<1>3. ~Clears("need_resupply")
  BY <1>1, RootLatches DEF Clears
<1>4. {"final_supply_done", "align_done_b", "bump_crossed_b", "return_to_supply",
       "first_hg1_done"} \subseteq DOMAIN flag
  BY <1>1 DEF Flags0B
<1> QED
  BY <1>2, <1>3, <1>4 DEF Sets, Clears

\* Whatever the guards, the reports and the goals that fail, unless requests time out: a flag
\* of tree B that says where the robot has been is set, and a depletion forgotten, only there.
THEOREM FlagsFollow ==
  ASSUME Steps = StepsB, Flags0 = Flags0B, "timeout" \notin Faults,
         \A r, f : RootScripts(r, f) = RootScriptsB(r, f)
  PROVE  Spec => FlagsFollowRobot
<1> DEFINE J == IInv /\ NothingLost /\ ArrivalInv /\ FlagsThere
<1> DEFINE Follows ==
      /\ Sets("final_supply_done") => place = "supply"
      /\ Sets("align_done_b") => place = "bump_home"
      /\ Sets("bump_crossed_b") => place = "bump_hg"
      /\ Sets("return_to_supply") \/ Clears("need_resupply") => place = "supply"
      /\ Clears("return_to_supply") \/ Sets("first_hg1_done") => place = "hg1"
<1>1. Init => J
  BY InitIInv, NoBranchGood DEF Init, NothingLost, NoGoal, ArrivalInv, Settling, FlagsThere
<1>s. TickScript \/ BeginTick \/ flag' = flag \/ ~[Next]_vars
  BY DEF Next, Tick, Environment, TryPhase, Select, RootSpin, Halt,
         TickPostureChange, TickSpinOrNot, NavSend, NavAccepted, NavRefused, NavTimedOut, NavRunning,
         AlignStart, AlignRunning, Aligned, SleepStart, SleepRunning, GameState, GoalReached,
         GoalAborted, LateAccept, LateDrop, SleepExpired, bbVars, vars
<1>a. TickScript => flag' = Assign(flag, Leaf.set)
  BY DEF TickScript
<1>b. BeginTick => flag' = RootScriptsB(ref, flag)
  BY DEF BeginTick
<1>2. J /\ [Next]_vars => J'
  <2>1. IInv /\ [Next]_vars => IInv'
    BY TypeCorrect, ShapeKept, MatchedKept DEF IInv, GoalTracked, NoForgottenGoal, Matched, Waits
  <2>2. FlagsThere /\ [Next]_vars => FlagsThere'
    BY <1>s, <1>a, <1>b, RootKeeps DEF FlagsThere, Assign
  <2> QED
    BY <2>1, <2>2, NothingLostKept, ArrivalKept DEF IInv
<1>3. J /\ [Next]_vars => Follows
  <2> SUFFICES ASSUME J, [Next]_vars PROVE Follows
    OBVIOUS
  <2>n. {"final_supply_done", "align_done_b", "bump_crossed_b", "return_to_supply",
         "need_resupply", "first_hg1_done"} \subseteq DOMAIN flag
    BY DEF FlagsThere, Flags0B
  <2>1. CASE flag' = flag
    BY <2>1 DEF Sets, Clears
  <2>2. CASE BeginTick
    <3>1. FlagsThere /\ flag' = RootScriptsB(ref, flag)
      BY <1>b, <2>2
    <3> QED
      BY <3>1, RootFollows
  <2>3. CASE TickScript
    <3>1. /\ cur # NoBranch /\ GoodSlot(cur) /\ HasComeTo(cur, place) /\ Leaf.kind = "script"
      BY <2>3 DEF TickScript, At, IInv, TypeOK, Shape, ArrivalInv
    <3> DEFINE s == Steps[cur.br]
    <3>2. cur.ix \in DOMAIN s /\ MarksWell(s) /\ Leaf = s[cur.ix]
      BY <3>1, LeafOfSlot, TreeBWritten DEF Branches, Leaf
    <3>3. \A k \in DOMAIN flag : flag'[k] = IF k \in DOMAIN Leaf.set THEN Leaf.set[k] ELSE flag[k]
      BY <1>a, <2>3 DEF Assign
    <3>4. ASSUME NEW k \in DOMAIN flag, Sets(k) \/ Clears(k)
          PROVE  Marks(s, cur.ix, k) /\ flag'[k] = Leaf.set[k]
      <4>1. flag'[k] # flag[k]
        BY <3>4, Zenon DEF Sets, Clears
      <4> QED
        BY <3>1, <3>2, <3>3, <4>1 DEF Marks
    <3>5. ASSUME NEW point, CameTo(s, cur.ix, point) PROVE place = point
      BY <3>1, <3>5, CameToPlace
    <3> HIDE DEF s
    <3> QED
      BY <2>n, <3>2, <3>4, <3>5 DEF Sets, Clears, MarksWell
  <2> QED
    BY <1>s, <2>1, <2>2, <2>3
<1> QED
  BY <1>1, <1>2, <1>3, PTL DEF Spec, FlagsFollowRobot

-------------------------------------------------------------------------------
(* RMUC_adaptation_2026_A. *)

IsTreeA ==
  /\ Phases = PhasesA /\ Steps = StepsA /\ Flags0 = Flags0A
  /\ \A p, r, f : PhaseGuard(p, r, f) <=> PhaseGuardA(p, r, f)
  /\ \A b, r, f : BranchGuard(b, r, f) <=> BranchGuardA(b, r, f)
  /\ \A r, f : RootScripts(r, f) = RootScriptsA(r, f)

\* The branches of tree A: the retreat comes first, and no leaf of the tree aligns the chassis.
LEMMA TreeAWritten ==
  ASSUME IsTreeA
  PROVE  /\ DOMAIN Phases = {1} /\ 1 \in DOMAIN Phases[1] /\ Phases[1][1] = "S1"
         /\ \A i \in DOMAIN Phases[1] : i \in Nat \ {0}
         /\ DOMAIN Steps = {"S1", "S2", "S3", "S4"}
         /\ DOMAIN Steps["S1"] = 1..3
         /\ \A b \in DOMAIN Steps : \A i \in DOMAIN Steps[b] : Steps[b][i].kind # "align"
<1>1. DOMAIN Phases = {1} /\ DOMAIN Phases[1] = 1..4 /\ Phases[1][1] = "S1"
  BY DEF IsTreeA, PhasesA
<1>2. DOMAIN Steps = {"S1", "S2", "S3", "S4"} /\ DOMAIN Steps["S1"] = 1..3
  BY DEF IsTreeA, StepsA
<1>3. \A i \in DOMAIN ToOutpost : ToOutpost[i].kind # "align"
  BY DEF ToOutpost, Script, PostureChange, Nav2Pose
<1>4. /\ \A i \in DOMAIN Steps["S1"] : Steps["S1"][i].kind # "align"
      /\ \A i \in DOMAIN Steps["S3"] : Steps["S3"][i].kind # "align"
      /\ Steps["S2"] = ToOutpost /\ Steps["S4"] = ToOutpost
  BY DEF IsTreeA, StepsA, Script, PostureChange, Nav2Pose
<1> QED
  BY <1>1, <1>2, <1>3, <1>4

\* The leaves of the retreat.
LEMMA RetreatWritten ==
  ASSUME IsTreeA
  PROVE  /\ Steps["S1"][1] = PostureChange(Moving)
         /\ Steps["S1"][2].kind = "script" /\ Steps["S1"][2].set["at_supply"] = TRUE
         /\ "at_supply" \in DOMAIN Steps["S1"][2].set
         /\ Steps["S1"][3].kind = "nav"
BY DEF IsTreeA, StepsA, Script, Nav2Pose

\* A retreat that is open keeps its flag, and the tree in the branch of the supply point;
\* a tick is free to look at the other branches only before it has looked at this one.
RetreatInv ==
  /\ DOMAIN flag = DOMAIN Flags0A
  /\ retreating => /\ flag["at_supply"] /\ ref.hp <= 350 /\ posture = Moving
                   /\ cur # NoBranch => cur.br = "S1"
                   /\ pc = "select" => at = 0
                   /\ ~(pc = "halt" /\ after = "select")

\* The steps of an open retreat that write neither flags nor posture.
LEMMA RetreatGoesOn ==
  ASSUME RetreatInv, UNCHANGED <<flag, posture>>, ~StartsRetreat, History,
         retreating => /\ cur' = NoBranch \/ cur'.br = cur.br
                       /\ cur = NoBranch => cur' = NoBranch
                       /\ pc' = "select" => at' = 0
                       /\ pc' = "halt" => (pc = "halt" /\ after' = after) \/ after' # "select"
  PROVE  RetreatInv'
<1>1. retreating' => retreating /\ ref'.hp <= 350
  BY DEF History
<1> QED
  BY <1>1 DEF RetreatInv

\* The Script of the retreat opens it; the other Scripts run when none is open.
LEMMA RetreatAtScript ==
  ASSUME IsTreeA, IInv, PostureInv, RetreatInv, TickScript, History
  PROVE  RetreatInv'
<1>1. /\ pc = "leaf" /\ cur # NoBranch /\ GoodSlot(cur) /\ Leaf.kind = "script"
      /\ flag' = Assign(flag, Leaf.set) /\ Advance /\ posture' = posture /\ ref' = ref
  BY DEF TickScript, At, IInv, TypeOK, Shape, outVars
<1>2. DOMAIN flag' = DOMAIN Flags0A
  BY <1>1 DEF Assign, RetreatInv
<1>3. CASE cur.br = "S1"
  <2>1. cur.ix \in {1, 2, 3} /\ Steps["S1"][1].kind = "posture" /\ Leaf = Steps["S1"][cur.ix]
    <3>1. cur.ix \in DOMAIN Steps["S1"] /\ Leaf = Steps["S1"][cur.ix]
      BY <1>1, <1>3, LeafOfSlot DEF Leaf
    <3>2. DOMAIN Steps["S1"] = {1, 2, 3}
      BY TreeAWritten
    <3>3. Steps["S1"][1].kind = "posture"
      BY RetreatWritten DEF PostureChange
    <3> QED
      BY <3>1, <3>2, <3>3
  <2>2. cur.ix = 2
    BY <1>1, <2>1, RetreatWritten
  <2>3. flag'["at_supply"] = TRUE
    <3>1. "at_supply" \in DOMAIN flag
      BY DEF RetreatInv, Flags0A
    <3> QED
      BY <1>1, <2>1, <2>2, <3>1, RetreatWritten DEF Assign
  <2>4. posture = Moving
    <3>1. HasTaken(cur, posture)
      BY <1>1 DEF PostureInv
    <3>2. /\ 1 \in DOMAIN Steps["S1"] /\ 1 < cur.ix /\ IsAt("S1", 1, "posture")
          /\ \A j \in 1 + 1 .. cur.ix - 1 : ~IsAt("S1", j, "posture")
      BY <2>1, <2>2, TreeAWritten DEF IsAt
    <3>3. posture = Shown(Steps["S1"][1])
      BY <1>3, <3>1, <3>2 DEF HasTaken
    <3> QED
      BY <3>3, RetreatWritten DEF Shown, PostureChange, Moving
  <2>5. pc' = "leaf" /\ cur'.br = "S1"
    <3>1. Len(Steps["S1"]) = 3
      BY DEF IsTreeA, StepsA
    <3> QED
      BY <1>1, <1>3, <2>2, <3>1 DEF Advance
  <2>6. retreating' => ref.hp <= 350
    BY <1>1, <1>3 DEF History, StartsRetreat, At
  <2> QED
    BY <1>1, <1>2, <2>3, <2>4, <2>5, <2>6 DEF RetreatInv
<1>4. CASE cur.br # "S1"
  <2>1. ~retreating /\ ~StartsRetreat
    BY <1>1, <1>4 DEF RetreatInv, StartsRetreat
  <2>2. ~retreating'
    BY <2>1 DEF History
  <2> QED
    BY <1>2, <2>2 DEF RetreatInv
<1> QED
  BY <1>3, <1>4

\* While a retreat is open its branch is the first that is eligible.
LEMMA RetreatAtSelect ==
  ASSUME IsTreeA, IInv, RetreatInv, Select, History
  PROVE  RetreatInv'
<1>0. /\ pc = "select" /\ cur = NoBranch /\ ph \in DOMAIN Phases /\ UNCHANGED <<ref, flag, posture>>
      /\ ~StartsRetreat
  BY DEF Select, IInv, Shape, bbVars, outVars, StartsRetreat, At
<1>1. CASE ~retreating
  <2>1. ~retreating'
    BY <1>0, <1>1 DEF History
  <2> QED
    BY <1>0, <2>1 DEF RetreatInv
<1>2. CASE retreating
  <2>1. ph = 1 /\ at = 0 /\ Phases[ph][1] = "S1" /\ 1 \in DOMAIN Phases[ph]
        /\ \A i \in DOMAIN Phases[ph] : i \in Nat \ {0}
    BY <1>0, <1>2, TreeAWritten DEF RetreatInv
  <2>2. BranchGuard("S1", ref, flag)
    BY <1>2 DEF IsTreeA, BranchGuardA, RetreatInv
  <2>3. Eligible(1)
    BY <2>1, <2>2 DEF Eligible
  <2>4. ASSUME NEW i \in DOMAIN Phases[ph], \A j \in DOMAIN Phases[ph] : Eligible(j) => i <= j
        PROVE  i = 1
    BY <2>1, <2>3, <2>4
  <2>5. pc' = "leaf" /\ cur'.br = "S1"
    BY <2>1, <2>2, <2>3, <2>4 DEF Select
  <2>6. retreating' => ref.hp <= 350
    BY <1>0 DEF History
  <2> QED
    BY <1>0, <1>2, <2>5, <2>6 DEF RetreatInv
<1> QED
  BY <1>1, <1>2

\* RetreatInv, one step per action: only the branch of the retreat itself can end it.
LEMMA RetreatKept ==
  /\ IsTreeA /\ {"abort", "refuse", "timeout"} \cap Faults = {}
  /\ IInv /\ NothingLost /\ PostureInv /\ StatusInv /\ RetreatInv
  /\ [Next /\ History]_<<vars, retreating>>
  => RetreatInv'
<1> SUFFICES ASSUME IsTreeA, {"abort", "refuse", "timeout"} \cap Faults = {},
                    IInv, NothingLost, PostureInv, StatusInv, RetreatInv,
                    [Next /\ History]_<<vars, retreating>>
             PROVE  RetreatInv'
  OBVIOUS
<1>t. TypeOK /\ Shape /\ GoodSlot(cur) /\ GoodSlot(run) /\ active.by # "none"
  BY OwnerIsBranch DEF IInv, TypeOK
<1>s. SlotStates = {"none", "executing", "succeeded", "aborted"}
  BY DEF SlotStates
<1>g. ASSUME History, UNCHANGED <<flag, posture>>, ~StartsRetreat,
             retreating => /\ cur' = NoBranch \/ cur'.br = cur.br
                           /\ cur = NoBranch => cur' = NoBranch
                           /\ pc' = "select" => at' = 0
                           /\ pc' = "halt" => (pc = "halt" /\ after' = after) \/ after' # "select"
      PROVE  RetreatInv'
  BY <1>g, RetreatGoesOn
<1>k. \A kind \in LeafKinds \ {"script"} : At(kind) => ~StartsRetreat /\ cur # NoBranch /\ pc = "leaf"
  BY <1>t DEF StartsRetreat, At, LeafKinds, Shape
<1>a. ASSUME History, UNCHANGED <<flag, posture>>, ~StartsRetreat, cur # NoBranch, Advance, pc = "leaf"
      PROVE  RetreatInv'
  <2>1. /\ cur' = NoBranch \/ cur'.br = cur.br
        /\ pc' \in {"leaf", "spin"} \/ (pc' = "halt" /\ after' = "spin")
    BY <1>a DEF Advance
  <2> QED
    BY <1>a, <1>g, <2>1
<1>r. ASSUME History, UNCHANGED <<flag, posture>>, ~StartsRetreat, cur # NoBranch,
             NEW st \in SlotStates, NEW r, Running(st, r)
      PROVE  RetreatInv'
  <2>1. [cur EXCEPT !.live = TRUE, !.st = st].br = cur.br
    BY <1>t DEF GoodSlot, Slots
  <2>2. /\ cur' = NoBranch \/ cur'.br = cur.br
        /\ pc' = "idle" \/ (pc' = "halt" /\ after' = "settle")
    BY <1>r, <2>1 DEF Running
  <2> QED
    BY <1>r, <1>g, <2>2
<1>0. CASE UNCHANGED <<vars, retreating>>
  BY <1>0 DEF vars, RetreatInv
<1> SUFFICES ASSUME Next, History PROVE RetreatInv'
  BY <1>0
<1>1. CASE BeginTick
  <2>1. flag' = flag
    BY <1>1 DEF BeginTick, IsTreeA, RootScriptsA
  <2> QED
    BY <1>1, <1>g, <2>1 DEF BeginTick, outVars, StartsRetreat, At
<1>2. CASE TryPhase
  <2>1. \A p \in DOMAIN Phases : PhaseGuard(p, ref, flag)
    BY DEF IsTreeA, PhaseGuardA
  <2>2. DOMAIN Phases = 1..Len(Phases) /\ ph \in Nat \ {0} /\ Len(Phases) \in Nat
    BY <1>2, <1>t, TreeAssumption DEF TryPhase, Shape, TypeOK
  <2>3. pc' \in {"idle", "spin"} \/ (pc' = "select" /\ at' = 0)
    BY <1>2, <2>1, <2>2 DEF TryPhase
  <2> QED
    BY <1>2, <1>g, <2>3 DEF TryPhase, bbVars, outVars, StartsRetreat, At
<1>3. CASE Select
  BY <1>3, RetreatAtSelect
<1>4. CASE RootSpin
  BY <1>4, <1>g DEF RootSpin, bbVars, StartsRetreat, At
<1>5. CASE Halt
  <2>1. /\ cur' = NoBranch \/ cur' = cur
        /\ retreating => pc' \notin {"select", "halt"}
    BY <1>5, <1>t DEF Halt, RetreatInv, TypeOK
  <2> QED
    BY <1>5, <1>g, <2>1 DEF Halt, bbVars, StartsRetreat, At
<1>6. CASE TickScript
  BY <1>6, RetreatAtScript
<1>7. CASE TickPostureChange
  <2>1. /\ pc = "leaf" /\ cur # NoBranch /\ GoodSlot(cur) /\ Leaf.kind = "posture" /\ flag' = flag
        /\ ~StartsRetreat /\ Advance /\ posture' = IF Leaf.to \in 1..3 THEN Leaf.to ELSE Moving
    BY <1>7, <1>k, <1>t DEF TickPostureChange, At, bbVars, LeafKinds
  <2>2. retreating => posture' = Moving
    <3>1. retreating => cur.br = "S1" /\ cur.ix \in 1..3
      BY <2>1, LeafOfSlot, TreeAWritten DEF RetreatInv
    <3>2. retreating => Leaf = PostureChange(Moving)
      BY <2>1, <3>1, RetreatWritten DEF Leaf
    <3> QED
      BY <2>1, <3>2 DEF PostureChange, Moving
  <2>3. CASE retreating
    <3>1. posture' = posture
      BY <2>2, <2>3 DEF RetreatInv
    <3> QED
      BY <1>a, <2>1, <3>1
  <2>4. CASE ~retreating
    <3>1. ~retreating'
      BY <2>1, <2>4 DEF History
    <3> QED
      BY <2>1, <3>1 DEF RetreatInv
  <2> QED
    BY <2>3, <2>4
<1>8. CASE TickSpinOrNot
  BY <1>8, <1>a, <1>k DEF TickSpinOrNot, bbVars, LeafKinds
<1>9. CASE NavSend
  BY <1>9, <1>g, <1>k DEF NavSend, bbVars, outVars, LeafKinds
<1>10. CASE NavAccepted
  BY <1>10, <1>r, <1>s, <1>t DEF NavAccepted, bbVars, outVars, StartsRetreat, At, Shape
<1>11. CASE NavRunning
  BY <1>11, <1>a, <1>k, <1>r, <1>s DEF NavRunning, bbVars, outVars, LeafKinds, StatusInv
<1>12. ~At("align")
  BY <1>t, LeafOfSlot, TreeAWritten DEF At, Leaf, Shape, Branches
<1>13. CASE SleepStart
  BY <1>13, <1>k, <1>r, <1>s DEF SleepStart, bbVars, outVars, LeafKinds
<1>14. CASE SleepRunning
  <2>1. cur.st \in SlotStates
    BY <1>t DEF GoodSlot, Slots
  <2> QED
    BY <1>14, <1>a, <1>k, <1>r, <2>1 DEF SleepRunning, bbVars, outVars, LeafKinds
<1>15. ASSUME NEW r \in Reports, GameState(r) PROVE RetreatInv'
  BY <1>15, <1>g, <1>t DEF GameState, Spinning, ctlVars, outVars, StartsRetreat, At
<1>16. CASE GoalReached
  <2>1. /\ cur'.br = cur.br /\ (cur' = NoBranch <=> cur = NoBranch)
        /\ UNCHANGED <<flag, posture, pc, after, at>> /\ pc # "leaf"
    BY <1>16, <1>s, <1>t, SlotAfterStatus
    DEF GoalReached, Resolve, Spinning, bbVars, ctlVars, outVars
  <2> QED
    BY <2>1, <1>g DEF StartsRetreat, At, RetreatInv
<1>17. CASE SleepExpired
  BY <1>17, <1>g DEF SleepExpired, bbVars, ctlVars, outVars, StartsRetreat, At
<1>18. /\ ~NavRefused /\ ~NavTimedOut /\ ~GoalAborted /\ ~AlignStart /\ ~AlignRunning /\ ~Aligned
       /\ \A p \in Poses : ~LateAccept(p) /\ ~LateDrop(p)
  BY <1>12 DEF NavRefused, NavTimedOut, GoalAborted, AlignStart, AlignRunning, Aligned,
               LateAccept, LateDrop, NothingLost
<1> QED
  BY <1>1, <1>2, <1>3, <1>4, <1>5, <1>6, <1>7, <1>8, <1>9, <1>10, <1>11, <1>13,
     <1>14, <1>15, <1>16, <1>17, <1>18 DEF Next, Tick, Environment

\* For every set of reports, wherever they fall in a tick: a robot that has begun to
\* retreat does not take the attack posture before its hp has exceeded 350.
THEOREM HealsFirst ==
  ASSUME IsTreeA, {"abort", "refuse", "timeout"} \cap Faults = {}
  PROVE  HSpec => []HealsBeforeAttack
<1> DEFINE J == IInv /\ NothingLost /\ ArrivalInv /\ PostureInv /\ StatusInv /\ RetreatInv
<1>1. HInit => J
  BY InitIInv, NoBranchGood
  DEF HInit, Init, NothingLost, NoGoal, NoBranch, ArrivalInv, Settling, PostureInv, StatusInv,
      RetreatInv, IsTreeA
<1>2. J /\ [Next /\ History]_<<vars, retreating>> => J'
  <2> SUFFICES ASSUME J, [Next /\ History]_<<vars, retreating>> PROVE J'
    OBVIOUS
  <2>1. [Next]_vars
    OBVIOUS
  <2>2. IInv'
    BY <2>1, TypeCorrect, ShapeKept, MatchedKept
    DEF IInv, GoalTracked, NoForgottenGoal, Matched, Waits
  <2> QED
    BY <2>1, <2>2, NothingLostKept, ArrivalKept, PostureKept, StatusKept, RetreatKept DEF IInv
<1>3. J => HealsBeforeAttack
  BY DEF RetreatInv, HealsBeforeAttack, Attack, Moving
<1> QED
  BY <1>1, <1>2, <1>3, PTL DEF HSpec
===============================================================================
