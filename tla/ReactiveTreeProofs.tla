-------------------------- MODULE ReactiveTreeProofs --------------------------
(***************************************************************************)
(* What holds of ReactiveTree for every tree, every set of referee states  *)
(* and every set of faults.                                                *)
(***************************************************************************)
EXTENDS ReactiveTree, TLAPS

\* Where the two slots are in every step of a tick: cur is the branch being ticked,
\* run the one an earlier tick left RUNNING, and they never hold the same branch.
Shape ==
  /\ pc \in {"leaf", "send"} => cur # NoBranch
  /\ pc \in {"idle", "phase", "select", "spin"} => cur = NoBranch
  /\ pc = "halt" => /\ run # NoBranch
                    /\ after = "settle" => cur # NoBranch /\ cur.live
                    /\ after # "settle" => cur = NoBranch
  /\ pc = "send" => ~cur.live /\ Leaf.kind = "nav"
  /\ pc \in {"select", "leaf", "send"} \/ (pc = "halt" /\ after = "select")
       => ph \in DOMAIN Phases
  /\ pc = "phase" \/ (pc = "halt" /\ after = "phase") => ph # 0
  /\ run # NoBranch => run.live
  /\ cur # NoBranch => cur.br # run.br

IInv == TypeOK /\ Shape /\ GoalTracked /\ NoForgottenGoal

-------------------------------------------------------------------------------
(* Facts about the constants and the slots.                                *)

\* A slot that holds a branch points at one of its leaves.
LEMMA LeafOfSlot ==
  ASSUME NEW c, GoodSlot(c), c # NoBranch
  PROVE  /\ c.br \in Branches /\ c.br \notin {"none", "nobody", "lost"}
         /\ c.ix \in DOMAIN Steps[c.br]
         /\ Steps[c.br][c.ix].kind = "nav" => Steps[c.br][c.ix].pose \in Poses
         /\ Steps[c.br][c.ix].kind = "spin" => <<c.br, c.ix>> \in SpinNodes
<1>1. c.br \in Branches /\ c.ix \in DOMAIN Steps[c.br]
  BY DEF GoodSlot
<1>2. Steps[c.br][c.ix].kind = "nav" => Steps[c.br][c.ix].pose \in Poses
  BY <1>1 DEF Poses, PosesOf, Branches
<1>3. Steps[c.br][c.ix].kind = "spin" => <<c.br, c.ix>> \in SpinNodes
  BY <1>1 DEF SpinNodes, SpinNodesOf, Branches
<1> QED
  BY <1>1, <1>2, <1>3, TreeAssumption

\* The empty slot is well typed and holds nothing.
LEMMA NoBranchGood == GoodSlot(NoBranch) /\ NoBranch.br = "none" /\ ~NoBranch.live
BY DEF GoodSlot, Slots, SlotStates, NoBranch

\* A status is only ever written into a slot that holds a branch.
LEMMA StatusKeepsSlot ==
  ASSUME NEW c, GoodSlot(c), c # NoBranch, NEW st \in SlotStates
  PROVE  LET d == [c EXCEPT !.st = st]
         IN  /\ GoodSlot(d) /\ d # NoBranch
             /\ d.br = c.br /\ d.ix = c.ix /\ d.live = c.live /\ d.st = st
<1> DEFINE d == [c EXCEPT !.st = st]
<1>1. c \in Slots /\ c.br \in Branches /\ c.ix \in DOMAIN Steps[c.br] /\ c.br # "none"
  BY TreeAssumption DEF GoodSlot
<1>2. d \in Slots /\ d.br = c.br /\ d.ix = c.ix /\ d.live = c.live /\ d.st = st
  BY <1>1 DEF Slots, SlotStates
<1> QED
  BY <1>1, <1>2, NoBranchGood DEF GoodSlot

\* The outcomes of a leaf keep the slots well formed.
Outcome ==
  /\ GoodSlot(cur)' /\ GoodSlot(run)'
  /\ pc' \in {"idle", "phase", "select", "leaf", "send", "halt", "spin"}
  /\ after' \in {"phase", "select", "spin", "settle"}

\* The three ways in which a leaf ends, as cases for every later proof.
LEMMA AdvanceOutcome ==
  ASSUME TypeOK, cur # NoBranch, Advance, run' = run
  PROVE  Outcome
<1>1. GoodSlot(cur) /\ GoodSlot(run)
  BY DEF TypeOK
<1>2. cur.br \in Branches /\ cur.ix \in 1..Len(Steps[cur.br]) /\ Len(Steps[cur.br]) \in Nat
  BY <1>1, LeafOfSlot, TreeAssumption
<1>3. GoodSlot(cur)'
  <2>1. CASE cur.ix < Len(Steps[cur.br])
    <3>1. cur' = [br |-> cur.br, ix |-> cur.ix + 1, live |-> FALSE, st |-> "none"]
      BY <2>1 DEF Advance
    <3>2. cur.ix + 1 \in 1..Len(Steps[cur.br]) /\ cur.ix + 1 \in Nat
      BY <2>1, <1>2
    <3> QED
      BY <1>2, <3>1, <3>2, TreeAssumption DEF GoodSlot, Slots, SlotStates
  <2>2. CASE ~(cur.ix < Len(Steps[cur.br]))
    <3>1. cur' = NoBranch
      BY <2>2 DEF Advance
    <3> QED
      BY <3>1, NoBranchGood DEF GoodSlot
  <2> QED
    BY <2>1, <2>2
<1>4. GoodSlot(run)'
  BY <1>1 DEF GoodSlot
<1>5. /\ pc' \in {"idle", "phase", "select", "leaf", "send", "halt", "spin"}
      /\ after' \in {"phase", "select", "spin", "settle"}
  BY DEF Advance, TypeOK
<1> QED
  BY <1>3, <1>4, <1>5 DEF Outcome

LEMMA FailOutcome ==
  ASSUME TypeOK, Fail, run' = run
  PROVE  Outcome /\ failed' \in BOOLEAN
<1>1. GoodSlot(cur)'
  BY DEF Fail, GoodSlot, Slots, SlotStates, NoBranch
<1>2. GoodSlot(run)'
  BY DEF TypeOK, GoodSlot
<1> QED
  BY <1>1, <1>2 DEF Fail, TypeOK, Outcome

LEMMA RunningOutcome ==
  ASSUME TypeOK, cur # NoBranch, NEW st \in SlotStates, NEW r, GoodSlot(r), Running(st, r)
  PROVE  Outcome
<1> DEFINE c == [cur EXCEPT !.live = TRUE, !.st = st]
<1>1. GoodSlot(c)
  <2>1. GoodSlot(cur)
    BY DEF TypeOK
  <2>2. c \in Slots /\ c.br = cur.br /\ c.ix = cur.ix
    BY <2>1 DEF GoodSlot, Slots, SlotStates
  <2> QED
    BY <2>1, <2>2 DEF GoodSlot
<1>2. GoodSlot(NoBranch)
  BY DEF GoodSlot, Slots, SlotStates, NoBranch
<1>3. \/ run' = c /\ cur' = NoBranch
      \/ run' = r /\ cur' = c
  BY DEF Running
<1>4. GoodSlot(cur)' /\ GoodSlot(run)'
  BY <1>1, <1>2, <1>3 DEF GoodSlot
<1>5. /\ pc' \in {"idle", "phase", "select", "leaf", "send", "halt", "spin"}
      /\ after' \in {"phase", "select", "spin", "settle"}
  BY DEF Running, TypeOK
<1> QED
  BY <1>4, <1>5 DEF Outcome

-------------------------------------------------------------------------------
(* Types.                                                                  *)

\* The types of what is not a slot or a control variable.
Others ==
  /\ ph \in Nat /\ at \in Nat
  /\ failed \in BOOLEAN
  /\ active \in [pose : Poses, by : Branches \cup {"lost"}] \cup {NoGoal}
  /\ late \subseteq Poses
  /\ place \in Poses \cup {"away"}
  /\ posture \in 1..3
  /\ spin \in 0..2
  /\ sent \in [SpinNodes -> 0..2]
  /\ omega \in BOOLEAN

\* TypeOK as what a leaf's outcome determines and the rest.
LEMMA TypeParts == TypeOK' <=> Outcome /\ Others'
BY DEF TypeOK, Outcome, Others

\* Types, one step per action.
LEMMA TypeCorrect == IInv /\ [Next]_vars => TypeOK'
<1> SUFFICES ASSUME IInv, [Next]_vars PROVE Outcome /\ Others'
  BY TypeParts
<1>t. TypeOK /\ GoodSlot(cur) /\ GoodSlot(run)
  BY DEF IInv, TypeOK
<1>o. Others
  BY <1>t DEF TypeOK, Others
<1>s. Shape
  BY DEF IInv
<1>l. At("script") \/ At("posture") \/ At("spin") \/ At("nav") \/ At("align") \/ At("sleep")
        \/ pc = "send" => cur # NoBranch
  BY <1>s DEF At, Shape
<1>n. active.by # NoBranch.br
  BY <1>o, TreeAssumption DEF Others, NoBranch, NoGoal
<1>1. CASE BeginTick
  BY <1>t, <1>o, <1>1 DEF BeginTick, Outcome, Others, TypeOK, GoodSlot, navVars, outVars
<1>2. CASE TryPhase
  BY <1>t, <1>o, <1>2 DEF TryPhase, Outcome, Others, TypeOK, GoodSlot, bbVars, navVars, outVars
<1>3. CASE Select
  <2>1. Others'
    <3>1. ph \in DOMAIN Phases
      BY <1>s, <1>3 DEF Select, Shape
    <3>2. \A i \in DOMAIN Phases[ph] : i \in Nat
      BY <3>1, TreeAssumption
    <3> QED
      BY <1>o, <1>3, <3>2 DEF Select, Others, navVars, outVars
  <2>2. Outcome
    <3>1. CASE cur' = cur /\ run' = run
      BY <1>t, <1>3, <3>1 DEF Select, Outcome, TypeOK, GoodSlot
    <3>2. CASE cur' = run /\ run' = NoBranch
      BY <1>t, <1>3, <3>2 DEF Select, Outcome, TypeOK, GoodSlot, Slots, SlotStates, NoBranch
    <3>3. ASSUME NEW i \in DOMAIN Phases[ph], run' = run,
                 cur' = [br |-> Phases[ph][i], ix |-> 1, live |-> FALSE, st |-> "none"]
          PROVE  Outcome
      <4>1. Phases[ph][i] \in Branches
        BY <1>s, <1>3, TreeAssumption DEF Select, Shape
      <4>2. 1 \in DOMAIN Steps[Phases[ph][i]]
        BY <4>1, TreeAssumption
      <4>3. GoodSlot(cur)'
        BY <3>3, <4>1, <4>2 DEF GoodSlot, Slots, SlotStates
      <4>4. GoodSlot(run)'
        BY <1>t, <3>3 DEF GoodSlot
      <4> QED
        BY <1>t, <1>3, <4>3, <4>4 DEF Select, Outcome, TypeOK
    <3> QED
      BY <1>3, <3>1, <3>2, <3>3 DEF Select
  <2> QED
    BY <2>1, <2>2
<1>4. CASE RootSpin
  <2>1. <<"root", 0>> \in SpinNodes
    BY DEF SpinNodes, SpinNodesOf
  <2> QED
    BY <1>t, <1>o, <1>4, <2>1
    DEF RootSpin, PublishSpin, Outcome, Others, TypeOK, GoodSlot, bbVars, navVars
<1>5. CASE Halt
  <2>1. Others'
    BY <1>o, <1>5 DEF Halt, Others, bbVars
  <2>2. cur' \in {cur, NoBranch} /\ run' \in {cur, NoBranch}
    BY <1>5 DEF Halt
  <2>3. GoodSlot(cur)' /\ GoodSlot(run)'
    BY <1>t, <2>2, NoBranchGood DEF GoodSlot
  <2> QED
    BY <1>t, <1>5, <2>1, <2>3 DEF Halt, Outcome, TypeOK
<1>6. CASE TickScript
  <2>1. Outcome
    BY <1>t, <1>l, <1>6, AdvanceOutcome DEF TickScript
  <2> QED
    BY <1>o, <1>6, <2>1 DEF TickScript, Others, navVars, outVars
<1>7. CASE TickPostureChange
  <2>1. Outcome
    BY <1>t, <1>l, <1>7, AdvanceOutcome DEF TickPostureChange
  <2> QED
    BY <1>o, <1>7, <2>1 DEF TickPostureChange, Others, navVars, Moving
<1>8. CASE TickSpinOrNot
  <2>1. Outcome
    BY <1>t, <1>l, <1>8, AdvanceOutcome DEF TickSpinOrNot
  <2>2. <<cur.br, cur.ix>> \in SpinNodes
    BY <1>t, <1>l, <1>8, LeafOfSlot DEF TickSpinOrNot, At, Leaf
  <2> QED
    BY <1>o, <1>8, <2>1, <2>2 DEF TickSpinOrNot, PublishSpin, Others, navVars
<1>9. CASE NavSend
  BY <1>t, <1>o, <1>9
  DEF NavSend, Outcome, Others, TypeOK, GoodSlot, bbVars, navVars, outVars
<1>10. CASE NavAccepted
  <2>1. Leaf.pose \in Poses /\ cur.br \in Branches
    BY <1>t, <1>l, <1>s, <1>10, LeafOfSlot DEF NavAccepted, Shape, Leaf
  <2>2. GoodSlot(Superseded(run))
    BY <1>t, <1>n, StatusKeepsSlot DEF Superseded, SlotStates
  <2>3. Outcome
    BY <1>t, <1>l, <1>10, <2>2, RunningOutcome DEF NavAccepted, SlotStates
  <2> QED
    BY <1>o, <1>10, <2>1, <2>3 DEF NavAccepted, Depart, Others, outVars
<1>11. CASE NavRefused
  <2>1. Outcome /\ failed' \in BOOLEAN
    BY <1>t, <1>11, FailOutcome DEF NavRefused
  <2> QED
    BY <1>o, <1>11, <2>1 DEF NavRefused, Others, navVars, outVars
<1>12. CASE NavTimedOut
  <2>1. Outcome /\ failed' \in BOOLEAN
    BY <1>t, <1>12, FailOutcome DEF NavTimedOut
  <2>2. Leaf.pose \in Poses
    BY <1>t, <1>l, <1>s, <1>12, LeafOfSlot DEF NavTimedOut, Shape, Leaf
  <2> QED
    BY <1>o, <1>12, <2>1, <2>2 DEF NavTimedOut, Others, outVars
<1>13. CASE NavRunning
  <2>1. Outcome /\ failed' \in BOOLEAN
    <3>1. CASE Advance /\ UNCHANGED <<failed, run>>
      BY <1>t, <1>l, <1>o, <1>13, <3>1, AdvanceOutcome DEF NavRunning, Others
    <3>2. CASE Fail /\ UNCHANGED run
      BY <1>t, <3>2, FailOutcome
    <3>3. CASE cur.st = "executing" /\ Running(cur.st, run) /\ UNCHANGED failed
      BY <1>t, <1>l, <1>o, <1>13, <3>3, RunningOutcome DEF NavRunning, Others, SlotStates
    <3> QED
      BY <1>13, <3>1, <3>2, <3>3 DEF NavRunning
  <2> QED
    BY <1>o, <1>13, <2>1 DEF NavRunning, Others, navVars, outVars
<1>14. CASE AlignStart
  <2>1. Outcome
    BY <1>t, <1>l, <1>14, RunningOutcome DEF AlignStart, SlotStates
  <2> QED
    BY <1>o, <1>14, <2>1 DEF AlignStart, Others, navVars, outVars
<1>15. CASE AlignRunning
  <2>1. Outcome /\ failed' \in BOOLEAN
    <3>1. CASE Running("executing", run) /\ UNCHANGED failed
      BY <1>t, <1>l, <1>o, <1>15, <3>1, RunningOutcome DEF AlignRunning, Others, SlotStates
    <3>2. CASE Fail /\ UNCHANGED run
      BY <1>t, <3>2, FailOutcome
    <3> QED
      BY <1>15, <3>1, <3>2 DEF AlignRunning
  <2> QED
    BY <1>o, <1>15, <2>1 DEF AlignRunning, Others, navVars
<1>16. CASE Aligned
  <2>1. Outcome
    BY <1>t, <1>l, <1>16, AdvanceOutcome DEF Aligned
  <2> QED
    BY <1>o, <1>16, <2>1 DEF Aligned, Others, navVars
<1>17. CASE SleepStart
  <2>1. Outcome
    BY <1>t, <1>l, <1>17, RunningOutcome DEF SleepStart, SlotStates
  <2> QED
    BY <1>o, <1>17, <2>1 DEF SleepStart, Others, navVars, outVars
<1>18. CASE SleepRunning
  <2>1. cur.st \in SlotStates
    BY <1>t DEF GoodSlot, Slots
  <2>2. Outcome
    BY <1>t, <1>l, <1>18, <2>1, AdvanceOutcome, RunningOutcome DEF SleepRunning
  <2> QED
    BY <1>o, <1>18, <2>2 DEF SleepRunning, Others, navVars, outVars
<1>19. ASSUME NEW r \in Reports, GameState(r) PROVE Outcome /\ Others'
  BY <1>t, <1>o, <1>19
  DEF GameState, Outcome, Others, TypeOK, GoodSlot, ctlVars, navVars, outVars
<1>20. ASSUME NEW outcome \in {"succeeded", "aborted"}, Resolve(outcome)
       PROVE  GoodSlot(cur)' /\ GoodSlot(run)'
  <2>1. /\ \/ cur' = [cur EXCEPT !.st = outcome] /\ cur # NoBranch
           \/ cur' = cur
        /\ \/ run' = [run EXCEPT !.st = outcome] /\ run # NoBranch
           \/ run' = run
    BY <1>n, <1>20 DEF Resolve
  <2>2. GoodSlot(cur)'
    <3>1. cur # NoBranch => GoodSlot([cur EXCEPT !.st = outcome])
      BY <1>t, StatusKeepsSlot DEF SlotStates
    <3> QED
      BY <1>t, <2>1, <3>1 DEF GoodSlot
  <2>3. GoodSlot(run)'
    <3>1. run # NoBranch => GoodSlot([run EXCEPT !.st = outcome])
      BY <1>t, StatusKeepsSlot DEF SlotStates
    <3> QED
      BY <1>t, <2>1, <3>1 DEF GoodSlot
  <2> QED
    BY <2>2, <2>3
<1>21. CASE GoalReached
  BY <1>t, <1>o, <1>20, <1>21
  DEF GoalReached, Outcome, Others, TypeOK, NoGoal, bbVars, ctlVars, outVars
<1>22. CASE GoalAborted
  BY <1>t, <1>o, <1>20, <1>22
  DEF GoalAborted, Outcome, Others, TypeOK, bbVars, ctlVars, outVars
<1>23. ASSUME NEW p \in Poses, LateAccept(p) PROVE Outcome /\ Others'
  BY <1>t, <1>o, <1>20, <1>23
  DEF LateAccept, Depart, Outcome, Others, TypeOK, bbVars, ctlVars, outVars
<1>24. ASSUME NEW p \in Poses, LateDrop(p) PROVE Outcome /\ Others'
  BY <1>t, <1>o, <1>24
  DEF LateDrop, Outcome, Others, TypeOK, GoodSlot, bbVars, ctlVars, outVars
<1>25. CASE SleepExpired
  BY <1>t, <1>o, <1>25
  DEF SleepExpired, Outcome, Others, TypeOK, GoodSlot, Slots, SlotStates, NoBranch,
      bbVars, ctlVars, navVars, outVars
<1>26. CASE UNCHANGED vars
  BY <1>t, <1>o, <1>26 DEF vars, Outcome, Others, TypeOK, GoodSlot
<1> QED
  BY <1>1, <1>2, <1>3, <1>4, <1>5, <1>6, <1>7, <1>8, <1>9, <1>10, <1>11, <1>12, <1>13,
     <1>14, <1>15, <1>16, <1>17, <1>18, <1>19, <1>21, <1>22, <1>23, <1>24, <1>25, <1>26
  DEF Next, Tick, Environment

-------------------------------------------------------------------------------
(* The two slots.                                                          *)

\* A slot that is not empty names a branch.
LEMMA SlotHoldsBranch == TypeOK => /\ cur # NoBranch => cur.br # "none"
                                   /\ run # NoBranch => run.br # "none"
BY LeafOfSlot DEF TypeOK

\* The shape of the slots after each of the three outcomes.
LEMMA AdvanceShape ==
  ASSUME TypeOK, Shape, pc = "leaf", Advance, run' = run, ph' = ph
  PROVE  Shape'
<1>1. CASE cur.ix < Len(Steps[cur.br])
  <2>1. /\ cur' = [br |-> cur.br, ix |-> cur.ix + 1, live |-> FALSE, st |-> "none"]
        /\ pc' = pc /\ after' = after
    BY <1>1 DEF Advance
  <2>2. cur.br # "none" /\ cur'.br = cur.br
    BY <2>1, SlotHoldsBranch DEF Shape
  <2>3. cur' # NoBranch
    BY <2>2, NoBranchGood
  <2> QED
    BY <2>1, <2>2, <2>3 DEF Shape
<1>2. CASE ~(cur.ix < Len(Steps[cur.br]))
  BY <1>2 DEF Advance, Shape
<1> QED
  BY <1>1, <1>2

LEMMA FailShape ==
  ASSUME TypeOK, Shape, pc \in {"leaf", "send"}, Fail, run' = run, ph' = ph
  PROVE  Shape'
BY DEF Fail, Shape

LEMMA RunningShape ==
  ASSUME TypeOK, Shape, pc \in {"leaf", "send"}, NEW st \in SlotStates, NEW r,
         r = NoBranch <=> run = NoBranch, r.br = run.br, r.live = run.live,
         Running(st, r), ph' = ph
  PROVE  Shape'
<1> DEFINE c == [cur EXCEPT !.live = TRUE, !.st = st]
<1>1. c.br = cur.br /\ c.live /\ c.br # "none" /\ c # NoBranch
  <2>1. cur # NoBranch /\ cur.br # "none" /\ cur \in Slots
    BY SlotHoldsBranch DEF Shape, TypeOK, GoodSlot
  <2> QED
    BY <2>1, NoBranchGood DEF Slots
<1>2. CASE r = NoBranch
  <2>1. run' = c /\ cur' = NoBranch /\ pc' = "idle"
    BY <1>2 DEF Running
  <2> QED
    BY <1>1, <2>1 DEF Shape
<1>3. CASE r # NoBranch
  <2>1. run' = r /\ cur' = c /\ pc' = "halt" /\ after' = "settle"
    BY <1>3 DEF Running
  <2> QED
    BY <1>1, <1>3, <2>1 DEF Shape
<1> QED
  BY <1>2, <1>3

\* Which slots are filled at every program point, one step per action.
LEMMA ShapeKept == IInv /\ [Next]_vars => Shape'
<1> SUFFICES ASSUME IInv, [Next]_vars PROVE Shape'
  OBVIOUS
<1>t. TypeOK /\ Shape
  BY DEF IInv
<1>b. /\ cur # NoBranch => cur.br # "none"
      /\ run # NoBranch => run.br # "none"
  BY <1>t, SlotHoldsBranch
<1>1. CASE BeginTick
  BY <1>t, <1>1 DEF BeginTick, Shape
<1>2. CASE TryPhase
  <2>1. ph \in Nat \ {0} /\ pc = "phase" /\ cur' = cur /\ run' = run /\ cur = NoBranch
    BY <1>t, <1>2 DEF TryPhase, Shape, TypeOK
  <2>2. CASE pc' \in {"idle", "spin"}
    BY <1>t, <2>1, <2>2 DEF Shape
  <2>3. CASE ph <= Len(Phases) /\ pc' = "select" /\ ph' = ph
    BY <1>t, <2>1, <2>3, TreeAssumption DEF Shape
  <2>4. CASE ph <= Len(Phases) /\ ph' = ph + 1 /\ pc' = "halt" /\ after' = "phase" /\ InPhase(run.br)
    <3>1. run.br # "none"
      BY <2>1, <2>4, TreeAssumption DEF InPhase
    <3> QED
      BY <1>t, <2>1, <2>4, <3>1, NoBranchGood DEF Shape
  <2>5. CASE ph' = ph + 1 /\ pc' = pc
    BY <1>t, <2>1, <2>5 DEF Shape
  <2> QED
    BY <1>2, <2>1, <2>2, <2>3, <2>4, <2>5 DEF TryPhase
<1>3. CASE Select
  <2>1. ASSUME NEW i \in DOMAIN Phases[ph], ph' = ph,
               ~BranchGuard(Phases[ph][i], ref, flag), Eligible(i),
               pc' = "halt", after' = "select", cur' = cur, run' = run
        PROVE  Shape'
    BY <1>t, <1>3, <2>1, NoBranchGood, TreeAssumption DEF Select, Shape, Eligible
  <2>2. ASSUME NEW i \in DOMAIN Phases[ph], ph' = ph, pc' = "leaf",
               IF Phases[ph][i] = run.br
               THEN cur' = run /\ run' = NoBranch
               ELSE /\ cur' = [br |-> Phases[ph][i], ix |-> 1, live |-> FALSE, st |-> "none"]
                    /\ run' = run
        PROVE  Shape'
    <3>1. Phases[ph][i] # "none" /\ ph \in DOMAIN Phases
      BY <1>t, <1>3, TreeAssumption DEF Select, Shape
    <3>2. cur'.br # run'.br /\ cur' # NoBranch /\ (run' # NoBranch => run'.live)
      BY <1>t, <2>2, <3>1, NoBranchGood DEF Shape
    <3> QED
      BY <2>2, <3>1, <3>2 DEF Shape
  <2>3. CASE pc' = "phase" /\ ph' = ph + 1 /\ cur' = cur /\ run' = run
    BY <1>t, <1>3, <2>3 DEF Select, Shape, TypeOK
  <2> QED
    BY <1>3, <2>1, <2>2, <2>3 DEF Select
<1>4. CASE RootSpin
  BY <1>t, <1>4 DEF RootSpin, Shape
<1>5. CASE Halt
  BY <1>t, <1>5, NoBranchGood DEF Halt, Shape, TypeOK
<1>6. CASE TickScript \/ TickPostureChange \/ TickSpinOrNot \/ Aligned
  BY <1>t, <1>6, AdvanceShape DEF TickScript, TickPostureChange, TickSpinOrNot, Aligned, At
<1>7. CASE NavSend
  BY <1>t, <1>7 DEF NavSend, At, Fresh, Shape, Leaf
<1>8. CASE NavAccepted
  <2>1. active.by # "none"
    BY <1>t, TreeAssumption DEF TypeOK, NoGoal
  <2> DEFINE r == Superseded(run)
  <2>2. (r = NoBranch <=> run = NoBranch) /\ r.br = run.br /\ r.live = run.live
    <3>1. CASE run = NoBranch
      BY <2>1, <3>1, NoBranchGood DEF Superseded
    <3>2. CASE run # NoBranch
      <4>1. GoodSlot(run)
        BY <1>t DEF TypeOK
      <4> QED
        BY <3>2, <4>1, StatusKeepsSlot DEF Superseded, SlotStates
    <3> QED
      BY <3>1, <3>2
  <2> QED
    BY <1>t, <1>8, <2>2, RunningShape DEF NavAccepted, SlotStates
<1>9. CASE NavRefused \/ NavTimedOut
  BY <1>t, <1>9, FailShape DEF NavRefused, NavTimedOut
<1>10. CASE NavRunning
  BY <1>t, <1>10, AdvanceShape, FailShape, RunningShape DEF NavRunning, At, SlotStates
<1>11. CASE AlignStart \/ SleepStart
  BY <1>t, <1>11, RunningShape DEF AlignStart, SleepStart, At, SlotStates
<1>12. CASE AlignRunning
  BY <1>t, <1>12, FailShape, RunningShape DEF AlignRunning, At, SlotStates
<1>13. CASE SleepRunning
  <2>1. cur.st \in SlotStates
    BY <1>t DEF TypeOK, GoodSlot, Slots
  <2> QED
    BY <1>t, <1>13, <2>1, AdvanceShape, RunningShape DEF SleepRunning, At
<1>14. ASSUME NEW r \in Reports, GameState(r) PROVE Shape'
  BY <1>t, <1>14 DEF GameState, Shape, ctlVars, Leaf
<1>15. ASSUME NEW outcome \in {"succeeded", "aborted"}, Resolve(outcome), UNCHANGED ctlVars
       PROVE  Shape'
  <2>1. active.by # "none"
    BY <1>t, TreeAssumption DEF TypeOK, NoGoal
  <2>2. /\ cur'.br = cur.br /\ cur'.ix = cur.ix /\ cur'.live = cur.live
        /\ cur' = NoBranch <=> cur = NoBranch
    <3> DEFINE d == [cur EXCEPT !.st = outcome]
    <3>1. cur # NoBranch => d # NoBranch /\ d.br = cur.br /\ d.ix = cur.ix /\ d.live = cur.live
      <4>1. GoodSlot(cur) /\ outcome \in SlotStates
        BY <1>t, <1>15 DEF TypeOK, SlotStates
      <4> QED
        BY <4>1, StatusKeepsSlot
    <3> QED
      BY <1>15, <2>1, <3>1, NoBranchGood DEF Resolve
  <2>3. /\ run'.br = run.br /\ run'.live = run.live
        /\ run' = NoBranch <=> run = NoBranch
    <3> DEFINE d == [run EXCEPT !.st = outcome]
    <3>1. run # NoBranch => d # NoBranch /\ d.br = run.br /\ d.live = run.live
      <4>1. GoodSlot(run) /\ outcome \in SlotStates
        BY <1>t, <1>15 DEF TypeOK, SlotStates
      <4> QED
        BY <4>1, StatusKeepsSlot
    <3> QED
      BY <1>15, <2>1, <3>1, NoBranchGood DEF Resolve
  <2> QED
    BY <1>t, <1>15, <2>2, <2>3 DEF Shape, ctlVars, Leaf
<1>16. CASE GoalReached \/ GoalAborted
  BY <1>15, <1>16 DEF GoalReached, GoalAborted
<1>17. ASSUME NEW p \in Poses, LateAccept(p) \/ LateDrop(p) PROVE Shape'
  <2>1. CASE LateAccept(p)
    BY <1>15, <2>1 DEF LateAccept
  <2>2. CASE LateDrop(p)
    BY <1>t, <2>2 DEF LateDrop, Shape, ctlVars, Leaf
  <2> QED
    BY <1>17, <2>1, <2>2
<1>18. CASE SleepExpired
  <2>1. run.live /\ run' = [run EXCEPT !.st = "succeeded"] /\ cur' = cur
    BY <1>18 DEF SleepExpired
  <2>2. run' # NoBranch /\ run'.br = run.br /\ run'.live
    BY <1>t, <2>1, NoBranchGood, StatusKeepsSlot DEF TypeOK, SlotStates
  <2> QED
    BY <1>t, <1>18, <2>1, <2>2, NoBranchGood DEF SleepExpired, Shape, ctlVars, Leaf
<1>19. CASE UNCHANGED vars
  BY <1>t, <1>19 DEF vars, Shape, Leaf
<1> QED
  BY <1>1, <1>2, <1>3, <1>4, <1>5, <1>6, <1>7, <1>8, <1>9, <1>10, <1>11, <1>12, <1>13,
     <1>14, <1>16, <1>17, <1>18, <1>19 DEF Next, Tick, Environment

-------------------------------------------------------------------------------
(* The goal of the server.                                                 *)

\* No slot waits in vain, and the goal has its slot.
Waits(c) == c.live /\ c.st = "executing" /\ Steps[c.br][c.ix].kind = "nav"
Matched == /\ active # NoGoal /\ active.by # "lost" => Tracks(cur) \/ Tracks(run)
           /\ Waits(cur) => active.by = cur.br
           /\ Waits(run) => active.by = run.br

\* GoalTracked and NoForgottenGoal are the two directions of one match.
LEMMA MatchedIs == GoalTracked /\ NoForgottenGoal <=> Matched
BY DEF GoalTracked, NoForgottenGoal, Matched, Waits

\* Neither slot is the empty one when it is matched with a goal.
LEMMA OwnerIsBranch ==
  ASSUME TypeOK
  PROVE  /\ active.by \notin {"none"}
         /\ active = NoGoal <=> active.by = "nobody"
         /\ cur.br \notin {"nobody", "lost"} /\ run.br \notin {"nobody", "lost"}
<1>1. cur.br \in Branches \cup {"none"} /\ run.br \in Branches \cup {"none"}
  BY DEF TypeOK, GoodSlot, Slots
<1> QED
  BY <1>1, TreeAssumption DEF TypeOK, NoGoal

\* The leaf that has just ended held no goal: it was no Nav2Pose, or its status is final.
Ended == cur.live /\ cur.st = "executing" => Leaf.kind # "nav"

\* A leaf that ends without a goal keeps the match, and so does one that goes on RUNNING.
LEMMA EndedMatched ==
  ASSUME TypeOK, Shape, Matched, cur # NoBranch, Ended, Advance \/ Fail, run' = run, active' = active
  PROVE  Matched'
<1>1. ~Tracks(cur)
  BY DEF Ended, Tracks, Leaf
<1>2. ~cur'.live
  BY NoBranchGood DEF Advance, Fail
<1> QED
  BY <1>1, <1>2 DEF Matched, Tracks, Waits

LEMMA RunningMatched ==
  ASSUME TypeOK, Shape, Matched, cur # NoBranch, NEW st \in SlotStates, Running(st, run),
         Leaf.kind = "nav" => cur.live /\ st = cur.st, active' = active
  PROVE  Matched'
<1> DEFINE c == [cur EXCEPT !.live = TRUE, !.st = st]
<1>1. c.br = cur.br /\ c.ix = cur.ix /\ c.live /\ c.st = st
  BY DEF TypeOK, GoodSlot, Slots
<1>3. Waits(c) => Waits(cur)
  BY <1>1 DEF Waits, Leaf
<1>4. Tracks(cur) => Tracks(c)
  BY <1>1 DEF Tracks, Leaf
<1>5. ~Waits(NoBranch) /\ ~Tracks(NoBranch)
  BY NoBranchGood DEF Waits, Tracks
<1>6. \/ run = NoBranch /\ run' = c /\ cur' = NoBranch
      \/ run' = run /\ cur' = c
  BY DEF Running
<1> QED
  BY <1>1, <1>3, <1>4, <1>5, <1>6 DEF Matched, Tracks, Waits

\* Accepting a goal changes the owner and turns the preempted handle to aborted at once.
LEMMA AcceptedMatched ==
  ASSUME TypeOK, Shape, Matched, NavAccepted
  PROVE  Matched'
<1> DEFINE r == Superseded(run)
           c == [cur EXCEPT !.live = TRUE, !.st = "executing"]
<1>1. /\ cur # NoBranch /\ cur.br # run.br /\ Leaf.kind = "nav"
      /\ active' = [pose |-> Leaf.pose, by |-> cur.br]
      /\ Running("executing", r)
  BY DEF NavAccepted, Shape
<1>2. c.br = cur.br /\ c.ix = cur.ix /\ c.live /\ c.st = "executing"
  BY DEF TypeOK, GoodSlot, Slots
<1>3. ~Waits(r)
  <2>1. CASE run.br = active.by
    <3>1. run # NoBranch
      BY <2>1, OwnerIsBranch, NoBranchGood
    <3>2. r = [run EXCEPT !.st = "aborted"] /\ r.st = "aborted"
      BY <2>1, <3>1, StatusKeepsSlot DEF Superseded, TypeOK, SlotStates
    <3> QED
      BY <3>2 DEF Waits
  <2>2. CASE run.br # active.by
    BY <2>2 DEF Superseded, Matched
  <2> QED
    BY <2>1, <2>2
<1>4. /\ Waits(c) => active'.by = c.br
      /\ ~Waits(NoBranch)
      /\ active'.by = c.br /\ active'.pose = Steps[c.br][c.ix].pose
      /\ Steps[c.br][c.ix].kind = "nav"
  BY <1>1, <1>2, NoBranchGood DEF Waits, Leaf
<1>5. \/ run' = c /\ cur' = NoBranch
      \/ run' = r /\ cur' = c
  BY <1>1 DEF Running
<1> QED
  BY <1>2, <1>3, <1>4, <1>5 DEF Matched, Tracks, Waits

\* A goal that ends leaves the server and resolves the handle of its owner.
LEMMA ResolvedMatched ==
  ASSUME TypeOK, Matched, NEW outcome \in {"succeeded", "aborted"}, Resolve(outcome),
         active'.by = "lost" \/ active' = NoGoal
  PROVE  Matched'
<1>1. ASSUME NEW c, NEW d, GoodSlot(c), Waits(c) => active.by = c.br,
             d = IF c.br = active.by THEN [c EXCEPT !.st = outcome] ELSE c
      PROVE  ~Waits(d)
  <2>1. CASE c.br = active.by
    <3>1. d.st = outcome
      BY <1>1, <2>1 DEF GoodSlot, Slots
    <3> QED
      BY <3>1 DEF Waits
  <2>2. CASE c.br # active.by
    BY <1>1, <2>2
  <2> QED
    BY <2>1, <2>2
<1>2. ~Waits(cur') /\ ~Waits(run')
  BY <1>1 DEF Resolve, TypeOK, Matched
<1> QED
  BY <1>2 DEF Matched, Waits

\* A halted leaf cancels its own goal and no other.
LEMMA HaltMatched ==
  ASSUME TypeOK, Shape, Matched, Halt
  PROVE  Matched'
<1>1. /\ run # NoBranch
      /\ active' = IF RunningLeaf.kind = "nav" /\ active.by = run.br THEN NoGoal ELSE active
      /\ after = "settle" => run' = cur /\ cur' = NoBranch /\ cur.br # run.br
      /\ after # "settle" => run' = NoBranch /\ cur' = NoBranch
  BY DEF Halt, Shape
<1>2. ~Waits(NoBranch) /\ ~Tracks(NoBranch)
  BY NoBranchGood, OwnerIsBranch DEF Waits, Tracks
<1>3. Tracks(run) => active' = NoGoal
  BY <1>1 DEF Tracks, RunningLeaf
<1>4. CASE after = "settle"
  <2>1. Waits(cur) => active' = active /\ active.by = cur.br
    BY <1>1, <1>4 DEF Matched
  <2>2. active' # NoGoal => active' = active
    BY <1>1
  <2>3. active # NoGoal /\ active.by # "lost" /\ active' = active => Tracks(cur)
    BY <1>3 DEF Matched
  <2> QED
    BY <1>1, <1>2, <1>4, <2>1, <2>2, <2>3 DEF Matched, Tracks, Waits
<1>5. CASE after # "settle"
  <2>1. cur = NoBranch
    BY <1>5 DEF Halt, Shape
  <2>2. active' # NoGoal => active'.by = "lost"
    BY <1>1, <1>2, <1>3, <2>1 DEF Matched
  <2> QED
    BY <1>1, <1>2, <1>5, <2>2 DEF Matched, Waits
<1> QED
  BY <1>4, <1>5

\* The match, one step per action.
LEMMA MatchedKept == IInv /\ [Next]_vars => Matched'
<1> SUFFICES ASSUME IInv, [Next]_vars PROVE Matched'
  OBVIOUS
<1>t. TypeOK /\ Shape /\ Matched
  BY MatchedIs DEF IInv
<1>n. ~Waits(NoBranch) /\ ~Tracks(NoBranch)
  BY <1>t, NoBranchGood, OwnerIsBranch DEF Waits, Tracks
<1>s. SlotStates = {"none", "executing", "succeeded", "aborted"}
  BY DEF SlotStates
<1>1. CASE BeginTick \/ TryPhase \/ RootSpin \/ NavSend
  BY <1>t, <1>1 DEF BeginTick, TryPhase, RootSpin, NavSend, navVars, Matched, Tracks, Waits
<1>2. CASE Select
  <2>1. /\ active' = active /\ cur = NoBranch
        /\ \/ cur' = cur /\ run' = run
           \/ cur' = run /\ run' = NoBranch
           \/ ~cur'.live /\ run' = run
    <3>1. active' = active /\ cur = NoBranch
      BY <1>t, <1>2 DEF Select, navVars, Shape
    <3>2. ASSUME NEW b, cur' = [br |-> b, ix |-> 1, live |-> FALSE, st |-> "none"]
          PROVE  ~cur'.live
      BY <3>2
    <3> QED
      BY <1>2, <3>1, <3>2 DEF Select
  <2> QED
    BY <1>t, <1>n, <2>1 DEF Matched, Tracks, Waits
<1>3. CASE Halt
  BY <1>t, <1>3, HaltMatched
<1>4. CASE TickScript \/ TickPostureChange \/ TickSpinOrNot \/ Aligned
  <2>1. cur # NoBranch /\ Ended /\ Advance /\ run' = run /\ active' = active
    BY <1>t, <1>4
    DEF TickScript, TickPostureChange, TickSpinOrNot, Aligned, At, Ended, Shape, navVars
  <2> QED
    BY <1>t, <2>1, EndedMatched
<1>5. CASE NavAccepted
  BY <1>t, <1>5, AcceptedMatched
<1>6. CASE NavRefused \/ NavTimedOut
  <2>1. cur # NoBranch /\ Ended /\ Fail /\ run' = run /\ active' = active
    BY <1>t, <1>6 DEF NavRefused, NavTimedOut, Ended, Shape, navVars
  <2> QED
    BY <1>t, <2>1, EndedMatched
<1>7. CASE NavRunning
  <2>1. cur # NoBranch /\ Leaf.kind = "nav" /\ cur.live /\ active' = active
    BY <1>t, <1>7 DEF NavRunning, At, Fresh, Shape, navVars
  <2>2. CASE cur.st # "executing" /\ (Advance \/ Fail) /\ run' = run
    BY <1>t, <2>1, <2>2, EndedMatched DEF Ended
  <2>3. CASE cur.st = "executing" /\ Running(cur.st, run)
    BY <1>t, <1>s, <2>1, <2>3, RunningMatched
  <2> QED
    BY <1>7, <2>2, <2>3 DEF NavRunning
<1>8. CASE AlignStart \/ SleepStart
  <2>1. cur # NoBranch /\ Leaf.kind # "nav" /\ Running("executing", run) /\ active' = active
    BY <1>t, <1>8 DEF AlignStart, SleepStart, At, Shape, navVars
  <2> QED
    BY <1>t, <1>s, <2>1, RunningMatched
<1>9. CASE AlignRunning
  <2>1. cur # NoBranch /\ Leaf.kind # "nav" /\ active' = active
    BY <1>t, <1>9 DEF AlignRunning, At, Shape, navVars
  <2>2. Running("executing", run) \/ (Fail /\ run' = run)
    BY <1>9 DEF AlignRunning
  <2> QED
    BY <1>t, <1>s, <2>1, <2>2, RunningMatched, EndedMatched DEF Ended
<1>10. CASE SleepRunning
  <2>1. cur # NoBranch /\ Leaf.kind # "nav" /\ active' = active /\ cur.st \in SlotStates
    BY <1>t, <1>10 DEF SleepRunning, At, Shape, navVars, TypeOK, GoodSlot, Slots
  <2>2. Running(cur.st, run) \/ (Advance /\ run' = run)
    BY <1>10 DEF SleepRunning
  <2> QED
    BY <1>t, <2>1, <2>2, RunningMatched, EndedMatched DEF Ended
<1>11. ASSUME NEW r \in Reports, GameState(r) PROVE Matched'
  BY <1>t, <1>11 DEF GameState, navVars, Matched, Tracks, Waits
<1>12. CASE GoalReached
  BY <1>t, <1>12, ResolvedMatched DEF GoalReached
<1>13. CASE GoalAborted
  BY <1>t, <1>13, ResolvedMatched DEF GoalAborted
<1>14. ASSUME NEW p \in Poses, LateAccept(p) PROVE Matched'
  BY <1>t, <1>14, ResolvedMatched DEF LateAccept
<1>15. ASSUME NEW p \in Poses, LateDrop(p) PROVE Matched'
  BY <1>t, <1>15 DEF LateDrop, Matched, Tracks, Waits
<1>16. CASE SleepExpired
  <2>1. /\ RunningLeaf.kind = "sleep" /\ run' = [run EXCEPT !.st = "succeeded"]
        /\ cur' = cur /\ active' = active
    BY <1>16 DEF SleepExpired, navVars
  <2>2. run'.br = run.br /\ run'.ix = run.ix
    BY <1>t, <2>1 DEF TypeOK, GoodSlot, Slots
  <2>3. ~Tracks(run) /\ ~Waits(run')
    BY <2>1, <2>2 DEF Tracks, Waits, RunningLeaf
  <2> QED
    BY <1>t, <2>1, <2>3 DEF Matched, Tracks, Waits
<1>17. CASE UNCHANGED vars
  BY <1>t, <1>17 DEF vars, Matched, Tracks, Waits
<1> QED
  BY <1>1, <1>2, <1>3, <1>4, <1>5, <1>6, <1>7, <1>8, <1>9, <1>10, <1>11, <1>12, <1>13,
     <1>14, <1>15, <1>16, <1>17 DEF Next, Tick, Environment

-------------------------------------------------------------------------------
\* Nothing runs and the server is idle at the start.
LEMMA InitIInv == Init => IInv
<1> SUFFICES ASSUME Init PROVE IInv
  OBVIOUS
<1>1. TypeOK
  <2>1. GoodSlot(cur) /\ GoodSlot(run)
    BY NoBranchGood DEF Init
  <2>2. sent \in [SpinNodes -> 0..2] /\ posture \in 1..3 /\ spin \in 0..2
    BY DEF Init, Moving
  <2> QED
    BY <2>1, <2>2 DEF Init, TypeOK
<1>2. Shape
  BY DEF Init, Shape
<1>3. Matched
  BY NoBranchGood DEF Init, Matched, Waits
<1> QED
  BY <1>1, <1>2, <1>3, MatchedIs DEF IInv

\* The inductive invariant of the executor, for every tree.
THEOREM Invariance == Spec => []IInv
<1>1. IInv /\ [Next]_vars => IInv'
  <2>1. MatchedIs!1' <=> MatchedIs!2'
    BY DEF GoalTracked, NoForgottenGoal, Matched, Waits
  <2> QED
    BY TypeCorrect, ShapeKept, MatchedKept, <2>1 DEF IInv
<1> QED
  BY InitIInv, <1>1, PTL DEF Spec

\* Types, for every tree.
THEOREM TypeInvariance == Spec => []TypeOK
<1>1. IInv => TypeOK
  BY DEF IInv
<1> QED
  BY Invariance, <1>1, PTL

\* For every tree, whatever fails and however goals preempt, abort and arrive late,
\* the server works for the Nav2Pose leaf that waits (nav2pose.cpp).
THEOREM GoalAlwaysTracked == Spec => []GoalTracked
<1>1. IInv => GoalTracked
  BY DEF IInv
<1> QED
  BY Invariance, <1>1, PTL

\* ... and no Nav2Pose leaf waits for a goal nobody works on.
THEOREM GoalNeverForgotten == Spec => []NoForgottenGoal
<1>1. IInv => NoForgottenGoal
  BY DEF IInv
<1> QED
  BY Invariance, <1>1, PTL

\* Between ticks the goal belongs to the running branch: halting cancels it in time.
THEOREM OneOwner == Spec => []OneOwnerAtRest
<1>1. IInv => OneOwnerAtRest
  <2> SUFFICES ASSUME IInv, pc = "idle", active # NoGoal PROVE active.by \in {run.br, "lost"}
    BY DEF OneOwnerAtRest
  <2>1. cur = NoBranch /\ TypeOK
    BY DEF IInv, Shape
  <2>2. ~Tracks(cur)
    BY <2>1, NoBranchGood DEF Tracks
  <2> QED
    BY <2>2 DEF IInv, GoalTracked, Tracks
<1> QED
  BY Invariance, <1>1, PTL

-------------------------------------------------------------------------------
(* A tick passes over the running branch only by ticking or halting it.    *)

Later(p, i) == p > ph \/ (p = ph /\ (pc = "phase" \/ i > at))

\* Both slots hold branches of some phase; the running branch is still to come.
InTree(c) == c # NoBranch => \E p \in DOMAIN Phases : \E i \in DOMAIN Phases[p] : Phases[p][i] = c.br
Ahead ==
  run # NoBranch /\ pc \in {"phase", "select", "leaf", "send"} =>
    \E p \in DOMAIN Phases : \E i \in DOMAIN Phases[p] : Phases[p][i] = run.br /\ Later(p, i)

Swept ==
  /\ InTree(cur) /\ InTree(run)
  /\ Ahead
  /\ pc = "spin" => run = NoBranch

\* A leaf changes neither branch nor position.
LEMMA LeafSwept ==
  ASSUME IInv, Swept, pc \in {"leaf", "send"}, ph' = ph, at' = at,
         \/ (Advance \/ Fail) /\ run' = run
         \/ \E st \in SlotStates : Running(st, run) \/ Running(st, Superseded(run))
         \/ pc' = "send" /\ cur' = cur /\ run' = run
  PROVE  Swept'
<1>1. cur # NoBranch /\ GoodSlot(cur) /\ GoodSlot(run) /\ TypeOK
  BY DEF IInv, Shape, TypeOK
<1>2. CASE (Advance \/ Fail) /\ run' = run
  <2>1. /\ cur' = NoBranch \/ cur'.br = cur.br
        /\ pc' \in {"leaf", "send", "select", "halt"} \/ (pc' = "spin" /\ run = NoBranch)
    BY <1>2 DEF Advance, Fail, IInv, Shape
  <2> QED
    BY <1>1, <1>2, <2>1 DEF Swept, Ahead, Later, InTree
<1>3. ASSUME NEW st \in SlotStates, Running(st, run) \/ Running(st, Superseded(run)) PROVE Swept'
  <2>1. Superseded(run).br = run.br /\ (Superseded(run) = NoBranch => run = NoBranch)
    <3>1. run # NoBranch => [run EXCEPT !.st = "aborted"].br = run.br /\ [run EXCEPT !.st = "aborted"] # NoBranch
      BY <1>1, StatusKeepsSlot DEF SlotStates
    <3>2. run = NoBranch => active.by # run.br
      BY <1>1, OwnerIsBranch, NoBranchGood
    <3> QED
      BY <3>1, <3>2 DEF Superseded
  <2>2. [cur EXCEPT !.live = TRUE, !.st = st].br = cur.br
    BY <1>1 DEF GoodSlot, Slots
  <2>3. /\ pc' \in {"idle", "halt"}
        /\ cur' = NoBranch \/ cur'.br = cur.br
        /\ run' = NoBranch \/ run'.br = cur.br \/ (run'.br = run.br /\ run # NoBranch)
    <3> DEFINE c == [cur EXCEPT !.live = TRUE, !.st = st]
    <3>1. CASE Running(st, run)
      <4>1. \/ run' = c /\ cur' = NoBranch /\ pc' = "idle"
            \/ run' = run /\ cur' = c /\ pc' = "halt"
        BY <3>1 DEF Running
      <4> QED
        BY <2>2, <4>1
    <3>2. CASE Running(st, Superseded(run))
      <4>1. \/ run' = c /\ cur' = NoBranch /\ pc' = "idle"
            \/ run' = Superseded(run) /\ cur' = c /\ pc' = "halt"
        BY <3>2 DEF Running
      <4>2. run = NoBranch => Superseded(run) = NoBranch
        BY <1>1, OwnerIsBranch, NoBranchGood DEF Superseded
      <4> QED
        BY <2>1, <2>2, <4>1, <4>2
    <3> QED
      BY <1>3, <3>1, <3>2
  <2> QED
    BY <1>1, <2>3 DEF Swept, Ahead, InTree
<1>4. CASE pc' = "send" /\ cur' = cur /\ run' = run
  BY <1>4 DEF Swept, Ahead, Later, InTree
<1> QED
  BY <1>2, <1>3, <1>4

\* Selecting a branch outside the match leaves no goal behind.
LEMMA SelectSwept ==
  ASSUME IInv, Swept, Select
  PROVE  Swept'
<1>t. /\ cur = NoBranch /\ ph \in DOMAIN Phases /\ pc = "select" /\ at \in Nat /\ ph \in Nat
      /\ \A p \in DOMAIN Phases : p \in Nat
      /\ \A i \in DOMAIN Phases[ph] : i \in Nat
  BY TreeAssumption DEF Select, IInv, Shape, TypeOK
<1>1. CASE ~\E i \in DOMAIN Phases[ph] : Eligible(i)
  <2>1. pc' = "phase" /\ ph' = ph + 1 /\ cur' = cur /\ run' = run /\ at' = at
    BY <1>1 DEF Select
  <2>2. ASSUME NEW p \in DOMAIN Phases, NEW i \in DOMAIN Phases[p], Phases[p][i] = run.br, Later(p, i)
        PROVE  p >= ph + 1
    BY <1>1, <1>t, <2>2 DEF Later, Eligible
  <2> QED
    BY <1>t, <2>1, <2>2 DEF Swept, Ahead, Later, InTree
<1>2. ASSUME NEW i \in DOMAIN Phases[ph],
             Eligible(i), \A j \in DOMAIN Phases[ph] : Eligible(j) => i <= j,
             at' = i, ph' = ph,
             \/ pc' = "halt" /\ UNCHANGED <<cur, run>>
             \/ /\ pc' = "leaf"
                /\ IF Phases[ph][i] = run.br
                   THEN cur' = run /\ run' = NoBranch
                   ELSE /\ cur' = [br |-> Phases[ph][i], ix |-> 1, live |-> FALSE, st |-> "none"]
                        /\ run' = run
      PROVE  Swept'
  <2>1. CASE pc' = "halt" /\ UNCHANGED <<cur, run>>
    BY <2>1 DEF Swept, Ahead, InTree
  <2>2. CASE pc' = "leaf" /\ cur' = run /\ run' = NoBranch
    BY <2>2 DEF Swept, Ahead, InTree
  <2>3. CASE /\ pc' = "leaf" /\ Phases[ph][i] # run.br /\ run' = run
             /\ cur' = [br |-> Phases[ph][i], ix |-> 1, live |-> FALSE, st |-> "none"]
    <3>1. ASSUME NEW p \in DOMAIN Phases, NEW j \in DOMAIN Phases[p], Phases[p][j] = run.br, Later(p, j)
          PROVE  p > ph \/ (p = ph /\ j > i)
      BY <1>2, <1>t, <2>3, <3>1 DEF Later, Eligible
    <3>2. Ahead'
      BY <1>2, <2>3, <3>1, <1>t DEF Swept, Ahead, Later
    <3>3. InTree(cur)' /\ InTree(run)'
      BY <1>t, <2>3 DEF Swept, InTree
    <3> QED
      BY <2>3, <3>2, <3>3 DEF Swept
  <2> QED
    BY <1>2, <2>1, <2>2, <2>3
<1> QED
  BY <1>1, <1>2 DEF Select

\* Swept, one step per action.
LEMMA SweptKept == IInv /\ Swept /\ [Next]_vars => Swept'
<1> SUFFICES ASSUME IInv, Swept, [Next]_vars PROVE Swept'
  OBVIOUS
<1>t. TypeOK /\ Shape
  BY DEF IInv
<1>s. SlotStates = {"none", "executing", "succeeded", "aborted"}
  BY DEF SlotStates
<1>1. CASE BeginTick
  <2>1. /\ ph' = 1 /\ cur' = cur /\ run' = run
        /\ pc' \in {"phase", "halt"} \/ (pc' = "spin" /\ run = NoBranch)
    BY <1>1 DEF BeginTick
  <2>2. \A p \in DOMAIN Phases : p \in Nat /\ (p > 1 \/ p = 1)
    BY TreeAssumption
  <2> QED
    BY <2>1, <2>2 DEF Swept, Ahead, Later, InTree
<1>2. CASE TryPhase
  <2>1. /\ cur' = cur /\ run' = run /\ ph \in Nat \ {0} /\ pc = "phase"
        /\ Len(Phases) \in Nat /\ DOMAIN Phases = 1..Len(Phases)
    BY <1>t, <1>2, TreeAssumption DEF TryPhase, Shape, TypeOK
  <2>2. CASE ph > Len(Phases) /\ pc' \in {"idle", "spin"}
    <3>1. run = NoBranch
      BY <2>1, <2>2 DEF Swept, Ahead, Later
    <3> QED
      BY <2>1, <2>2, <3>1 DEF Swept, Ahead, InTree
  <2>3. CASE pc' = "select" /\ ph' = ph /\ at' = 0
    <3>1. \A i \in DOMAIN Phases[ph] : ph \in DOMAIN Phases => i > 0
      BY TreeAssumption
    <3> QED
      BY <2>1, <2>3, <3>1 DEF Swept, Ahead, Later, InTree
  <2>4. CASE pc' = "halt"
    BY <2>1, <2>4 DEF Swept, Ahead, InTree
  <2>5. CASE ph' = ph + 1 /\ pc' = pc /\ at' = at /\ ~InPhase(run.br)
    <3>1. ASSUME NEW p \in DOMAIN Phases, NEW i \in DOMAIN Phases[p],
                 Phases[p][i] = run.br, Later(p, i)
          PROVE  p >= ph + 1
      BY <2>1, <2>5, <3>1 DEF Later, InPhase
    <3> QED
      BY <2>1, <2>5, <3>1 DEF Swept, Ahead, Later, InTree
  <2> QED
    BY <1>2, <2>2, <2>3, <2>4, <2>5 DEF TryPhase
<1>3. CASE Select
  BY <1>3, SelectSwept
<1>4. CASE RootSpin
  BY <1>4 DEF RootSpin, Swept, Ahead, InTree
<1>5. CASE Halt
  <2>1. \/ run' = cur /\ cur' = NoBranch /\ pc' = "idle"
        \/ run' = NoBranch /\ cur' = cur
    BY <1>5 DEF Halt
  <2> QED
    BY <2>1 DEF Swept, Ahead, InTree
<1>6. CASE TickScript \/ TickPostureChange \/ TickSpinOrNot \/ Aligned
  BY <1>6, LeafSwept DEF TickScript, TickPostureChange, TickSpinOrNot, Aligned, At
<1>7. CASE NavSend
  BY <1>7, LeafSwept DEF NavSend, At
<1>8. CASE NavAccepted
  BY <1>s, <1>8, LeafSwept DEF NavAccepted
<1>9. CASE NavRefused \/ NavTimedOut
  BY <1>9, LeafSwept DEF NavRefused, NavTimedOut
<1>10. CASE NavRunning
  BY <1>s, <1>10, LeafSwept DEF NavRunning, At
<1>11. CASE AlignStart \/ SleepStart
  BY <1>s, <1>11, LeafSwept DEF AlignStart, SleepStart, At
<1>12. CASE AlignRunning
  BY <1>s, <1>12, LeafSwept DEF AlignRunning, At
<1>13. CASE SleepRunning
  <2>1. cur.st \in SlotStates
    BY <1>t DEF TypeOK, GoodSlot, Slots
  <2> QED
    BY <1>13, <2>1, LeafSwept DEF SleepRunning, At
<1>14. ASSUME /\ UNCHANGED ctlVars /\ pc # "spin"
              /\ cur'.br = cur.br /\ run'.br = run.br
              /\ cur' = NoBranch <=> cur = NoBranch
              /\ run' = NoBranch <=> run = NoBranch
       PROVE  Swept'
  BY <1>14 DEF ctlVars, Swept, Ahead, Later, InTree
<1>15. ASSUME NEW r \in Reports, GameState(r) PROVE Swept'
  BY <1>14, <1>15 DEF GameState, Spinning
<1>16. ASSUME NEW outcome \in {"succeeded", "aborted"}, Resolve(outcome), UNCHANGED ctlVars, Spinning
       PROVE  Swept'
  <2>1. GoodSlot(cur) /\ GoodSlot(run) /\ outcome \in SlotStates /\ active.by # NoBranch.br
    BY <1>t, <1>s, OwnerIsBranch, NoBranchGood DEF TypeOK
  <2>2. cur'.br = cur.br /\ (cur' = NoBranch <=> cur = NoBranch)
    BY <1>16, <2>1, StatusKeepsSlot DEF Resolve
  <2>3. run'.br = run.br /\ (run' = NoBranch <=> run = NoBranch)
    BY <1>16, <2>1, StatusKeepsSlot DEF Resolve
  <2> QED
    BY <1>14, <1>16, <2>2, <2>3 DEF Spinning
<1>17. CASE GoalReached \/ GoalAborted
  BY <1>16, <1>17 DEF GoalReached, GoalAborted
<1>18. ASSUME NEW p \in Poses, LateAccept(p) \/ LateDrop(p) PROVE Swept'
  BY <1>14, <1>16, <1>18 DEF LateAccept, LateDrop, Spinning
<1>19. CASE SleepExpired
  <2>1. run' = [run EXCEPT !.st = "succeeded"] /\ run # NoBranch /\ GoodSlot(run)
    BY <1>t, <1>19, NoBranchGood DEF SleepExpired, TypeOK
  <2>2. run'.br = run.br /\ run' # NoBranch
    BY <1>s, <2>1, StatusKeepsSlot
  <2> QED
    BY <1>14, <1>19, <2>1, <2>2 DEF SleepExpired
<1>20. CASE UNCHANGED vars
  BY <1>20 DEF vars, Swept, Ahead, Later, InTree
<1> QED
  BY <1>1, <1>2, <1>3, <1>4, <1>5, <1>6, <1>7, <1>8, <1>9, <1>10, <1>11, <1>12, <1>13,
     <1>15, <1>17, <1>18, <1>19, <1>20 DEF Next, Tick, Environment

\* No goal is lost when no request times out.
NothingLost == active.by # "lost" /\ late = {}

\* Without timeouts no request is ever late, and no leaf gives one up.
LEMMA NothingLostKept == "timeout" \notin Faults /\ TypeOK /\ Shape /\ NothingLost /\ [Next]_vars => NothingLost'
<1> SUFFICES ASSUME "timeout" \notin Faults, TypeOK, Shape, NothingLost, [Next]_vars PROVE NothingLost'
  OBVIOUS
<1>1. CASE NavAccepted
  BY <1>1, SlotHoldsBranch, OwnerIsBranch DEF NavAccepted, NothingLost
<1>2. CASE Halt \/ GoalReached \/ GoalAborted
  <2>1. active' \in {active, NoGoal} /\ late' = late
    BY <1>2 DEF Halt, GoalReached, GoalAborted
  <2>2. NoGoal.by # "lost"
    BY DEF NoGoal
  <2> QED
    BY <2>1, <2>2 DEF NothingLost
<1>3. ASSUME ~NavAccepted, ~Halt, ~GoalReached, ~GoalAborted PROVE active' = active /\ late' = late
  BY <1>3
  DEF Next, Tick, Environment, BeginTick, TryPhase, Select, RootSpin, TickScript,
      TickPostureChange, TickSpinOrNot, NavSend, NavRefused, NavTimedOut, NavRunning,
      AlignStart, AlignRunning, Aligned, SleepStart, SleepRunning, GameState, LateAccept,
      LateDrop, SleepExpired, navVars, vars, NothingLost
<1> QED
  BY <1>1, <1>2, <1>3 DEF NothingLost

\* For every tree, and with every fault but a timed-out goal request: a tick that ends
\* with the root's SpinOrNot, as one outside the match does, leaves no goal behind.
THEOREM NoDriveOutsideMatch ==
  ASSUME "timeout" \notin Faults
  PROVE  Spec => []NoGoalOutsideMatch
<1> DEFINE J == IInv /\ Swept /\ NothingLost
<1>1. Init => J
  BY InitIInv DEF Init, Swept, InTree, Ahead, NothingLost, NoGoal
<1>2. J /\ [Next]_vars => J'
  <2>1. IInv /\ [Next]_vars => IInv'
    BY TypeCorrect, ShapeKept, MatchedKept DEF IInv, GoalTracked, NoForgottenGoal, Matched, Waits
  <2> QED
    BY <2>1, SweptKept, NothingLostKept DEF IInv
<1>3. J => NoGoalOutsideMatch
  <2> SUFFICES ASSUME IInv, Swept, NothingLost, pc = "spin" PROVE active = NoGoal
    BY DEF NoGoalOutsideMatch
  <2>1. cur = NoBranch /\ run = NoBranch /\ ~NoBranch.live
    BY NoBranchGood DEF Swept, IInv, Shape
  <2> QED
    BY <2>1 DEF IInv, GoalTracked, Tracks, NothingLost
<1> QED
  BY <1>1, <1>2, <1>3, PTL DEF Spec
===============================================================================
