----------------------------- MODULE MotionProofs -----------------------------
(***************************************************************************)
(* Proofs about what moves the robot: the way of a velocity to the board,  *)
(* for every number of commands, directions and waiting plans; the choice  *)
(* of a pose to attack from, for every number of candidates and all        *)
(* costmaps; the layer that marks obstacles in the costmap, for every      *)
(* cloud and every way of the robot; and what the path controller does in  *)
(* bends and before obstacles, for every plan.                             *)
(***************************************************************************)
EXTENDS VelocityPath, AttackPose, CostLayer, PursuitController, DataLemmas

-------------------------------------------------------------------------------
(* The way of a velocity to the board. *)

CommandRecord == [n : Nat, zero : BOOLEAN]
CommandsTyped ==
  /\ cmds \in Seq(CommandRecord) /\ said \in CommandRecord /\ got \in CommandRecord
  /\ turning \in BOOLEAN /\ lost \in BOOLEAN

\* Who has ended has said a stop, unless he gave up.
EndedHasSaidStop == st = "idle" /\ ~turning /\ ~lost => said.zero

\* The topic hands on what was said last as its last command.
LastIsSaid == IF cmds = <<>> THEN got = said ELSE cmds[Len(cmds)] = said

\* A stop leaves nothing for a plan to publish later.
StopIsHeld == got.zero => cache = NoCommand /\ vel.n = got.n /\ vel.zero

\* The serial node holds what it took.
TakenIsHeld == last.n = sent.n /\ last.zero = sent.zero

PathInv == CommandsTyped /\ EndedHasSaidStop /\ LastIsSaid /\ StopIsHeld /\ TakenIsHeld

\* Once recovery and leaf have ended without giving up, and the topics are drained, the
\* frame that the timer repeats is one that stands still.
QuietRepeatsStop ==
  st = "idle" /\ ~turning /\ ~lost /\ cmds = <<>> /\ sent = vel => Frame.twist.zero

\* A command said follows the others on the topic.
LEMMA Said ==
  ASSUME CommandsTyped, NEW z \in BOOLEAN, Publish(z)
  PROVE  /\ cmds' \in Seq(CommandRecord) /\ said' \in CommandRecord
         /\ said'.zero = z /\ cmds' # <<>> /\ cmds'[Len(cmds')] = said'
<1>1. said' \in CommandRecord /\ said'.zero = z
  BY DEF Publish, CommandsTyped, CommandRecord
<1>2. cmds' = Append(cmds, said')
  BY DEF Publish
<1>3. QED
  BY <1>1, <1>2 DEF CommandsTyped

\* A step of the recovery behaviour or of the leaf.
LEMMA CommandKeepsPathInv == ASSUME PathInv, Command PROVE PathInv'
<1> USE DEF PathInv
<1>1. /\ UNCHANGED <<got, cache, vel, last, sent>>
      /\ StopIsHeld' /\ TakenIsHeld'
  BY DEF Command, fvVars, sendVars, ssVars, StopIsHeld, TakenIsHeld
<1>2. CASE \E z \in BOOLEAN : Publish(z) /\ turning' \in BOOLEAN /\ lost' \in BOOLEAN
                              /\ (z \/ st' = "running" \/ turning')
  <2>1. PICK z \in BOOLEAN : Publish(z) /\ turning' \in BOOLEAN /\ lost' \in BOOLEAN
                             /\ (z \/ st' = "running" \/ turning')
    BY <1>2
  <2>2. /\ cmds' \in Seq(CommandRecord) /\ said' \in CommandRecord
        /\ said'.zero = z /\ cmds' # <<>> /\ cmds'[Len(cmds')] = said'
    BY <2>1, Said
  <2>3. CommandsTyped' /\ LastIsSaid'
    BY <1>1, <2>1, <2>2 DEF CommandsTyped, LastIsSaid
  <2>4. EndedHasSaidStop'
    BY <2>1, <2>2 DEF EndedHasSaidStop
  <2>5. QED
    BY <1>1, <2>3, <2>4
<1>3. CASE /\ UNCHANGED <<cmds, said>> /\ turning' \in BOOLEAN /\ lost' \in BOOLEAN
           /\ (st' = "running" \/ turning' \/ lost' \/ said.zero)
  BY <1>1, <1>3 DEF CommandsTyped, EndedHasSaidStop, LastIsSaid
<1>4. CASE BackUp /\ UNCHANGED turning
  <2>1. CASE Run /\ UNCHANGED lost
    BY <1>3, <1>4, <2>1 DEF Run, CommandsTyped
  <2>2. CASE Drive /\ UNCHANGED lost
    BY <1>2, <1>4, <2>2 DEF Drive, CommandsTyped
  <2>3. CASE StopRobot /\ lost' = FALSE
    BY <1>2, <1>4, <2>3 DEF StopRobot, CommandsTyped
  <2>4. CASE PoseLost /\ lost' = (lost \/ ~said.zero)
    <3>1. lost' \in BOOLEAN /\ (lost' \/ said.zero)
      BY <2>4 DEF CommandsTyped, CommandRecord
    <3>2. QED
      BY <1>3, <1>4, <2>4, <3>1 DEF PoseLost, CommandsTyped
  <2>5. QED
    BY <1>4, <2>1, <2>2, <2>3, <2>4 DEF BackUp
<1>5. CASE AlignStart \/ TfLost
  BY <1>3, <1>5 DEF AlignStart, TfLost, CommandsTyped
<1>6. CASE Turn
  BY <1>2, <1>6 DEF Turn, CommandsTyped
<1>7. CASE Aligned \/ AlignHalted
  BY <1>2, <1>7 DEF Aligned, AlignHalted
<1>8. QED
  BY <1>4, <1>5, <1>6, <1>7 DEF Command

\* The velocity transform takes a command.
LEMMA TakeKeepsPathInv == ASSUME PathInv, TakeCommand PROVE PathInv'
<1> USE DEF PathInv
<1>1. /\ cmds # <<>> /\ got' = Head(cmds) /\ cmds' = Tail(cmds)
      /\ UNCHANGED <<st, said, last, sent, turning, lost>>
  BY DEF TakeCommand, Take, CmdVel, sendVars, ssVars, ownVars
<1>2. CommandsTyped'
  BY <1>1 DEF CommandsTyped
<1>3. LastIsSaid'
  <2>1. CASE Len(cmds) = 1
    BY <1>1, <2>1 DEF LastIsSaid, CommandsTyped
  <2>2. CASE Len(cmds) # 1
    <3>1. cmds \in Seq(CommandRecord) /\ cmds # <<>>
      BY <1>1 DEF CommandsTyped
    <3>2. Len(cmds) \in Nat \ {0}
      BY <3>1, EmptySeq, Zenon
    <3>3. /\ Len(Tail(cmds)) = Len(cmds) - 1
          /\ \A i \in 1 .. Len(Tail(cmds)) : Tail(cmds)[i] = cmds[i + 1]
      BY <3>1, HeadTailProperties, Zenon
    <3>4. Len(Tail(cmds)) # 0 /\ Tail(cmds)[Len(Tail(cmds))] = cmds[Len(cmds)]
      BY <2>2, <3>2, <3>3
    <3>5. Tail(cmds) # <<>>
      BY <3>4, EmptySeq, Zenon
    <3>6. cmds[Len(cmds)] = said
      BY <3>1 DEF LastIsSaid
    <3>7. QED
      BY <1>1, <3>4, <3>5, <3>6 DEF LastIsSaid
  <2>3. QED
    BY <2>1, <2>2
<1>4. StopIsHeld'
  <2>1. got'.zero => vel' = Twist(got', angle) /\ cache' = NoCommand
    BY DEF TakeCommand, Take, CmdVel
  <2>2. Twist(got', angle).n = got'.n /\ Twist(got', angle).zero = got'.zero
    BY DEF Twist
  <2>3. QED
    BY <2>1, <2>2 DEF StopIsHeld
<1>5. EndedHasSaidStop' /\ TakenIsHeld'
  BY <1>1 DEF EndedHasSaidStop, TakenIsHeld
<1>6. QED
  BY <1>2, <1>3, <1>4, <1>5

\* Plans, odometry and their timeout: a held stop is not undone.
LEMMA SenseKeepsPathInv == ASSUME PathInv, Sense PROVE PathInv'
<1> USE DEF PathInv
<1>1. UNCHANGED <<st, cmds, said, got, last, sent, turning, lost>>
  BY DEF Sense, Expire, Sensed, LocalPlan, Odometry, CmdSpin, buVars, sendVars, ssVars, ownVars
<1>2. StopIsHeld'
  <2>1. CASE Expire \/ LocalPlan \/ \E s \in SpinSpeeds : CmdSpin(s)
    BY <2>1 DEF Expire, LocalPlan, CmdSpin, StopIsHeld
  <2>2. CASE \E y, p \in Yaws : Odometry(y, p)
    BY <2>2 DEF Odometry, StopIsHeld
  <2>3. QED
    BY <2>1, <2>2 DEF Sense, Sensed
<1>3. QED
  BY <1>1, <1>2 DEF CommandsTyped, EndedHasSaidStop, LastIsSaid, TakenIsHeld

\* The serial node takes messages and writes frames.
LEMMA SerialKeepsPathInv ==
  ASSUME PathInv, TakeMessage \/ TakeOther \/ SendFrame \/ SendFailed
  PROVE  PathInv'
<1> USE DEF PathInv
<1>1. UNCHANGED <<st, cmds, said, got, cache, vel, turning, lost>>
  BY DEF TakeMessage, TakeOther, SendFrame, SendFailed, others, buVars, fvVars, ownVars
<1>2. TakenIsHeld'
  <2>1. CASE TakeMessage
    BY <1>1, <2>1 DEF TakeMessage, TakeTwist, CmdVelCallback, TakenIsHeld
  <2>2. CASE TakeOther
    BY <2>2 DEF TakeOther, Inputs, SpinOrNotCallback, PostureCallback, TakenIsHeld
  <2>3. CASE SendFrame \/ SendFailed
    BY <2>3 DEF SendFrame, SendFailed, SendWhole, SendPart, SendNothing, ssVars, TakenIsHeld
  <2>4. QED
    BY <2>1, <2>2, <2>3
<1>3. QED
  BY <1>1, <1>2 DEF CommandsTyped, EndedHasSaidStop, LastIsSaid, StopIsHeld

\* A stop is final, and what has become quiet repeats it: whatever the synchronizer holds
\* and whatever is still to be read.
THEOREM PathInvariance == PathSpec => []PathInv
<1>1. PathInit => PathInv
  <2>1. ASSUME PathInit PROVE CommandsTyped
    <3>1. NoCommand \in CommandRecord
      BY DEF CommandRecord, NoCommand
    <3>2. got = NoCommand /\ said = NoCommand /\ cmds = <<>> /\ ~turning /\ ~lost
          /\ turning \in BOOLEAN /\ lost \in BOOLEAN
      BY <2>1 DEF PathInit, FVInit
    <3>3. QED
      BY <3>1, <3>2 DEF CommandsTyped
  <2>2. ASSUME PathInit PROVE EndedHasSaidStop /\ LastIsSaid /\ StopIsHeld /\ TakenIsHeld
    BY <2>2 DEF PathInit, FVInit, SSInit, NoTwist, NoCommand, Twist, EndedHasSaidStop,
                LastIsSaid, StopIsHeld, TakenIsHeld
  <2>3. QED
    BY <2>1, <2>2 DEF PathInv
<1>2. PathInv /\ [PathNext]_pathVars => PathInv'
  <2>1. ASSUME PathInv, PathNext PROVE PathInv'
    BY <2>1, CommandKeepsPathInv, TakeKeepsPathInv, SenseKeepsPathInv, SerialKeepsPathInv DEF PathNext
  <2>2. ASSUME PathInv, UNCHANGED pathVars PROVE PathInv'
    BY <2>2 DEF pathVars, buVars, fvVars, sendVars, ssVars, ownVars, PathInv, CommandsTyped,
                EndedHasSaidStop, LastIsSaid, StopIsHeld, TakenIsHeld
  <2>3. QED
    BY <2>1, <2>2
<1>3. QED
  BY <1>1, <1>2, PTL DEF PathSpec

\* Once a zero command has been received nothing but a later command moves the robot.
THEOREM StopStays == PathSpec => []StopIsFinal
<1>1. PathInv => StopIsFinal
  BY DEF PathInv, StopIsHeld, StopIsFinal
<1>2. QED
  BY <1>1, PathInvariance, PTL

\* The safety half of QuietMeansStill: when everybody is done and the topics are drained,
\* only a standstill is written.
THEOREM QuietStaysStill == PathSpec => []QuietRepeatsStop
<1>1. PathInv => QuietRepeatsStop
  BY DEF PathInv, EndedHasSaidStop, LastIsSaid, StopIsHeld, TakenIsHeld, QuietRepeatsStop, Frame
<1>2. QED
  BY <1>1, PathInvariance, PTL

-------------------------------------------------------------------------------
(* The direction to back up into. *)

Scans == [first : 0 .. Angles, last : 0 .. Angles, from : 1 .. Angles, to : 1 .. Angles]

\* What the scan knows after the first a directions: the best sector so far is free, the
\* one begun is, and as long as there is no best sector no free direction was followed by
\* an obstacle.
ScanKnows(s, a) ==
  /\ s.from # s.to => s.from < s.to /\ \A k \in s.from .. s.to - 1 : safe'[k]
  /\ s.first # 0 /\ s.last = 0 => s.first <= a /\ \A k \in s.first .. a : safe'[k]
  /\ s.last # 0 => s.first # 0 /\ s.from < s.to /\ s.last - s.first <= s.to - s.from
  /\ s.from = s.to => \A k \in 1 .. (IF s.first = 0 THEN a ELSE s.first - 1) : ~safe'[k]

\* One direction more.
LEMMA ScanStepKnows ==
  ASSUME NEW a \in 1 .. Angles, NEW s \in Scans, ScanKnows(s, a - 1)
  PROVE  ScanStep(s, a) \in Scans /\ ScanKnows(ScanStep(s, a), a)
<1> DEFINE first == IF safe'[a] /\ s.first = 0 THEN a ELSE s.first
<1> DEFINE end == IF ~safe'[a] /\ first # 0 /\ s.last = 0 THEN a ELSE s.last
<1> DEFINE next == ScanStep(s, a)
<1>1. /\ Angles \in Nat /\ first \in 0 .. Angles /\ end \in 0 .. Angles /\ a \in Nat
      /\ s.first \in 0 .. Angles /\ s.last \in 0 .. Angles
      /\ s.from \in 1 .. Angles /\ s.to \in 1 .. Angles
  BY ScanAssumption DEF Scans
<1>2. CASE first # 0 /\ end # 0 /\ end - first > s.to - s.from
  <2>1. next = [first |-> 0, last |-> 0, from |-> first, to |-> end]
    BY <1>2 DEF ScanStep
  <2>2. s.last = 0
    <3> SUFFICES ASSUME s.last # 0 PROVE FALSE
      OBVIOUS
    <3>1. first = s.first /\ end = s.last
      BY DEF ScanKnows
    <3> QED BY <1>1, <1>2, <3>1 DEF ScanKnows
  <2>3. end = a /\ ~safe'[a] /\ first = s.first /\ first # 0
    BY <1>2, <2>2
  <2>4. first < end /\ \A k \in first .. end - 1 : safe'[k]
    BY <1>1, <2>2, <2>3 DEF ScanKnows
  <2> HIDE DEF first, end, next
  <2>5. next \in Scans
    BY <1>1, <2>1, <2>3, <2>4 DEF Scans
  <2>6. ScanKnows(next, a)
    BY <1>1, <2>1, <2>4 DEF ScanKnows
  <2> QED BY <2>5, <2>6 DEF next
<1>3. CASE ~(first # 0 /\ end # 0 /\ end - first > s.to - s.from)
  <2>1. next = [s EXCEPT !.first = first, !.last = end]
    BY <1>3 DEF ScanStep
  <2>2. next \in Scans /\ next.first = first /\ next.last = end /\ next.from = s.from
        /\ next.to = s.to
    <3> HIDE DEF first, end
    <3> QED BY <1>1, <2>1 DEF Scans
  <2>3. first # 0 /\ end = 0 => first <= a /\ \A k \in first .. a : safe'[k]
    BY <1>1 DEF ScanKnows
  <2>4. end # 0 => first # 0 /\ s.from < s.to /\ end - first <= s.to - s.from
    <3> SUFFICES ASSUME end # 0 PROVE first # 0 /\ s.from < s.to /\ end - first <= s.to - s.from
      OBVIOUS
    <3>1. first # 0
      BY <1>1 DEF ScanKnows
    <3>2. CASE s.last # 0
      BY <1>1, <3>2 DEF ScanKnows
    <3>3. CASE s.last = 0
      <4>1. end = a /\ ~safe'[a] /\ first = s.first /\ first <= a - 1
        BY <1>1, <3>1, <3>3 DEF ScanKnows
      <4>2. end - first <= s.to - s.from
        BY <1>1, <1>3, <3>1
      <4> HIDE DEF first, end
      <4> QED BY <1>1, <3>1, <4>1, <4>2
    <3> QED BY <3>2, <3>3
  <2>5. s.from = s.to => \A k \in 1 .. (IF first = 0 THEN a ELSE first - 1) : ~safe'[k]
    BY <1>1 DEF ScanKnows
  <2>6. s.from # s.to => s.from < s.to /\ \A k \in s.from .. s.to - 1 : safe'[k]
    BY DEF ScanKnows
  <2> HIDE DEF first, end, next
  <2>7. ScanKnows(next, a)
    BY <2>2, <2>3, <2>4, <2>5, <2>6 DEF ScanKnows
  <2> QED BY <2>2, <2>7 DEF next
<1> QED BY <1>2, <1>3

\* The scan stays among its states.
LEMMA ScanStepType ==
  ASSUME NEW a \in 1 .. Angles, NEW s \in Scans
  PROVE  ScanStep(s, a) \in Scans
<1> DEFINE first == IF safe'[a] /\ s.first = 0 THEN a ELSE s.first
<1> DEFINE end == IF ~safe'[a] /\ first # 0 /\ s.last = 0 THEN a ELSE s.last
<1>1. first \in 0 .. Angles /\ end \in 0 .. Angles
  BY ScanAssumption DEF Scans
<1>2. ScanStep(s, a) = IF first # 0 /\ end # 0 /\ end - first > s.to - s.from
                       THEN [first |-> 0, last |-> 0, from |-> first, to |-> end]
                       ELSE [s EXCEPT !.first = first, !.last = end]
  BY DEF ScanStep
<1> HIDE DEF first, end
<1>3. [s EXCEPT !.first = first, !.last = end] \in Scans
  BY <1>1 DEF Scans
<1>4. first # 0 /\ end # 0 => [first |-> 0, last |-> 0, from |-> first, to |-> end] \in Scans
  BY <1>1, ScanAssumption DEF Scans
<1> QED BY <1>2, <1>3, <1>4

\* The direction found is free if a free one was followed by an obstacle.
LEMMA FindsFree ==
  ASSUME NEW i \in 1 .. Angles, NEW j \in 1 .. Angles, i < j, safe'[i], ~safe'[j],
         safe' \in [1 .. Angles -> BOOLEAN]
  PROVE  \E s \in Scans : s.from < s.to /\ FindBestDirection = s.from + s.to
                          /\ \A k \in s.from .. s.to - 1 : safe'[k]
<1> DEFINE scan[a \in 0 .. Angles] == IF a = 0 THEN Scan0 ELSE ScanStep(scan[a - 1], a)
<1> DEFINE step == [x \in (1 .. Angles) \X Scans |-> ScanStep(x[2], x[1])]
<1>1. Angles \in Nat /\ Angles # 0 /\ Scan0 \in Scans /\ ScanKnows(Scan0, 0)
  BY ScanAssumption DEF Scan0, Scans, ScanKnows
<1>2. step \in StepsOf(Angles, Scans)
  BY ScanStepType DEF StepsOf
<1>3. \A a \in 1 .. Angles, s \in Scans : step[<<a, s>>] = ScanStep(s, a)
  OBVIOUS
<1> HIDE DEF step
<1>4. PICK g : Unrolls(g, Scan0, Angles, Scans, step)
  BY <1>1, <1>2, Recursion
<1>5. /\ g \in [0 .. Angles -> Scans]
      /\ g[0] = Scan0 /\ \A a \in 1 .. Angles : g[a] = step[<<a, g[a - 1]>>]
  BY <1>4 DEF Unrolls
<1>5a. ASSUME NEW a \in 1 .. Angles PROVE g[a] = ScanStep(g[a - 1], a)
  <2>1. g[a - 1] \in Scans
    BY <1>1, <1>5
  <2> QED BY <1>3, <1>5, <2>1
<1>6. g = [a \in 0 .. Angles |-> IF a = 0 THEN Scan0 ELSE ScanStep(g[a - 1], a)]
  BY <1>5, <1>5a
<1>7. scan = [a \in 0 .. Angles |-> IF a = 0 THEN Scan0 ELSE ScanStep(scan[a - 1], a)]
  BY <1>6
<1>8. FindBestDirection = scan[Angles].from + scan[Angles].to
  BY DEF FindBestDirection
<1> HIDE DEF scan
<1>9. \A a \in 0 .. Angles : scan[a] = IF a = 0 THEN Scan0 ELSE ScanStep(scan[a - 1], a)
  BY <1>7
<1> DEFINE Sound == {a \in 0 .. Angles : scan[a] \in Scans /\ ScanKnows(scan[a], a)}
<1>10. 0 \in Sound
  BY <1>1, <1>9
<1>11. ASSUME NEW a \in 1 .. Angles, a - 1 \in Sound PROVE a \in Sound
  <2>1. scan[a] = ScanStep(scan[a - 1], a)
    BY <1>9
  <2> QED BY <1>11, <2>1, ScanStepKnows
<1>12. 0 .. Angles \subseteq Sound
  <2> HIDE DEF Sound
  <2> QED BY <1>1, <1>10, <1>11, UpTo
<1>13. scan[Angles] \in Scans /\ ScanKnows(scan[Angles], Angles)
  BY <1>1, <1>12
<1> DEFINE s == scan[Angles]
<1>14. s.from < s.to /\ \A k \in s.from .. s.to - 1 : safe'[k]
  <2>1. s \in Scans /\ ScanKnows(s, Angles)
    BY <1>13
  <2> HIDE DEF s
  <2>2. s.from # s.to
    <3> SUFFICES ASSUME s.from = s.to PROVE FALSE
      OBVIOUS
    <3>1. /\ s.first # 0 /\ s.last = 0 => \A k \in s.first .. Angles : safe'[k]
          /\ s.last # 0 => FALSE
          /\ \A k \in 1 .. (IF s.first = 0 THEN Angles ELSE s.first - 1) : ~safe'[k]
          /\ s.first \in 0 .. Angles
      BY <1>1, <2>1 DEF ScanKnows, Scans
    <3>2. s.first # 0
      BY <3>1
    <3>3. i >= s.first
      BY <1>1, <3>1, <3>2
    <3>4. j \in s.first .. Angles
      BY <1>1, <3>1, <3>3
    <3> QED BY <3>1, <3>2, <3>4
  <2> QED BY <2>1, <2>2 DEF ScanKnows
<1> QED BY <1>8, <1>13, <1>14

\* What a run of the behaviour leaves as long as no other begins.
ChosenIsFree ==
  (\E a, b \in 1 .. Angles : a < b /\ safe[a] /\ ~safe[b]) => safe[dir \div 2]

\* Choosing a direction.
LEMMA RunChoosesFree == ASSUME Run PROVE ChosenIsFree'
<1> SUFFICES ASSUME NEW i \in 1 .. Angles, NEW j \in 1 .. Angles, i < j, safe'[i], ~safe'[j]
             PROVE  safe'[dir' \div 2]
  BY DEF ChosenIsFree
<1>1. safe' \in [1 .. Angles -> BOOLEAN] /\ dir' = FindBestDirection
  BY DEF Run
<1>2. PICK s \in Scans : s.from < s.to /\ FindBestDirection = s.from + s.to
                         /\ \A k \in s.from .. s.to - 1 : safe'[k]
  BY <1>1, FindsFree
<1>3. s.from \in Nat /\ s.to \in Nat
  BY ScanAssumption DEF Scans
<1>4. (s.from + s.to) \div 2 \in s.from .. s.to - 1
  BY <1>2, <1>3
<1> QED BY <1>1, <1>2, <1>4

\* For every number of directions, and whatever the costmap shows: after a free direction
\* and an obstacle, the robot backs up into a free direction.
THEOREM BacksUpIntoFree == PathSpec => []FreeDirection
<1>1. PathInit => ChosenIsFree
  BY DEF PathInit, BUInit, ChosenIsFree
<1>2. ChosenIsFree /\ [PathNext]_pathVars => ChosenIsFree'
  <2> SUFFICES ASSUME ChosenIsFree, [PathNext]_pathVars PROVE ChosenIsFree'
    OBVIOUS
  <2>1. CASE Run
    BY <2>1, RunChoosesFree
  <2>2. CASE ~Run
    <3>1. UNCHANGED <<safe, dir>>
      BY <2>2 DEF PathNext, Command, BackUp, Drive, StopRobot, PoseLost, AlignStart, Turn, Aligned,
        AlignHalted, TfLost, TakeCommand, Take, Sense, TakeMessage, TakeOther, SendFrame,
        SendFailed, others, pathVars, buVars
    <3> QED BY <3>1 DEF ChosenIsFree
  <2> QED BY <2>1, <2>2
<1>3. ChosenIsFree => FreeDirection
  BY DEF ChosenIsFree, FreeDirection
<1> QED BY <1>1, <1>2, <1>3, PTL DEF PathSpec

-------------------------------------------------------------------------------
(* The pose to attack from. *)

Turns == 0 .. 4 * Candidates - 1

\* What the tracker says, and when.
TrackingInv ==
  /\ now \in Nat /\ heard \in Nat /\ lastTracking \in Nat /\ targetPose = lastTracking
  /\ StartTime <= now /\ heard <= now
  /\ tracking \in BOOLEAN /\ TrackingIsRecent

\* The maps lie around the target, and nothing is chosen before they have arrived.
AroundTarget(map) == \A c \in map.cells : c.dir \in Turns
MapsInv ==
  /\ AroundTarget(localMap) /\ AroundTarget(globalMap)
  /\ attackPose # Unset => localMap.arrived /\ globalMap.arrived
  /\ attackPose \in {Unset, Stay} \cup Poses

AttackInv == TrackingInv /\ MapsInv /\ AttacksFromNearest

\* The costmaps' sectors are arcs around the candidate poses: rounding, shifting by half
\* a sector and taking the last one round to the first come to the same.
LEMMA LocalSectorIsArc ==
  ASSUME NEW d \in Turns, NEW i \in Poses
  PROVE  LocalSector(d) = i <=> Lies(d, i, -2, 1)
<1>1. Candidates \in Nat \ {0}
  BY AttackAssumption
<1>2. ASSUME LocalSector(d) = i PROVE Lies(d, i, -2, 1)
  <2>1. CASE (d + 2) \div 4 = Candidates
    <3>1. i = 0 /\ d - 4 * Candidates \in -2 .. 1
      BY <1>1, <1>2, <2>1 DEF LocalSector, Turns
    <3>2. QED
      BY <1>1, <3>1 DEF Lies, Turns
  <2>2. CASE (d + 2) \div 4 # Candidates
    <3>1. d - 4 * i \in -2 .. 1
      BY <1>1, <1>2, <2>2 DEF LocalSector, Turns, Poses
    <3>2. d - (4 * i + (d - 4 * i)) = 0
      BY <1>1 DEF Turns, Poses
    <3>3. QED
      BY <3>1, <3>2 DEF Lies
  <2>3. QED
    BY <2>1, <2>2
<1>3. ASSUME Lies(d, i, -2, 1) PROVE LocalSector(d) = i
  <2>1. PICK k \in -2 .. 1 : d - (4 * i + k) \in {-(4 * Candidates), 0, 4 * Candidates}
    BY <1>3 DEF Lies
  <2>2. QED
    BY <1>1, <2>1 DEF LocalSector, Turns, Poses
<1>4. QED
  BY <1>2, <1>3

\* A sector of the global costmap is an arc of the ring.
LEMMA GlobalSectorIsArc ==
  ASSUME NEW d \in Turns, NEW i \in Poses
  PROVE  GlobalSector(d) = i <=> Lies(d, i, -4, -1)
<1>1. Candidates \in Nat \ {0}
  BY AttackAssumption
<1>2. ASSUME GlobalSector(d) = i PROVE Lies(d, i, -4, -1)
  <2>1. CASE (d + 4) \div 4 >= Candidates
    <3>1. i = 0 /\ d - 4 * Candidates \in -4 .. -1
      BY <1>1, <1>2, <2>1 DEF GlobalSector, Turns
    <3>2. QED
      BY <1>1, <3>1 DEF Lies, Turns
  <2>2. CASE ~((d + 4) \div 4 >= Candidates)
    <3>1. d - 4 * i \in -4 .. -1
      BY <1>1, <1>2, <2>2 DEF GlobalSector, Turns, Poses
    <3>2. d - (4 * i + (d - 4 * i)) = 0
      BY <1>1 DEF Turns, Poses
    <3>3. QED
      BY <3>1, <3>2 DEF Lies
  <2>3. QED
    BY <2>1, <2>2
<1>3. ASSUME Lies(d, i, -4, -1) PROVE GlobalSector(d) = i
  <2>1. PICK k \in -4 .. -1 : d - (4 * i + k) \in {-(4 * Candidates), 0, 4 * Candidates}
    BY <1>3 DEF Lies
  <2>2. QED
    BY <1>1, <2>1 DEF GlobalSector, Turns, Poses
<1>4. QED
  BY <1>2, <1>3

\* What the code counts of a candidate is what lies around it.
LEMMA FreeIsClear ==
  ASSUME MapsInv, NEW i \in Poses
  PROVE  Obstacles(i) < MinObs <=> Clear(i)
<1>1. {c \in localMap.cells : LocalSector(c.dir) = i} = {c \in localMap.cells : Lies(c.dir, i, -2, 1)}
  BY LocalSectorIsArc DEF MapsInv, AroundTarget
<1>2. {c \in globalMap.cells : GlobalSector(c.dir) = i} = {c \in globalMap.cells : Lies(c.dir, i, -4, -1)}
  BY GlobalSectorIsArc DEF MapsInv, AroundTarget
<1>3. QED
  BY <1>1, <1>2, Zenon DEF Obstacles, Clear

\* The order in which candidates are tried goes by their angle, on both sides.
LEMMA TriedByAngle ==
  /\ \A k \in Tried : Candidate(k) \in Poses /\ 2 * Angle(Candidate(k)) <= k + 1
  /\ \A i \in Poses : \E k \in Nat : Candidate(k) = i /\ k <= 2 * Angle(i)
<1>1. Candidates \in Nat \ {0}
  BY AttackAssumption
<1>2. ASSUME NEW k \in Tried PROVE Candidate(k) \in Poses /\ 2 * Angle(Candidate(k)) <= k + 1
  BY <1>1, <1>2 DEF Tried, Candidate, Poses, Angle
<1>3. ASSUME NEW i \in Poses PROVE \E k \in Nat : Candidate(k) = i /\ k <= 2 * Angle(i)
  <2>1. CASE 2 * i <= Candidates
    <3>1. 2 * i \in Nat /\ Candidate(2 * i) = i /\ 2 * i <= 2 * Angle(i)
      BY <1>1, <2>1 DEF Poses, Candidate, Angle
    <3>2. QED
      BY <3>1
  <2>2. CASE ~(2 * i <= Candidates)
    <3> DEFINE k == 2 * (Candidates - i) - 1
    <3>1. k \in Nat /\ Candidate(k) = i /\ k <= 2 * Angle(i)
      BY <1>1, <2>2 DEF Poses, Candidate, Angle
    <3>2. QED
      BY <3>1
  <2>3. QED
    BY <2>1, <2>2
<1>4. QED
  BY <1>2, <1>3

\* What the leaf chooses is the clear pose nearest to the vehicle's direction.
LEMMA ChosenIsNearest ==
  ASSUME MapsInv, NEW p, Chosen(p)
  PROVE  \/ p = Stay /\ \A i \in Poses : Angle(i) <= Candidates \div 4 => ~Clear(i)
         \/ /\ p \in Poses /\ Clear(p)
            /\ \A i \in Poses : Angle(i) < Angle(p) => ~Clear(i)
<1>1. Candidates \in Nat \ {0}
  BY AttackAssumption
<1>2. \A i \in Poses : Angle(i) \in Int
  BY <1>1 DEF Poses, Angle
<1>3. CASE p = Stay /\ \A k \in Tried : ~IsFree(k)
  <2>1. ASSUME NEW i \in Poses, Angle(i) <= Candidates \div 4 PROVE ~Clear(i)
    <3>1. PICK k \in Nat : Candidate(k) = i /\ k <= 2 * Angle(i)
      BY TriedByAngle
    <3>2. k \in Tried
      BY <1>1, <1>2, <2>1, <3>1 DEF Tried
    <3>3. QED
      BY <1>3, <3>1, <3>2, FreeIsClear DEF IsFree
  <2>2. QED
    BY <1>3, <2>1
<1>4. CASE \E k \in Tried : p = Candidate(k) /\ IsFree(k) /\ \A j \in 0 .. k - 1 : ~IsFree(j)
  <2>1. PICK k \in Tried : p = Candidate(k) /\ IsFree(k) /\ \A j \in 0 .. k - 1 : ~IsFree(j)
    BY <1>4
  <2>2. p \in Poses /\ 2 * Angle(p) <= k + 1
    BY <2>1, TriedByAngle
  <2>3. Clear(p)
    BY <2>1, <2>2, FreeIsClear DEF IsFree
  <2>4. ASSUME NEW i \in Poses, Angle(i) < Angle(p) PROVE ~Clear(i)
    <3>1. PICK j \in Nat : Candidate(j) = i /\ j <= 2 * Angle(i)
      BY TriedByAngle
    <3>2. j \in 0 .. k - 1
      BY <1>1, <1>2, <2>2, <2>4, <3>1 DEF Tried
    <3>3. QED
      BY <2>1, <3>1, <3>2, FreeIsClear DEF IsFree
  <2>5. QED
    BY <2>2, <2>3, <2>4
<1>5. QED
  BY <1>3, <1>4 DEF Chosen

\* The tracker's messages and the clock.
LEMMA TrackerKeepsTracking ==
  ASSUME TrackingInv, TargetTracked \/ TargetLost \/ ClockAdvances
  PROVE  TrackingInv'
<1>1. TrackingTimeout \in Nat /\ StartTime \in Nat /\ StartTime > TrackingTimeout
  BY AttackAssumption
<1>2. CASE TargetTracked
  <2>1. now > 0 /\ now' = now /\ heard' = now
    BY <1>1, <1>2 DEF TargetTracked, TrackingInv
  <2>2. CASE tracking' = TRUE /\ targetPose' = now /\ targetPosition' = now /\ lastTracking' = now
    BY <1>1, <2>1, <2>2 DEF TrackingInv, TrackingIsRecent, NoSighting
  <2>3. CASE tracking' = FALSE /\ UNCHANGED <<targetPose, targetPosition, lastTracking>>
    <3>1. tracking' \in BOOLEAN /\ TrackingIsRecent'
      BY <2>3, Zenon DEF TrackingIsRecent
    <3>2. QED
      BY <2>1, <2>3, <3>1 DEF TrackingInv
  <2>4. QED
    BY <1>2, <2>2, <2>3 DEF TargetTracked
<1>3. CASE TargetLost
  <2> DEFINE recent == now - lastTracking <= TrackingTimeout
  <2>1. tracking' \in BOOLEAN /\ (tracking' => recent)
    <3> HIDE DEF recent
    <3>1. recent \in BOOLEAN
      BY DEF recent
    <3>2. tracking' = recent
      BY <1>3, Zenon DEF TargetLost, recent
    <3>3. QED
      BY <3>1, <3>2, Zenon
  <2>2. UNCHANGED <<now, targetPose, lastTracking>> /\ heard' = now
        /\ (tracking' => targetPosition' = targetPose)
    BY <1>3 DEF TargetLost
  <2>3. QED
    BY <1>1, <2>1, <2>2 DEF TrackingInv, TrackingIsRecent, NoSighting
<1>4. CASE ClockAdvances
  BY <1>1, <1>4 DEF ClockAdvances, TrackingInv, TrackingIsRecent, NoSighting
<1>5. QED
  BY <1>2, <1>3, <1>4

\* What is chosen stays what is best, since no map changes after it has arrived.
LEMMA ChoiceStays ==
  ASSUME MapsInv, AttacksFromNearest, UNCHANGED <<localMap, globalMap, attackPose>>
  PROVE  MapsInv' /\ AttacksFromNearest'
<1>1. MapsInv'
  BY DEF MapsInv, AroundTarget
<1>2. \A i : Clear(i)' <=> Clear(i)
  BY Zenon DEF Clear
<1>3. AttacksFromNearest'
  BY <1>2 DEF AttacksFromNearest
<1>4. QED
  BY <1>1, <1>3

\* Costmaps arrive before a pose is chosen from them.
LEMMA MapArrives ==
  ASSUME MapsInv, LocalCostmap \/ GlobalCostmap
  PROVE  MapsInv' /\ AttacksFromNearest'
<1>1. attackPose = Unset /\ attackPose' = Unset
  BY DEF LocalCostmap, GlobalCostmap, MapsInv
<1>2. AroundTarget(localMap)' /\ AroundTarget(globalMap)'
  <2>1. CASE LocalCostmap
    <3>1. PICK m \in LocalMaps : localMap' = [arrived |-> TRUE, cells |-> m]
      BY <2>1 DEF LocalCostmap
    <3>2. globalMap' = globalMap
      BY <2>1 DEF LocalCostmap
    <3>3. QED
      BY <3>1, <3>2, AttackAssumption DEF MapsInv, AroundTarget, Turns
  <2>2. CASE GlobalCostmap
    <3>1. PICK m \in GlobalMaps : globalMap' = [arrived |-> TRUE, cells |-> m]
      BY <2>2 DEF GlobalCostmap
    <3>2. localMap' = localMap
      BY <2>2 DEF GlobalCostmap
    <3>3. QED
      BY <3>1, <3>2, AttackAssumption DEF MapsInv, AroundTarget, Turns
  <2>3. QED
    BY <2>1, <2>2
<1>3. QED
  BY <1>1, <1>2, AttackAssumption DEF MapsInv, AttacksFromNearest, Unset, Stay, Poses

\* A tick of the leaf leaves the target's time and the pose that was chosen true.
LEMMA TickKeepsAttack == ASSUME AttackInv, AttackTick PROVE AttackInv'
<1> USE DEF AttackInv
<1>1. TrackingInv'
  <2>1. tracking' \in BOOLEAN /\ (tracking' => tracking)
    BY DEF AttackTick, TrackingInv
  <2>2. UNCHANGED <<now, targetPosition, targetPose, lastTracking, heard>>
    BY DEF AttackTick
  <2>3. QED
    BY <2>1, <2>2 DEF TrackingInv, TrackingIsRecent
<1>2. CASE UNCHANGED attackPose
  BY <1>1, <1>2, ChoiceStays DEF AttackTick
<1>3. CASE /\ localMap.arrived /\ globalMap.arrived
           /\ \E p \in {Stay} \cup Poses : Chosen(p) /\ attackPose' = p
  <2>1. Chosen(attackPose')
    BY <1>3
  <2>2. localMap' = localMap /\ globalMap' = globalMap
    BY DEF AttackTick
  <2>3. \A i : Clear(i)' <=> Clear(i)
    BY <2>2, Zenon DEF Clear
  <2>4. \/ attackPose' = Stay /\ \A i \in Poses : Angle(i) <= Candidates \div 4 => ~Clear(i)
        \/ /\ attackPose' \in Poses /\ Clear(attackPose')
           /\ \A i \in Poses : Angle(i) < Angle(attackPose') => ~Clear(i)
    BY <2>1, ChosenIsNearest
  <2>5. MapsInv'
    BY <1>3, <2>2, <2>4 DEF MapsInv, AroundTarget
  <2>6. AttacksFromNearest'
    <3> DEFINE q == attackPose'
    <3>1. CASE q = Stay /\ \A i \in Poses : Angle(i) <= Candidates \div 4 => ~Clear(i)
      <4>1. q \notin Poses
        BY <3>1, AttackAssumption DEF Poses, Stay
      <4>2. QED
        BY <2>3, <3>1, <4>1 DEF AttacksFromNearest
    <3>2. CASE /\ q \in Poses /\ Clear(q) /\ \A i \in Poses : Angle(i) < Angle(q) => ~Clear(i)
      <4>1. q # Stay
        BY <3>2, AttackAssumption DEF Poses, Stay
      <4>2. QED
        BY <2>3, <3>2, <4>1 DEF AttacksFromNearest
    <3>3. QED
      BY <2>4, <3>1, <3>2
  <2>7. QED
    BY <1>1, <2>5, <2>6
<1>4. QED
  BY <1>2, <1>3 DEF AttackTick

\* The leaf attacks a target that was seen recently, from the clear pose nearest to the
\* vehicle's direction, for every number of candidates, thresholds and costmaps.
THEOREM AttacksSoundly == AttackSpec => []AttackIsSound
<1>1. AttackInit => AttackInv
  <2>1. ASSUME AttackInit PROVE TrackingInv
    <3>1. /\ now \in Nat /\ heard = 0 /\ lastTracking = 0 /\ targetPose = 0 /\ StartTime = now
      BY <2>1, AttackAssumption DEF AttackInit, NoSighting
    <3>2. tracking = FALSE
      BY <2>1 DEF AttackInit
    <3>3. tracking \in BOOLEAN /\ TrackingIsRecent
      BY <3>2, Zenon DEF TrackingIsRecent
    <3>4. QED
      BY <3>1, <3>3 DEF TrackingInv
  <2>2. ASSUME AttackInit PROVE MapsInv /\ AttacksFromNearest
    BY <2>2, AttackAssumption DEF AttackInit, MapsInv, AroundTarget, AttacksFromNearest, NoMap, Poses,
       Unset, Stay
  <2>3. QED
    BY <2>1, <2>2 DEF AttackInv
<1>2. AttackInv /\ [AttackNext]_attackVars => AttackInv'
  <2>1. ASSUME AttackInv, TargetTracked \/ TargetLost \/ ClockAdvances PROVE AttackInv'
    <3>1. UNCHANGED <<localMap, globalMap, attackPose>>
      BY <2>1 DEF TargetTracked, TargetLost, ClockAdvances
    <3>2. QED
      BY <2>1, <3>1, TrackerKeepsTracking, ChoiceStays DEF AttackInv
  <2>2. ASSUME AttackInv, LocalCostmap \/ GlobalCostmap PROVE AttackInv'
    <3>1. UNCHANGED <<now, tracking, targetPosition, targetPose, lastTracking, heard>>
      BY <2>2 DEF LocalCostmap, GlobalCostmap
    <3>2. TrackingInv'
      BY <2>2, <3>1 DEF AttackInv, TrackingInv, TrackingIsRecent
    <3>3. QED
      BY <2>2, <3>2, MapArrives DEF AttackInv
  <2>3. ASSUME AttackInv, UNCHANGED attackVars PROVE AttackInv'
    <3>1. TrackingInv'
      BY <2>3 DEF attackVars, AttackInv, TrackingInv, TrackingIsRecent
    <3>2. QED
      BY <2>3, <3>1, ChoiceStays DEF attackVars, AttackInv
  <2>4. QED
    BY <2>1, <2>2, <2>3, TickKeepsAttack DEF AttackNext
<1>3. AttackInv => AttackIsSound
  BY DEF AttackInv, TrackingInv, AttackIsSound
<1>4. QED
  BY <1>1, <1>2, <1>3, PTL DEF AttackSpec

-------------------------------------------------------------------------------
(* The obstacle layer and its costmap. *)

\* The cell of a point holds it.
LEMMA Euclid ==
  ASSUME NEW x \in Int
  PROVE  /\ Floor(x) \in Int
         /\ Floor(x) * Res <= x /\ x < Floor(x) * Res + Res
BY Quotient, CostAssumption DEF Floor

\* A point further on lies in no earlier cell.
LEMMA FloorMonotone ==
  ASSUME NEW x \in Int, NEW y \in Int, x <= y
  PROVE  Floor(x) <= Floor(y)
BY QuotientMonotone, CostAssumption DEF Floor

\* Points and bounds are finite sets of places.
CostTyped ==
  /\ robot \in Int /\ layerOrigin \in Int
  /\ IsFiniteSet(buffer.points) /\ \A p \in buffer.points : p.x \in Int
  /\ IsFiniteSet(lastBounds) /\ lastBounds \subseteq Int

\* Layer and costmap start alike and round alike.
OriginsAgree == masterOrigin = layerOrigin

\* What the layer holds lies within the bounds it reported last, which the next update
\* writes again.
WithinBounds == \A c \in layerCost : c \in Int /\ \E x \in lastBounds : Floor(x) = c

\* What every update, cloud, reset and parameter change keeps.
CostInv == CostTyped /\ OriginsAgree /\ WithinBounds /\ CostmapShowsLayer

\* updateOrigin leaves the window less than a cell off its place, to either side.
LEMMA MovedOriginCentres ==
  ASSUME NEW o \in Int, NEW a \in Int
  PROVE  LET ahead == a - (WindowSize * Res) \div 2 - MovedOrigin(o, a) * Res
         IN  MovedOrigin(o, a) \in Int /\ -Res < ahead /\ ahead < Res
<1> DEFINE half == (WindowSize * Res) \div 2
<1> DEFINE d == a - half - o * Res
<1>1. Res \in Nat \ {0} /\ half \in Int /\ o * Res \in Int /\ d \in Int
  <2>1. Res \in Nat \ {0} /\ WindowSize \in Nat \ {0}
    BY CostAssumption
  <2>2. WindowSize * Res \in Int /\ o * Res \in Int
    BY <2>1
  <2> QED BY <2>1, <2>2
<1>2. MovedOrigin(o, a) = IF d >= 0 THEN o + Floor(d) ELSE o - Floor(0 - d)
  BY <1>1 DEF MovedOrigin, Floor
<1> DEFINE M == MovedOrigin(o, a)
<1> DEFINE Centred(n) == n \in Int /\ -Res < a - half - n * Res /\ a - half - n * Res < Res
<1> SUFFICES Centred(M)
  OBVIOUS
<1> HIDE DEF half, M
<1>3. CASE d >= 0
  <2>1. M = o + Floor(d) /\ Floor(d) \in Int
    BY <1>1, <1>2, <1>3, Euclid DEF M
  <2>2. (o + Floor(d)) * Res = o * Res + Floor(d) * Res /\ Floor(d) * Res \in Int
    BY <1>1, <2>1, SMT
  <2> HIDE DEF d
  <2>3. Floor(d) * Res <= d /\ d < Floor(d) * Res + Res
    BY <1>1, Euclid
  <2>4. (o + Floor(d)) * Res \in Int /\ a - half - (o + Floor(d)) * Res = d - Floor(d) * Res
    BY <1>1, <2>1, <2>2 DEF d
  <2>5. Centred(o + Floor(d))
    BY <1>1, <2>1, <2>2, <2>3, <2>4
  <2> QED BY <2>1, <2>5
<1>4. CASE ~(d >= 0)
  <2> DEFINE e == 0 - d
  <2>0. e \in Int
    BY <1>1
  <2>1. M = o - Floor(e) /\ Floor(e) \in Int
    BY <1>1, <1>2, <1>4, <2>0, Euclid DEF M
  <2>2. (o - Floor(e)) * Res = o * Res - Floor(e) * Res /\ Floor(e) * Res \in Int
    BY <1>1, <2>1, SMT
  <2>3. Floor(e) * Res <= e /\ e < Floor(e) * Res + Res
    BY <2>0, Euclid
  <2> HIDE DEF e
  <2>4. (o - Floor(e)) * Res \in Int /\ a - half - (o - Floor(e)) * Res = Floor(e) * Res - e
    BY <1>1, <2>1, <2>2 DEF d, e
  <2>5. Centred(o - Floor(e))
    BY <1>1, <2>0, <2>1, <2>2, <2>3, <2>4
  <2> QED BY <2>1, <2>5
<1> QED BY <1>3, <1>4

\* A cell becomes an obstacle only when one of its points is touched.
LEMMA HitIsTouched ==
  ASSUME NEW o \in Int, NEW a \in Int, NEW c \in Hits(o)
  PROVE  c \in Int /\ \E x \in Touched(o, a) : Floor(x) = c
<1> DEFINE voxels == {Voxel(p) : p \in Seen(o)}
<1> DEFINE stack == {v \in voxels : v[1] = c}
<1>1. c \in CellsFrom(o) /\ Cardinality(stack) > MarkThreshold /\ MarkThreshold \in Nat
  BY CostAssumption DEF Hits
<1>2. stack # {}
  <2> HIDE DEF stack
  <2> QED BY <1>1, FS_EmptySet
<1>3. PICK p \in Seen(o) : Voxel(p)[1] = c
  BY <1>2
<1>4. Floor(p.x) = c
  BY <1>3 DEF Voxel
<1>5. c \in Int
  BY <1>1, CostAssumption DEF CellsFrom
<1> QED BY <1>3, <1>4, <1>5 DEF Touched

\* Finitely many points are touched.
LEMMA TouchedTyped ==
  ASSUME CostTyped, NEW o \in Int, NEW a \in Int
  PROVE  Touched(o, a) \subseteq Int /\ IsFiniteSet(Touched(o, a))
<1> DEFINE points == {q \in Seen(o) : Floor(q.x) \in Hits(o)}
<1> DEFINE xs == {p.x : p \in points}
<1> DEFINE corners == {a - FootprintHalf, a + FootprintHalf}
<1>1. points \subseteq buffer.points
  BY DEF Seen
<1>2. IsFiniteSet(points)
  <2> HIDE DEF points
  <2> QED BY <1>1, FS_Subset DEF CostTyped
<1>3. IsFiniteSet(xs)
  <2> HIDE DEF points
  <2> DEFINE f == [p \in points |-> p.x]
  <2>1. f \in Surjection(points, xs)
    BY DEF Surjection
  <2> QED BY <1>2, <2>1, FS_Surjection, Zenon
<1>4. FootprintHalf \in Nat
  BY CostAssumption
<1>5. IsFiniteSet(corners) /\ corners \subseteq Int
  <2> DEFINE A == {a - FootprintHalf}
  <2> DEFINE B == {a + FootprintHalf}
  <2>1. corners = A \cup B
    OBVIOUS
  <2>2. IsFiniteSet(A) /\ IsFiniteSet(B)
    BY FS_Singleton
  <2>3. IsFiniteSet(corners)
    <3> HIDE DEF corners, A, B
    <3> QED BY <2>1, <2>2, FS_Union
  <2>4. corners \subseteq Int
    BY <1>4
  <2> QED BY <2>3, <2>4
<1>6. xs \subseteq Int
  BY <1>1 DEF CostTyped
<1>7. Touched(o, a) = corners \cup xs
  BY DEF Touched
<1> HIDE DEF corners, xs
<1> QED BY <1>3, <1>5, <1>6, <1>7, FS_Union

\* Every cell that a bound lies in is written.
LEMMA BoundsAreWritten ==
  ASSUME CostTyped, NEW B \in SUBSET Int, IsFiniteSet(B), NEW x \in B \cup lastBounds
  PROVE  Floor(x) \in Bounded(B)
<1> DEFINE all == B \cup lastBounds
<1>1. all \subseteq Int /\ IsFiniteSet(all) /\ all # {} /\ x \in Int
  BY FS_Union DEF CostTyped
<1>2. Bounded(B) = Floor(Min(all) - InflationRadius) .. Floor(Max(all) + InflationRadius)
  BY <1>1 DEF Bounded
<1> HIDE DEF all
<1>3. /\ Min(all) \in Int /\ Max(all) \in Int
      /\ Min(all) <= x /\ x <= Max(all) /\ InflationRadius \in Nat
  BY <1>1, MinMaxBound, CostAssumption DEF all
<1>4. /\ Floor(Min(all) - InflationRadius) <= Floor(x)
      /\ Floor(x) <= Floor(Max(all) + InflationRadius)
  BY <1>1, <1>3, FloorMonotone
<1>5. /\ Floor(x) \in Int /\ Floor(Min(all) - InflationRadius) \in Int
      /\ Floor(Max(all) + InflationRadius) \in Int
  BY <1>1, <1>3, Euclid
<1> QED BY <1>2, <1>4, <1>5

\* An update keeps the invariant: what goes lay within the last bounds, what comes within the
\* new ones, and both are written.
LEMMA UpdateKeeps ==
  ASSUME CostInv, NEW a \in Places, UpdateMap(a)
  PROVE  CostInv'
<1> DEFINE o == MovedOrigin(layerOrigin, a)
<1> DEFINE touched == IF enabled THEN Touched(o, a) ELSE {}
<1> DEFINE written == Bounded(touched)
<1> DEFINE cost == IF enabled THEN Hits(o) \ Footprint(o, a) ELSE {}
<1>1. a \in Int /\ layerOrigin \in Int /\ masterOrigin = layerOrigin /\ CostTyped
  BY CostAssumption DEF CostInv, CostTyped, OriginsAgree
<1>2. layerOrigin' = o /\ masterOrigin' = o /\ o \in Int /\ robot' = a
  BY <1>1, MovedOriginCentres DEF UpdateMap
<1>3. /\ layerCost' = cost /\ lastBounds' = touched
      /\ masterCost' = ((masterCost \cap CellsFrom(o)) \ written)
                         \cup ({c - o + o : c \in cost} \cap written)
      /\ buffer' = buffer
  BY <1>2 DEF UpdateMap
<1>4. touched \subseteq Int /\ IsFiniteSet(touched)
  BY <1>1, <1>2, TouchedTyped, FS_EmptySet
<1>5. \A c \in cost : c \in Int /\ \E x \in touched : Floor(x) = c
  BY <1>1, <1>2, HitIsTouched
<1> HIDE DEF o, touched, cost, written
<1>6. \A x \in touched \cup lastBounds : Floor(x) \in written
  BY <1>1, <1>4, BoundsAreWritten DEF written
<1>7. cost \subseteq written /\ layerCost \subseteq written
  BY <1>5, <1>6 DEF CostInv, WithinBounds
<1>8. \A c \in cost : c - o + o = c
  BY <1>2, <1>5
<1>9. masterCost = layerCost
  BY DEF CostInv, CostmapShowsLayer
<1>10. masterCost' = cost
  BY <1>3, <1>7, <1>8, <1>9
<1>11. CostTyped' /\ OriginsAgree' /\ WithinBounds'
  BY <1>1, <1>2, <1>3, <1>4, <1>5 DEF CostTyped, OriginsAgree, WithinBounds
<1>12. CostmapShowsLayer'
  BY <1>1, <1>2, <1>3, <1>10, MovedOriginCentres DEF CostmapShowsLayer, o
<1> QED BY <1>11, <1>12 DEF CostInv

\* The costmap shows what the layer holds, all of it and nothing else, within a window around
\* the robot, whatever is seen, reset or switched (updateBounds, updateCosts, updateOrigin).
THEOREM CostmapAlwaysShowsLayer == CostInit /\ [][CostNext]_costVars => []CostmapShowsLayer
<1>1. CostInit => CostInv
  <2> SUFFICES ASSUME CostInit PROVE CostInv
    OBVIOUS
  <2>1. robot = 0 /\ layerOrigin = MovedOrigin(0, 0) /\ masterOrigin = layerOrigin
        /\ layerCost = {} /\ masterCost = {} /\ lastBounds = {} /\ buffer.points = {}
    BY DEF CostInit
  <2>2. 0 \in Int
    OBVIOUS
  <2>3. LET ahead == 0 - (WindowSize * Res) \div 2 - MovedOrigin(0, 0) * Res
        IN  MovedOrigin(0, 0) \in Int /\ -Res < ahead /\ ahead < Res
    BY <2>2, MovedOriginCentres, Zenon
  <2>4. CostTyped /\ OriginsAgree /\ WithinBounds
    BY <2>1, <2>3, FS_EmptySet DEF CostTyped, OriginsAgree, WithinBounds
  <2>5. CostmapShowsLayer
    BY <2>1, <2>3 DEF CostmapShowsLayer
  <2> QED BY <2>4, <2>5 DEF CostInv
<1>2. CostInv /\ [CostNext]_costVars => CostInv'
  <2> SUFFICES ASSUME CostInv, [CostNext]_costVars PROVE CostInv'
    OBVIOUS
  <2> USE DEF CostInv, CostTyped, OriginsAgree, WithinBounds, CostmapShowsLayer
  <2>1. CASE \E a \in Places : UpdateMap(a)
    BY <2>1, UpdateKeeps
  <2>2. ASSUME NEW points \in Observed, BufferCloud(points) PROVE CostInv'
    <3>1. buffer'.points = points
      BY <2>2 DEF BufferCloud
    <3>2. IsFiniteSet(points) /\ \A p \in points : p.x \in Int
      BY CostAssumption
    <3> QED BY <2>2, <3>1, <3>2 DEF BufferCloud
  <2>3. CASE Reset
    BY <2>3 DEF Reset
  <2>4. CASE \E on \in BOOLEAN : SetEnabled(on)
    BY <2>4 DEF SetEnabled
  <2>5. CASE UNCHANGED costVars
    BY <2>5 DEF costVars
  <2> QED BY <2>1, <2>2, <2>3, <2>4, <2>5 DEF CostNext
<1>3. CostInv => CostmapShowsLayer
  BY DEF CostInv
<1> QED BY <1>1, <1>2, <1>3, PTL

-------------------------------------------------------------------------------
(* The path controller. *)

SharpSpeed == (VMax * RatioNum) \div RatioDen

\* The plan and the robot's place on it.
PursuitTyped ==
  /\ plan \in Plans \cup {<<>>}
  /\ plan # <<>> => /\ head \in 1 .. Len(plan) /\ at \in 1 .. Len(plan) /\ pose \in Near(plan[at])
  /\ head = 1 \/ plan # <<>>
  /\ pose \in Int \X Int /\ centre \in Int \X Int /\ minLook \in 1 .. MaxLook
  /\ integral \in Int /\ preError \in Int

\* In a bend the speed that is limited loses Rate in every period, until it is what the
\* curvature allows.
BendLimited ==
  /\ lastScale \in Int /\ bends \in 0 .. LongBend
  /\ lastScale <= Most(Most(SharpSpeed, 2 * MinApproach), VMax - bends * Rate)
  /\ answer.speed \in Int /\ (answer.kind = "velocity" => answer.speed <= lastScale)

BendInv == PursuitTyped /\ BendLimited

\* What the constants are.
LEMMA PursuitConstants ==
  /\ HalfX \in Nat /\ HalfY \in Nat /\ SearchDist \in Nat /\ MaxLook \in Nat /\ Stride \in Nat
  /\ Kp \in Int /\ Ki \in Int /\ Kd \in Int /\ VMax \in Int /\ VMin \in Int /\ RatioNum \in Int
  /\ MaxSum \in Nat
  /\ SamplePoints \in Nat \ {0} /\ RatioDen \in Nat \ {0} /\ Rate \in Nat \ {0}
  /\ MinApproach \in Nat \ {0} /\ ApproachDist \in Nat \ {0}
  /\ 0 <= RatioNum /\ RatioNum <= RatioDen /\ VMin < 0 /\ 2 * MinApproach <= VMax /\ VMax > 0
<1>1. MinApproach \in Nat \ {0} /\ VMax \in Int /\ 2 * MinApproach <= VMax
  BY PursuitAssumption
<1>2. VMax > 0
  BY <1>1
<1> QED BY <1>1, <1>2, PursuitAssumption

\* The poses of a plan.
LEMMA PlanPoses ==
  ASSUME NEW p \in Plans
  PROVE  /\ p \in Seq(Int \X Int) /\ Len(p) \in Nat \ {0}
         /\ \A i \in 1 .. Len(p) : p[i] \in Int \X Int
<1>1. p \in Seq(Int \X Int) /\ Len(p) > 0
  BY PursuitAssumption
<1> QED BY <1>1

\* Squared distances are naturals.
LEMMA Gap2Type ==
  ASSUME NEW p \in Int \X Int, NEW q \in Int \X Int
  PROVE  Gap2(p, q) \in Nat
<1>1. \A x \in Int : x * x \in Int /\ x * x >= 0
  OBVIOUS
<1> DEFINE x == p[1] - q[1]
<1> DEFINE y == p[2] - q[2]
<1>2. x \in Int /\ y \in Int
  OBVIOUS
<1>3. Gap2(p, q) = x * x + y * y
  BY DEF Gap2
<1> HIDE DEF x, y
<1> QED BY <1>1, <1>2, <1>3

\* The integer root of a natural is an integer.
LEMMA RootType ==
  ASSUME NEW n \in Nat
  PROVE  Root(n) \in Int
<1> DEFINE S == {r \in 0 .. n : r * r <= n}
<1>1. S \subseteq 0 .. n /\ 0 \in S
  OBVIOUS
<1>2. IsFiniteSet(S)
  <2>1. IsFiniteSet(0 .. n)
    BY FS_Interval
  <2> HIDE DEF S
  <2> QED BY <1>1, <2>1, FS_Subset
<1>3. Root(n) = Max(S)
  BY DEF Root
<1> HIDE DEF S
<1>4. S \subseteq Int
  BY <1>1
<1> QED BY <1>1, <1>2, <1>3, <1>4, MinMaxBound

\* Where the sampled part of a plan ends.
LEMMA LastSampledType ==
  ASSUME NEW first \in Nat, first <= Len(plan), plan \in Plans
  PROVE  LastSampled(first) \in Int /\ LastSampled(first) <= Len(plan)
<1> DEFINE far == {i \in first .. Len(plan) :
                4 * Gap2(plan[i], pose) > (2 * Most(HalfX, HalfY) + 1) * (2 * Most(HalfX, HalfY) + 1)}
<1>1. LastSampled(first) = IF far = {} THEN Len(plan) ELSE Min(far) - 1
  BY DEF LastSampled
<1>2. far \subseteq first .. Len(plan)
  OBVIOUS
<1>3. Len(plan) \in Int /\ first \in Int
  BY PlanPoses
<1> HIDE DEF far
<1>4. far # {} => Min(far) \in far
  BY <1>2, <1>3, MinIndex
<1>5. far # {} => Min(far) \in first .. Len(plan)
  BY <1>2, <1>4
<1> QED BY <1>1, <1>3, <1>5

\* The carrot is the first pose as far as the look ahead distance, or the last one.
LEMMA CarrotIsFirst ==
  ASSUME plan \in Plans, pose \in Int \X Int,
         NEW first \in 1 .. Len(plan), NEW end \in first .. Len(plan), NEW look \in Int
  PROVE  /\ Carrot(first, end, look) \in first .. end
         /\ \A i \in first .. Carrot(first, end, look) - 1 : Gap2(plan[i], pose) < look * look
<1> DEFINE far == {i \in first .. end : Gap2(plan[i], pose) >= look * look}
<1> DEFINE c == Carrot(first, end, look)
<1>1. c = IF far = {} THEN end ELSE Min(far)
  BY DEF Carrot
<1>2. Len(plan) \in Nat /\ first \in Int /\ end \in Int /\ look * look \in Int
  BY PlanPoses
<1>3. \A i \in first .. end : Gap2(plan[i], pose) \in Nat
  <2>1. \A i \in first .. end : i \in 1 .. Len(plan)
    BY <1>2
  <2> QED BY <2>1, PlanPoses, Gap2Type
<1>4. far # {} => Min(far) \in far /\ \A i \in far : Min(far) <= i
  <2>1. far \subseteq first .. end
    OBVIOUS
  <2> HIDE DEF far
  <2> QED BY <1>2, <2>1, MinIndex
<1>5. c \in first .. end
  <2>1. far \subseteq first .. end
    OBVIOUS
  <2> HIDE DEF far, c
  <2> QED BY <1>1, <1>2, <1>4, <2>1
<1>6. \A i \in first .. c - 1 : i \in first .. end /\ i \notin far
  <2>1. \A i \in first .. c - 1 : i \in first .. end
    <3> HIDE DEF c
    <3> QED BY <1>2, <1>5
  <2>2. \A i \in far : c <= i
    <3> HIDE DEF far, c
    <3> QED BY <1>1, <1>4
  <2>3. \A i \in first .. c - 1 : ~(c <= i)
    <3> HIDE DEF c
    <3> QED BY <1>2, <1>5
  <2> HIDE DEF far, c
  <2> QED BY <2>1, <2>2, <2>3
<1>7. \A i \in first .. c - 1 : Gap2(plan[i], pose) < look * look
  <2> HIDE DEF c
  <2>1. \A i \in first .. c - 1 : ~(Gap2(plan[i], pose) >= look * look)
    BY <1>6
  <2> QED BY <1>2, <1>3, <1>6, <2>1
<1> QED BY <1>5, <1>7

\* Whatever the carrot's distance is, the PID keeps to its limits.
LEMMA PidBounded ==
  ASSUME integral \in Int, preError \in Int, NEW e \in Int
  PROVE  Pid(e) \in Int /\ VMin <= Pid(e) /\ Pid(e) <= VMax
<1> DEFINE u == Kp * e + Ki * (integral + e) + Kd * (e - preError)
<1>1. u \in Int
  <2>1. Kp * e \in Int /\ Ki * (integral + e) \in Int /\ Kd * (e - preError) \in Int
    BY PursuitConstants
  <2> QED BY <2>1
<1>2. Pid(e) = Clamp(u, VMin, VMax)
  BY DEF Pid
<1> HIDE DEF u
<1> QED BY <1>1, <1>2, PursuitConstants DEF Clamp

\* In a sharp bend the limited speed falls by Rate, unless it is what the bend allows.
LEMMA SharpLimits ==
  ASSUME lastScale \in Int, NEW v \in Int, v <= VMax, NEW m \in Int,
         lastScale <= Most(Most(SharpSpeed, 2 * MinApproach), m)
  PROVE  /\ CurvatureLimited(v, "sharp") \in Int
         /\ CurvatureLimited(v, "sharp") <= Most(Most(SharpSpeed, 2 * MinApproach), m - Rate)
<1> DEFINE t == (v * RatioNum) \div RatioDen
<1>1. v * RatioNum \in Int /\ VMax * RatioNum \in Int /\ v * RatioNum <= VMax * RatioNum
  BY PursuitConstants
<1>2. t \in Int /\ SharpSpeed \in Int /\ t <= SharpSpeed
  BY <1>1, Quotient, QuotientMonotone, PursuitConstants DEF SharpSpeed
<1>3. CurvatureLimited(v, "sharp")
        = Least(v, Most(lastScale + Clamp(t - lastScale, -Rate, Rate), 2 * MinApproach))
  BY DEF CurvatureLimited
<1> HIDE DEF t
<1>4. -Rate \in Int /\ Rate \in Int /\ Rate > 0 /\ 2 * MinApproach \in Int
  BY PursuitConstants
<1> QED BY <1>2, <1>3, <1>4 DEF Least, Most, Clamp

\* Whatever the curvature, the limited speed is at most what was wanted.
LEMMA LimitedAtMost ==
  ASSUME lastScale \in Int, NEW v \in Int, NEW curve \in {"straight", "slight", "sharp"}
  PROVE  CurvatureLimited(v, curve) \in Int /\ CurvatureLimited(v, curve) <= v
<1> DEFINE t == CASE curve = "sharp" -> (v * RatioNum) \div RatioDen
                  [] curve = "slight" -> (v * (RatioNum + RatioDen)) \div (2 * RatioDen)
                  [] OTHER -> v
<1>1. v * RatioNum \in Int /\ v * (RatioNum + RatioDen) \in Int /\ 2 * RatioDen \in Nat \ {0}
  BY PursuitConstants
<1>2. (v * RatioNum) \div RatioDen \in Int /\ (v * (RatioNum + RatioDen)) \div (2 * RatioDen) \in Int
  BY <1>1, Quotient, PursuitConstants
<1>3. t \in Int
  BY <1>2
<1> DEFINE s == IF curve = "straight" THEN v ELSE lastScale + Clamp(t - lastScale, -Rate, Rate)
<1>4. CurvatureLimited(v, curve) = Least(v, Most(s, 2 * MinApproach))
  BY DEF CurvatureLimited
<1>5. s \in Int
  <2> HIDE DEF t
  <2> QED BY <1>3, PursuitConstants DEF Clamp
<1> HIDE DEF s
<1> QED BY <1>4, <1>5, PursuitConstants DEF Least, Most

\* Near the end of the plan the speed only falls.
LEMMA ApproachOnlySlows ==
  ASSUME plan \in Plans, pose \in Int \X Int, NEW v \in Int,
         NEW first \in 1 .. Len(plan), NEW end \in first .. Len(plan)
  PROVE  Approaching(v, first, end) \in Int /\ Approaching(v, first, end) <= v
<1> DEFINE r == Root(Gap2(plan[end], pose))
<1>1. end \in 1 .. Len(plan)
  BY PlanPoses
<1>2. r \in Int
  BY <1>1, PlanPoses, Gap2Type, RootType
<1> DEFINE s == IF end - first < ApproachDist THEN (v * r) \div ApproachDist ELSE v
<1>3. Approaching(v, first, end) = Least(v, Most(s, MinApproach))
  BY DEF Approaching
<1>4. s \in Int
  <2> HIDE DEF r
  <2>1. v * r \in Int
    BY <1>2
  <2> QED BY <2>1, Quotient, PursuitConstants
<1> HIDE DEF s
<1> QED BY <1>3, <1>4, PursuitConstants DEF Least, Most

\* What Closest prunes to is a pose of what is left of the plan.
LEMMA ClosestType ==
  ASSUME plan \in Plans, pose \in Int \X Int, head \in 1 .. Len(plan)
  PROVE  Closest \in head .. Len(plan)
<1> DEFINE ahead == head .. Least(head + SearchDist, Len(plan))
<1> DEFINE nearest == {i \in ahead : \A j \in ahead : Gap2(plan[i], pose) <= Gap2(plan[j], pose)}
<1>1. Len(plan) \in Int /\ head \in Int /\ SearchDist \in Nat
  BY PlanPoses, PursuitConstants
<1>2. ahead \subseteq head .. Len(plan) /\ head \in ahead
  BY <1>1 DEF Least
<1>3. \A i \in ahead : Gap2(plan[i], pose) \in Nat
  <2>1. \A i \in ahead : i \in 1 .. Len(plan)
    BY <1>1, <1>2
  <2> QED BY <2>1, PlanPoses, Gap2Type
<1> DEFINE g == [i \in ahead |-> Gap2(plan[i], pose)]
<1> DEFINE gaps == {g[i] : i \in ahead}
<1>4. nearest # {}
  <2>1. gaps \subseteq Nat /\ gaps # {}
    <3> HIDE DEF ahead
    <3> QED BY <1>2, <1>3
  <2>2. PICK n \in gaps : \A m \in gaps : n <= m
    <3> HIDE DEF gaps
    <3> QED BY <2>1, LeastNatural
  <2>3. PICK i \in ahead : n = g[i]
    BY <2>2
  <2>4. \A j \in ahead : g[i] <= g[j]
    <3> HIDE DEF ahead, g
    <3> QED BY <2>2, <2>3
  <2>5. \A j \in ahead : g[j] = Gap2(plan[j], pose)
    <3> HIDE DEF ahead
    <3> QED OBVIOUS
  <2> HIDE DEF ahead, g
  <2> QED BY <2>3, <2>4, <2>5
<1>5. Closest = Min(nearest)
  BY DEF Closest
<1>6. nearest \subseteq ahead
  OBVIOUS
<1>7. nearest \subseteq head .. Len(plan)
  <2> HIDE DEF nearest, ahead
  <2> QED BY <1>2, <1>6
<1>8. Closest \in nearest
  <2> HIDE DEF nearest, ahead
  <2> QED BY <1>1, <1>4, <1>5, <1>7, MinIndex
<1> HIDE DEF nearest
<1> QED BY <1>7, <1>8

\* What a call that steers does, with the look ahead distance and the error it works with.
LEMMA SteerStep ==
  ASSUME PursuitTyped, plan \in Plans, NEW first \in 1 .. Len(plan), NEW end \in first .. Len(plan),
         NEW curve \in {"straight", "slight", "sharp"}, Steer(first, end, curve)
  PROVE  \E look \in 1 .. MaxLook, e \in Int :
           /\ integral' = Clamp(integral + e, -MaxSum, MaxSum) /\ preError' = e
           /\ lastScale' = CurvatureLimited(Pid(e), curve)
           /\ bends' = IF curve = "sharp" THEN Least(bends + 1, LongBend) ELSE 0
           /\ answer' = IF CollisionDetected(Sampled(first, end)) THEN Exception
                        ELSE [kind |-> "velocity", speed |-> Approaching(lastScale', first, end),
                              carrot |-> Carrot(first, end, look), last |-> end]
<1>1. PICK speed \in 0 .. MaxLook, headingOff \in BOOLEAN :
        LET look == LookAhead(speed)
            e == IF headingOff THEN 0 ELSE CarrotDist(first, end, look)
            limited == CurvatureLimited(Pid(e), curve)
        IN  /\ integral' = Clamp(integral + e, -MaxSum, MaxSum) /\ preError' = e
            /\ lastScale' = limited
            /\ bends' = IF curve = "sharp" THEN Least(bends + 1, LongBend) ELSE 0
            /\ answer' = IF CollisionDetected(Sampled(first, end)) THEN Exception
                         ELSE [kind |-> "velocity", speed |-> Approaching(limited, first, end),
                               carrot |-> Carrot(first, end, look), last |-> end]
  BY DEF Steer
<1> DEFINE look == LookAhead(speed)
<1> DEFINE e == IF headingOff THEN 0 ELSE CarrotDist(first, end, look)
<1>2. look \in 1 .. MaxLook
  BY PursuitConstants DEF PursuitTyped, LookAhead, Clamp
<1>3. e \in Int
  <2> HIDE DEF look
  <2> DEFINE c == Carrot(first, end, look)
  <2>1. c \in first .. end
    BY <1>2, CarrotIsFirst DEF PursuitTyped
  <2>2. c \in 1 .. Len(plan)
    <3> HIDE DEF c
    <3> QED BY <2>1, PlanPoses
  <2>3. Root(Gap2(plan[c], pose)) \in Int
    <3> HIDE DEF c
    <3> QED BY <2>2, PlanPoses, Gap2Type, RootType DEF PursuitTyped
  <2>4. CarrotDist(first, end, look)
          = IF c > first /\ Gap2(plan[c], pose) >= look * look THEN look ELSE Root(Gap2(plan[c], pose))
    BY DEF CarrotDist
  <2> HIDE DEF c
  <2>5. CarrotDist(first, end, look) \in Int
    BY <1>2, <2>3, <2>4
  <2> QED BY <2>5
<1>4. /\ integral' = Clamp(integral + e, -MaxSum, MaxSum) /\ preError' = e
      /\ lastScale' = CurvatureLimited(Pid(e), curve)
      /\ bends' = IF curve = "sharp" THEN Least(bends + 1, LongBend) ELSE 0
      /\ answer' = IF CollisionDetected(Sampled(first, end)) THEN Exception
                   ELSE [kind |-> "velocity", speed |-> Approaching(lastScale', first, end),
                         carrot |-> Carrot(first, end, look), last |-> end]
  BY <1>1
<1> HIDE DEF look, e
<1> QED BY <1>2, <1>3, <1>4

\* A call that steers does so on what is left of the plan.
LEMMA CallSteers ==
  ASSUME PursuitTyped, ComputeVelocityCommands
  PROVE  \/ UNCHANGED <<head, integral, preError, lastScale, bends>> /\ answer' = Exception
         \/ /\ plan \in Plans /\ head' \in 1 .. Len(plan)
            /\ UNCHANGED <<integral, preError, lastScale, bends>> /\ answer' = Exception
         \/ /\ plan \in Plans /\ head' \in 1 .. Len(plan)
            /\ LastSampled(head') \in head' .. Len(plan)
            /\ \E curve \in {"straight", "slight", "sharp"} : Steer(head', LastSampled(head'), curve)
<1>1. CASE plan # <<>> /\ head' = Closest
  <2>1. plan \in Plans /\ pose \in Int \X Int /\ head \in 1 .. Len(plan)
    BY <1>1 DEF PursuitTyped
  <2>2. head' \in head .. Len(plan) /\ Len(plan) \in Int
    BY <1>1, <2>1, ClosestType, PlanPoses
  <2>3. head' \in 1 .. Len(plan) /\ head' \in Nat /\ head' <= Len(plan)
    BY <2>1, <2>2
  <2>4. LastSampled(head') \in Int /\ LastSampled(head') <= Len(plan)
    BY <2>1, <2>3, LastSampledType
  <2>5. ~(LastSampled(head') < head') => LastSampled(head') \in head' .. Len(plan)
    BY <2>2, <2>3, <2>4
  <2> QED BY <2>1, <2>3, <2>5 DEF ComputeVelocityCommands
<1>2. CASE ~(plan # <<>> /\ head' = Closest)
  BY <1>2 DEF ComputeVelocityCommands
<1> QED BY <1>1, <1>2

\* The plan is followed from one end to the other, by a robot that is near it.
LEMMA PursuitTypedKept ==
  ASSUME PursuitTyped, [PursuitNext]_pursuitVars
  PROVE  PursuitTyped'
<1> USE DEF PursuitTyped
<1>0. /\ \A p \in Plans : Len(p) \in Nat \ {0} /\ \A i \in 1 .. Len(p) : p[i] \in Int \X Int
      /\ \A p \in Int \X Int : Near(p) \subseteq Int \X Int
  <2>1. \A p \in Int \X Int : Near(p) \subseteq Int \X Int
    <3> SUFFICES ASSUME NEW p \in Int \X Int, NEW d \in Sways
                 PROVE  <<p[1] + d[1], p[2] + d[2]>> \in Int \X Int
      BY DEF Near
    <3>1. d \in Int \X Int
      BY PursuitAssumption
    <3> QED BY <3>1
  <2> QED BY <2>1, PlanPoses
<1>1. CASE SetPlan
  <2>1. plan' \in Plans /\ pose \in Near(plan'[1]) /\ head' = 1 /\ at' = 1
    BY <1>1 DEF SetPlan
  <2>2. plan' # <<>> /\ 1 \in 1 .. Len(plan')
    BY <2>1, <1>0
  <2>3. UNCHANGED <<pose, centre, minLook, integral, preError>>
    BY <1>1 DEF SetPlan
  <2> QED BY <2>1, <2>2, <2>3 DEF Near
<1>2. CASE Travels
  <2>1. plan # <<>> /\ plan \in Plans /\ plan' = plan /\ head' = head
    BY <1>2 DEF Travels
  <2>2. PICK k \in 0 .. Stride : at' = Least(at + k, Len(plan))
    BY <1>2 DEF Travels
  <2>3. at' \in 1 .. Len(plan)
    BY <1>0, <2>1, <2>2, PursuitConstants DEF Least
  <2>4. pose' \in Near(plan[at']) /\ centre' \in {pose, pose'}
    BY <1>2 DEF Travels
  <2>5. pose' \in Int \X Int /\ centre' \in Int \X Int
    BY <1>0, <2>1, <2>3, <2>4
  <2>6. UNCHANGED <<minLook, integral, preError>>
    BY <1>2 DEF Travels
  <2> QED BY <2>1, <2>3, <2>4, <2>5, <2>6 DEF Near
<1>3. CASE SetParameters
  <2>1. minLook' \in 1 .. MaxLook
    BY <1>3, PursuitAssumption DEF SetParameters
  <2> QED BY <1>3, <2>1 DEF SetParameters, Near
<1>4. CASE ComputeVelocityCommands
  <2>1. UNCHANGED <<plan, at, pose, centre, minLook>>
    BY <1>4 DEF ComputeVelocityCommands
  <2>2. CASE UNCHANGED <<head, integral, preError>>
    BY <2>1, <2>2 DEF Near
  <2>3. ASSUME plan \in Plans, head' \in 1 .. Len(plan), integral' \in Int, preError' \in Int
        PROVE  PursuitTyped'
    <3>1. plan # <<>>
      BY <2>3, <1>0
    <3> QED BY <2>1, <2>3, <3>1 DEF Near
  <2>4. ASSUME plan \in Plans, head' \in 1 .. Len(plan), LastSampled(head') \in head' .. Len(plan),
               NEW curve \in {"straight", "slight", "sharp"}, Steer(head', LastSampled(head'), curve)
        PROVE  integral' \in Int /\ preError' \in Int
    <3>1. PICK e \in Int : integral' = Clamp(integral + e, -MaxSum, MaxSum) /\ preError' = e
      BY <2>4, SteerStep
    <3> QED BY <3>1, PursuitConstants DEF Clamp
  <2> QED BY <1>4, <2>2, <2>3, <2>4, CallSteers
<1>5. CASE UNCHANGED pursuitVars
  BY <1>5 DEF pursuitVars, Near
<1> QED BY <1>1, <1>2, <1>3, <1>4, <1>5 DEF PursuitNext


\* After LongBend periods at Rate nothing is left of the highest speed.
LEMMA LongBendIsLong ==
  LongBend \in Nat \ {0} /\ VMax <= LongBend * Rate
<1> DEFINE n == VMax + Rate - 1
<1>1. n \in Int /\ n >= Rate /\ Rate \in Nat \ {0} /\ VMax \in Int /\ n = VMax + Rate - 1
  BY PursuitConstants
<1>2. LongBend = n \div Rate
  BY DEF LongBend
<1> HIDE DEF n
<1>3. LongBend \in Int /\ LongBend * Rate \in Int /\ LongBend * Rate <= n /\ n < LongBend * Rate + Rate
  BY <1>1, <1>2, Quotient
<1>4. VMax <= LongBend * Rate
  BY <1>1, <1>3
<1>5. LongBend > 0
  <2> SUFFICES ASSUME LongBend <= 0 PROVE FALSE
    BY <1>3
  <2> DEFINE z == LongBend * Rate
  <2>1. z <= 0 /\ z \in Int /\ VMax <= z
    BY <1>1, <1>3, <1>4
  <2> HIDE DEF z
  <2> QED BY <2>1, PursuitConstants
<1> QED BY <1>3, <1>4, <1>5

\* A call that steers keeps the limit: in a bend by SharpLimits, and anywhere else a new
\* bend may begin with the highest speed.
LEMMA SteerKeepsLimit ==
  ASSUME BendInv, plan \in Plans, NEW first \in 1 .. Len(plan), NEW end \in first .. Len(plan),
         NEW curve \in {"straight", "slight", "sharp"}, Steer(first, end, curve)
  PROVE  BendLimited'
<1>1. PICK look \in 1 .. MaxLook, e \in Int :
        /\ lastScale' = CurvatureLimited(Pid(e), curve)
        /\ bends' = IF curve = "sharp" THEN Least(bends + 1, LongBend) ELSE 0
        /\ answer' = IF CollisionDetected(Sampled(first, end)) THEN Exception
                     ELSE [kind |-> "velocity", speed |-> Approaching(lastScale', first, end),
                           carrot |-> Carrot(first, end, look), last |-> end]
  BY SteerStep, Zenon DEF BendInv
<1>2. /\ lastScale \in Int /\ bends \in 0 .. LongBend
      /\ lastScale <= Most(Most(SharpSpeed, 2 * MinApproach), VMax - bends * Rate)
      /\ pose \in Int \X Int /\ integral \in Int /\ preError \in Int
  BY DEF BendInv, BendLimited, PursuitTyped
<1>3. Pid(e) \in Int /\ Pid(e) <= VMax
  BY <1>2, PidBounded
<1>4. lastScale' \in Int /\ lastScale' <= VMax
  <2>1. lastScale' \in Int /\ lastScale' <= Pid(e)
    BY <1>1, <1>2, <1>3, LimitedAtMost
  <2> QED BY <1>3, <2>1, PursuitConstants
<1>5. bends' \in 0 .. LongBend
  BY <1>1, <1>2, LongBendIsLong DEF Least
<1>6. answer'.speed \in Int /\ (answer'.kind = "velocity" => answer'.speed <= lastScale')
  <2>1. /\ Approaching(lastScale', first, end) \in Int
        /\ Approaching(lastScale', first, end) <= lastScale'
    BY <1>2, <1>4, ApproachOnlySlows
  <2> QED BY <1>1, <2>1 DEF Exception, None
<1>7. SharpSpeed \in Int /\ VMax \in Int /\ Rate \in Nat /\ LongBend \in Nat /\ LongBend * Rate \in Int
      /\ VMax <= LongBend * Rate /\ MinApproach \in Nat
  <2>1. VMax * RatioNum \in Int
    BY PursuitConstants
  <2>2. SharpSpeed \in Int
    BY <2>1, Quotient, PursuitConstants DEF SharpSpeed
  <2>3. LongBend * Rate \in Int
    BY PursuitConstants, LongBendIsLong
  <2> QED BY <2>2, <2>3, PursuitConstants, LongBendIsLong
<1>8. bends * Rate \in Int /\ bends' * Rate \in Int
  BY <1>2, <1>5, <1>7
<1>9. lastScale' <= Most(Most(SharpSpeed, 2 * MinApproach), VMax - bends' * Rate)
  <2>1. CASE curve = "sharp"
    <3>1. VMax - bends * Rate \in Int
      BY <1>7, <1>8
    <3>2. lastScale' <= Most(Most(SharpSpeed, 2 * MinApproach), (VMax - bends * Rate) - Rate)
      BY <1>1, <1>2, <1>3, <2>1, <3>1, SharpLimits
    <3>3. CASE bends' = bends + 1
      <4>1. bends' * Rate = bends * Rate + Rate
        BY <1>2, <1>7, <3>3
      <4>2. (VMax - bends * Rate) - Rate = VMax - bends' * Rate
        BY <1>7, <1>8, <4>1
      <4> QED BY <3>2, <4>2
    <3>4. CASE bends' = LongBend /\ bends = LongBend
      <4> DEFINE z == LongBend * Rate
      <4>1. bends * Rate = z /\ bends' * Rate = z /\ z \in Int /\ VMax <= z
        BY <1>7, <3>4
      <4> HIDE DEF z
      <4> QED BY <1>4, <1>7, <3>2, <4>1 DEF Most
    <3>5. bends' = bends + 1 \/ (bends' = LongBend /\ bends = LongBend)
      BY <1>1, <1>2, <1>7, <2>1 DEF Least
    <3> QED BY <3>3, <3>4, <3>5
  <2>2. CASE curve # "sharp"
    <3>1. bends' * Rate = 0
      BY <1>1, <1>7, <2>2
    <3> QED BY <1>4, <1>7, <3>1 DEF Most
  <2> QED BY <2>1, <2>2
<1> QED BY <1>4, <1>5, <1>6, <1>9 DEF BendLimited

\* There is no plan at first.
LEMMA PursuitStarts ==
  ASSUME PursuitInit
  PROVE  PursuitTyped /\ plan = <<>> /\ centre = pose /\ answer.kind # "velocity"
<1>1. /\ plan = <<>> /\ head = 1 /\ pose = <<1, 0>> /\ centre = <<1, 0>> /\ minLook \in Looks
      /\ integral = 0 /\ preError = 0 /\ answer.kind = "none"
  BY DEF PursuitInit, None
<1>2. minLook \in 1 .. MaxLook
  BY <1>1, PursuitAssumption, Zenon
<1>3. <<1, 0>> \in Int \X Int /\ 0 \in Int
  OBVIOUS
<1> QED BY <1>1, <1>2, <1>3 DEF PursuitTyped

\* In a bend that lasts the speed comes down to what the curvature allows, whatever the PID
\* wanted before and wherever the carrot is (applyCurvatureLimitation, applyApproachVelocityScaling).
THEOREM SlowsInEveryBend == PursuitInit /\ [][PursuitNext]_pursuitVars => []SlowsInBends
<1>1. PursuitInit => BendInv
  <2> SUFFICES ASSUME PursuitInit PROVE BendInv
    OBVIOUS
  <2>1. PursuitTyped
    BY PursuitStarts, Zenon
  <2>2. lastScale = 0 /\ bends = 0 /\ answer.kind # "velocity" /\ answer.speed = 0
    BY DEF PursuitInit, None
  <2>3. bends * Rate = 0 /\ SharpSpeed \in Int
    <3>1. VMax * RatioNum \in Int
      BY PursuitConstants
    <3> QED BY <2>2, <3>1, Quotient, PursuitConstants DEF SharpSpeed
  <2>4. 0 <= Most(Most(SharpSpeed, 2 * MinApproach), VMax - bends * Rate)
    BY <2>3, PursuitConstants DEF Most
  <2> QED BY <2>1, <2>2, <2>4, LongBendIsLong DEF BendInv, BendLimited
<1>2. BendInv /\ [PursuitNext]_pursuitVars => BendInv'
  <2> SUFFICES ASSUME BendInv, [PursuitNext]_pursuitVars PROVE BendInv'
    OBVIOUS
  <2>1. PursuitTyped'
    BY PursuitTypedKept DEF BendInv
  <2>2. ASSUME UNCHANGED <<lastScale, bends>>, answer' = None \/ answer' = Exception \/ answer' = answer
        PROVE  BendLimited'
    BY <2>2 DEF BendInv, BendLimited, None, Exception
  <2>3. CASE SetPlan \/ Travels \/ SetParameters \/ UNCHANGED pursuitVars
    <3>1. UNCHANGED <<lastScale, bends>> /\ (answer' = None \/ answer' = answer)
      BY <2>3 DEF SetPlan, Travels, SetParameters, pursuitVars
    <3> QED BY <2>1, <2>2, <3>1 DEF BendInv
  <2>4. CASE ComputeVelocityCommands
    <3>1. PursuitTyped
      BY DEF BendInv
    <3>2. ASSUME plan \in Plans, head' \in 1 .. Len(plan), LastSampled(head') \in head' .. Len(plan),
                 NEW curve \in {"straight", "slight", "sharp"}, Steer(head', LastSampled(head'), curve)
          PROVE  BendLimited'
      BY <3>2, SteerKeepsLimit
    <3> QED BY <2>1, <2>2, <2>4, <3>1, <3>2, CallSteers DEF BendInv
  <2> QED BY <2>3, <2>4 DEF PursuitNext
<1>3. BendInv => SlowsInBends
  <2> SUFFICES ASSUME BendInv, bends >= LongBend, answer.kind = "velocity"
               PROVE  answer.speed <= Most((VMax * RatioNum) \div RatioDen, 2 * MinApproach)
    BY DEF SlowsInBends
  <2>1. bends = LongBend
    BY LongBendIsLong DEF BendInv, BendLimited
  <2> DEFINE z == bends * Rate
  <2>2. /\ lastScale <= Most(Most(SharpSpeed, 2 * MinApproach), VMax - z)
        /\ answer.speed <= lastScale /\ answer.speed \in Int /\ lastScale \in Int
    BY DEF BendInv, BendLimited
  <2>3. z \in Int /\ VMax <= z
    BY <2>1, LongBendIsLong, PursuitConstants
  <2>4. SharpSpeed \in Int
    <3>1. VMax * RatioNum \in Int
      BY PursuitConstants
    <3> QED BY <3>1, Quotient, PursuitConstants DEF SharpSpeed
  <2>5. answer.speed <= Most(SharpSpeed, 2 * MinApproach)
    <3> HIDE DEF z
    <3> QED BY <2>2, <2>3, <2>4, PursuitConstants DEF Most
  <2> QED BY <2>5 DEF SharpSpeed
<1> QED BY <1>1, <1>2, <1>3, PTL

\* The centre of the costmap is that near to the robot.
CentreNear ==
  IF plan = <<>> THEN centre = pose
  ELSE /\ pose[1] - centre[1] + MaxLook - 1 <= HalfX /\ centre[1] - pose[1] + MaxLook - 1 <= HalfX
       /\ pose[2] - centre[2] + MaxLook - 1 <= HalfY /\ centre[2] - pose[2] + MaxLook - 1 <= HalfY

\* A command stands for as long as the plan, the robot and the costmap are what they were
\* when the plan was sampled for it.
AnswerIsSampled ==
  answer.kind = "velocity" =>
    /\ plan \in Plans /\ answer.last \in head .. Len(plan) /\ answer.carrot \in head .. answer.last
    /\ ~CollisionDetected(Sampled(head, answer.last))
    /\ \A i \in head .. answer.carrot - 1 : Gap2(plan[i], pose) < MaxLook * MaxLook

StopInv == PursuitTyped /\ CentreNear /\ AnswerIsSampled

\* A pose nearer than the look ahead distance is on the costmap.
LEMMA NearIsOnCostmap ==
  ASSUME PursuitTyped, CentreNear, plan \in Plans, NEW p \in Int \X Int,
         Gap2(p, pose) < MaxLook * MaxLook
  PROVE  InCostmap(p)
<1> DEFINE x == p[1] - pose[1]
<1> DEFINE y == p[2] - pose[2]
<1> DEFINE m == MaxLook * MaxLook
<1>1. x \in Int /\ y \in Int /\ MaxLook \in Nat /\ m \in Int
  BY PursuitConstants DEF PursuitTyped
<1>2. x * x + y * y < m
  BY DEF Gap2
<1>3. x * x \in Nat /\ y * y \in Nat
  <2> HIDE DEF x, y
  <2> QED BY <1>1
<1>4. x * x < m /\ y * y < m
  <2> HIDE DEF x, y, m
  <2> QED BY <1>1, <1>2, <1>3
<1>5. -MaxLook < x /\ x < MaxLook /\ -MaxLook < y /\ y < MaxLook
  <2> HIDE DEF x, y
  <2> QED BY <1>1, <1>4, SmallerSquare
<1>6. plan # <<>>
  BY PlanPoses
<1>7. /\ pose[1] \in Int /\ pose[2] \in Int /\ centre[1] \in Int /\ centre[2] \in Int
      /\ p[1] \in Int /\ p[2] \in Int /\ HalfX \in Nat /\ HalfY \in Nat
  BY PursuitConstants DEF PursuitTyped
<1>8. /\ pose[1] - centre[1] + MaxLook - 1 <= HalfX /\ centre[1] - pose[1] + MaxLook - 1 <= HalfX
      /\ pose[2] - centre[2] + MaxLook - 1 <= HalfY /\ centre[2] - pose[2] + MaxLook - 1 <= HalfY
  BY <1>6 DEF CentreNear
<1>9. p[1] - centre[1] \in -HalfX .. HalfX
  BY <1>1, <1>5, <1>7, <1>8
<1>10. p[2] - centre[2] \in -HalfY .. HalfY
  BY <1>1, <1>5, <1>7, <1>8
<1> QED BY <1>9, <1>10 DEF InCostmap

\* A step leads one further at most.
LEMMA StepFurther ==
  ASSUME NEW a \in Int, NEW b \in Int, NEW c \in Int, NEW n \in Nat, b - a \in {-1, 0, 1},
         a - c <= n - 1, c - a <= n - 1
  PROVE  b - c <= n /\ c - b <= n
OBVIOUS

\* Two poses of a plan are not further apart than the steps between them.
LEMMA StepsBetween ==
  ASSUME NEW p \in Plans, NEW i \in 1 .. Len(p), NEW j \in i .. Len(p)
  PROVE  /\ p[j][1] - p[i][1] <= j - i /\ p[i][1] - p[j][1] <= j - i
         /\ p[j][2] - p[i][2] <= j - i /\ p[i][2] - p[j][2] <= j - i
<1> DEFINE Apart(n) == /\ p[i + n][1] - p[i][1] <= n /\ p[i][1] - p[i + n][1] <= n
                       /\ p[i + n][2] - p[i][2] <= n /\ p[i][2] - p[i + n][2] <= n
<1> DEFINE T == {n \in Nat : i + n <= Len(p) /\ ~Apart(n)}
<1>1. Len(p) \in Nat /\ \A k \in 1 .. Len(p) : p[k][1] \in Int /\ p[k][2] \in Int
  BY PlanPoses
<1>2. T = {}
  <2> SUFFICES ASSUME T # {} PROVE FALSE
    OBVIOUS
  <2>1. PICK n \in T : \A k \in T : n <= k
    <3>1. T \subseteq Nat
      OBVIOUS
    <3> HIDE DEF T
    <3> QED BY <3>1, LeastNatural
  <2>2. n \in Nat /\ i + n <= Len(p) /\ ~Apart(n) /\ n - 1 \notin T
    BY <2>1
  <2>3. n # 0
    BY <1>1, <2>2
  <2>4. n - 1 \in Nat /\ i + (n - 1) \in 1 .. Len(p) /\ i + n \in 2 .. Len(p)
        /\ (i + n) - 1 = i + (n - 1)
    BY <1>1, <2>2, <2>3
  <2>5. Apart(n - 1)
    BY <1>1, <2>2, <2>4
  <2> DEFINE a == p[i + (n - 1)]
  <2> DEFINE b == p[i + n]
  <2>6. {b[1] - a[1], b[2] - a[2]} \in {{0, 1}, {0, -1}}
    BY <2>4, PursuitAssumption
  <2>7. /\ a[1] \in Int /\ a[2] \in Int /\ b[1] \in Int /\ b[2] \in Int
        /\ p[i][1] \in Int /\ p[i][2] \in Int
    <3>1. i + (n - 1) \in 1 .. Len(p) /\ i + n \in 1 .. Len(p) /\ i \in 1 .. Len(p)
      BY <1>1, <2>4
    <3> QED BY <1>1, <3>1, Zenon
  <2>8. b[1] - a[1] \in {-1, 0, 1} /\ b[2] - a[2] \in {-1, 0, 1}
    <3> DEFINE u == b[1] - a[1]
    <3> DEFINE v == b[2] - a[2]
    <3>1. {u, v} \in {{0, 1}, {0, -1}}
      BY <2>6
    <3> HIDE DEF u, v
    <3>2. u \in {u, v} /\ v \in {u, v}
      OBVIOUS
    <3>3. u \in {-1, 0, 1} /\ v \in {-1, 0, 1}
      BY <3>1, <3>2
    <3> QED BY <3>3 DEF u, v
  <2>9. /\ a[1] - p[i][1] <= n - 1 /\ p[i][1] - a[1] <= n - 1
        /\ a[2] - p[i][2] <= n - 1 /\ p[i][2] - a[2] <= n - 1
    BY <2>5
  <2>10. /\ b[1] - p[i][1] <= n /\ p[i][1] - b[1] <= n
         /\ b[2] - p[i][2] <= n /\ p[i][2] - b[2] <= n
    <3>1. n \in Nat
      BY <2>2
    <3> DEFINE c == p[i]
    <3>2. /\ a[1] - c[1] <= n - 1 /\ c[1] - a[1] <= n - 1
          /\ a[2] - c[2] <= n - 1 /\ c[2] - a[2] <= n - 1
          /\ c[1] \in Int /\ c[2] \in Int
      BY <2>7, <2>9
    <3> HIDE DEF a, b, c
    <3>3. /\ b[1] - c[1] <= n /\ c[1] - b[1] <= n /\ b[2] - c[2] <= n /\ c[2] - b[2] <= n
      BY <2>7, <2>8, <3>1, <3>2, StepFurther
    <3> QED BY <3>3 DEF c
  <2> QED BY <2>2, <2>10
<1>3. j - i \in Nat /\ i + (j - i) = j /\ j <= Len(p)
  BY <1>1
<1>4. Apart(j - i)
  BY <1>2, <1>3
<1> QED BY <1>3, <1>4

\* Every row of as many poses as width says holds a sample.
LEMMA SampleInEveryRow ==
  ASSUME NEW n \in Nat \ {0}, NEW a \in Nat, NEW w \in Int,
         w = (n - 1 + SamplePoints) \div SamplePoints, a + w <= n
  PROVE  \E k \in 0 .. SamplePoints - 1 :
           a <= (k * n) \div SamplePoints /\ (k * n) \div SamplePoints <= a + w - 1
<1> DEFINE s == SamplePoints
<1>0. s \in Nat \ {0}
  BY PursuitConstants
<1> HIDE DEF s
<1> DEFINE k == (a * s + n - 1) \div n
<1>1. a * s \in Int /\ w * s \in Int /\ n * s \in Int
  BY <1>0
<1>2. k \in Int /\ k * n \in Int /\ k * n <= a * s + n - 1 /\ a * s + n - 1 < k * n + n
  <2>1. a * s + n - 1 \in Int
    BY <1>1
  <2> QED BY <2>1, Quotient
<1>3. n <= w * s
  <2>1. n - 1 + s \in Int /\ w = (n - 1 + s) \div s
    BY <1>0 DEF s
  <2>2. n - 1 + s < w * s + s
    BY <1>0, <2>1, Quotient
  <2> QED BY <1>0, <1>1, <2>2
<1> HIDE DEF k
<1>4. a * s <= k * n /\ k * n < a * s + w * s
  BY <1>1, <1>2, <1>3
<1> DEFINE q == (k * n) \div s
<1>5. q \in Int /\ q * s \in Int /\ q * s <= k * n /\ k * n < q * s + s
  BY <1>0, <1>2, Quotient
<1> HIDE DEF q
<1> DEFINE low == a * s
<1> DEFINE ws == w * s
<1> DEFINE kn == k * n
<1> DEFINE qs == q * s
<1>6. /\ low \in Int /\ ws \in Int /\ kn \in Int /\ qs \in Int
      /\ low <= kn /\ kn < low + ws /\ qs <= kn /\ kn < qs + s
  BY <1>1, <1>2, <1>4, <1>5
<1>7. a <= q
  <2> SUFFICES ASSUME q + 1 <= a PROVE FALSE
    BY <1>5
  <2>1. qs + s <= low
    <3>1. (q + 1) * s <= a * s /\ (q + 1) * s = q * s + s
      BY <1>0, <1>5
    <3> QED BY <3>1
  <2> HIDE DEF low, kn, qs
  <2> QED BY <1>0, <1>6, <2>1
<1>8. q <= a + w - 1
  <2> SUFFICES ASSUME a + w <= q PROVE FALSE
    BY <1>5
  <2>1. low + ws <= qs
    <3>1. (a + w) * s <= q * s /\ (a + w) * s = a * s + w * s
      BY <1>0, <1>5
    <3> QED BY <3>1
  <2> HIDE DEF low, ws, kn, qs
  <2> QED BY <1>6, <2>1
<1>9. k >= 0 /\ k <= s - 1
  <2>1. k <= -1 => kn <= -n
    BY <1>2
  <2>2. 0 <= low
    BY <1>0
  <2>3. s <= k => n * s <= kn
    BY <1>0, <1>2
  <2>4. low + ws <= n * s
    <3>1. (a + w) * s <= n * s /\ (a + w) * s = a * s + w * s
      BY <1>0
    <3> QED BY <3>1
  <2> DEFINE ns == n * s
  <2>5. ns \in Int /\ low + ws <= ns /\ (s <= k => ns <= kn)
    BY <1>1, <2>3, <2>4
  <2> HIDE DEF low, ws, kn, ns
  <2> QED BY <1>0, <1>2, <1>6, <2>1, <2>2, <2>5
<1>10. k \in 0 .. s - 1
  BY <1>0, <1>2, <1>9
<1> QED BY <1>7, <1>8, <1>10 DEF q, s

\* The samples up to the carrot are on the costmap, and every row has one: what was found
\* free has no row of lethal cells.
LEMMA SampledStops ==
  ASSUME PursuitTyped, CentreNear, AnswerIsSampled
  PROVE  StopsForObstacle
<1> DEFINE end == answer.last
<1> DEFINE w == (end - head + SamplePoints) \div SamplePoints
<1> SUFFICES ASSUME answer.kind = "velocity", NEW i \in head .. answer.carrot - w,
                    \A j \in i .. i + w - 1 : plan[j] \in lethal
             PROVE  FALSE
  BY DEF StopsForObstacle
<1>1. /\ plan \in Plans /\ end \in head .. Len(plan) /\ answer.carrot \in head .. end
      /\ ~CollisionDetected(Sampled(head, end))
      /\ \A k \in head .. answer.carrot - 1 : Gap2(plan[k], pose) < MaxLook * MaxLook
  BY DEF AnswerIsSampled
<1>2. Len(plan) \in Nat /\ head \in 1 .. Len(plan) /\ pose \in Int \X Int
      /\ SamplePoints \in Nat \ {0}
  BY <1>1, PlanPoses, PursuitConstants DEF PursuitTyped
<1> DEFINE c == answer.carrot
<1> HIDE DEF end, c
<1>3. end \in Int /\ c \in Int /\ head \in Int /\ head <= c /\ c <= end /\ end <= Len(plan) /\ 1 <= head
  BY <1>1, <1>2 DEF c
<1> DEFINE n == end - head + 1
<1> DEFINE a == i - head
<1>4. w \in Int
  <2>1. end - head + SamplePoints \in Int
    BY <1>2, <1>3
  <2> QED BY <1>2, <2>1, Quotient
<1>5. w = (n - 1 + SamplePoints) \div SamplePoints
  <2>1. n - 1 + SamplePoints = end - head + SamplePoints
    BY <1>2, <1>3
  <2> QED BY <2>1
<1>6. i \in Int /\ head <= i /\ i + w <= c
  <2> HIDE DEF w
  <2> QED BY <1>3, <1>4 DEF c
<1> HIDE DEF w
<1>7. n \in Nat \ {0} /\ a \in Nat /\ a + w <= n
  BY <1>3, <1>4, <1>6
<1>8. PICK k \in 0 .. SamplePoints - 1 :
        a <= (k * n) \div SamplePoints /\ (k * n) \div SamplePoints <= a + w - 1
  BY <1>4, <1>5, <1>7, SampleInEveryRow
<1> DEFINE place(j) == (j * n) \div SamplePoints
<1> DEFINE samples == Sampled(head, end)
<1>9. \A j \in 0 .. k : place(j) \in Int /\ 0 <= place(j) /\ place(j) <= place(k)
  <2> SUFFICES ASSUME NEW j \in 0 .. k
               PROVE  place(j) \in Int /\ 0 <= place(j) /\ place(j) <= place(k)
    OBVIOUS
  <2> HIDE DEF n
  <2>1. j * n \in Nat /\ k * n \in Nat /\ j * n <= k * n
    BY <1>2, <1>7
  <2>2. place(j) \in Int /\ place(j) <= place(k)
    BY <1>2, <2>1, Quotient, QuotientMonotone
  <2>3. 0 \div SamplePoints = 0
    BY <1>2
  <2>4. 0 \div SamplePoints <= place(j)
    BY <1>2, <2>1, QuotientMonotone
  <2> QED BY <2>2, <2>3, <2>4
<1>10. \A j \in 0 .. SamplePoints - 1 : samples[j] = plan[head + Least(place(j), n - 1)]
  BY DEF Sampled
<1>11. DOMAIN samples = 0 .. SamplePoints - 1 /\ k \in 0 .. SamplePoints - 1
       /\ \A j \in 0 .. k : j \in 0 .. SamplePoints - 1
  <2>1. DOMAIN samples = 0 .. SamplePoints - 1
    BY DEF Sampled
  <2> QED BY <1>2, <2>1
<1>12. place(k) \in Int /\ a <= place(k) /\ place(k) <= a + w - 1
  BY <1>2, <1>8, <1>9
<1> HIDE DEF place, samples
<1>13. \A j \in 0 .. k : samples[j] = plan[head + place(j)] /\ head + place(j) \in head .. c - 1
  <2> SUFFICES ASSUME NEW j \in 0 .. k
               PROVE  samples[j] = plan[head + place(j)] /\ head + place(j) \in head .. c - 1
    OBVIOUS
  <2>1. place(j) \in Int /\ 0 <= place(j) /\ place(j) <= place(k)
    BY <1>9
  <2>2. head + place(j) \in head .. c - 1 /\ place(j) <= n - 1
    BY <1>3, <1>4, <1>6, <1>12, <2>1
  <2>3. Least(place(j), n - 1) = place(j)
    BY <1>7, <2>1, <2>2 DEF Least
  <2>4. j \in 0 .. SamplePoints - 1
    BY <1>11
  <2> QED BY <1>10, <2>2, <2>3, <2>4
<1>14. \A j \in 0 .. k : InCostmap(samples[j])
  <2> SUFFICES ASSUME NEW j \in 0 .. k PROVE InCostmap(samples[j])
    OBVIOUS
  <2> DEFINE m == head + place(j)
  <2>1. samples[j] = plan[m] /\ m \in head .. c - 1
    BY <1>13
  <2> HIDE DEF m
  <2>2. m \in 1 .. Len(plan)
    BY <1>2, <1>3, <2>1
  <2>3. plan[m] \in Int \X Int
    BY <1>1, <2>2, PlanPoses
  <2>4. Gap2(plan[m], pose) < MaxLook * MaxLook
    BY <1>1, <2>1 DEF c
  <2> QED BY <1>1, <2>1, <2>3, <2>4, NearIsOnCostmap
<1>15. samples[k] \in lethal
  <2>1. k \in 0 .. k
    BY <1>2
  <2>2. samples[k] = plan[head + place(k)]
    BY <1>13, <2>1
  <2>3. head + place(k) \in i .. i + w - 1
    BY <1>3, <1>4, <1>6, <1>12
  <2> QED BY <2>2, <2>3
<1>16. CollisionDetected(samples)
  BY <1>11, <1>14, <1>15 DEF CollisionDetected
<1> QED BY <1>1, <1>16 DEF samples

\* The costmap follows the robot, and its centre is late by one advance at most.
LEMMA CentreNearKept ==
  ASSUME CostmapReaches, PursuitTyped, CentreNear, [PursuitNext]_pursuitVars
  PROVE  CentreNear'
<1>0. /\ Stride \in Nat /\ MaxLook \in Nat /\ HalfX \in Int /\ HalfY \in Int
      /\ pose[1] \in Int /\ pose[2] \in Int
  BY PursuitConstants DEF PursuitTyped
<1>1. CASE SetPlan
  <2>1. PICK d \in Sways : pose = <<plan'[1][1] + d[1], plan'[1][2] + d[2]>>
    BY <1>1 DEF SetPlan, Near
  <2>2. d[1] \in Int /\ d[2] \in Int
    BY PursuitAssumption
  <2>3. /\ d[1] - d[1] + Stride + MaxLook - 1 <= HalfX
        /\ d[2] - d[2] + Stride + MaxLook - 1 <= HalfY
    BY DEF CostmapReaches
  <2>4. MaxLook - 1 <= HalfX /\ MaxLook - 1 <= HalfY
    BY <1>0, <2>2, <2>3
  <2>5. plan' # <<>> /\ UNCHANGED <<pose, centre>>
    BY <1>1, PlanPoses DEF SetPlan
  <2>6. CASE plan = <<>>
    <3>1. centre = pose
      BY <2>6 DEF CentreNear
    <3> QED BY <1>0, <2>4, <2>5, <3>1 DEF CentreNear
  <2>7. CASE plan # <<>>
    BY <2>5, <2>7 DEF CentreNear
  <2> QED BY <2>6, <2>7
<1>2. CASE Travels
  <2>1. plan \in Plans /\ plan' = plan /\ plan # <<>> /\ at \in 1 .. Len(plan) /\ Len(plan) \in Nat
    BY <1>2, PlanPoses DEF Travels, PursuitTyped
  <2>2. PICK k \in 0 .. Stride : at' = Least(at + k, Len(plan))
    BY <1>2 DEF Travels
  <2>3. at' \in at .. Len(plan) /\ at' - at <= Stride /\ at' \in 1 .. Len(plan) /\ at' - at \in Nat
    BY <1>0, <2>1, <2>2 DEF Least
  <2> DEFINE p == plan[at]
  <2> DEFINE q == plan[at']
  <2>4. p \in Int \X Int /\ q \in Int \X Int
    BY <2>1, <2>3, PlanPoses
  <2>5. /\ q[1] - p[1] <= at' - at /\ p[1] - q[1] <= at' - at
        /\ q[2] - p[2] <= at' - at /\ p[2] - q[2] <= at' - at
    BY <2>1, <2>3, StepsBetween
  <2> HIDE DEF p, q
  <2>6. /\ q[1] - p[1] <= Stride /\ p[1] - q[1] <= Stride
        /\ q[2] - p[2] <= Stride /\ p[2] - q[2] <= Stride
    BY <1>0, <2>3, <2>4, <2>5
  <2>7. PICK d \in Sways : pose = <<p[1] + d[1], p[2] + d[2]>>
    BY <2>1 DEF PursuitTyped, Near, p
  <2>8. PICK e \in Sways : pose' = <<q[1] + e[1], q[2] + e[2]>>
    BY <1>2 DEF Travels, Near, q
  <2>9. d[1] \in Int /\ d[2] \in Int /\ e[1] \in Int /\ e[2] \in Int
    BY PursuitAssumption
  <2>10. /\ d[1] - e[1] + Stride + MaxLook - 1 <= HalfX /\ e[1] - d[1] + Stride + MaxLook - 1 <= HalfX
         /\ d[2] - e[2] + Stride + MaxLook - 1 <= HalfY /\ e[2] - d[2] + Stride + MaxLook - 1 <= HalfY
    BY DEF CostmapReaches
  <2>11. /\ pose[1] = p[1] + d[1] /\ pose[2] = p[2] + d[2]
         /\ pose'[1] = q[1] + e[1] /\ pose'[2] = q[2] + e[2]
    BY <2>7, <2>8
  <2>12. /\ pose'[1] \in Int /\ pose'[2] \in Int /\ MaxLook - 1 <= HalfX /\ MaxLook - 1 <= HalfY
    BY <1>0, <2>4, <2>9, <2>10, <2>11
  <2>13. /\ pose'[1] - pose[1] + MaxLook - 1 <= HalfX /\ pose[1] - pose'[1] + MaxLook - 1 <= HalfX
    BY <1>0, <2>4, <2>6, <2>9, <2>10, <2>11
  <2>14. /\ pose'[2] - pose[2] + MaxLook - 1 <= HalfY /\ pose[2] - pose'[2] + MaxLook - 1 <= HalfY
    BY <1>0, <2>4, <2>6, <2>9, <2>10, <2>11
  <2>15. CASE centre' = pose
    BY <2>1, <2>13, <2>14, <2>15 DEF CentreNear
  <2>16. CASE centre' = pose'
    BY <1>0, <2>1, <2>12, <2>16 DEF CentreNear
  <2> QED BY <1>2, <2>15, <2>16 DEF Travels
<1>3. CASE UNCHANGED <<plan, pose, centre>>
  BY <1>3 DEF CentreNear
<1> QED BY <1>1, <1>2, <1>3 DEF PursuitNext, SetParameters, ComputeVelocityCommands, pursuitVars

\* No command outlives what it was sampled for.
LEMMA AnswerKept ==
  ASSUME PursuitTyped, AnswerIsSampled, [PursuitNext]_pursuitVars
  PROVE  AnswerIsSampled'
<1>1. CASE answer' = None \/ answer' = Exception
  BY <1>1 DEF AnswerIsSampled, None, Exception
<1>2. CASE UNCHANGED pursuitVars
  BY <1>2 DEF pursuitVars, AnswerIsSampled, CollisionDetected, Sampled, InCostmap
<1>3. CASE ComputeVelocityCommands
  <2>1. UNCHANGED <<plan, pose, centre, lethal>>
    BY <1>3 DEF ComputeVelocityCommands
  <2>2. ASSUME plan \in Plans, head' \in 1 .. Len(plan), LastSampled(head') \in head' .. Len(plan),
               NEW curve \in {"straight", "slight", "sharp"}, Steer(head', LastSampled(head'), curve)
        PROVE  AnswerIsSampled'
    <3>1. PICK h \in 1 .. Len(plan) : h = head'
      BY <2>2
    <3>2. PICK end \in h .. Len(plan) : end = LastSampled(head')
      BY <2>2, <3>1
    <3>3. PICK look \in 1 .. MaxLook :
            answer' = IF CollisionDetected(Sampled(h, end)) THEN Exception
                      ELSE [kind |-> "velocity", speed |-> Approaching(lastScale', h, end),
                            carrot |-> Carrot(h, end, look), last |-> end]
      BY <2>2, <3>1, <3>2, SteerStep
    <3> DEFINE c == Carrot(h, end, look)
    <3>4. c \in h .. end /\ \A i \in h .. c - 1 : Gap2(plan[i], pose) < look * look
      BY <2>2, CarrotIsFirst DEF PursuitTyped
    <3>5. \A i \in h .. c - 1 : Gap2(plan[i], pose) < MaxLook * MaxLook
      <4> SUFFICES ASSUME NEW i \in h .. c - 1 PROVE Gap2(plan[i], pose) < MaxLook * MaxLook
        OBVIOUS
      <4> HIDE DEF c
      <4>1. i \in 1 .. Len(plan)
        BY <2>2, <3>4, PlanPoses
      <4>2. Gap2(plan[i], pose) \in Nat /\ Gap2(plan[i], pose) < look * look
        BY <2>2, <3>4, <4>1, PlanPoses, Gap2Type DEF PursuitTyped
      <4>3. MaxLook \in Nat /\ look \in Nat /\ look <= MaxLook
        BY PursuitConstants
      <4>4. look * look <= look * MaxLook /\ look * MaxLook <= MaxLook * MaxLook
        BY <4>3
      <4> DEFINE g == Gap2(plan[i], pose)
      <4> DEFINE x == look * look
      <4> DEFINE y == look * MaxLook
      <4> DEFINE z == MaxLook * MaxLook
      <4>5. g \in Int /\ x \in Int /\ y \in Int /\ z \in Int /\ g < x /\ x <= y /\ y <= z
        BY <4>2, <4>3, <4>4
      <4>6. g < z
        <5> HIDE DEF g, x, y, z
        <5> QED BY <4>5
      <4> QED BY <4>6
    <3>6. CASE ~CollisionDetected(Sampled(h, end))
      <4> HIDE DEF c
      <4>1. answer'.last = end /\ answer'.carrot = c /\ head' = h
        BY <3>1, <3>3, <3>6 DEF c
      <4>2. ~CollisionDetected(Sampled(head, answer.last))'
        BY <2>1, <3>6, <4>1 DEF CollisionDetected, Sampled, InCostmap
      <4> QED BY <2>1, <2>2, <3>4, <3>5, <4>1, <4>2 DEF AnswerIsSampled, Gap2
    <3>7. CASE CollisionDetected(Sampled(h, end))
      BY <1>1, <3>3, <3>7
    <3> QED BY <3>6, <3>7
  <2> QED BY <1>1, <1>3, <2>2, CallSteers
<1> QED BY <1>1, <1>2, <1>3 DEF PursuitNext, SetPlan, Travels, SetParameters

\* When the costmap reaches as far as the carrot can be, no command goes out into a row of
\* lethal cells that is long enough to be sampled, for every plan, costmap and look ahead
\* distance, and although plan, robot and costmap change between the calls (isCollisionDetected).
THEOREM StopsBeforeObstacles ==
  ASSUME CostmapReaches
  PROVE  PursuitInit /\ [][PursuitNext]_pursuitVars => []StopsForObstacle
<1>1. PursuitInit => StopInv
  BY PursuitStarts, Zenon DEF StopInv, CentreNear, AnswerIsSampled
<1>2. StopInv /\ [PursuitNext]_pursuitVars => StopInv'
  BY PursuitTypedKept, CentreNearKept, AnswerKept DEF StopInv
<1>3. StopInv => StopsForObstacle
  BY SampledStops DEF StopInv
<1> QED BY <1>1, <1>2, <1>3, PTL
===============================================================================
