------------------------------ MODULE ToolsProofs ------------------------------
(***************************************************************************)
(* Proofs about the tools around the robot: the server that stands in for  *)
(* navigation, the waypoint editor and its panel, and the simulated        *)
(* referee, for every number of goals, threads, edits and clicks.          *)
(***************************************************************************)
EXTENDS MockGoalServer, WaypointEditor, RefereeMock, WaypointPanel, SequenceTheorems, TLAPS

-------------------------------------------------------------------------------
(* The mock of navigation *)

Points == {"none", "top", "decide", "superseded", "succeed", "abort", "report", "done"}
AtWork(g) == at[g] \in {"top", "decide", "superseded", "succeed", "abort"}
UnderWay(g) == status[g] \in {"executing", "canceling"}

MockTyped ==
  /\ status \in [Goals -> {"none", "executing", "canceling", "succeeded", "aborted", "canceled"}]
  /\ at \in [Goals -> Points]
  /\ seq \in [Goals -> Nat] /\ sequence \in Nat
  /\ latest \in Goals \cup {NoGoal}
  /\ seen \in [Goals -> Goals \cup {NoGoal}]

\* The handle of a goal has ended exactly when its thread only has to report.
ThreadsEndGoals ==
  \A g \in Goals :
    /\ at[g] = "none" <=> status[g] = "none"
    /\ AtWork(g) => UnderWay(g)
    /\ at[g] \in {"report", "done"} => Ended(g)

\* The sequence numbers name the goals begun, and the last one is the latest's.
NumbersNameGoals ==
  /\ \A g \in Goals : /\ at[g] = "none" <=> seq[g] = 0
                      /\ seq[g] <= sequence
  /\ \A g, h \in Goals : seq[g] = seq[h] /\ seq[g] # 0 => g = h
  /\ latest = NoGoal => sequence = 0
  /\ latest # NoGoal => at[latest] # "none" /\ seq[latest] = sequence

\* What a thread has read of the latest goal is about its own.
DecidesOnItsOwn ==
  \A g \in Goals :
    /\ at[g] = "decide" => seen[g] = g
    /\ at[g] = "superseded" => g # latest

\* Who is about to report success has been there.
HasBeenThere ==
  \A g \in Goals :
    /\ UnderWay(g) /\ robot = Place[g] => g \in visited
    /\ at[g] = "succeed" => mode = "succeed" \/ g \in visited

MockInv ==
  MockTyped /\ ThreadsEndGoals /\ NumbersNameGoals /\ DecidesOnItsOwn /\ HasBeenThere /\ StateIsOfLatest

\* No goal, every thread free.
LEMMA MockInitially == MockInit => MockInv
<1> SUFFICES ASSUME MockInit PROVE MockInv
  OBVIOUS
<1> USE DEF MockInit
<1>1. MockTyped
  BY DEF MockTyped, Points
<1>2. ThreadsEndGoals /\ DecidesOnItsOwn /\ HasBeenThere
  BY DEF ThreadsEndGoals, DecidesOnItsOwn, HasBeenThere, AtWork, UnderWay, Ended
<1>3. NumbersNameGoals /\ StateIsOfLatest
  BY DEF NumbersNameGoals, StateIsOfLatest
<1> QED BY <1>1, <1>2, <1>3 DEF MockInv

\* The latest goal is the one with the last sequence number.
LEMMA LatestHasLastNumber ==
  ASSUME MockInv, NEW g \in Goals, at[g] # "none"
  PROVE  seq[g] = sequence <=> g = latest
BY MockAssumption DEF MockInv, MockTyped, NumbersNameGoals

\* MockInv, one lemma per action.
LEMMA SetGoalKeeps == ASSUME MockInv, NEW g \in Goals, SetGoal(g) PROVE MockInv'
<1>0. /\ at \in [Goals -> Points] /\ at[g] = "none" /\ at' = [at EXCEPT ![g] = "top"]
      /\ seq \in [Goals -> Nat] /\ sequence \in Nat
      /\ sequence' = sequence + 1 /\ seq' = [seq EXCEPT ![g] = sequence + 1]
      /\ latest' = g /\ g # NoGoal
  BY MockAssumption DEF MockInv, MockTyped, SetGoal, Goto
<1>1. MockTyped'
  <2>1. at' \in [Goals -> Points]
    BY <1>0 DEF Points
  <2>2. /\ seq' \in [Goals -> Nat] /\ sequence' \in Nat
        /\ latest' \in Goals \cup {NoGoal}
    BY <1>0
  <2> QED BY <2>1, <2>2 DEF MockInv, MockTyped, SetGoal
<1>2. NumbersNameGoals'
  <2>1. \A h \in Goals : seq[h] \in Nat /\ seq[h] <= sequence
    BY <1>0 DEF MockInv, NumbersNameGoals
  <2>2. \A h \in Goals : (at'[h] = "none" <=> seq'[h] = 0) /\ seq'[h] <= sequence'
    BY <1>0, <2>1 DEF MockInv, NumbersNameGoals
  <2>3. \A h, k \in Goals : seq'[h] = seq'[k] /\ seq'[h] # 0 => h = k
    BY <1>0, <2>1 DEF MockInv, NumbersNameGoals
  <2> QED BY <1>0, <2>2, <2>3 DEF NumbersNameGoals
<1> USE DEF SetGoal, Goto
<1>3. ThreadsEndGoals'
  BY DEF MockInv, MockTyped, ThreadsEndGoals, AtWork, UnderWay, Ended
<1>4. DecidesOnItsOwn'
  BY <1>0 DEF MockInv, MockTyped, DecidesOnItsOwn
<1>5. HasBeenThere'
  BY DEF MockInv, MockTyped, ThreadsEndGoals, HasBeenThere, UnderWay, AtPlace
<1>6. StateIsOfLatest'
  BY DEF MockInv, MockTyped, StateIsOfLatest
<1> QED BY <1>1, <1>2, <1>3, <1>4, <1>5, <1>6 DEF MockInv

LEMMA CheckLatestKeeps == ASSUME MockInv, NEW g \in Goals, CheckLatest(g) PROVE MockInv'
<1>0. seq[g] = sequence <=> g = latest
  BY LatestHasLastNumber DEF CheckLatest
<1> USE DEF CheckLatest, Goto, goalVars
<1>1. MockTyped'
  BY DEF MockInv, MockTyped, Points
<1>2. ThreadsEndGoals'
  BY DEF MockInv, MockTyped, ThreadsEndGoals, AtWork, UnderWay, Ended
<1>3. NumbersNameGoals'
  BY DEF MockInv, MockTyped, NumbersNameGoals
<1>4. DecidesOnItsOwn'
  BY <1>0 DEF MockInv, MockTyped, DecidesOnItsOwn
<1>5. HasBeenThere'
  BY DEF MockInv, MockTyped, HasBeenThere, UnderWay
<1>6. StateIsOfLatest'
  BY DEF MockInv, MockTyped, StateIsOfLatest
<1> QED BY <1>1, <1>2, <1>3, <1>4, <1>5, <1>6 DEF MockInv

LEMMA DecideKeeps == ASSUME MockInv, NEW g \in Goals, Decide(g) PROVE MockInv'
<1> USE DEF Decide, Goto, goalVars
<1>1. MockTyped'
  BY DEF MockInv, MockTyped, Points
<1>2. ThreadsEndGoals'
  BY DEF MockInv, MockTyped, ThreadsEndGoals, AtWork, UnderWay, Ended
<1>3. NumbersNameGoals'
  BY DEF MockInv, MockTyped, NumbersNameGoals
<1>4. DecidesOnItsOwn'
  BY DEF MockInv, MockTyped, DecidesOnItsOwn
<1>5. HasBeenThere'
  BY DEF MockInv, MockTyped, ThreadsEndGoals, DecidesOnItsOwn, HasBeenThere, UnderWay, AtWork
<1>6. StateIsOfLatest'
  BY DEF MockInv, MockTyped, StateIsOfLatest
<1> QED BY <1>1, <1>2, <1>3, <1>4, <1>5, <1>6 DEF MockInv

\* A goal ends: it is cancelled, superseded, or its thread has decided.
LEMMA EndingKeeps ==
  ASSUME MockInv, NEW g \in Goals, Canceled(g) \/ Superseded(g) \/ Finish(g) PROVE MockInv'
<1> USE DEF Canceled, Superseded, Finish, Goto
<1>1. MockTyped'
  BY DEF MockInv, MockTyped, Points
<1>2. ThreadsEndGoals'
  BY DEF MockInv, MockTyped, ThreadsEndGoals, AtWork, UnderWay, Ended
<1>3. NumbersNameGoals'
  BY DEF MockInv, MockTyped, NumbersNameGoals
<1>4. DecidesOnItsOwn'
  BY DEF MockInv, MockTyped, DecidesOnItsOwn
<1>5. HasBeenThere'
  BY DEF MockInv, MockTyped, HasBeenThere, UnderWay
<1>6. StateIsOfLatest'
  BY DEF MockInv, MockTyped, StateIsOfLatest, DecidesOnItsOwn
<1> QED BY <1>1, <1>2, <1>3, <1>4, <1>5, <1>6 DEF MockInv

LEMMA ReportKeeps == ASSUME MockInv, NEW g \in Goals, Report(g) PROVE MockInv'
<1>0. seq[g] = sequence <=> g = latest
  BY LatestHasLastNumber DEF Report
<1> USE DEF Report, Goto, goalVars
<1>1. MockTyped'
  BY DEF MockInv, MockTyped, Points
<1>2. ThreadsEndGoals'
  BY DEF MockInv, MockTyped, ThreadsEndGoals, AtWork, UnderWay, Ended
<1>3. NumbersNameGoals'
  BY DEF MockInv, MockTyped, NumbersNameGoals
<1>4. DecidesOnItsOwn'
  BY DEF MockInv, MockTyped, DecidesOnItsOwn
<1>5. HasBeenThere'
  BY DEF MockInv, MockTyped, HasBeenThere, UnderWay
<1>6. StateIsOfLatest'
  BY <1>0 DEF MockInv, MockTyped, StateIsOfLatest
<1> QED BY <1>1, <1>2, <1>3, <1>4, <1>5, <1>6 DEF MockInv

LEMMA CancelGoalKeeps == ASSUME MockInv, NEW g \in Goals, CancelGoal(g) PROVE MockInv'
<1> USE DEF CancelGoal
<1>1. MockTyped'
  BY DEF MockInv, MockTyped
<1>2. ThreadsEndGoals'
  BY DEF MockInv, MockTyped, ThreadsEndGoals, AtWork, UnderWay, Ended
<1>3. NumbersNameGoals' /\ DecidesOnItsOwn'
  BY DEF MockInv, NumbersNameGoals, DecidesOnItsOwn
<1>5. HasBeenThere'
  BY DEF MockInv, MockTyped, HasBeenThere, UnderWay
<1>6. StateIsOfLatest'
  BY DEF MockInv, MockTyped, StateIsOfLatest, ThreadsEndGoals, Ended
<1> QED BY <1>1, <1>2, <1>3, <1>5, <1>6 DEF MockInv

\* The threads at work are those of the goals under way.
LEMMA BusyIsUnderWay ==
  ASSUME MockInv PROVE Busy \ {g \in Goals : Ended(g)} = {g \in Goals : UnderWay(g)}
BY DEF MockInv, MockTyped, ThreadsEndGoals, Busy, UnderWay, Ended, AtWork, Points

LEMMA InitialPoseKeeps == ASSUME MockInv, NEW pos \in Poses, InitialPose(pos) PROVE MockInv'
<1> USE DEF InitialPose
<1>1. MockTyped' /\ ThreadsEndGoals' /\ NumbersNameGoals' /\ DecidesOnItsOwn' /\ StateIsOfLatest'
  BY DEF MockInv, MockTyped, ThreadsEndGoals, AtWork, UnderWay, Ended, NumbersNameGoals,
         DecidesOnItsOwn, StateIsOfLatest
<1>2. HasBeenThere'
  BY BusyIsUnderWay DEF MockInv, HasBeenThere, UnderWay, AtPlace
<1> QED BY <1>1, <1>2 DEF MockInv

LEMMA MockStep == MockInv /\ [MockNext]_mockVars => MockInv'
<1> SUFFICES ASSUME MockInv, [MockNext]_mockVars PROVE MockInv'
  OBVIOUS
<1>1. CASE \E g \in Goals : SetGoal(g) \/ Execute(g) \/ CancelGoal(g)
  BY <1>1, SetGoalKeeps, CheckLatestKeeps, DecideKeeps, EndingKeeps, ReportKeeps, CancelGoalKeeps
     DEF Execute
<1>2. CASE \E pos \in Poses : InitialPose(pos)
  BY <1>2, InitialPoseKeeps
<1>3. CASE UNCHANGED mockVars
  BY <1>3 DEF mockVars, MockInv, MockTyped, ThreadsEndGoals, AtWork, UnderWay, Ended,
              NumbersNameGoals, DecidesOnItsOwn, HasBeenThere, StateIsOfLatest
<1> QED BY <1>1, <1>2, <1>3 DEF MockNext

\* _set_goal and _execute_callback of decision_result_mock.py: whichever threads still
\* run for goals that were replaced, what is displayed is about the latest goal.
THEOREM DisplayIsOfLatestGoal == MockSafety => []StateIsOfLatest
<1>1. MockInv => StateIsOfLatest
  BY DEF MockInv
<1> QED BY MockInitially, MockStep, <1>1, PTL DEF MockSafety

\* A goal that ended stays as it ended.
LEMMA EndsOnce ==
  ASSUME MockInv, NEW g \in Goals, Canceled(g) \/ Superseded(g) \/ Finish(g) PROVE Service!End(g)
<1>1. g \in Service!Active
  BY DEF MockInv, ThreadsEndGoals, AtWork, UnderWay, Service!Active, Canceled, Superseded, Finish
<1>2. status' \in {[status EXCEPT ![g] = e] : e \in Service!Ends}
  BY DEF Service!Ends, Canceled, Superseded, Finish
<1>3. /\ status'[g] = "succeeded" => (mode = "succeed") \/ g \in visited
      /\ status'[g] = "canceled" => status[g] = "canceling"
  BY DEF MockInv, MockTyped, HasBeenThere, Canceled, Superseded, Finish
<1>4. UNCHANGED <<mode = "succeed", latest, robot, visited>>
  BY DEF Canceled, Superseded, Finish
<1> QED BY <1>1, <1>2, <1>3, <1>4 DEF Service!End

\* Every step of the mock is a step of the navigation server or leaves it alone.
LEMMA MockStepServes == MockInv /\ [MockNext]_mockVars => [Service!Next]_(Service!vars)
<1> SUFFICES ASSUME MockInv, [MockNext]_mockVars PROVE [Service!Next]_(Service!vars)
  OBVIOUS
<1>1. ASSUME NEW g \in Goals, SetGoal(g) PROVE Service!Begin(g)
  BY <1>1 DEF SetGoal, MockInv, ThreadsEndGoals, AtPlace, Service!Begin, Service!AtPlace
<1>2. ASSUME NEW g \in Goals, CancelGoal(g) PROVE Service!Cancel(g)
  BY <1>2 DEF CancelGoal, Service!Cancel
<1>3. ASSUME NEW g \in Goals, CheckLatest(g) \/ Decide(g) \/ Report(g)
      PROVE  UNCHANGED Service!vars
  BY <1>3 DEF CheckLatest, Decide, Report, goalVars, Service!vars
<1>4. ASSUME NEW pos \in Poses, InitialPose(pos) PROVE Service!Move
  BY <1>4, BusyIsUnderWay
     DEF InitialPose, AtPlace, UnderWay, Service!Move, Service!Active, Service!AtPlace
<1>5. CASE UNCHANGED mockVars
  BY <1>5 DEF mockVars, Service!vars
<1> QED BY <1>1, <1>2, <1>3, <1>4, <1>5, EndsOnce DEF MockNext, Execute, Service!Next

\* _execute_callback: each goal ends once, succeeds only after the robot was there unless the
\* mock pretends, and is canceled only on request, however its threads are interleaved.
THEOREM MockServesGoals == MockSafety => Service!SafetySpec
<1>1. MockInit => Service!Init
  BY DEF MockInit, Service!Init, NoGoal
<1> QED BY <1>1, MockInitially, MockStep, MockStepServes, PTL DEF MockSafety, Service!SafetySpec

-------------------------------------------------------------------------------
(* The waypoint editor *)

Waypoints == [pos : Int, cmd : Commands]
Docs == Seq(Waypoints)

EditorInv ==
  /\ history \in Seq(Docs) /\ index \in 1 .. Len(history)
  /\ wps \in Docs /\ file \in Docs

\* Parts of a history, and lists with one waypoint inserted or appended, keep their types.
LEMMA PrefixTyped ==
  ASSUME NEW S, NEW s \in Seq(S), NEW n \in 0 .. Len(s)
  PROVE  SubSeq(s, 1, n) \in Seq(S) /\ Len(SubSeq(s, 1, n)) = n
<1>1. \A i \in 1 .. n : s[i] \in S
  BY ElementOfSeq, LenProperties
<1>2. n \in Int /\ 1 \in Int
  BY LenProperties
<1>3. SubSeq(s, 1, n) \in Seq(S) /\ Len(SubSeq(s, 1, n)) = IF 1 <= n THEN n - 1 + 1 ELSE 0
  BY <1>1, <1>2, SubSeqProperties
<1> QED BY <1>2, <1>3

LEMMA SuffixTyped ==
  ASSUME NEW S, NEW s \in Seq(S), NEW n \in 1 .. Len(s) + 1
  PROVE  SubSeq(s, n, Len(s)) \in Seq(S)
<1>1. Len(s) \in Nat
  BY LenProperties
<1>2. \A i \in n .. Len(s) : s[i] \in S
  BY <1>1, ElementOfSeq
<1> QED BY <1>1, <1>2, SubSeqProperties

\* Removing an element of a sequence, and putting one into it.
LEMMA RemoveTyped ==
  ASSUME NEW S, NEW s \in Seq(S), NEW i \in 1 .. Len(s)
  PROVE  RemoveAt(s, i) \in Seq(S) /\ Len(RemoveAt(s, i)) = Len(s) - 1
<1>1. Len(s) \in Nat /\ i - 1 \in 0 .. Len(s) /\ i + 1 \in 1 .. Len(s) + 1
  BY LenProperties
<1>2. SubSeq(s, 1, i - 1) \in Seq(S) /\ Len(SubSeq(s, 1, i - 1)) = i - 1
  BY <1>1, PrefixTyped
<1>3. SubSeq(s, i + 1, Len(s)) \in Seq(S)
  BY <1>1, SuffixTyped
<1>4. Len(SubSeq(s, i + 1, Len(s))) = Len(s) - i
  <2>1. \A k \in (i + 1) .. Len(s) : s[k] \in S
    BY <1>1, ElementOfSeq
  <2>2. Len(SubSeq(s, i + 1, Len(s))) = IF i + 1 <= Len(s) THEN Len(s) - (i + 1) + 1 ELSE 0
    BY <1>1, <2>1, SubSeqProperties
  <2> QED BY <1>1, <2>2
<1> DEFINE l == SubSeq(s, 1, i - 1)
           r == SubSeq(s, i + 1, Len(s))
<1>5. RemoveAt(s, i) = l \o r
  BY DEF RemoveAt
<1> HIDE DEF l, r
<1>6. l \in Seq(S) /\ r \in Seq(S) /\ Len(l) = i - 1 /\ Len(r) = Len(s) - i
  BY <1>2, <1>3, <1>4 DEF l, r
<1>7. l \o r \in Seq(S) /\ Len(l \o r) = Len(l) + Len(r)
  BY <1>6, ConcatProperties
<1> QED BY <1>1, <1>5, <1>6, <1>7

LEMMA InsertTyped ==
  ASSUME NEW S, NEW s \in Seq(S), NEW i \in 1 .. Len(s) + 1, NEW e \in S
  PROVE  InsertAt(s, i, e) \in Seq(S)
<1>1. Len(s) \in Nat /\ i - 1 \in 0 .. Len(s)
  BY LenProperties
<1>2. SubSeq(s, 1, i - 1) \in Seq(S) /\ SubSeq(s, i, Len(s)) \in Seq(S)
  BY <1>1, PrefixTyped, SuffixTyped
<1>3. <<e>> \in Seq(S)
  OBVIOUS
<1>4. SubSeq(s, 1, i - 1) \o <<e>> \in Seq(S)
  BY <1>2, <1>3, ConcatProperties
<1> QED BY <1>2, <1>4, ConcatProperties DEF InsertAt

\* What Snapshot makes of the history s when version i is the current one.
LEMMA ForgettingUndone ==
  ASSUME NEW S, NEW s \in Seq(S), NEW i \in 1 .. Len(s), NEW e \in S,
         NEW h, h = Append(SubSeq(s, 1, i), e)
  PROVE  /\ h \in Seq(S) /\ Len(h) = i + 1 /\ h[i + 1] = e
         /\ SubSeq(h, 1, i) = Append(SubSeq(s, 1, i - 1), s[i])
         /\ SubSeq(h, i + 2, Len(h)) = <<>>
<1> DEFINE t == SubSeq(s, 1, i)
<1>1. Len(s) \in Nat /\ i \in 1 .. i /\ i \in 0 .. Len(s) /\ i - 1 \in 0 .. Len(s) /\ s[i] \in S
  BY LenProperties, ElementOfSeq
<1>2. t \in Seq(S) /\ Len(t) = i
  BY <1>1, PrefixTyped
<1>3. SubSeq(s, 1, i - 1) \in Seq(S)
  BY <1>1, PrefixTyped
<1>4. t = SubSeq(s, 1, i - 1) \o <<s[i]>>
  <2>1. 1 \in 1 .. Len(s) /\ i \in 1 .. Len(s)
    BY <1>1
  <2> QED BY <2>1, SubSeqRecursiveSecond
<1>5. t = Append(SubSeq(s, 1, i - 1), s[i])
  BY <1>1, <1>3, <1>4, AppendIsConcat
<1> HIDE DEF t
<1>6. h = Append(t, e)
  BY DEF t
<1>7. h \in Seq(S) /\ Len(h) = i + 1 /\ h[i + 1] = e
  BY <1>2, <1>6, AppendProperties
<1>8. SubSeq(h, 1, i) = t
  <2>1. h = t \o <<e>> /\ <<e>> \in Seq(S)
    BY <1>2, <1>6, AppendIsConcat
  <2>2. 1 \in 1 .. Len(t) /\ i \in 1 .. Len(t)
    BY <1>1, <1>2
  <2>3. SubSeq(t \o <<e>>, 1, i) = SubSeq(t, 1, i)
    BY <1>2, <2>1, <2>2, SubSeqOfConcat1, Zenon
  <2>4. SubSeq(t, 1, Len(t)) = t
    BY <1>2, SubSeqFull
  <2> QED BY <1>2, <2>1, <2>3, <2>4
<1>9. SubSeq(h, i + 2, Len(h)) = <<>>
  BY <1>1, <1>7, SubSeqEmpty
<1> QED BY <1>5, <1>7, <1>8, <1>9

\* A snapshot taken before a change appends a version and forgets what was undone.
LEMMA SnapshotEdits ==
  ASSUME EditorInv, wps' \in Docs, Snapshot
  PROVE  history' \in Seq(Docs) /\ index' \in 1 .. Len(history') /\ Document!Edit
<1> DEFINE h == Append(SubSeq(history, 1, index), wps')
<1>1. /\ h \in Seq(Docs) /\ Len(h) = index + 1 /\ h[index + 1] = wps'
      /\ SubSeq(h, 1, index) = Append(SubSeq(history, 1, index - 1), history[index])
      /\ SubSeq(h, index + 2, Len(h)) = <<>>
  BY ForgettingUndone DEF EditorInv
<1> HIDE DEF h
<1>2. history' = h /\ index' = index + 1 /\ index \in Nat
  BY LenProperties DEF Snapshot, h, EditorInv
<1>3. history' \in Seq(Docs) /\ index' \in 1 .. Len(history')
  BY <1>1, <1>2
<1>4. (index + 1) - 1 = index /\ (index + 1) + 1 = index + 2
  BY <1>2
<1>5. SubSeq(history', 1, index' - 1) = Append(SubSeq(history, 1, index - 1), history[index])
  BY <1>1, <1>2, <1>4
<1>6. SubSeq(history', index' + 1, Len(history')) = <<>>
  BY <1>1, <1>2, <1>4
<1> QED BY <1>3, <1>5, <1>6 DEF Document!Edit

LEMMA AppendTyped ==
  ASSUME EditorInv, NEW p \in Positions, AppendWaypoint(p)
  PROVE  wps' \in Docs /\ Snapshot
<1>1. [pos |-> p, cmd |-> Empty] \in Waypoints
  BY EditorAssumption DEF Waypoints
<1> QED BY <1>1, AppendProperties DEF AppendWaypoint, Commit, EditorInv, Docs, AppendTo

\* The changes of the editor keep their types.
LEMMA DragTyped ==
  ASSUME EditorInv, NEW i \in DOMAIN wps, NEW p \in Positions
  PROVE  [wps EXCEPT ![i].pos = p] \in Docs
<1>1. wps \in Seq(Waypoints) /\ i \in 1 .. Len(wps)
  BY LenProperties DEF EditorInv, Docs
<1>2. wps[i] \in Waypoints
  BY <1>1, ElementOfSeq
<1>3. [wps[i] EXCEPT !.pos = p] \in Waypoints
  BY <1>2, EditorAssumption DEF Waypoints
<1> QED BY <1>1, <1>3, ExceptSeq DEF Docs

LEMMA CommandTyped ==
  ASSUME EditorInv, NEW i \in DOMAIN wps, NEW c \in Commands
  PROVE  [wps EXCEPT ![i].cmd = c] \in Docs
<1>1. wps \in Seq(Waypoints) /\ i \in 1 .. Len(wps)
  BY LenProperties DEF EditorInv, Docs
<1>2. wps[i] \in Waypoints
  BY <1>1, ElementOfSeq
<1>3. [wps[i] EXCEPT !.cmd = c] \in Waypoints
  BY <1>2 DEF Waypoints
<1> QED BY <1>1, <1>3, ExceptSeq DEF Docs

LEMMA ChangeTyped ==
  ASSUME EditorInv, NEW i \in DOMAIN wps, NEW j \in DOMAIN wps
  PROVE  RemoveAt(wps, i) \in Docs /\ InsertAt(RemoveAt(wps, i), j, wps[i]) \in Docs
<1>1. wps \in Seq(Waypoints) /\ Len(wps) \in Nat /\ i \in 1 .. Len(wps) /\ j \in 1 .. Len(wps)
  BY LenProperties DEF EditorInv, Docs
<1>2. wps[i] \in Waypoints
  BY <1>1, ElementOfSeq
<1>3. RemoveAt(wps, i) \in Seq(Waypoints) /\ Len(RemoveAt(wps, i)) = Len(wps) - 1
  BY <1>1, RemoveTyped
<1>4. j \in 1 .. Len(RemoveAt(wps, i)) + 1
  BY <1>1, <1>3
<1>5. InsertAt(RemoveAt(wps, i), j, wps[i]) \in Seq(Waypoints)
  BY <1>2, <1>3, <1>4, InsertTyped
<1> QED BY <1>3, <1>5 DEF Docs

\* Undo goes one version back, redo one forward, clearing ends the history.
LEMMA UndoUndoes ==
  ASSUME EditorInv, UndoWaypoints
  PROVE  EditorInv' /\ Document!Undo
<1> DEFINE past == SubSeq(history, 1, index - 1)
<1>1. /\ history \in Seq(Docs) /\ Len(history) \in Nat /\ index \in 2 .. Len(history)
      /\ history' = history /\ index' = index - 1 /\ wps' = history[index - 1] /\ file' = file
  BY LenProperties DEF EditorInv, UndoWaypoints, Step, AssignAll
<1>2. EditorInv'
  BY <1>1, ElementOfSeq DEF EditorInv
<1>3. past \in Seq(Docs) /\ Len(past) = index - 1
  BY <1>1, PrefixTyped
<1>4. past = SubSeq(history, 1, index - 2) \o <<history[index - 1]>>
  <2>1. 1 \in 1 .. Len(history) /\ index - 1 \in 1 .. Len(history) /\ (index - 1) - 1 = index - 2
    BY <1>1
  <2> QED BY <1>1, <2>1, SubSeqRecursiveSecond
<1>5. SubSeq(history, 1, index - 2) \in Seq(Docs) /\ Len(SubSeq(history, 1, index - 2)) = index - 2
  BY <1>1, PrefixTyped
<1>6. past # <<>>
  BY <1>1, <1>3, EmptySeq
<1>7. Last(past) = history[index - 1]
  <2>1. \A k \in 1 .. index - 1 : past[k] = history[k]
    BY <1>1, SubSeqProperties, ElementOfSeq
  <2> QED BY <1>1, <1>3, <2>1 DEF Last
<1>8. Front(past) = SubSeq(history, 1, index - 2)
  <2>1. Front(past) = SubSeq(past, 1, index - 2)
    BY <1>1, <1>3 DEF Front
  <2>2. CASE index = 2
    BY <1>1, <2>1, <2>2, SubSeqEmpty
  <2>3. CASE index > 2
    <3>1. 1 \in 1 .. Len(history) /\ index - 1 \in 1 .. Len(history)
          /\ 1 \in 1 .. (index - 1) - 1 + 1 /\ index - 2 \in 1 .. (index - 1) - 1 + 1
          /\ 1 + 1 - 1 = 1 /\ 1 + (index - 2) - 1 = index - 2
      BY <1>1, <2>3
    <3>2. SubSeq(past, 1, index - 2) = SubSeq(history, 1 + 1 - 1, 1 + (index - 2) - 1)
      BY <1>1, <1>3, <3>1, SubSeqOfSubSeq
    <3> QED BY <2>1, <3>1, <3>2
  <2> QED BY <1>1, <2>2, <2>3
<1>9. SubSeq(history, index, Len(history))
        = <<history[index]>> \o SubSeq(history, index + 1, Len(history))
  BY <1>1, SubSeqRecursiveFirst
<1>10. index' - 1 = index - 2 /\ index' + 1 = index
  BY <1>1
<1> HIDE DEF past
<1>11. /\ SubSeq(history', 1, index' - 1) = Front(past)
       /\ history'[index'] = Last(past)
       /\ SubSeq(history', index' + 1, Len(history'))
            = <<history[index]>> \o SubSeq(history, index + 1, Len(history))
  BY <1>1, <1>7, <1>8, <1>9, <1>10
<1>12. SubSeq(history, 1, index - 1) = past
  BY DEF past
<1> QED BY <1>2, <1>6, <1>11, <1>12, Zenon
       DEF Document!Undo, Document!Front, Document!Last, Front, Last

LEMMA RedoRedoes ==
  ASSUME EditorInv, RedoWaypoints
  PROVE  EditorInv' /\ Document!Redo
<1> DEFINE future == SubSeq(history, index + 1, Len(history))
<1>1. /\ history \in Seq(Docs) /\ Len(history) \in Nat /\ index \in 1 .. Len(history)
      /\ index + 1 \in 1 .. Len(history) /\ Len(history) \in (index + 1) .. Len(history)
      /\ history' = history /\ index' = index + 1 /\ wps' = history[index + 1] /\ file' = file
  BY LenProperties DEF EditorInv, RedoWaypoints, Step, AssignAll
<1>2. EditorInv'
  BY <1>1, ElementOfSeq DEF EditorInv
<1>3. Head(future) = history[index + 1] /\ Tail(future) = SubSeq(history, (index + 1) + 1, Len(history))
  BY <1>1, HeadTailOfSubSeq
<1>4. future # <<>>
  <2>1. \A k \in (index + 1) .. Len(history) : history[k] \in Docs
    BY <1>1, ElementOfSeq
  <2>2. future \in Seq(Docs) /\ Len(future) = Len(history) - (index + 1) + 1
    BY <1>1, <2>1, SubSeqProperties
  <2> HIDE DEF future
  <2>3. Len(future) # 0
    BY <1>1, <2>2
  <2> QED BY <2>2, <2>3, EmptySeq
<1>5. SubSeq(history, 1, index) = Append(SubSeq(history, 1, index - 1), history[index])
  <2>1. SubSeq(history, 1, index) = SubSeq(history, 1, index - 1) \o <<history[index]>>
    <3>1. 1 \in 1 .. Len(history) /\ index \in 1 .. Len(history)
      BY <1>1
    <3> QED BY <1>1, <3>1, SubSeqRecursiveSecond
  <2>2. SubSeq(history, 1, index - 1) \in Seq(Docs) /\ history[index] \in Docs
    BY <1>1, PrefixTyped, ElementOfSeq
  <2> QED BY <2>1, <2>2, AppendIsConcat
<1>6. index' - 1 = index
  BY <1>1
<1> HIDE DEF future
<1>7. /\ SubSeq(history', 1, index' - 1) = Append(SubSeq(history, 1, index - 1), history[index])
      /\ history'[index'] = Head(future)
      /\ SubSeq(history', index' + 1, Len(history')) = Tail(future)
  BY <1>1, <1>3, <1>5, <1>6
<1> QED BY <1>2, <1>4, <1>7 DEF Document!Redo, future

LEMMA ClearClears ==
  ASSUME EditorInv, ClearWaypoints PROVE EditorInv' /\ Document!Clear
<1>1. <<>> \in Docs /\ <<<<>>>> \in Seq(Docs) /\ Len(<<<<>>>>) = 1
  BY EmptySeq DEF Docs
<1>2. history' = <<<<>>>> /\ index' = 1 /\ wps' = <<>> /\ file' = file
  BY DEF ClearWaypoints
<1>3. SubSeq(history', 1, index' - 1) = <<>> /\ SubSeq(history', index' + 1, Len(history')) = <<>>
  BY <1>1, <1>2, SubSeqEmpty
<1> QED BY <1>1, <1>2, <1>3 DEF Document!Clear, EditorInv

\* Every step of the tool is a step of EditHistory or leaves it alone.
LEMMA EditorStep ==
  EditorInv /\ [EditorNext]_editorVars
    => /\ EditorInv'
       /\ [Document!Edit \/ Document!Undo \/ Document!Redo \/ Document!Clear]_(Document!vars)
<1> SUFFICES ASSUME EditorInv, [EditorNext]_editorVars
             PROVE  /\ EditorInv'
                    /\ [Document!Edit \/ Document!Undo \/ Document!Redo \/ Document!Clear]_(Document!vars)
  OBVIOUS
<1>1. ASSUME Snapshot, wps' \in Docs, file' = file
      PROVE  EditorInv' /\ Document!Edit
  BY <1>1, SnapshotEdits DEF EditorInv
<1>2. ASSUME UNCHANGED <<history, index>>, wps' \in Docs, file' \in Docs
      PROVE  EditorInv' /\ UNCHANGED Document!vars
  BY <1>2 DEF EditorInv, Document!vars
<1>3. CASE Feedback
  <2>1. PICK i \in DOMAIN wps :
          \/ \E p \in Positions : PoseUpdate(i, p)
          \/ MouseUp(i) \/ Delete(i)
          \/ \E j \in DOMAIN wps : ChangeId(i, j)
          \/ \E c \in Commands : EditCommand(i, c)
    BY <1>3 DEF Feedback
  <2>2. ASSUME NEW p \in Positions, PoseUpdate(i, p)
        PROVE  UNCHANGED <<history, index>> /\ wps' \in Docs /\ file' \in Docs
    BY <2>2, DragTyped DEF PoseUpdate, EditorInv, UpdatePose
  <2>3. CASE MouseUp(i)
    BY <2>3, <1>1 DEF MouseUp, Commit, EditorInv
  <2>4. CASE Delete(i)
    BY <2>4, <1>1, ChangeTyped DEF Delete, Commit, EraseWaypoint
  <2>5. ASSUME NEW j \in DOMAIN wps, ChangeId(i, j)
        PROVE  Snapshot /\ wps' \in Docs /\ file' = file
    <3>1. Snapshot /\ wps' = InsertAt(RemoveAt(wps, i), j, wps[i]) /\ file' = file
      BY <2>5 DEF ChangeId, Commit, InsertWaypoint
    <3>2. InsertAt(RemoveAt(wps, i), j, wps[i]) \in Docs
      BY ChangeTyped
    <3> QED BY <3>1, <3>2
  <2>6. ASSUME NEW c \in Commands, EditCommand(i, c)
        PROVE  Snapshot /\ wps' \in Docs /\ file' = file
    BY <2>6, CommandTyped DEF EditCommand, Commit
  <2> QED BY <1>1, <1>2, <2>1, <2>2, <2>3, <2>4, <2>5, <2>6
<1>4. CASE Services
  <2>1. CASE UndoWaypoints \/ RedoWaypoints \/ ClearWaypoints
    BY <2>1, UndoUndoes, RedoRedoes, ClearClears
  <2>2. CASE SaveWaypoints
    BY <1>2, <2>2, EmptySeq DEF SaveWaypoints, ThroughCsv, EditorInv, Docs
  <2>3. CASE LoadWaypoints
    BY <1>1, <2>3 DEF LoadWaypoints, Commit, EditorInv, AssignAll
  <2>4. CASE \E on \in BOOLEAN : AutoCapture(on)
    BY <1>2, <2>4 DEF AutoCapture, EditorInv
  <2> QED BY <1>4, <2>1, <2>2, <2>3, <2>4 DEF Services
<1>5. CASE \E p \in Positions : PoseSet(p) \/ AutoPose(p)
  BY <1>1, <1>5, AppendTyped DEF PoseSet, AutoPose
<1>6. CASE UNCHANGED editorVars
  BY <1>2, <1>6 DEF editorVars, EditorInv
<1> QED BY <1>3, <1>4, <1>5, <1>6 DEF EditorNext

\* snapshotHistory, handleUndoWaypoints and handleRedoWaypoints: the committed waypoints are
\* a document with linear undo, for any number of edits.
THEOREM EditorKeepsHistory == EditorSpec => ImplementsEditHistory
<1>1. EditorInit => EditorInv /\ Document!Init
  <2> SUFFICES ASSUME EditorInit PROVE EditorInv /\ Document!Init
    OBVIOUS
  <2>1. <<>> \in Docs /\ <<<<>>>> \in Seq(Docs) /\ Len(<<<<>>>>) = 1
    BY EmptySeq DEF Docs
  <2>2. SubSeq(history, 1, index - 1) = <<>> /\ SubSeq(history, index + 1, Len(history)) = <<>>
    BY <2>1, SubSeqEmpty DEF EditorInit
  <2> QED BY <2>1, <2>2 DEF EditorInit, EditorInv, Document!Init
<1> QED BY <1>1, EditorStep, PTL DEF EditorSpec, ImplementsEditHistory, Document!Spec

-------------------------------------------------------------------------------
(* The simulated referee *)

\* Since the click the form shows the preset, and so does what was published.
FormHoldsScenario ==
  scenario # "none" =>
    /\ scenario \in Presets
    /\ \A k \in DOMAIN Sets(scenario) : form[k] = Sets(scenario)[k]
    /\ \A k \in DOMAIN Sets(scenario) : published[k] = Sets(scenario)[k]

\* The clamp of a value to the range of its widget.
LEMMA SmallerOfTwo ==
  ASSUME NEW a \in Int, NEW b \in Int, a <= b PROVE Min({a, b}) = a
BY DEF Min

\* A preset survives the ranges of the form's boxes.
LEMMA PresetIsShown ==
  ASSUME NEW p \in Presets, NEW old, NEW k \in DOMAIN Sets(p)
  PROVE  Shown(old, Preset(p, old))[k] = Sets(p)[k]
<1>1. k \in Names
  BY DEF Presets, Sets, Names
<1>2. k = "gp" => Sets(p)[k] \in 0 .. 5
  BY DEF Presets, Sets
<1>3. k # "gp" => Sets(p)[k] \in Int /\ Limit[k] \in Int /\ Sets(p)[k] <= Limit[k]
  BY <1>1 DEF Presets, Sets, Limit, Names
<1>4. k # "gp" => Min({Sets(p)[k], Limit[k]}) = Sets(p)[k]
  BY <1>3, SmallerOfTwo
<1>5. Preset(p, old)[k] = Sets(p)[k]
  BY <1>1 DEF Preset
<1>6. CASE k = "gp"
  BY <1>1, <1>2, <1>5, <1>6 DEF Shown
<1>7. CASE k # "gp"
  BY <1>1, <1>4, <1>5, <1>7 DEF Shown
<1> QED BY <1>6, <1>7

\* A form that shows a preset holds its values, one step per action.
LEMMA ScenarioStep == FormHoldsScenario /\ [RefereeNext]_refereeVars => FormHoldsScenario'
<1> SUFFICES ASSUME FormHoldsScenario, [RefereeNext]_refereeVars PROVE FormHoldsScenario'
  OBVIOUS
<1>1. CASE Type
  BY <1>1 DEF Type, FormHoldsScenario
<1>2. CASE Apply \/ PublishTimer
  <2>1. form' = form /\ published' = form /\ scenario' = scenario
    BY <1>2 DEF Apply, PublishTimer, PublishForm, Synced
  <2> QED BY <2>1 DEF FormHoldsScenario
<1>3. CASE ClickPreset
  <2>1. PICK p \in Presets : form' = Shown(form, Preset(p, form)) /\ scenario' = p
    BY <1>3 DEF ClickPreset
  <2>2. published' = form'
    BY <1>3 DEF ClickPreset, PublishForm, Synced
  <2> QED BY <2>1, <2>2, PresetIsShown DEF FormHoldsScenario
<1>4. CASE Toggle \/ Output \/ SpinTimer \/ Later \/ Close \/ UNCHANGED refereeVars
  <2>1. form' = form /\ published' = published /\ scenario' = scenario
    BY <1>4 DEF Toggle, Synced, Output, SpinTimer, Later, Close, refereeVars, formVars
  <2> QED BY <2>1 DEF FormHoldsScenario
<1> QED BY <1>1, <1>2, <1>3, <1>4 DEF RefereeNext

MonitorTyped ==
  /\ second \in Nat /\ spun \in BOOLEAN
  /\ arrived \in [Outputs -> Nat]
  /\ inbox \in [Outputs -> Payloads \cup {"none"}]
  /\ output \in [Outputs -> [value : Payloads \cup {"none"}, at : Nat, stale : BOOLEAN]]

\* Time units that may have passed since the timer last ran.
Waited == IF spun THEN 0 ELSE 1

\* How long a message may wait, and how old what is known may be.
AgesAreBounded ==
  \A o \in Outputs :
    /\ arrived[o] <= second /\ output[o].at <= second
    /\ inbox[o] # "none" => second <= arrived[o] + Waited
    /\ output[o].value # "none" => output[o].at <= arrived[o] + 1
    /\ label[o].mode = "live" => /\ output[o].value # "none"
                                 /\ second <= output[o].at + StaleAfter + Waited

MonitorInv == MonitorTyped /\ AgesAreBounded

\* What the monitor knows of an output after a check: its value, when that came, and its age.
LEMMA UpdatedKnows ==
  ASSUME MonitorTyped, NEW o \in Outputs, NEW v \in Payloads \cup {"none"}
  PROVE  /\ Updated(o, v) \in [value : Payloads \cup {"none"}, at : Nat, stale : BOOLEAN]
         /\ v # "none" => Updated(o, v).value = v /\ Updated(o, v).at = second
         /\ v = "none" => /\ Updated(o, v).value = output[o].value
                          /\ Updated(o, v).at = output[o].at
         /\ ~Updated(o, v).stale => second - Updated(o, v).at <= StaleAfter
<1> DEFINE known == IF v # "none" THEN [output[o] EXCEPT !.value = v, !.at = second] ELSE output[o]
           old == known.value = "none" \/ second - known.at > StaleAfter
<1>1. /\ known \in [value : Payloads \cup {"none"}, at : Nat, stale : BOOLEAN]
      /\ v # "none" => known.value = v /\ known.at = second
      /\ v = "none" => known.value = output[o].value /\ known.at = output[o].at
  BY DEF MonitorTyped
<1>2. Updated(o, v) = [known EXCEPT !.stale = old]
  BY DEF Updated
<1>3. old \in BOOLEAN
  OBVIOUS
<1>4. ~old => second - known.at <= StaleAfter
  BY <1>1, RefereeAssumption DEF MonitorTyped
<1> HIDE DEF known, old
<1>5. /\ Updated(o, v) \in [value : Payloads \cup {"none"}, at : Nat, stale : BOOLEAN]
      /\ Updated(o, v).value = known.value /\ Updated(o, v).at = known.at
      /\ Updated(o, v).stale = old
  BY <1>1, <1>2, <1>3
<1> QED BY <1>1, <1>4, <1>5

\* What is shown as live was seen within the timeout.
LEMMA LiveIsKnown ==
  ASSUME NEW u, Labelled(u).mode = "live" PROVE u.value # "none" /\ ~u.stale
<1>1. Labelled(u).mode = IF u.value = "none" THEN "waiting" ELSE IF u.stale THEN "stale" ELSE "live"
  BY DEF Labelled
<1>2. CASE u.value = "none"
  BY <1>1, <1>2
<1>3. CASE u.value # "none" /\ u.stale
  <2>1. Labelled(u).mode = "stale"
    BY <1>1, <1>3, Zenon
  <2> QED BY <2>1
<1> QED BY <1>2, <1>3, Zenon

\* The monitor's part of the invariant, one step per action.
LEMMA MonitorStep == MonitorInv /\ [RefereeNext]_refereeVars => MonitorInv'
<1> SUFFICES ASSUME MonitorInv, [RefereeNext]_refereeVars PROVE MonitorInv'
  OBVIOUS
<1>1. CASE Output
  <2>1. PICK o \in Outputs, v \in Payloads :
          inbox' = [inbox EXCEPT ![o] = v] /\ arrived' = [arrived EXCEPT ![o] = second]
    BY <1>1 DEF Output
  <2>2. UNCHANGED <<output, label, second, spun>>
    BY <1>1 DEF Output
  <2>3. MonitorTyped'
    BY <2>1, <2>2 DEF MonitorInv, MonitorTyped
  <2>4. AgesAreBounded'
    BY <2>1, <2>2 DEF MonitorInv, MonitorTyped, AgesAreBounded, Waited
  <2> QED BY <2>3, <2>4 DEF MonitorInv
<1>2. CASE SpinTimer
  <2>1. /\ \A o \in Outputs : inbox'[o] = "none" /\ output'[o] = Updated(o, inbox[o])
                               /\ label'[o] = Labelled(output'[o])
        /\ arrived' = arrived /\ second' = second /\ spun' = TRUE
    BY <1>2 DEF SpinTimer
  <2>2. \A o \in Outputs : inbox[o] \in Payloads \cup {"none"}
    BY DEF MonitorInv, MonitorTyped
  <2>3. MonitorTyped'
    BY <1>2, <2>2, UpdatedKnows DEF SpinTimer, MonitorInv, MonitorTyped
  <2>4. ASSUME NEW o \in Outputs
        PROVE  /\ output'[o].at <= second
               /\ output'[o].value # "none" => output'[o].at <= arrived[o] + 1
               /\ ~output'[o].stale => second <= output'[o].at + StaleAfter
    BY <2>1, <2>2, <2>3, UpdatedKnows, RefereeAssumption
       DEF MonitorInv, MonitorTyped, AgesAreBounded, Waited
  <2>5. ASSUME NEW o \in Outputs, label'[o].mode = "live"
        PROVE  output'[o].value # "none" /\ ~output'[o].stale
    BY <2>1, <2>5, LiveIsKnown, Zenon
  <2>6. Waited' = 0
    BY <2>1, Zenon DEF Waited
  <2>7. \A o \in Outputs : arrived[o] <= second /\ output'[o].at \in Nat
    BY <2>3 DEF MonitorInv, MonitorTyped, AgesAreBounded
  <2>8. ASSUME NEW o \in Outputs, label'[o].mode = "live"
        PROVE  output'[o].value # "none" /\ second <= output'[o].at + StaleAfter
    BY <2>4, <2>5, <2>8, Zenon
  <2>9. AgesAreBounded'
    <3>1. /\ arrived' = arrived /\ second' = second /\ second \in Nat
          /\ \A o \in Outputs : inbox'[o] = "none"
      BY <2>1 DEF MonitorInv, MonitorTyped
    <3> QED BY <3>1, <2>4, <2>6, <2>7, <2>8, RefereeAssumption DEF AgesAreBounded
  <2> QED BY <2>3, <2>9 DEF MonitorInv
<1>3. CASE Later
  <2>1. spun /\ second' = second + 1 /\ spun' = FALSE /\ UNCHANGED <<inbox, output, label, arrived>>
    BY <1>3 DEF Later
  <2>2. MonitorTyped'
    <3>1. second' \in Nat
      BY <2>1 DEF MonitorInv, MonitorTyped
    <3>2. spun' \in BOOLEAN
      BY <2>1, Zenon
    <3> QED BY <2>1, <3>1, <3>2, Zenon DEF MonitorInv, MonitorTyped
  <2>3. AgesAreBounded'
    BY <2>1, RefereeAssumption DEF MonitorInv, MonitorTyped, AgesAreBounded, Waited
  <2> QED BY <2>2, <2>3 DEF MonitorInv
<1>4. CASE Type \/ Apply \/ Toggle \/ PublishTimer \/ ClickPreset \/ Close \/ UNCHANGED refereeVars
  <2>1. UNCHANGED monitorVars
    BY <1>4 DEF Type, Apply, Toggle, PublishTimer, ClickPreset, Close, refereeVars
  <2> QED BY <2>1 DEF monitorVars, MonitorInv, MonitorTyped, AgesAreBounded, Waited
<1> QED BY <1>1, <1>2, <1>3, <1>4 DEF RefereeNext

\* publish_once, on_preset_battle and tick_decision_output of the referee mock: a preset
\* is published until something is typed, and an output that stopped coming is shown as stale.
THEOREM RefereeIsTruthful == RefereeSpec => []MockIsTruthful
<1>1. RefereeInit => FormHoldsScenario /\ MonitorInv
  BY DEF RefereeInit, FormHoldsScenario, MonitorInv, MonitorTyped, AgesAreBounded, Waited
<1>2. FormHoldsScenario /\ MonitorInv => MockIsTruthful
  <2>1. FormHoldsScenario => ScenarioHolds
    BY DEF FormHoldsScenario, ScenarioHolds
  <2>2. MonitorInv => LiveIsRecent
    BY RefereeAssumption
       DEF MonitorInv, MonitorTyped, AgesAreBounded, Waited, LiveIsRecent
  <2> QED BY <2>1, <2>2 DEF MockIsTruthful
<1> QED BY <1>1, <1>2, ScenarioStep, MonitorStep, PTL DEF RefereeSpec

-------------------------------------------------------------------------------
(* The panel of the waypoint editor *)

PanelServices == Buttons \cup {"map", "start", "stop"}
Lines == PanelServices \cup {"unavailable", "rejected", "loaded", "failed"}
Captures == {c \in calls : c.svc \in {"start", "stop"}}

PanelTyped ==
  /\ checked \in BOOLEAN /\ clean \in BOOLEAN /\ clicks \in Nat
  /\ shown \in [topic : Topics, type : Types, dist : Distances]
  /\ tool \in [on : BOOLEAN, topic : Topics, type : Types, dist : Distances]
  /\ distance \in Distances \cup {0}
  /\ calls \subseteq [n : Nat, svc : PanelServices, ok : {"none", "yes", "no"}]

\* The capture's requests are those that the button asks for, and the tool obeyed the answered.
CallsAsShown ==
  /\ \A c \in Captures : /\ c.svc = IF checked THEN "start" ELSE "stop"
                         /\ c.ok \in {"none", "yes"}
                         /\ c.ok = "yes" => tool.on = checked
  /\ Captures = {} => tool.on = checked

\* What an undisturbed click asks of the window, in the end.
Expected(b) == {[op |-> "status", to |-> t] : t \in Lines} \cup {[op |-> "enable", to |-> ~b]}
ControlsFollow ==
  /\ posted \in Seq(Expected(checked))
  /\ locked = checked \/ Captures # {} \/ \E i \in 1 .. Len(posted) : posted[i].op = "enable"
  /\ checked => locked = TRUE

\* While the button is down nobody changes what the controls show.
ToolAsShown ==
  checked => /\ tool.topic = shown.topic /\ tool.type = shown.type
             /\ IF distance = 0 THEN tool.dist = shown.dist ELSE distance = shown.dist

Undisturbed == clean => CallsAsShown /\ ControlsFollow /\ ToolAsShown
PanelInv == PanelTyped /\ Undisturbed

\* PanelInv, one lemma per action.
LEMMA ToggleKeeps == ASSUME PanelInv, OnAutoToggle PROVE PanelInv'
<1>a. distance' = shown.dist /\ shown' = shown /\ clicks' = clicks + 1
  BY DEF OnAutoToggle
<1>b. /\ shown \in [topic : Topics, type : Types, dist : Distances] /\ clicks \in Nat
      /\ tool \in [on : BOOLEAN, topic : Topics, type : Types, dist : Distances]
  BY DEF PanelInv, PanelTyped
<1>c. [tool EXCEPT !.topic = shown.topic, !.type = shown.type]
        \in [on : BOOLEAN, topic : Topics, type : Types, dist : Distances]
  BY <1>b
<1>0. /\ distance' = shown.dist /\ shown' = shown /\ clicks' \in Nat
      /\ shown' \in [topic : Topics, type : Types, dist : Distances]
      /\ distance' \in Distances \cup {0}
  BY <1>a, <1>b
<1> DEFINE call == Call(IF ~checked THEN "start" ELSE "stop")
<1>1. CASE /\ Subscribed
           /\ calls' = calls \cup {call}
           /\ checked' = ~checked /\ locked' = (~checked \/ locked)
           /\ clean' = Settled /\ UNCHANGED posted
  <2>1. tool' = [tool EXCEPT !.topic = shown.topic, !.type = shown.type]
    BY <1>1 DEF Subscribed
  <2>2. /\ call \in [n : Nat, svc : PanelServices, ok : {"none", "yes", "no"}]
        /\ call.svc = (IF ~checked THEN "start" ELSE "stop") /\ call.ok = "none"
    BY DEF Call, PanelServices, PanelInv, PanelTyped
  <2>3. clean' \in BOOLEAN /\ checked' \in BOOLEAN
    BY <1>1, Zenon DEF Settled
  <2> HIDE DEF call
  <2>4. PanelTyped'
    <3>1. calls' \subseteq [n : Nat, svc : PanelServices, ok : {"none", "yes", "no"}]
      BY <1>1, <2>2 DEF PanelInv, PanelTyped
    <3> QED BY <1>0, <1>c, <2>1, <2>3, <3>1, Zenon DEF PanelTyped
  <2>5. ASSUME clean' PROVE CallsAsShown' /\ ControlsFollow' /\ ToolAsShown'
    <3>1. calls = {} /\ posted = <<>> /\ posted' = <<>>
      BY <1>1, <2>5, Zenon DEF Settled
    <3>2. calls' = {call}
      BY <1>1, <3>1
    <3>3. Captures' = {call}
      BY <2>2, <3>2 DEF Captures
    <3>4. call.svc = IF checked' THEN "start" ELSE "stop"
      BY <1>1, <2>2
    <3>5. CallsAsShown'
      BY <2>2, <3>3, <3>4 DEF CallsAsShown
    <3>6. posted' \in Seq(Expected(checked'))
      BY <3>1, EmptySeq
    <3>7. checked' => locked' = TRUE
      BY <1>1, Zenon DEF PanelInv, PanelTyped
    <3>8. ControlsFollow'
      BY <3>3, <3>6, <3>7 DEF ControlsFollow
    <3>9. ToolAsShown'
      BY <1>0, <1>b, <2>1, PanelAssumption DEF ToolAsShown
    <3> QED BY <3>5, <3>8, <3>9
  <2> QED BY <2>4, <2>5 DEF PanelInv, Undisturbed
<1>2. ASSUME Released, clean' = FALSE, calls' = calls, Subscribed \/ tool' = tool
      PROVE  PanelInv'
  <2>1. /\ tool' \in [on : BOOLEAN, topic : Topics, type : Types, dist : Distances]
        /\ calls' \subseteq [n : Nat, svc : PanelServices, ok : {"none", "yes", "no"}]
    BY <1>c, <1>2 DEF Subscribed, PanelInv, PanelTyped
  <2>2. clean' \in BOOLEAN /\ checked' \in BOOLEAN /\ ~clean'
    BY <1>2, Zenon DEF Released
  <2> QED BY <1>0, <2>1, <2>2, Zenon DEF PanelInv, PanelTyped, Undisturbed
<1>3. CASE Subscribed /\ Released /\ clean' = FALSE /\ UNCHANGED calls
  BY <1>2, <1>3
<1>4. CASE Released /\ clean' = FALSE /\ UNCHANGED <<calls, tool>>
  BY <1>2, <1>4
<1> QED BY <1>1, <1>3, <1>4, Zenon DEF OnAutoToggle

LEMMA EditKeeps == ASSUME PanelInv, Edit PROVE PanelInv'
<1>1. UNCHANGED <<checked, locked, calls, posted, distance, tool, clicks, clean>> /\ ~locked
  BY DEF Edit
<1>2. PanelTyped'
  BY <1>1 DEF PanelInv, PanelTyped, Edit
<1>3. ASSUME clean' PROVE ~checked
  BY <1>1, <1>3, Zenon DEF PanelInv, Undisturbed, ControlsFollow
<1>4. Undisturbed'
  BY <1>1, <1>3
     DEF PanelInv, Undisturbed, CallsAsShown, ControlsFollow, ToolAsShown, Captures, Expected
<1> QED BY <1>2, <1>4 DEF PanelInv

LEMMA PressKeeps == ASSUME PanelInv, Press PROVE PanelInv'
<1>1. PICK b \in Buttons \cup {"map"} : calls' = calls \cup {Call(b)}
  BY DEF Press
<1>2. /\ clicks' = clicks + 1
      /\ UNCHANGED <<checked, locked, shown, posted, distance, tool, clean>>
  BY DEF Press
<1>3. Captures' = Captures
  BY <1>1, PanelAssumption DEF Captures, Call
<1>4. PanelTyped'
  BY <1>1, <1>2 DEF PanelInv, PanelTyped, PanelServices, Call
<1>5. Undisturbed'
  BY <1>2, <1>3 DEF PanelInv, Undisturbed, CallsAsShown, ControlsFollow, ToolAsShown, Expected
<1> QED BY <1>4, <1>5 DEF PanelInv

\* More is asked of the window.
LEMMA PostKeeps ==
  ASSUME PanelInv, clean, NEW ops \in Seq(Expected(checked)), Post(ops)
  PROVE  /\ posted' \in Seq(Expected(checked))
         /\ (\E i \in 1 .. Len(posted) : posted[i].op = "enable")
              => \E i \in 1 .. Len(posted') : posted'[i].op = "enable"
         /\ \A k \in 1 .. Len(ops) : ops[k].op = "enable"
              => \E i \in 1 .. Len(posted') : posted'[i].op = "enable"
<1>1. posted \in Seq(Expected(checked)) /\ posted' = posted \o ops
  BY DEF PanelInv, Undisturbed, ControlsFollow, Post
<1>2. /\ posted' \in Seq(Expected(checked))
      /\ Len(posted') = Len(posted) + Len(ops)
      /\ \A i \in 1 .. Len(posted) + Len(ops) :
           posted'[i] = IF i <= Len(posted) THEN posted[i] ELSE ops[i - Len(posted)]
  BY <1>1, ConcatProperties
<1>3. Len(posted) \in Nat /\ Len(ops) \in Nat
  BY <1>1, LenProperties
<1>4. ASSUME NEW i \in 1 .. Len(posted)
      PROVE  i \in 1 .. Len(posted') /\ posted'[i] = posted[i]
  BY <1>2, <1>3
<1>5. ASSUME NEW k \in 1 .. Len(ops)
      PROVE  k + Len(posted) \in 1 .. Len(posted') /\ posted'[k + Len(posted)] = ops[k]
  BY <1>2, <1>3
<1> QED BY <1>2, <1>4, <1>5

LEMMA Load3DMapKeeps == ASSUME PanelInv, Load3DMap PROVE PanelInv'
<1>1. PICK t \in Lines : Post(Say(t))
  BY DEF Load3DMap, Lines
<1>2. /\ clicks' = clicks + 1
      /\ UNCHANGED <<checked, locked, shown, calls, distance, tool, clean>>
  BY DEF Load3DMap
<1>3. Say(t) \in Seq(Expected(checked))
  BY DEF Say, Expected
<1>4. PanelTyped'
  BY <1>2 DEF PanelInv, PanelTyped
<1>5. ASSUME clean PROVE ControlsFollow'
  BY <1>1, <1>2, <1>3, <1>5, PostKeeps
     DEF PanelInv, Undisturbed, ControlsFollow, Captures, Expected
<1>6. Undisturbed'
  BY <1>2, <1>5 DEF PanelInv, Undisturbed, CallsAsShown, ToolAsShown, Captures
<1> QED BY <1>4, <1>6 DEF PanelInv

LEMMA TakeDistanceKeeps == ASSUME PanelInv, TakeDistance PROVE PanelInv'
<1>1. /\ distance # 0 /\ distance' = 0 /\ tool' = [tool EXCEPT !.dist = distance]
      /\ UNCHANGED <<checked, locked, shown, calls, posted, clicks, clean>>
  BY DEF TakeDistance
<1>2. PanelTyped' /\ tool'.on = tool.on /\ tool'.topic = tool.topic /\ tool'.type = tool.type
      /\ tool'.dist = distance
  BY <1>1 DEF PanelInv, PanelTyped
<1>3. Undisturbed'
  BY <1>1, <1>2
     DEF PanelInv, Undisturbed, CallsAsShown, ControlsFollow, ToolAsShown, Captures, Expected
<1> QED BY <1>2, <1>3 DEF PanelInv

LEMMA ServeKeeps == ASSUME PanelInv, Serve PROVE PanelInv'
<1>1. PICK c \in calls : c.ok = "none" /\ (Capture(c) \/ Other(c))
  BY DEF Serve
<1>2. UNCHANGED <<checked, locked, shown, posted, distance, clicks, clean>>
  BY DEF Serve
<1>3. c \in [n : Nat, svc : PanelServices, ok : {"none", "yes", "no"}]
  BY DEF PanelInv, PanelTyped
<1>4. CASE Capture(c)
  <2> DEFINE a == [c EXCEPT !.ok = "yes"]
             on == c.svc = "start"
  <2>1. /\ calls' = (calls \ {c}) \cup {a} /\ tool' = [tool EXCEPT !.on = on]
        /\ c.svc \in {"start", "stop"}
    BY <1>4 DEF Capture, Answered
  <2>2. a \in [n : Nat, svc : PanelServices, ok : {"none", "yes", "no"}] /\ a.svc = c.svc /\ a.ok = "yes"
    BY <1>3
  <2>3. on \in BOOLEAN
    OBVIOUS
  <2>4. clean => on = checked
    BY <2>1 DEF PanelInv, PanelTyped, Undisturbed, CallsAsShown, Captures
  <2> HIDE DEF a, on
  <2>5. /\ PanelTyped' /\ tool'.on = on /\ tool'.topic = tool.topic /\ tool'.type = tool.type
        /\ tool'.dist = tool.dist
    BY <1>2, <2>1, <2>2, <2>3 DEF PanelInv, PanelTyped
  <2>6. Captures' = (Captures \ {c}) \cup {a} /\ c \in Captures
    BY <2>1, <2>2 DEF Captures
  <2>7. ASSUME clean PROVE CallsAsShown'
    <3>1. tool'.on = checked' /\ checked' = checked
      BY <1>2, <2>4, <2>5, <2>7, Zenon
    <3>2. a.svc = IF checked THEN "start" ELSE "stop"
      BY <2>2, <2>6, <2>7 DEF PanelInv, Undisturbed, CallsAsShown
    <3>3. ASSUME NEW d \in Captures'
          PROVE  d.svc = (IF checked THEN "start" ELSE "stop") /\ d.ok \in {"none", "yes"}
      BY <2>2, <2>6, <2>7, <3>2 DEF PanelInv, Undisturbed, CallsAsShown
    <3> QED BY <3>1, <3>3 DEF CallsAsShown
  <2>8. ASSUME clean PROVE ControlsFollow' /\ ToolAsShown'
    BY <1>2, <2>5, <2>6, <2>8
       DEF PanelInv, Undisturbed, ControlsFollow, ToolAsShown, Expected
  <2> QED BY <1>2, <2>5, <2>7, <2>8 DEF PanelInv, Undisturbed
<1>5. CASE Other(c)
  <2>1. PICK ok \in {"yes", "no"} : Answered(c, ok)
    BY <1>5 DEF Other
  <2>2. tool' = tool /\ c.svc \notin {"start", "stop"}
    BY <1>5 DEF Other
  <2>3. calls' = (calls \ {c}) \cup {[c EXCEPT !.ok = ok]}
    BY <2>1 DEF Answered
  <2>4. PanelTyped' /\ [c EXCEPT !.ok = ok].svc = c.svc
    BY <1>2, <1>3, <2>2, <2>3 DEF PanelInv, PanelTyped
  <2>5. Captures' = Captures
    BY <2>2, <2>3, <2>4 DEF Captures
  <2>6. Undisturbed'
    BY <1>2, <2>2, <2>5 DEF PanelInv, Undisturbed, CallsAsShown, ControlsFollow, ToolAsShown, Expected
  <2> QED BY <2>4, <2>6 DEF PanelInv
<1> QED BY <1>1, <1>4, <1>5

\* Two messages of a queue taken in turn.
LEMMA OneAfterOther ==
  ASSUME NEW S, NEW s \in Seq(S), NEW t \in Seq(S), Len(s) = 1, Len(t) = 1
  PROVE  s \o t \in Seq(S) /\ Len(s \o t) = 2 /\ (s \o t)[2] = t[1]
<1>1. s \o t \in Seq(S) /\ Len(s \o t) = Len(s) + Len(t)
  BY ConcatProperties, Zenon
<1>2. 2 \in 1 .. Len(s) + Len(t) /\ ~(2 <= Len(s)) /\ 2 - Len(s) = 1
  OBVIOUS
<1>3. (s \o t)[2] = t[2 - Len(s)]
  BY <1>2, ConcatProperties, Zenon
<1>4. Len(s) + Len(t) = 2
  OBVIOUS
<1> QED BY <1>1, <1>2, <1>3, <1>4, Zenon

LEMMA TakeAnswerKeeps == ASSUME PanelInv, TakeAnswer PROVE PanelInv'
<1>1. PICK c \in calls : c.ok # "none" /\ calls' = calls \ {c} /\ Post(Asked(c))
  BY DEF TakeAnswer
<1>2. UNCHANGED <<checked, locked, shown, distance, tool, clicks, clean>>
  BY DEF TakeAnswer
<1>3. PanelTyped'
  BY <1>1, <1>2 DEF PanelInv, PanelTyped
<1>4. ASSUME clean PROVE CallsAsShown' /\ ControlsFollow' /\ ToolAsShown'
  <2>1. Captures' = Captures \ {c}
    BY <1>1 DEF Captures
  <2>2. Say(c.svc) \in Seq(Expected(checked)) /\ c.svc \in Lines
    BY DEF Say, Expected, Lines, PanelInv, PanelTyped
  <2>3. CASE c \in Captures
    <3> DEFINE to == c.svc # "start"
    <3>1. /\ c.svc = (IF checked THEN "start" ELSE "stop") /\ c.ok = "yes" /\ tool.on = checked
          /\ c.svc \in {"start", "stop"}
      BY <1>1, <1>4, <2>3 DEF PanelInv, Undisturbed, CallsAsShown, Captures
    <3>2. to = ~checked
      BY <3>1 DEF PanelInv, PanelTyped
    <3> DEFINE ops == <<[op |-> "enable", to |-> to]>>
               both == Say(c.svc) \o ops
    <3>3. Asked(c) = both
      BY <3>1 DEF Asked
    <3>4. ops \in Seq(Expected(checked)) /\ Len(ops) = 1 /\ ops[1].op = "enable"
      <4> HIDE DEF to
      <4> QED BY <3>2 DEF Expected
    <3>5. Len(Say(c.svc)) = 1
      BY DEF Say
    <3> HIDE DEF ops
    <3>6. both \in Seq(Expected(checked)) /\ Len(both) = 2 /\ both[2] = ops[1]
      BY <2>2, <3>4, <3>5, OneAfterOther, Zenon
    <3> HIDE DEF both
    <3>7. /\ posted' \in Seq(Expected(checked))
          /\ \E i \in 1 .. Len(posted') : posted'[i].op = "enable"
      BY <1>1, <1>4, <3>3, <3>4, <3>6, PostKeeps
    <3>8. CallsAsShown'
      BY <1>2, <1>4, <2>1, <3>1 DEF PanelInv, Undisturbed, CallsAsShown
    <3>9. ControlsFollow'
      BY <1>2, <1>4, <3>7 DEF PanelInv, Undisturbed, ControlsFollow, Expected
    <3> QED BY <1>2, <1>4, <3>8, <3>9 DEF PanelInv, Undisturbed, ToolAsShown
  <2>4. CASE c \notin Captures
    <3>1. Asked(c) = Say(c.svc) \o <<>>
      BY <2>4 DEF Asked, Captures
    <3>2. Asked(c) = Say(c.svc)
      BY <2>2, <3>1, ConcatEmptySeq
    <3>3. Captures' = Captures
      BY <2>1, <2>4
    <3>4. /\ posted' \in Seq(Expected(checked))
          /\ (\E i \in 1 .. Len(posted) : posted[i].op = "enable")
               => \E i \in 1 .. Len(posted') : posted'[i].op = "enable"
      BY <1>1, <1>4, <2>2, <3>2, PostKeeps
    <3>5. ControlsFollow'
      BY <1>2, <1>4, <3>3, <3>4 DEF PanelInv, Undisturbed, ControlsFollow, Expected
    <3> QED BY <1>2, <1>4, <3>3, <3>5 DEF PanelInv, Undisturbed, CallsAsShown, ToolAsShown
  <2> QED BY <2>3, <2>4
<1> QED BY <1>2, <1>3, <1>4 DEF PanelInv, Undisturbed

LEMMA WindowEventKeeps == ASSUME PanelInv, WindowEvent PROVE PanelInv'
<1> DEFINE e == Head(posted)
<1>1. /\ posted # <<>> /\ posted' = Tail(posted)
      /\ checked' = (checked /\ e.op # "uncheck")
      /\ locked' = IF e.op = "enable" THEN ~e.to ELSE locked
  BY DEF WindowEvent
<1>2. UNCHANGED <<shown, calls, distance, tool, clicks, clean>>
  BY DEF WindowEvent
<1> HIDE DEF e
<1>3. PanelTyped'
  <2>1. checked' \in BOOLEAN
    BY <1>1, Zenon
  <2> QED BY <1>2, <2>1, Zenon DEF PanelInv, PanelTyped
<1>4. ASSUME clean PROVE CallsAsShown' /\ ControlsFollow' /\ ToolAsShown'
  <2>1. posted \in Seq(Expected(checked))
    BY <1>4 DEF PanelInv, Undisturbed, ControlsFollow
  <2>2. /\ e \in Expected(checked) /\ posted' \in Seq(Expected(checked))
        /\ Len(posted') = Len(posted) - 1 /\ Len(posted) \in Nat /\ e = posted[1]
        /\ \A i \in 1 .. Len(posted') : posted'[i] = posted[i + 1]
    BY <1>1, <2>1, HeadTailProperties, LenProperties DEF e
  <2>3. e.op = "status" \/ (e.op = "enable" /\ e.to = ~checked)
    <3> DEFINE free == ~checked
    <3>1. (\E t \in Lines : e = [op |-> "status", to |-> t]) \/ e = [op |-> "enable", to |-> free]
      BY <2>2, Zenon DEF Expected
    <3> HIDE DEF free
    <3>2. e.op = "status" \/ (e.op = "enable" /\ e.to = free)
      BY <3>1
    <3> QED BY <3>2, Zenon DEF free
  <2>4. checked' = checked
    <3>1. e.op # "uncheck"
      BY <2>3
    <3> QED BY <1>1, <3>1, Zenon DEF PanelInv, PanelTyped
  <2>5. e.op = "enable" => locked' = checked
    BY <1>1, <2>3, Zenon DEF PanelInv, PanelTyped
  <2>6. e.op # "enable" => locked' = locked
    BY <1>1
  <2>7. ASSUME NEW i \in 1 .. Len(posted), posted[i].op = "enable", e.op # "enable"
        PROVE  \E k \in 1 .. Len(posted') : posted'[k].op = "enable"
    <3>1. i # 1
      BY <2>2, <2>7
    <3>2. i - 1 \in 1 .. Len(posted') /\ posted'[i - 1] = posted[i]
      BY <2>2, <3>1
    <3> QED BY <2>7, <3>2
  <2>8. Captures' = Captures
    BY <1>2 DEF Captures
  <2>9. ControlsFollow'
    <3>1. /\ locked = checked \/ Captures # {} \/ \E i \in 1 .. Len(posted) : posted[i].op = "enable"
          /\ checked => locked = TRUE
      BY <1>4 DEF PanelInv, Undisturbed, ControlsFollow
    <3>2. \/ locked' = checked' \/ Captures' # {}
          \/ \E i \in 1 .. Len(posted') : posted'[i].op = "enable"
      <4>1. CASE e.op = "enable"
        BY <2>4, <2>5, <4>1, Zenon
      <4>2. CASE e.op # "enable"
        BY <2>4, <2>6, <2>7, <2>8, <3>1, <4>2
      <4> QED BY <4>1, <4>2
    <3>3. checked' => locked' = TRUE
      BY <2>4, <2>5, <2>6, <3>1, Zenon DEF PanelInv, PanelTyped
    <3>4. posted' \in Seq(Expected(checked'))
      BY <2>2, <2>4, Zenon
    <3> QED BY <3>2, <3>3, <3>4 DEF ControlsFollow
  <2> QED BY <1>2, <1>4, <2>4, <2>8, <2>9
          DEF PanelInv, Undisturbed, CallsAsShown, ToolAsShown
<1> QED BY <1>2, <1>3, <1>4 DEF PanelInv, Undisturbed

\* Every step of the panel keeps its invariant.
LEMMA PanelStep == PanelInv /\ [PanelNext]_panelVars => PanelInv'
<1> SUFFICES ASSUME PanelInv, [PanelNext]_panelVars PROVE PanelInv'
  OBVIOUS
<1>1. CASE PanelNext
  BY <1>1, ToggleKeeps, EditKeeps, PressKeeps, Load3DMapKeeps, TakeDistanceKeeps, ServeKeeps,
     TakeAnswerKeeps, WindowEventKeeps DEF PanelNext
<1>2. CASE UNCHANGED panelVars
  BY <1>2 DEF panelVars, PanelInv, PanelTyped, Undisturbed, CallsAsShown, ControlsFollow,
              ToolAsShown, Captures, Expected
<1> QED BY <1>1, <1>2

\* onAutoToggle and setAutoControlsEnabled: whatever answers are still on their way, one
\* undisturbed click brings the panel and the tool together again.
THEOREM ClicksRestoreAgreement == PanelSpec => []ClickRestoresAgreement
<1>1. PanelInit => PanelInv
  <2> SUFFICES ASSUME PanelInit PROVE PanelInv
    OBVIOUS
  <2>1. PanelTyped
    BY DEF PanelInit, PanelTyped
  <2>2. calls = {} /\ Captures = {} /\ checked = FALSE /\ locked = FALSE /\ tool.on = FALSE
    BY DEF PanelInit, Captures
  <2>3. posted \in Seq(Expected(checked))
    BY EmptySeq DEF PanelInit
  <2> QED BY <2>1, <2>2, <2>3
          DEF PanelInv, Undisturbed, CallsAsShown, ControlsFollow, ToolAsShown
<1>2. PanelInv => ClickRestoresAgreement
  <2> SUFFICES ASSUME PanelInv, Settled, clean
               PROVE  /\ checked = tool.on /\ locked = tool.on
                      /\ tool.on => \A k \in DOMAIN shown : tool[k] = shown[k]
    BY DEF ClickRestoresAgreement
  <2>1. Captures = {} /\ posted = <<>> /\ distance = 0
    BY DEF Settled, Captures
  <2>2. CallsAsShown /\ ControlsFollow /\ ToolAsShown
    BY DEF PanelInv, Undisturbed
  <2>3. checked = tool.on /\ locked = checked
    <3>1. ~\E i \in 1 .. Len(posted) : posted[i].op = "enable"
      BY <2>1
    <3> QED BY <2>1, <2>2, <3>1 DEF CallsAsShown, ControlsFollow
  <2>4. checked => tool.topic = shown.topic /\ tool.type = shown.type /\ tool.dist = shown.dist
    BY <2>1, <2>2 DEF ToolAsShown
  <2>5. DOMAIN shown = {"topic", "type", "dist"}
    BY DEF PanelInv, PanelTyped
  <2> QED BY <2>3, <2>4, <2>5
<1> QED BY <1>1, <1>2, PanelStep, PTL DEF PanelSpec
================================================================================
