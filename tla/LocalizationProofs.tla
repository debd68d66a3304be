---------------------------- MODULE LocalizationProofs --------------------------
(***************************************************************************)
(* Proofs about where the robot believes to be: that the odometry          *)
(* integrates each sample of the IMU once, for every set of stamps and     *)
(* scans; the safety of MapOdomTfManager for every set of clock values and *)
(* stamps and every timeout and tolerance, alone and with the              *)
(* relocalization it listens to; and that the odometry's local map keeps   *)
(* up with the scans, for every capacity, resolution and set of scans.     *)
(***************************************************************************)
EXTENDS Localization, PointLio, LocalMap, DataLemmas

-------------------------------------------------------------------------------
(* The samples that the odometry integrates. *)

Sample == [no : Nat, time : Int]

\* Samples wait in the order they came, the last of them last.
Waiting(d, last) ==
  /\ d \in Seq(Sample) /\ d # <<>> /\ d[Len(d)] = last
  /\ \A i \in 1 .. Len(d) : d[i].no = d[1].no + (i - 1)

\* The last of the samples taken is the one before no.
FollowedBy(taken, no) ==
  taken \in Seq(Int) /\ \A i \in 1 .. Len(taken) : taken[i] = no - ((Len(taken) + 1) - i)

\* The filter within a scan, while the IMU has reached last: next is the front.
WalksUpTo(last) ==
  {s \in [deque : Seq(Sample), next : Sample, first : BOOLEAN, predict : Int, used : Seq(Int)] :
     /\ Waiting(s.deque, last) /\ s.next = s.deque[1]
     /\ FollowedBy(s.used, s.deque[1].no)
     /\ s.first => s.used = <<>>
     /\ ~s.first => s.predict <= s.deque[1].time}

\* Where a loop stops, and what it does on the way.
StopsAt(d, stop, t) ==
  /\ d[stop].time >= t
  /\ Advance([deque |-> d, next |-> d[1]], t)
       = [deque |-> SubSeq(d, stop, Len(d)), passed |-> SubSeq(d, 1, stop - 1),
          next |-> d[stop]]

\* A loop over the samples passes those before one that it stops at.
LEMMA AdvancePasses ==
  ASSUME NEW last \in Sample, NEW d, Waiting(d, last), NEW t \in Int, t <= last.time
  PROVE  \E stop \in 1 .. Len(d) : StopsAt(d, stop, t)
<1> USE DEF StopsAt
<1> DEFINE len == Len(d)
<1> DEFINE late == {i \in 2 .. len : d[i].time >= t}
<1> DEFINE stop == Min(late \cup {len + 1})
<1>1. /\ d \in Seq(Sample) /\ d # <<>> /\ len \in Nat /\ len >= 1
      /\ \A i \in 1 .. len : d[i] \in Sample /\ d[i].time \in Int
  <2>1. d \in Seq(Sample) /\ d # <<>>
    BY DEF Waiting
  <2>2. len \in Nat /\ len # 0
    BY <2>1, EmptySeq, LenProperties
  <2>3. \A i \in 1 .. len : d[i] \in Sample
    BY <2>1, ElementOfSeq
  <2> HIDE DEF len
  <2>4. \A i \in 1 .. len : d[i].time \in Int
    BY <2>3 DEF Sample
  <2> QED BY <2>1, <2>2, <2>3, <2>4
<1>2. d[len].time >= t
  <2>1. d[len] = last /\ last.time \in Int
    BY <1>1 DEF Waiting, Sample
  <2> QED BY <2>1
<1>3. CASE d[1].time >= t
  <2>1. SubSeq(d, 1, len) = d /\ SubSeq(d, 1, 0) = <<>>
    BY <1>1
  <2>2. Advance([deque |-> d, next |-> d[1]], t)
          = [deque |-> d, next |-> d[1], passed |-> <<>>]
    BY <1>3 DEF Advance
  <2>3. 1 \in 1 .. len
    BY <1>1
  <2> HIDE DEF len
  <2>4. [deque |-> d, next |-> d[1], passed |-> <<>>]
          = [deque |-> SubSeq(d, 1, len), passed |-> SubSeq(d, 1, 1 - 1), next |-> d[1]]
    <3>1. 1 - 1 = 0
      OBVIOUS
    <3>2. SubSeq(d, 1, 1 - 1) = <<>>
      BY <2>1, <3>1, Zenon
    <3> QED BY <2>1, <3>2, Zenon
  <2> QED BY <1>3, <2>2, <2>3, <2>4 DEF len
<1>4. CASE ~(d[1].time >= t)
  <2>1. len \in late /\ len >= 2
    BY <1>1, <1>2, <1>4
  <2>2. stop \in late /\ \A i \in late : stop <= i
    <3>1. len \in Nat /\ late \subseteq 2 .. len
      BY <1>1
    <3> HIDE DEF late, len
    <3>2. 2 \in Int /\ len + 1 \in Int /\ late \cup {len + 1} \subseteq 2 .. len + 1
      BY <1>1, <3>1, <2>1
    <3>3. stop \in late \cup {len + 1} /\ \A i \in late \cup {len + 1} : stop <= i
      BY <3>2, MinIndex
    <3>4. stop # len + 1
      <4>1. stop <= len /\ len \in Nat
        BY <1>1, <2>1, <3>3 DEF len
      <4> HIDE DEF stop
      <4> QED BY <4>1
    <3> HIDE DEF stop
    <3> QED BY <3>3, <3>4
  <2> DEFINE passed == <<d[1]>> \o SubSeq(d, 2, stop - 1)
  <2>3. Advance([deque |-> d, next |-> d[1]], t)
          = [deque |-> SubSeq(d, stop, len), passed |-> passed,
             next |-> IF stop <= len THEN d[stop] ELSE Last(passed)]
    BY <1>1, <1>4 DEF Advance
  <2>4. stop \in 2 .. len /\ d[stop].time >= t
    <3> HIDE DEF stop
    <3> QED BY <2>2
  <2> HIDE DEF stop, late
  <2>5. passed = SubSeq(d, 1, stop - 1)
    <3>1. Len(passed) = stop - 1 /\ passed \in Seq(Sample)
      BY <1>1, <2>4
    <3>2. Len(SubSeq(d, 1, stop - 1)) = stop - 1 /\ SubSeq(d, 1, stop - 1) \in Seq(Sample)
      BY <1>1, <2>4
    <3>3. ASSUME NEW i \in 1 .. stop - 1 PROVE passed[i] = SubSeq(d, 1, stop - 1)[i]
      BY <1>1, <2>4
    <3> HIDE DEF passed
    <3> QED BY <3>1, <3>2, <3>3, SeqEqual
  <2> HIDE DEF passed, len
  <2>6. Advance([deque |-> d, next |-> d[1]], t)
          = [deque |-> SubSeq(d, stop, len), passed |-> SubSeq(d, 1, stop - 1),
             next |-> d[stop]]
    BY <2>3, <2>4, <2>5
  <2>7. stop \in 1 .. len
    BY <2>4
  <2> QED BY <2>4, <2>6, <2>7 DEF len
<1> QED BY <1>3, <1>4

\* What a loop that stops there passes, what it leaves, and what has been taken then.
Passed(d, stop) == SubSeq(d, 1, stop - 1)
Rest(d, stop) == SubSeq(d, stop, Len(d))
Taken(u, d, stop) == u \o [i \in DOMAIN Passed(d, stop) |-> Passed(d, stop)[i].no]

\* What is left waits like before.
LEMMA RestWaits ==
  ASSUME NEW last \in Sample, NEW d, Waiting(d, last), NEW stop \in 1 .. Len(d)
  PROVE  /\ Waiting(Rest(d, stop), last) /\ Rest(d, stop)[1] = d[stop]
         /\ Rest(d, stop)[Len(Rest(d, stop))] = d[Len(d)]
<1> DEFINE len == Len(d)
<1> DEFINE rest == Rest(d, stop)
<1>1. /\ d \in Seq(Sample) /\ len \in Nat
      /\ \A i \in 1 .. len : d[i] \in Sample /\ d[i].no = d[1].no + (i - 1)
  BY LenProperties, ElementOfSeq DEF Waiting
<1>2. stop \in Nat /\ stop >= 1 /\ stop <= len /\ stop \in 1 .. len + 1 /\ len \in stop - 1 .. len
  <2> HIDE DEF len
  <2> QED BY <1>1 DEF len
<1>3. /\ rest \in Seq(Sample) /\ Len(rest) = (len - stop) + 1
      /\ \A i \in 1 .. (len - stop) + 1 : rest[i] = d[stop + (i - 1)]
  BY <1>1, <1>2, SliceIs DEF Rest
<1>4. d[len] = last
  BY DEF Waiting
<1> HIDE DEF len, rest
<1>5. Len(rest) \in 1 .. (len - stop) + 1 /\ rest # <<>>
  BY <1>1, <1>2, <1>3
<1>6. rest[1] = d[stop] /\ rest[Len(rest)] = d[len]
  BY <1>1, <1>2, <1>3, <1>5
<1>7. \A i \in 1 .. len : d[i].no \in Int
  BY <1>1 DEF Sample
<1>8. ASSUME NEW i \in 1 .. Len(rest) PROVE rest[i].no = rest[1].no + (i - 1)
  <2>1. stop + (i - 1) \in 1 .. len /\ rest[i] = d[stop + (i - 1)]
    BY <1>1, <1>2, <1>3
  <2> DEFINE no == d[1].no
  <2>2. rest[i].no = no + ((stop + (i - 1)) - 1) /\ rest[1].no = no + (stop - 1)
    <3>1. d[stop + (i - 1)].no = no + ((stop + (i - 1)) - 1) /\ d[stop].no = no + (stop - 1)
      <4>1. stop \in 1 .. len
        BY <1>1, <1>2
      <4> QED BY <1>1, <2>1, <4>1, Zenon
    <3> QED BY <1>6, <2>1, <3>1, Zenon
  <2>3. no \in Int /\ i \in Int
    <3>1. 1 \in 1 .. len
      BY <1>1, <1>2
    <3> QED BY <1>1, <1>5, <1>7, <3>1
  <2> HIDE DEF no
  <2>4. no + ((stop + (i - 1)) - 1) = (no + (stop - 1)) + (i - 1)
    BY <1>2, <2>3
  <2> QED BY <2>2, <2>4, Zenon
<1> QED BY <1>3, <1>4, <1>5, <1>6, <1>8 DEF Waiting, rest, len

\* What a loop passes follows what was taken before.
LEMMA PassedFollow ==
  ASSUME NEW last \in Sample, NEW d, Waiting(d, last), NEW stop \in 1 .. Len(d),
         NEW u, FollowedBy(u, d[1].no)
  PROVE  FollowedBy(Taken(u, d, stop), d[stop].no)
<1> DEFINE len == Len(d)
<1> DEFINE passed == Passed(d, stop)
<1> DEFINE nos == [i \in DOMAIN passed |-> passed[i].no]
<1> DEFINE taken == Taken(u, d, stop)
<1>1. /\ d \in Seq(Sample) /\ len \in Nat
      /\ \A i \in 1 .. len : d[i] \in Sample /\ d[i].no = d[1].no + (i - 1)
  BY LenProperties, ElementOfSeq DEF Waiting
<1>2. /\ stop \in Nat /\ stop >= 1 /\ stop <= len /\ 1 \in 1 .. len + 1 /\ stop - 1 \in 0 .. len
      /\ stop - 1 \in Nat /\ 1 - 1 = 0 /\ ((stop - 1) - 1) + 1 = stop - 1
      /\ \A i \in 1 .. stop - 1 : 1 + (i - 1) = i
  <2> HIDE DEF len
  <2> QED BY <1>1 DEF len
<1>3. /\ passed \in Seq(Sample) /\ Len(passed) = stop - 1
      /\ \A i \in 1 .. stop - 1 : passed[i] = d[i]
  <2>1. /\ passed \in Seq(Sample) /\ Len(passed) = ((stop - 1) - 1) + 1
        /\ \A i \in 1 .. ((stop - 1) - 1) + 1 : passed[i] = d[1 + (i - 1)]
    BY <1>1, <1>2, SliceIs DEF Passed
  <2> HIDE DEF passed
  <2> QED BY <1>2, <2>1
<1>4. ASSUME NEW i \in 1 .. len PROVE d[i].no \in Int
  <2>1. d[i] \in [no : Nat, time : Int]
    BY <1>1 DEF Sample
  <2> QED BY <2>1
<1>5. nos \in Seq(Int) /\ Len(nos) = stop - 1 /\ \A i \in 1 .. stop - 1 : nos[i] = d[i].no
  <2> HIDE DEF passed, len
  <2>1. DOMAIN passed = 1 .. stop - 1
    BY <1>3, LenProperties
  <2>2. \A i \in 1 .. stop - 1 : i \in 1 .. len
    BY <1>1, <1>2
  <2>3. nos = [i \in 1 .. stop - 1 |-> d[i].no]
    BY <1>3, <2>1
  <2>4. nos \in [1 .. stop - 1 -> Int]
    BY <1>4, <2>2, <2>3
  <2> HIDE DEF nos
  <2>5. nos \in Seq(Int) /\ Len(nos) = stop - 1
    BY <1>2, <2>4, SeqDef, LenProperties
  <2> QED BY <2>3, <2>5
<1>6. u \in Seq(Int) /\ Len(u) \in Nat /\ \A i \in 1 .. Len(u) : u[i] = d[1].no - ((Len(u) + 1) - i)
  BY LenProperties DEF FollowedBy
<1>7. taken = u \o nos
  BY DEF Taken
<1> HIDE DEF nos, passed, len, taken
<1>8. /\ taken \in Seq(Int) /\ Len(taken) = Len(u) + (stop - 1)
      /\ \A i \in 1 .. Len(u) + (stop - 1) :
           taken[i] = IF i <= Len(u) THEN u[i] ELSE nos[i - Len(u)]
  <2>1. /\ u \o nos \in Seq(Int) /\ Len(u \o nos) = Len(u) + Len(nos)
        /\ \A i \in 1 .. Len(u) + Len(nos) :
             (u \o nos)[i] = IF i <= Len(u) THEN u[i] ELSE nos[i - Len(u)]
    BY <1>5, <1>6, ConcatProperties, Zenon
  <2> QED BY <1>5, <1>7, <2>1, Zenon
<1>9. d[1].no \in Int /\ d[stop].no = d[1].no + (stop - 1)
  BY <1>1, <1>2, <1>4
<1> DEFINE no == d[1].no
<1> DEFINE n == Len(u)
<1>10. no \in Int /\ n \in Nat /\ d[stop].no = no + (stop - 1) /\ Len(taken) = n + (stop - 1)
  BY <1>6, <1>8, <1>9
<1>11. ASSUME NEW i \in 1 .. Len(taken) PROVE taken[i] = d[stop].no - ((Len(taken) + 1) - i)
  <2>1. i \in 1 .. n + (stop - 1) /\ i \in Nat /\ i >= 1
    <3> HIDE DEF n
    <3> QED BY <1>2, <1>10
  <2>2. taken[i] = IF i <= n THEN u[i] ELSE nos[i - n]
    BY <1>8, <2>1, Zenon
  <2>3. taken[i] = no - ((n + 1) - i)
    <3>1. CASE i <= n
      <4>1. taken[i] = u[i]
        BY <2>2, <3>1, Zenon
      <4>2. i \in 1 .. n
        <5> HIDE DEF n
        <5> QED BY <1>10, <2>1, <3>1
      <4> QED BY <1>6, <4>1, <4>2, Zenon
    <3>2. CASE ~(i <= n)
      <4>1. taken[i] = nos[i - n]
        BY <2>2, <3>2, Zenon
      <4>2. i - n \in 1 .. stop - 1 /\ i - n \in 1 .. len
        <5> HIDE DEF n
        <5> QED BY <1>1, <1>2, <1>10, <2>1, <3>2
      <4>3. nos[i - n] = no + ((i - n) - 1)
        <5>1. nos[i - n] = d[i - n].no
          BY <1>5, <4>2, Zenon
        <5>2. d[i - n].no = no + ((i - n) - 1)
          BY <1>1, <4>2, Zenon
        <5> QED BY <5>1, <5>2, Zenon
      <4> HIDE DEF no, n
      <4>4. no + ((i - n) - 1) = no - ((n + 1) - i)
        BY <1>10, <2>1
      <4> QED BY <4>1, <4>3, <4>4
    <3> QED BY <3>1, <3>2
  <2> HIDE DEF no, n
  <2>4. no - ((n + 1) - i) = (no + (stop - 1)) - (((n + (stop - 1)) + 1) - i)
    BY <1>2, <1>10, <2>1
  <2> QED BY <1>10, <2>3, <2>4, Zenon
<1> QED BY <1>8, <1>11 DEF FollowedBy, taken

\* The same within a scan.
LEMMA WalkPasses ==
  ASSUME NEW last \in Sample, NEW s \in WalksUpTo(last), NEW t \in Int, t <= last.time
  PROVE  \E stop \in 1 .. Len(s.deque) :
           /\ s.deque[stop] \in Sample /\ s.deque[stop].time >= t /\ s.deque[stop].time \in Int
           /\ Advance([deque |-> s.deque, next |-> s.next], t)
                = [deque |-> Rest(s.deque, stop), passed |-> Passed(s.deque, stop),
                   next |-> s.deque[stop]]
<1>1. Waiting(s.deque, last) /\ s.next = s.deque[1] /\ s.deque \in Seq(Sample)
  BY DEF WalksUpTo
<1>2. PICK stop \in 1 .. Len(s.deque) : StopsAt(s.deque, stop, t)
  BY <1>1, AdvancePasses
<1>3. s.deque[stop] \in Sample
  BY <1>1, ElementOfSeq
<1>4. s.deque[stop].time \in Int
  BY <1>3 DEF Sample
<1> QED BY <1>1, <1>2, <1>3, <1>4 DEF StopsAt, Rest, Passed

\* The first point of all: what is before it is passed, and nothing has been taken.
LEMMA FirstPointKeeps ==
  ASSUME NEW last \in Sample, NEW s \in WalksUpTo(last), NEW t \in Int, t <= last.time
  PROVE  FirstPoint(s, t) \in WalksUpTo(last) /\ ~FirstPoint(s, t).first
<1>1. CASE ~s.first
  BY <1>1 DEF FirstPoint
<1>2. CASE s.first
  <2>1. PICK stop \in 1 .. Len(s.deque) :
           /\ s.deque[stop] \in Sample /\ s.deque[stop].time >= t /\ s.deque[stop].time \in Int
           /\ Advance([deque |-> s.deque, next |-> s.next], t)
                = [deque |-> Rest(s.deque, stop), passed |-> Passed(s.deque, stop),
                   next |-> s.deque[stop]]
    BY WalkPasses
  <2> DEFINE rest == Rest(s.deque, stop)
  <2>2. FirstPoint(s, t) = [deque |-> rest, next |-> s.deque[stop], first |-> FALSE,
                            predict |-> t, used |-> s.used]
    <3>1. FirstPoint(s, t) = [s EXCEPT !.deque = rest, !.next = s.deque[stop],
                                       !.first = FALSE, !.predict = t]
      <4> HIDE DEF rest
      <4> DEFINE skipped == Advance([deque |-> s.deque, next |-> s.next], t)
      <4>1. FirstPoint(s, t) = [s EXCEPT !.deque = skipped.deque, !.next = skipped.next,
                                         !.first = FALSE, !.predict = t]
        BY <1>2 DEF FirstPoint
      <4>2. skipped.deque = rest /\ skipped.next = s.deque[stop]
        BY <2>1 DEF rest
      <4> HIDE DEF skipped
      <4> QED BY <4>1, <4>2
    <3>2. s \in [deque : Seq(Sample), next : Sample, first : BOOLEAN, predict : Int, used : Seq(Int)]
      BY DEF WalksUpTo
    <3> HIDE DEF rest
    <3> QED BY <3>1, <3>2
  <2>3. Waiting(s.deque, last) /\ s.used = <<>>
    BY <1>2 DEF WalksUpTo
  <2>4. Waiting(rest, last) /\ rest[1] = s.deque[stop]
    BY <2>3, RestWaits
  <2>5. rest \in Seq(Sample)
    BY <2>4 DEF Waiting
  <2> HIDE DEF rest
  <2>6. s.used \in Seq(Int) /\ FollowedBy(s.used, rest[1].no)
    BY <2>3 DEF FollowedBy
  <2> QED BY <2>1, <2>2, <2>4, <2>5, <2>6 DEF WalksUpTo
<1> QED BY <1>1, <1>2

\* A time of the scan: the filter has taken what it passed, in order.
LEMMA AtTimeKeeps ==
  ASSUME NEW last \in Sample, NEW s \in WalksUpTo(last), NEW t \in Int, t <= last.time
  PROVE  AtTime(s, t) \in WalksUpTo(last) /\ ~AtTime(s, t).first
<1> DEFINE r == FirstPoint(s, t)
<1>1. r \in WalksUpTo(last) /\ ~r.first
  BY FirstPointKeeps
<1>2. AtTime(s, t) = LET ready == SkipOld(r)
                         moved == Advance([deque |-> ready.deque, next |-> ready.next], t)
                     IN [deque |-> moved.deque, next |-> moved.next, first |-> FALSE,
                         predict |-> t,
                         used |-> ready.used \o [i \in DOMAIN moved.passed |-> moved.passed[i].no]]
  BY DEF AtTime
<1> HIDE DEF r
<1>3. SkipOld(r) = r
  BY <1>1 DEF SkipOld, WalksUpTo
<1>4. PICK stop \in 1 .. Len(r.deque) :
         /\ r.deque[stop] \in Sample /\ r.deque[stop].time >= t /\ r.deque[stop].time \in Int
         /\ Advance([deque |-> r.deque, next |-> r.next], t)
              = [deque |-> Rest(r.deque, stop), passed |-> Passed(r.deque, stop),
                 next |-> r.deque[stop]]
  BY <1>1, WalkPasses
<1> DEFINE rest == Rest(r.deque, stop)
<1> DEFINE taken == Taken(r.used, r.deque, stop)
<1>5. AtTime(s, t) = [deque |-> rest, next |-> r.deque[stop], first |-> FALSE, predict |-> t,
                      used |-> taken]
  <2> DEFINE moved == Advance([deque |-> r.deque, next |-> r.next], t)
  <2>1. AtTime(s, t) = [deque |-> moved.deque, next |-> moved.next, first |-> FALSE,
                        predict |-> t,
                        used |-> r.used \o [i \in DOMAIN moved.passed |-> moved.passed[i].no]]
    BY <1>2, <1>3
  <2>2. /\ moved.deque = rest /\ moved.next = r.deque[stop]
        /\ moved.passed = Passed(r.deque, stop)
    BY <1>4
  <2> HIDE DEF moved, rest
  <2> QED BY <2>1, <2>2 DEF Taken
<1>6. Waiting(r.deque, last) /\ FollowedBy(r.used, r.deque[1].no)
  BY <1>1 DEF WalksUpTo
<1>7. Waiting(rest, last) /\ rest[1] = r.deque[stop]
  BY <1>6, RestWaits
<1>8. FollowedBy(taken, r.deque[stop].no)
  BY <1>6, PassedFollow
<1> HIDE DEF rest, taken
<1>9. rest \in Seq(Sample) /\ taken \in Seq(Int)
  BY <1>7, <1>8 DEF Waiting, FollowedBy
<1> QED BY <1>4, <1>5, <1>7, <1>8, <1>9 DEF WalksUpTo

\* All the times of a scan.
LEMMA WalkKeeps ==
  ASSUME NEW last \in Sample, NEW s \in WalksUpTo(last), NEW beg \in Nat,
         NEW offs \in SUBSET Nat, IsFiniteSet(offs), offs # {}, beg + Max(offs) <= last.time
  PROVE  Walk(s, beg, offs) \in WalksUpTo(last) /\ ~Walk(s, beg, offs).first
<1> DEFINE N == Max(offs) + 1
<1> DEFINE S == WalksUpTo(last)
<1> DEFINE next(n, x) == IF n - 1 \in offs THEN AtTime(x, beg + (n - 1)) ELSE x
<1> DEFINE at[n \in 0 .. N] == IF n = 0 THEN s ELSE next(n, at[n - 1])
<1> DEFINE step == [x \in (1 .. N) \X S |-> next(x[1], x[2])]
<1>1. Max(offs) \in offs /\ \A o \in offs : o <= Max(offs) /\ o \in Nat
  <2>1. offs \subseteq Int
    OBVIOUS
  <2> QED BY <2>1, MinMaxBound
<1>2. N \in Nat /\ N >= 1 /\ N - 1 \in offs
  <2>1. Max(offs) \in Nat
    BY <1>1
  <2> QED BY <1>1, <2>1
<1>3. \A n \in 1 .. N, x \in S : next(n, x) \in S /\ (n - 1 \in offs => ~next(n, x).first)
  <2> SUFFICES ASSUME NEW n \in 1 .. N, NEW x \in S, n - 1 \in offs
               PROVE  AtTime(x, beg + (n - 1)) \in S /\ ~AtTime(x, beg + (n - 1)).first
    OBVIOUS
  <2>1. n - 1 \in Nat /\ n - 1 <= Max(offs) /\ Max(offs) \in Nat
    BY <1>1
  <2>2. beg + (n - 1) \in Int /\ beg + (n - 1) <= last.time
    BY <2>1 DEF Sample
  <2> QED BY <2>2, AtTimeKeeps
<1>4. Walk(s, beg, offs) = at[N]
  BY DEF Walk
<1> HIDE DEF N, S
<1>5. step \in StepsOf(N, S) /\ \A n \in 1 .. N, x \in S : step[<<n, x>>] = next(n, x)
  BY <1>3 DEF StepsOf
<1> HIDE DEF step, next
<1>6. s \in S
  BY DEF S
<1>7. PICK f : Unrolls(f, s, N, S, step)
  BY <1>2, <1>5, <1>6, Recursion
<1>8. f \in [0 .. N -> S] /\ f[0] = s /\ \A n \in 1 .. N : f[n] = step[<<n, f[n - 1]>>]
  BY <1>7 DEF Unrolls
<1>9. ASSUME NEW n \in 1 .. N PROVE f[n - 1] \in S /\ f[n] = next(n, f[n - 1])
  <2>1. f[n - 1] \in S
    BY <1>2, <1>8
  <2> QED BY <1>5, <1>8, <2>1
<1>10. f = [n \in 0 .. N |-> IF n = 0 THEN s ELSE next(n, f[n - 1])]
  BY <1>8, <1>9
<1>11. at = [n \in 0 .. N |-> IF n = 0 THEN s ELSE next(n, at[n - 1])]
  BY <1>10
<1> HIDE DEF at
<1>12. \A n \in 0 .. N : at[n] = IF n = 0 THEN s ELSE next(n, at[n - 1])
  BY <1>11
<1> DEFINE T == {n \in 0 .. N : at[n] \in S}
<1>13. 0 \in T
  BY <1>2, <1>6, <1>12
<1>14. ASSUME NEW n \in 1 .. N, n - 1 \in T PROVE n \in T
  <2>1. n \in 0 .. N /\ n # 0 /\ at[n - 1] \in S
    BY <1>2, <1>14
  <2>2. at[n] = next(n, at[n - 1])
    BY <1>12, <2>1
  <2>3. at[n] \in S
    BY <1>3, <2>1, <2>2
  <2> QED BY <2>1, <2>3
<1>15. N - 1 \in 0 .. N /\ N \in 1 .. N
  BY <1>2
<1>16. 0 .. N \subseteq T
  <2> HIDE DEF T
  <2> QED BY <1>2, <1>13, <1>14, UpTo
<1>17. at[N] = next(N, at[N - 1]) /\ at[N - 1] \in S
  BY <1>2, <1>12, <1>15, <1>16
<1>18. at[N] \in S /\ ~at[N].first
  BY <1>2, <1>3, <1>15, <1>17 DEF next
<1> QED BY <1>4, <1>18 DEF S

\* What waits: the samples that were kept, numbered, and scans with their points.
SamplesWait ==
  /\ lastImu \in Int /\ heard \in Nat
  /\ imuDeque # <<>> => Waiting(imuDeque, [no |-> heard, time |-> lastImu])
BufferedScan == {scan \in [beg : Nat, offs : SUBSET Nat] : IsFiniteSet(scan.offs) /\ scan.offs # {}}
ScansWait == lidarBuffer \in Seq(BufferedScan)

\* After the first scan imu_next is the front of the deque and follows what was taken; after
\* the first frame the filter is not past it.
LoopFollows ==
  /\ needInit \in BOOLEAN /\ firstScan \in BOOLEAN /\ firstFrame \in BOOLEAN
  /\ predictLast \in Int
  /\ firstScan => needInit
  /\ needInit => firstFrame
  /\ firstFrame => used = <<>>
  /\ ~firstScan => /\ imuDeque # <<>> /\ imuNext = imuDeque[1]
                   /\ FollowedBy(used, imuDeque[1].no)
  /\ ~firstFrame => predictLast <= imuDeque[1].time

LioInv == SamplesWait /\ ScansWait /\ LoopFollows

\* A scan: its points are finitely many.
LEMMA PclKeeps ==
  ASSUME LioInv, NEW stamp \in ScanStamps, NEW points \in RawScans, PclCbk(stamp, points)
  PROVE  LioInv'
<1> DEFINE offs == AviaHandler(points)
<1>1. stamp \in Nat /\ points \in Seq(Range(points)) /\ \A i \in DOMAIN points : points[i].off \in Nat
  BY LioAssumption
<1>2. IsFiniteSet(offs) /\ offs \subseteq Nat
  <2> DEFINE kept == {k \in Copied(points) :
                        /\ points[k].inRange
                        /\ points[k].place # (IF k - 1 \in Copied(points) THEN points[k - 1].place
                                              ELSE Origin)}
  <2>1. Len(points) \in Nat /\ DOMAIN points = 1 .. Len(points)
    BY <1>1, LenProperties
  <2>2. kept \subseteq 2 .. Len(points)
    BY DEF Copied
  <2>3. IsFiniteSet(kept)
    <3>1. IsFiniteSet(2 .. Len(points))
      BY <2>1, FS_Interval
    <3> HIDE DEF kept
    <3> QED BY <2>2, <3>1, FS_Subset
  <2>4. offs = {points[i].off : i \in kept}
    BY DEF AviaHandler
  <2> HIDE DEF kept, offs
  <2>5. offs \subseteq Nat
    <3> SUFFICES ASSUME NEW i \in kept PROVE points[i].off \in Nat
      BY <2>4
    <3>1. i \in DOMAIN points
      BY <2>1, <2>2
    <3> QED BY <1>1, <3>1
  <2>6. IsFiniteSet(offs)
    <3> DEFINE f == [i \in kept |-> points[i].off]
    <3>1. f \in Surjection(kept, offs)
      BY <2>4 DEF Surjection
    <3> HIDE DEF f
    <3> QED BY <2>3, <3>1, FS_Surjection
  <2> QED BY <2>5, <2>6
<1> HIDE DEF offs
<1>3. ScansWait'
  <2>1. CASE offs = {}
    BY <2>1 DEF PclCbk, LioInv, ScansWait, offs
  <2>2. CASE offs # {}
    <3>1. [beg |-> stamp, offs |-> offs] \in BufferedScan
      BY <1>1, <1>2, <2>2 DEF BufferedScan
    <3>2. lidarBuffer' = Append(lidarBuffer, [beg |-> stamp, offs |-> offs])
      BY <2>2 DEF PclCbk, offs
    <3> QED BY <3>1, <3>2, AppendProperties DEF LioInv, ScansWait
  <2> QED BY <2>1, <2>2
<1> QED BY <1>3 DEF PclCbk, LioInv, SamplesWait, LoopFollows, filterVars

\* A sample: it is numbered on, and the front stays.
LEMMA ImuKeeps ==
  ASSUME LioInv, NEW raw \in ImuStamps, ImuCbk(raw)
  PROVE  LioInv'
<1> DEFINE d == imuDeque
<1> DEFINE sample == [no |-> heard + 1, time |-> lastImu']
<1>1. raw \in Int /\ lastImu \in Int /\ heard \in Nat /\ (d # <<>> => Waiting(d, [no |-> heard, time |-> lastImu]))
  BY LioAssumption DEF LioInv, SamplesWait
<1>2. lastImu' \in Int /\ heard' = heard + 1 /\ heard' \in Nat /\ d' = Append(d, sample)
  BY <1>1 DEF ImuCbk
<1>3. sample \in Sample /\ sample = [no |-> heard', time |-> lastImu'] /\ sample.no = heard + 1
  BY <1>1, <1>2 DEF Sample
<1> HIDE DEF sample
<1>4. CASE d = <<>>
  <2>1. d' = <<sample>>
    BY <1>2, <1>4
  <2> HIDE DEF d
  <2>2. d' \in Seq(Sample) /\ d' # <<>> /\ Len(d') = 1 /\ d'[1] = sample
    BY <1>3, <2>1
  <2>3. sample.no = sample.no + (1 - 1)
    BY <1>1, <1>3
  <2>4. Waiting(d', sample)
    BY <2>2, <2>3 DEF Waiting
  <2>5. SamplesWait'
    BY <1>2, <1>3, <2>4 DEF SamplesWait, d
  <2> QED BY <1>4, <2>5 DEF ImuCbk, LioInv, LoopFollows, ScansWait, filterVars, d
<1>5. CASE d # <<>>
  <2> DEFINE len == Len(d)
  <2>1. /\ d \in Seq(Sample) /\ len \in Nat /\ len # 0 /\ d[len].no = heard
        /\ \A i \in 1 .. len : d[i] \in Sample /\ d[i].no = d[1].no + (i - 1)
    BY <1>1, <1>5, LenProperties, EmptySeq, ElementOfSeq DEF Waiting
  <2>2. /\ d' \in Seq(Sample) /\ Len(d') = len + 1
        /\ \A i \in 1 .. len : d'[i] = d[i]
        /\ d'[len + 1] = sample
    BY <1>2, <1>3, <2>1, AppendProperties
  <2> HIDE DEF d, len
  <2>3. d' # <<>> /\ d'[1] = d[1]
    BY <2>1, <2>2
  <2>4. ASSUME NEW i \in 1 .. len + 1 PROVE d'[i].no = d[1].no + (i - 1)
    <3>1. CASE i \in 1 .. len
      BY <2>1, <2>2, <3>1
    <3>2. CASE i = len + 1
      <4>1. d'[i].no = heard + 1 /\ 1 \in 1 .. len /\ len \in 1 .. len
        BY <1>3, <2>1, <2>2, <3>2
      <4>2. heard = d[1].no + (len - 1) /\ d[1].no \in Int
        <5>1. d[1] \in [no : Nat, time : Int]
          BY <2>1, <4>1 DEF Sample
        <5>2. d[1].no \in Int
          BY <5>1
        <5> QED BY <2>1, <4>1, <5>2
      <4> DEFINE no == d[1].no
      <4>3. no \in Int /\ heard = no + (len - 1)
        BY <4>2
      <4> HIDE DEF no
      <4>4. heard + 1 = no + (i - 1)
        BY <2>1, <3>2, <4>3
      <4> QED BY <4>1, <4>4 DEF no
    <3> QED BY <2>1, <3>1, <3>2
  <2>5. Waiting(d', sample)
    BY <2>1, <2>2, <2>3, <2>4 DEF Waiting
  <2>6. SamplesWait'
    BY <1>2, <1>3, <2>5 DEF SamplesWait, d
  <2>7. LoopFollows'
    BY <1>5, <2>3 DEF ImuCbk, LioInv, LoopFollows, filterVars, d
  <2> QED BY <2>6, <2>7 DEF ImuCbk, LioInv, ScansWait
<1> QED BY <1>4, <1>5

\* A loop before the filter begins.
LEMMA SkipKeeps ==
  ASSUME NEW last \in Sample, NEW d, Waiting(d, last), NEW t \in Int, t <= last.time
  PROVE  LET a == Advance([deque |-> d, next |-> d[1]], t)
         IN Waiting(a.deque, last) /\ a.next = a.deque[1]
<1>1. PICK stop \in 1 .. Len(d) : StopsAt(d, stop, t)
  BY AdvancePasses
<1>2. Waiting(Rest(d, stop), last) /\ Rest(d, stop)[1] = d[stop]
  BY RestWaits
<1> DEFINE a == Advance([deque |-> d, next |-> d[1]], t)
<1>3. a.deque = Rest(d, stop) /\ a.next = d[stop]
  BY <1>1 DEF StopsAt, Rest
<1> HIDE DEF a
<1>4. Waiting(a.deque, last) /\ a.next = a.deque[1]
  BY <1>2, <1>3
<1> QED BY <1>4 DEF a

\* An iteration that takes a scan.
LEMMA MainLoopKeeps == ASSUME LioInv, MainLoop PROVE LioInv'
<1> DEFINE last == [no |-> heard, time |-> lastImu]
<1> DEFINE scan == Head(lidarBuffer)
<1> DEFINE synced == SyncPackages
<1> DEFINE st == [deque |-> synced.deque, next |-> synced.next]
<1> DEFINE begun == IF firstScan THEN Advance(st, scan.beg) ELSE st
<1> DEFINE walk(offs) == Walk([deque |-> begun.deque, next |-> begun.next, used |-> used,
                               first |-> firstFrame, predict |-> predictLast], scan.beg, offs)
<1>1. /\ lastImu \in Int /\ last \in Sample /\ last.time = lastImu /\ Waiting(imuDeque, last)
      /\ imuDeque # <<>> /\ lidarBuffer # <<>> /\ EndOf(scan) <= lastImu
  BY DEF MainLoop, Synced, LioInv, SamplesWait, Sample
<1>2. /\ scan.beg \in Nat /\ scan.offs \in SUBSET Nat /\ IsFiniteSet(scan.offs) /\ scan.offs # {}
      /\ Tail(lidarBuffer) \in Seq(BufferedScan)
  <2>1. scan \in BufferedScan /\ Tail(lidarBuffer) \in Seq(BufferedScan)
    BY <1>1, HeadTailProperties DEF LioInv, ScansWait
  <2> HIDE DEF scan
  <2> QED BY <2>1 DEF BufferedScan
<1>3. /\ Max(scan.offs) \in Nat /\ \A o \in scan.offs : o <= Max(scan.offs)
      /\ EndOf(scan) = scan.beg + Max(scan.offs)
      /\ EndOf(scan) \in Int /\ scan.beg <= EndOf(scan)
  <2> HIDE DEF scan
  <2>1. scan.offs \subseteq Int
    BY <1>2
  <2>2. Max(scan.offs) \in scan.offs /\ \A o \in scan.offs : o <= Max(scan.offs)
    BY <1>2, <2>1, MinMaxBound
  <2>3. EndOf(scan) = scan.beg + Max(scan.offs)
    BY DEF EndOf
  <2> QED BY <1>2, <2>2, <2>3
<1> HIDE DEF last
<1>4. /\ Waiting(synced.deque, last) /\ synced.next = synced.deque[1]
      /\ FollowedBy(used, synced.deque[1].no)
      /\ ~firstFrame => predictLast <= synced.deque[1].time
  <2>1. CASE needInit
    <3>1. Head(imuDeque) = imuDeque[1]
      BY <1>1 DEF Waiting
    <3>2. synced = Advance([deque |-> imuDeque, next |-> imuDeque[1]], EndOf(scan))
      BY <2>1, <3>1 DEF SyncPackages
    <3>3. used = <<>> /\ firstFrame
      BY <2>1 DEF LioInv, LoopFollows
    <3> HIDE DEF synced, scan
    <3>4. Waiting(synced.deque, last) /\ synced.next = synced.deque[1]
      BY <1>1, <1>3, <3>2, SkipKeeps
    <3> QED BY <3>3, <3>4 DEF FollowedBy
  <2>2. CASE ~needInit
    <3>1. synced.deque = imuDeque /\ synced.next = imuNext
      BY <2>2 DEF SyncPackages
    <3>2. ~firstScan
      BY <2>2 DEF LioInv, LoopFollows
    <3> HIDE DEF synced
    <3> QED BY <1>1, <3>1, <3>2 DEF LioInv, LoopFollows
  <2> QED BY <2>1, <2>2
<1> HIDE DEF synced
<1>5. /\ Waiting(begun.deque, last) /\ begun.next = begun.deque[1]
      /\ FollowedBy(used, begun.deque[1].no)
      /\ ~firstFrame => predictLast <= begun.deque[1].time
  <2>1. CASE firstScan
    <3>1. used = <<>> /\ firstFrame
      BY <2>1 DEF LioInv, LoopFollows
    <3>2. begun = Advance([deque |-> synced.deque, next |-> synced.deque[1]], scan.beg)
      BY <1>4, <2>1
    <3>3. scan.beg \in Int /\ scan.beg <= last.time
      <4> HIDE DEF scan
      <4> QED BY <1>1, <1>2, <1>3 DEF last
    <3> HIDE DEF begun, scan
    <3>4. Waiting(begun.deque, last) /\ begun.next = begun.deque[1]
      BY <1>1, <1>4, <3>2, <3>3, SkipKeeps
    <3> QED BY <3>1, <3>4 DEF FollowedBy
  <2>2. CASE ~firstScan
    <3>1. begun.deque = synced.deque /\ begun.next = synced.next
      BY <2>2
    <3> HIDE DEF begun
    <3> QED BY <1>4, <3>1
  <2> QED BY <2>1, <2>2
<1> HIDE DEF begun
<1>6. /\ firstScan' = FALSE /\ lidarBuffer' = Tail(lidarBuffer) /\ heard' = heard /\ lastImu' = lastImu
      /\ needInit' \in BOOLEAN /\ (needInit' => needInit)
  BY DEF MainLoop, ImuProcess, LioInv, LoopFollows
<1>7. \/ /\ imuDeque' = begun.deque /\ imuNext' = begun.next
         /\ firstFrame' = firstFrame /\ predictLast' = predictLast /\ used' = used
      \/ /\ ~needInit'
         /\ \E offs \in (SUBSET scan.offs) \ {{}} :
              /\ imuDeque' = walk(offs).deque /\ imuNext' = walk(offs).next
              /\ firstFrame' = FALSE /\ predictLast' = walk(offs).predict
              /\ used' = walk(offs).used
  <2> HIDE DEF walk
  <2> QED BY DEF MainLoop, begun, synced, walk
<1>8. /\ Waiting(imuDeque', last) /\ imuNext' = imuDeque'[1]
      /\ FollowedBy(used', imuDeque'[1].no)
      /\ firstFrame' \in BOOLEAN /\ predictLast' \in Int
      /\ ~firstFrame' => predictLast' <= imuDeque'[1].time
      /\ needInit' => firstFrame'
      /\ firstFrame' => used' = <<>>
  <2>1. CASE /\ imuDeque' = begun.deque /\ imuNext' = begun.next
             /\ firstFrame' = firstFrame /\ predictLast' = predictLast /\ used' = used
    BY <1>5, <1>6, <2>1 DEF LioInv, LoopFollows
  <2>2. ASSUME ~needInit', NEW offs \in (SUBSET scan.offs) \ {{}},
               imuDeque' = walk(offs).deque, imuNext' = walk(offs).next,
               firstFrame' = FALSE, predictLast' = walk(offs).predict, used' = walk(offs).used
        PROVE  /\ Waiting(imuDeque', last) /\ imuNext' = imuDeque'[1]
               /\ FollowedBy(used', imuDeque'[1].no)
               /\ predictLast' \in Int /\ predictLast' <= imuDeque'[1].time
    <3> DEFINE s == [deque |-> begun.deque, next |-> begun.next, used |-> used,
                     first |-> firstFrame, predict |-> predictLast]
    <3>1. begun.deque \in Seq(Sample) /\ begun.next \in Sample
      <4>1. begun.deque \in Seq(Sample) /\ begun.deque # <<>>
        BY <1>5 DEF Waiting
      <4> QED BY <1>5, <4>1, HeadTailProperties
    <3>2. used \in Seq(Int) /\ firstFrame \in BOOLEAN /\ predictLast \in Int
          /\ (firstFrame => used = <<>>)
      BY <1>5 DEF FollowedBy, LioInv, LoopFollows
    <3>3. s \in WalksUpTo(last)
      <4>1. s \in [deque : Seq(Sample), next : Sample, first : BOOLEAN, predict : Int, used : Seq(Int)]
        BY <3>1, <3>2
      <4>2. s.deque = begun.deque /\ s.next = begun.next /\ s.used = used /\ s.first = firstFrame
            /\ s.predict = predictLast
        OBVIOUS
      <4> HIDE DEF s
      <4> QED BY <1>5, <3>2, <4>1, <4>2 DEF WalksUpTo
    <3>4. offs \in SUBSET Nat /\ IsFiniteSet(offs) /\ offs # {} /\ offs \subseteq scan.offs
      <4> HIDE DEF scan
      <4> QED BY <1>2, <2>2, FS_Subset
    <3>5. scan.beg + Max(offs) <= last.time
      <4> HIDE DEF scan
      <4>1. offs \subseteq Int
        BY <3>4
      <4>2. Max(offs) \in offs
        BY <3>4, <4>1, MinMaxBound
      <4>3. Max(offs) \in Nat /\ Max(offs) <= Max(scan.offs)
        BY <1>3, <3>4, <4>2
      <4> QED BY <1>1, <1>2, <1>3, <4>3
    <3> HIDE DEF s
    <3>6. Walk(s, scan.beg, offs) \in WalksUpTo(last) /\ ~Walk(s, scan.beg, offs).first
      BY <1>1, <1>2, <3>3, <3>4, <3>5, WalkKeeps
    <3>7. walk(offs) = Walk(s, scan.beg, offs)
      BY DEF s
    <3> HIDE DEF walk
    <3> QED BY <2>2, <3>6, <3>7 DEF WalksUpTo
  <2> HIDE DEF walk, scan
  <2> QED BY <1>7, <2>1, <2>2
<1>9. SamplesWait'
  <2>1. last' = last
    BY <1>6 DEF last
  <2> QED BY <1>1, <1>6, <1>8 DEF SamplesWait, last, LioInv
<1>10. ScansWait'
  BY <1>2, <1>6 DEF ScansWait
<1>11. LoopFollows'
  <2>1. imuDeque' # <<>>
    BY <1>8 DEF Waiting
  <2> QED BY <1>6, <1>8, <2>1 DEF LoopFollows
<1> QED BY <1>9, <1>10, <1>11 DEF LioInv

\* For every set of stamps and scans and however they are sampled, the filter integrates
\* consecutive samples.
THEOREM EachSampleOnce == LioSpec => []SamplesIntegratedOnce
<1>1. LioInit => LioInv
  BY EmptySeq DEF LioInit, LioInv, SamplesWait, ScansWait, LoopFollows
<1>2. LioInv /\ [LioNext]_lioVars => LioInv'
  <2>1. ASSUME LioInv, LioNext PROVE LioInv'
    BY <2>1, PclKeeps, ImuKeeps, MainLoopKeeps DEF LioNext
  <2>2. ASSUME LioInv, UNCHANGED lioVars PROVE LioInv'
    BY <2>2 DEF lioVars, bufferVars, filterVars, LioInv, SamplesWait, ScansWait, LoopFollows
  <2> QED BY <2>1, <2>2
<1>3. LioInv => SamplesIntegratedOnce
  <2> SUFFICES ASSUME LioInv, NEW i \in 1 .. Len(used) - 1 PROVE used[i + 1] = used[i] + 1
    BY DEF SamplesIntegratedOnce
  <2>1. CASE used = <<>>
    <3>1. Len(used) = 0
      BY <2>1
    <3> QED BY <3>1
  <2>2. CASE used # <<>>
    <3> DEFINE no == imuDeque[1].no
    <3> DEFINE n == Len(used)
    <3>1. FollowedBy(used, no) /\ Waiting(imuDeque, [no |-> heard, time |-> lastImu])
      BY <2>2 DEF LioInv, LoopFollows, SamplesWait
    <3>2. /\ used \in Seq(Int) /\ n \in Nat /\ \A k \in 1 .. n : used[k] = no - ((n + 1) - k)
      BY <3>1, LenProperties DEF FollowedBy
    <3>3. no \in Nat
      <4>1. imuDeque \in Seq(Sample) /\ imuDeque # <<>>
        BY <3>1 DEF Waiting
      <4>2. imuDeque[1] \in Sample
        BY <4>1, HeadTailProperties
      <4> QED BY <4>2 DEF Sample
    <3> HIDE DEF no, n
    <3>4. i \in 1 .. n /\ i + 1 \in 1 .. n
      BY <3>2 DEF n
    <3>5. no - ((n + 1) - (i + 1)) = (no - ((n + 1) - i)) + 1
      BY <3>2, <3>3, <3>4
    <3>6. used[i + 1] = no - ((n + 1) - (i + 1)) /\ used[i] = no - ((n + 1) - i)
      BY <3>2, <3>4, Zenon
    <3> QED BY <3>5, <3>6
  <2> QED BY <2>1, <2>2
<1> QED BY <1>1, <1>2, <1>3, PTL DEF LioSpec

-------------------------------------------------------------------------------
(* The map->odom authority. *)

USE ModeAssumption, TimeAssumption, ToleranceAssumption

\* What the four safety properties rest on, and what they need of each other: only
\* the SLAM mode ever has a pose pending, and a value whose source is known is the
\* result of that source.
SourceInv ==
  /\ pending # None => mode = "slam"
  /\ hasSource => current = lastSource

IInv == TypeOK /\ SourceInv /\ SourceNotAhead /\ PendingNewer

-------------------------------------------------------------------------------
\* Every read of the clock leaves what is known of the source, and the pose that
\* is kept, within the tolerance of the time that was read.
LEMMA ReadInWindow ==
  ASSUME IInv
  PROVE  /\ SourceKnown => lastSource <= clock + FutureTol
         /\ PoseKept # None => PoseKept <= clock + FutureTol
         /\ PoseKept # None /\ SourceKnown => PoseKept > lastSource
         /\ PoseKept \in Stamps \cup {None}
         /\ SourceKnown \in BOOLEAN
         /\ SourceKnown => current = lastSource
         /\ PoseKept # None => mode = "slam"
BY DEF IInv, TypeOK, SourceInv, SourceNotAhead, PendingNewer, SourceKnown, PoseKept, Rewound,
       None

LEMMA TypeCorrect == IInv /\ [Next]_vars => TypeOK'
<1> SUFFICES ASSUME IInv, [Next]_vars PROVE TypeOK'
  OBVIOUS
<1> USE DEF None
<1>t. TypeOK
  BY DEF IInv
<1>0. PoseKept \in Stamps \cup {None} /\ SourceKnown \in BOOLEAN
  BY ReadInWindow
<1>b. ReadBuffer \subseteq Stamps
  BY <1>t DEF TypeOK, ReadBuffer
<1>1. ASSUME NEW s \in Stamps, OnGicp(s) PROVE TypeOK'
  BY <1>t, <1>0, <1>b, <1>1 DEF TypeOK, OnGicp, ReadClock, Accept, Hold, control, outputs
<1>2. ASSUME NEW s \in Stamps, OnSlam(s) PROVE TypeOK'
  BY <1>t, <1>0, <1>b, <1>2 DEF TypeOK, OnSlam, ReadClock, Hold, outputs
<1>3. CASE NothingPending
  BY <1>t, <1>3 DEF TypeOK, NothingPending, source, outputs
<1>4. CASE TrySlam
  BY <1>t, <1>0, <1>b, <1>4 DEF TypeOK, TrySlam, ReadClock, Hold, outputs
<1>5. CASE AcceptSlam
  BY <1>t, <1>0, <1>b, <1>5 DEF TypeOK, AcceptSlam, ReadClock, Accept, Valid, Hold, outputs
<1>6. CASE Tick
  BY <1>t, <1>0, <1>b, <1>6 DEF TypeOK, Tick, ReadClock, Hold, outputs
<1>7. CASE Publish
  BY <1>t, <1>7 DEF TypeOK, Publish, source
<1>8. CASE PublishStatus
  BY <1>t, <1>0, <1>b, <1>8 DEF TypeOK, PublishStatus, ReadClock, Hold, Status, control
<1>9. ASSUME NEW t \in Times, SetClock(t) PROVE TypeOK'
  BY <1>t, <1>9 DEF TypeOK, SetClock, control, source, outputs
<1>10. ASSUME NEW s \in Stamps, TfArrives(s) PROVE TypeOK'
  BY <1>t, <1>10 DEF TypeOK, TfArrives, control, source, outputs
<1>11. CASE UNCHANGED vars
  BY <1>t, <1>11 DEF TypeOK, vars
<1> QED
  BY <1>1, <1>2, <1>3, <1>4, <1>5, <1>6, <1>7, <1>8, <1>9, <1>10, <1>11 DEF Next, Callback

\* The three invariants a read of the clock and an accepted result could break.
Window == SourceInv /\ SourceNotAhead /\ PendingNewer

LEMMA WindowKept == IInv /\ [Next]_vars => Window'
<1> SUFFICES ASSUME IInv, [Next]_vars PROVE Window'
  OBVIOUS
<1> USE DEF None
<1> DEFINE Typed == /\ mode \in Modes /\ clock \in Times /\ lastNow \in Times
                    /\ lastSource \in Stamps \cup {0} /\ pending \in Stamps \cup {None}
<1>t. Typed
  BY DEF IInv, TypeOK
<1>w. Window
  BY DEF IInv, Window
<1>0. /\ SourceKnown => lastSource <= clock + FutureTol
      /\ PoseKept # None => PoseKept <= clock + FutureTol
      /\ PoseKept # None /\ SourceKnown => PoseKept > lastSource
      /\ PoseKept \in Stamps \cup {None}
      /\ SourceKnown \in BOOLEAN
      /\ SourceKnown => current = lastSource
      /\ PoseKept # None => mode = "slam"
  BY ReadInWindow
<1> USE DEF Window, SourceInv, SourceNotAhead, PendingNewer
<1>1. ASSUME NEW s \in Stamps, OnGicp(s) PROVE Window'
  <2>1. s > 0 /\ Valid(s) => s <= clock + FutureTol
    BY <1>t DEF Valid
  <2> QED
    BY <1>0, <1>1, <1>t, <2>1 DEF OnGicp, ReadClock, Accept, Hold, Valid
<1>2. ASSUME NEW s \in Stamps, OnSlam(s) PROVE Window'
  <2>1. Valid(s) => s <= clock + FutureTol
    BY <1>t DEF Valid
  <2>2. Valid(s) /\ SourceKnown => s > lastSource
    BY DEF Valid
  <2> QED
    BY <1>0, <1>2, <1>t, <2>1, <2>2 DEF OnSlam, ReadClock, Hold
<1>3. CASE NothingPending
  BY <1>w, <1>3 DEF NothingPending, source
<1>4. CASE TrySlam
  BY <1>0, <1>t, <1>4 DEF TrySlam, ReadClock, Hold
<1>5. CASE AcceptSlam
  <2>1. msg \in Int
    BY DEF IInv, TypeOK
  <2>2. Valid(msg) => msg <= clock + FutureTol
    BY <1>t, <2>1 DEF Valid
  <2> QED
    BY <1>0, <1>5, <1>t, <2>1, <2>2 DEF AcceptSlam, ReadClock, Accept, Hold
<1>6. CASE Tick
  BY <1>0, <1>t, <1>6 DEF Tick, ReadClock, Hold
<1>7. CASE Publish
  BY <1>w, <1>7 DEF Publish, source
<1>8. CASE PublishStatus
  BY <1>0, <1>t, <1>8 DEF PublishStatus, ReadClock, Hold
<1>9. ASSUME NEW t \in Times, SetClock(t) PROVE Window'
  BY <1>w, <1>9 DEF SetClock, source
<1>10. ASSUME NEW s \in Stamps, TfArrives(s) PROVE Window'
  BY <1>w, <1>10 DEF TfArrives, source
<1>11. CASE UNCHANGED vars
  BY <1>w, <1>11 DEF vars
<1> QED
  BY <1>1, <1>2, <1>3, <1>4, <1>5, <1>6, <1>7, <1>8, <1>9, <1>10, <1>11 DEF Next, Callback

LEMMA InitIInv == Init => IInv
BY DEF Init, IInv, TypeOK, SourceInv, SourceNotAhead, PendingNewer, None

-------------------------------------------------------------------------------
\* The inductive invariant of the manager.
THEOREM Invariance == Spec => []IInv
<1>1. IInv /\ [Next]_vars => IInv'
  BY TypeCorrect, WindowKept DEF IInv, Window
<1> QED
  BY InitIInv, <1>1, PTL DEF Spec

\* Types, for every clock and set of stamps.
THEOREM TypeInvariance == Spec => []TypeOK
<1>1. IInv => TypeOK
  BY DEF IInv
<1> QED
  BY Invariance, <1>1, PTL

\* No clock jump between two reads leaves a source stamp in use that lies further
\* ahead than the tolerance (nowNs and validStamp).
THEOREM SourceNeverAhead == Spec => []SourceNotAhead
<1>1. IInv => SourceNotAhead
  BY DEF IInv
<1> QED
  BY Invariance, <1>1, PTL

\* A pose that waits for its transform is newer than the result in use (trySlam).
THEOREM PendingAlwaysNewer == Spec => []PendingNewer
<1>1. IInv => PendingNewer
  BY DEF IInv
<1> QED
  BY Invariance, <1>1, PTL

\* Results in use, pending poses and the time read stay in order (nowNs, validStamp,
\* trySlam).
THEOREM TimesAlwaysInOrder == Spec => []TimesInOrder
<1>1. IInv => TimesInOrder
  BY DEF IInv, TimesInOrder
<1> QED
  BY Invariance, <1>1, PTL

\* The held value is replaced by accepted results only, in the order of their
\* stamps unless the clock was found rewound (accept).
THEOREM HeldValueNeverRegresses == Spec => NoRegression
<1> DEFINE Replaced == /\ hasSource' /\ lastSource' = current'
                       /\ current' > current \/ ~hasSource \/ clock < lastNow
<1>1. ASSUME IInv, [Next]_vars, current' # current PROVE Replaced
  <2>1. hasSource => current = lastSource
    BY <1>1 DEF IInv, SourceInv
  <2>2. ASSUME NEW s, Accept(s) PROVE Replaced
    <3>1. Valid(s) /\ current' = s /\ lastSource' = s /\ hasSource'
      BY <1>1, <2>2 DEF Accept, Hold
    <3> QED
      BY <2>1, <3>1 DEF Valid, SourceKnown, Rewound
  <2>3. \/ \E s \in Stamps : OnGicp(s)
        \/ AcceptSlam
    BY <1>1 DEF Next, Callback, OnSlam, NothingPending, TrySlam, Tick, Publish, PublishStatus,
                SetClock, TfArrives, Hold, source, vars
  <2> QED
    BY <2>2, <2>3 DEF OnGicp, AcceptSlam
<1>2. IInv /\ [Next]_vars => (current' # current => Replaced)
  BY <1>1
<1>3. IInv /\ [Next]_vars =>
        [current' # current =>
           /\ hasSource' /\ lastSource' = current'
           /\ current' > current \/ ~hasSource \/ clock < lastNow]_vars
  BY <1>2
<1> QED
  BY Invariance, <1>3, PTL DEF Spec, NoRegression

\* TRACKING is reported only of a result within the window (publishStatus).
THEOREM TrackingAlwaysFresh == Spec => TrackingIsFresh
<1> DEFINE Fresh == /\ hasResult
                    /\ clock - lastSource <= Timeout
                    /\ lastSource <= clock + FutureTol
<1>1. ASSUME IInv, [Next]_vars, lastStatus' # lastStatus, state' = "TRACKING" PROVE Fresh
  <2>1. PublishStatus
    BY <1>1 DEF Next, Callback, OnGicp, OnSlam, NothingPending, TrySlam, AcceptSlam, Tick,
                Publish, SetClock, TfArrives, outputs, vars
  <2>2. Status = "TRACKING"
    BY <1>1, <2>1 DEF PublishStatus
  <2>3. hasResult /\ SourceKnown /\ ~(clock - lastSource > Timeout)
    BY <1>1, <2>2 DEF Status, IInv, TypeOK
  <2>4. clock \in Int /\ lastSource \in Int
    BY <1>1 DEF IInv, TypeOK
  <2> QED
    BY <1>1, <2>3, <2>4, ReadInWindow
<1>2. IInv /\ [Next]_vars =>
        [lastStatus' # lastStatus /\ state' = "TRACKING" =>
           /\ hasResult
           /\ clock - lastSource <= Timeout
           /\ lastSource <= clock + FutureTol]_vars
  BY <1>1
<1> QED
  BY Invariance, <1>2, PTL DEF Spec, TrackingIsFresh

-------------------------------------------------------------------------------
\* A result under way is a pose that a registration at its stamp has found.
Results == {[stamp |-> t, pose |-> t] : t \in matched}
HeldInv ==
  /\ mode = "gicp"
  /\ results \in Seq(Results)
  /\ hasResult => current \in matched

\* What the manager does with a result, and with anything else.
LEMMA AcceptHolds ==
  ASSUME NEW s \in matched, HeldInv, Accept(s)
  PROVE  hasResult' => current' \in matched
BY DEF Accept, Hold, HeldInv

\* The manager's own steps, the delivery of a result and the relocalization's steps keep what
\* is known of the held value.
LEMMA ManagingHolds ==
  ASSUME HeldInv, Managing PROVE HeldInv'
<1>1. UNCHANGED <<mode, hasResult, current>>
  BY DEF Managing, NothingPending, TrySlam, Tick, Publish, PublishStatus, SetClock, Hold, source
<1>2. UNCHANGED <<results, matched>>
  BY DEF Managing, gicpVars
<1> QED BY <1>1, <1>2 DEF HeldInv, Results

LEMMA ResultIsMatched ==
  ASSUME NEW r \in Results PROVE r.stamp \in matched /\ r.pose = r.stamp
BY DEF Results

LEMMA DeliverHolds ==
  ASSUME HeldInv, Deliver PROVE HeldInv'
<1>1. results \in Seq(Results) /\ results # <<>> /\ results' = Tail(results)
      /\ mode' = mode /\ matched' = matched /\ Accept(Head(results).stamp)
  BY DEF HeldInv, Deliver, OnGicp
<1>2. Head(results) \in Results /\ results' \in Seq(Results)
  BY <1>1, HeadTailProperties
<1>3. Head(results).stamp \in matched
  BY <1>2, ResultIsMatched, Zenon
<1>4. hasResult' => current' \in matched
  BY <1>1, <1>3, AcceptHolds
<1> QED BY <1>1, <1>2, <1>4 DEF HeldInv, Results

LEMMA RegisteringHolds ==
  ASSUME HeldInv, GicpNext, UNCHANGED vars PROVE HeldInv'
<1>1. mode' = mode /\ hasResult' = hasResult /\ current' = current
  BY DEF vars
<1>2. CASE Accepted
  <2> DEFINE result == [stamp |-> lastScan, pose |-> lastScan]
  <2>1. matched' = matched \cup {lastScan} /\ results' = Append(results, result)
    BY <1>2 DEF Accepted
  <2>2. Results \subseteq Results' /\ result \in Results'
    BY <2>1 DEF Results
  <2>3. results \in Seq(Results')
    BY <2>2, SeqMonotonic DEF HeldInv
  <2> HIDE DEF result
  <2>4. results' \in Seq(Results')
    BY <2>1, <2>2, <2>3, AppendProperties
  <2> QED BY <1>1, <2>1, <2>4 DEF HeldInv
<1>3. CASE results' = results /\ matched' = matched
  BY <1>1, <1>3 DEF HeldInv, Results
<1>4. \/ Accepted
      \/ results' = results /\ matched' = matched
  BY DEF GicpNext, InitializeTarget, Rejected, InitialPose2d, RegisteredPcd
<1> QED BY <1>2, <1>3, <1>4

\* performRegistration and the manager's callback: only what a registration has found is
\* under way to the manager, and it holds nothing else.
THEOREM HeldAlwaysMatched == LocalizationSpec => []OnlyMatchesHeld
<1>1. LocalizationInit => HeldInv
  BY EmptySeq DEF LocalizationInit, Init, GicpInit, HeldInv
<1>2. HeldInv /\ [LocalizationNext]_<<vars, gicpVars>> => HeldInv'
  <2>1. HeldInv /\ UNCHANGED <<vars, gicpVars>> => HeldInv'
    BY DEF vars, gicpVars, HeldInv, Results
  <2> QED BY <2>1, ManagingHolds, DeliverHolds, RegisteringHolds DEF LocalizationNext
<1>3. HeldInv => OnlyMatchesHeld
  <2> SUFFICES ASSUME HeldInv, NEW i \in DOMAIN results
               PROVE  results[i].pose = results[i].stamp
    BY DEF OnlyMatchesHeld, HeldInv
  <2>1. results[i] \in Results
    BY ElementOfSeq, LenProperties DEF HeldInv
  <2> QED BY <2>1 DEF Results
<1> QED BY <1>1, <1>2, <1>3, PTL DEF LocalizationSpec

-------------------------------------------------------------------------------
(* Elements picked from a sequence. *)

\* f follows the loop that picks.
PicksAlong(f, s, ns, S) ==
  /\ f \in [0 .. Len(s) -> Seq(S)] /\ f[0] = <<>> /\ Pick(s, ns) = f[Len(s)]
  /\ \A n \in 1 .. Len(s) : f[n] = IF n \in ns THEN Append(f[n - 1], s[n]) ELSE f[n - 1]

\* There is such a function.
LEMMA PickRuns ==
  ASSUME NEW S, NEW s \in Seq(S), NEW ns
  PROVE  \E f : PicksAlong(f, s, ns, S)
<1> DEFINE Q == Seq(S)
<1> DEFINE N == Len(s)
<1> DEFINE next(n, x) == IF n \in ns THEN Append(x, s[n]) ELSE x
<1> DEFINE some[n \in 0 .. N] == IF n = 0 THEN <<>> ELSE next(n, some[n - 1])
<1> DEFINE step == [d \in (1 .. N) \X Q |-> next(d[1], d[2])]
<1>1. N \in Nat /\ \A n \in 1 .. N : s[n] \in S
  BY LenProperties, ElementOfSeq
<1>2. Pick(s, ns) = some[N]
  BY DEF Pick
<1>3. \A n \in 1 .. N, x \in Q : next(n, x) \in Q
  BY <1>1, AppendProperties
<1>4. <<>> \in Q
  OBVIOUS
<1> HIDE DEF N, Q
<1>5. step \in StepsOf(N, Q) /\ \A n \in 1 .. N, x \in Q : step[<<n, x>>] = next(n, x)
  BY <1>3 DEF StepsOf
<1> HIDE DEF step, next
<1>6. PICK f : Unrolls(f, <<>>, N, Q, step)
  BY <1>1, <1>4, <1>5, Recursion
<1>7. f \in [0 .. N -> Q] /\ f[0] = <<>> /\ \A n \in 1 .. N : f[n] = step[<<n, f[n - 1]>>]
  BY <1>6 DEF Unrolls
<1>8. ASSUME NEW n \in 1 .. N PROVE f[n] = next(n, f[n - 1])
  <2>1. f[n - 1] \in Q
    BY <1>1, <1>7
  <2> QED BY <1>5, <1>7, <2>1
<1>9. f = [n \in 0 .. N |-> IF n = 0 THEN <<>> ELSE next(n, f[n - 1])]
  BY <1>7, <1>8
<1>10. some = [n \in 0 .. N |-> IF n = 0 THEN <<>> ELSE next(n, some[n - 1])]
  BY <1>9
<1> HIDE DEF some
<1>11. \A n \in 0 .. N : some[n] = IF n = 0 THEN <<>> ELSE next(n, some[n - 1])
  BY <1>10
<1> DEFINE T == {n \in 0 .. N : some[n] \in Q}
<1>12. 0 \in T
  BY <1>1, <1>4, <1>11
<1>13. ASSUME NEW n \in 1 .. N, n - 1 \in T PROVE n \in T
  <2>1. some[n] = next(n, some[n - 1]) /\ n \in 0 .. N
    BY <1>1, <1>11
  <2> QED BY <1>3, <1>13, <2>1 DEF next
<1>14. 0 .. N \subseteq T
  <2> HIDE DEF T
  <2> QED BY <1>1, <1>12, <1>13, UpTo
<1>15. some \in [0 .. N -> Q] /\ some[0] = <<>> /\ \A n \in 1 .. N : some[n] = next(n, some[n - 1])
  <2>1. some[0] = <<>> /\ \A n \in 1 .. N : some[n] = next(n, some[n - 1])
    BY <1>1, <1>11
  <2>2. \A n \in 0 .. N : some[n] \in Q
    BY <1>14
  <2>3. DOMAIN some = 0 .. N /\ some = [n \in 0 .. N |-> some[n]]
    BY <1>10
  <2>4. some \in [0 .. N -> Q]
    BY <2>2, <2>3
  <2> QED BY <2>1, <2>4
<1>16. PicksAlong(some, s, ns, S)
  BY <1>2, <1>15 DEF PicksAlong, N, Q, next
<1> QED BY <1>16

\* Only the places count that the sequence has.
LEMMA PickSame ==
  ASSUME NEW S, NEW s \in Seq(S), NEW ns, NEW ms, \A n \in 1 .. Len(s) : n \in ns <=> n \in ms
  PROVE  Pick(s, ns) = Pick(s, ms)
<1>1. PICK f : PicksAlong(f, s, ns, S)
  BY PickRuns
<1>2. PICK g : PicksAlong(g, s, ms, S)
  BY PickRuns
<1> DEFINE T == {n \in 0 .. Len(s) : f[n] = g[n]}
<1>3. Len(s) \in Nat
  BY LenProperties
<1>4. 0 \in T
  BY <1>1, <1>2, <1>3 DEF PicksAlong
<1>5. ASSUME NEW n \in 1 .. Len(s), n - 1 \in T PROVE n \in T
  BY <1>1, <1>2, <1>3, <1>5 DEF PicksAlong
<1>6. Len(s) \in T
  <2> HIDE DEF T
  <2>1. 0 .. Len(s) \subseteq T
    BY <1>3, <1>4, <1>5, UpTo
  <2> QED BY <1>3, <2>1
<1> QED BY <1>1, <1>2, <1>6 DEF PicksAlong

\* What is picked is a sequence of elements at those places.
LEMMA PickMembers ==
  ASSUME NEW S, NEW s \in Seq(S), NEW ns
  PROVE  /\ Pick(s, ns) \in Seq(S)
         /\ \A j \in 1 .. Len(Pick(s, ns)) : \E k \in ns \cap (1 .. Len(s)) : Pick(s, ns)[j] = s[k]
<1>1. PICK f : PicksAlong(f, s, ns, S)
  BY PickRuns
<1>2. Len(s) \in Nat /\ \A n \in 1 .. Len(s) : s[n] \in S
  BY LenProperties, ElementOfSeq
<1>3. /\ f \in [0 .. Len(s) -> Seq(S)] /\ f[0] = <<>> /\ Pick(s, ns) = f[Len(s)]
      /\ \A n \in 1 .. Len(s) : f[n] = IF n \in ns THEN Append(f[n - 1], s[n]) ELSE f[n - 1]
  BY <1>1 DEF PicksAlong
<1> DEFINE Good(t) == \A j \in 1 .. Len(t) : \E k \in ns \cap (1 .. Len(s)) : t[j] = s[k]
<1> DEFINE T == {n \in 0 .. Len(s) : Good(f[n])}
<1>4. 0 \in T
  BY <1>2, <1>3
<1>5. ASSUME NEW n \in 1 .. Len(s), n - 1 \in T PROVE n \in T
  <2>1. Good(f[n - 1]) /\ f[n - 1] \in Seq(S) /\ n \in 0 .. Len(s)
    <3>1. n - 1 \in 0 .. Len(s) /\ n \in 0 .. Len(s)
      BY <1>2
    <3>2. f[n - 1] \in Seq(S)
      BY <1>3, <3>1
    <3>3. Good(f[n - 1])
      BY <1>5
    <3> HIDE DEF Good
    <3> QED BY <3>1, <3>2, <3>3
  <2>2. CASE n \in ns
    <3> DEFINE t == f[n - 1]
    <3>1. f[n] = Append(t, s[n]) /\ t \in Seq(S) /\ Good(t)
      BY <1>3, <2>1, <2>2
    <3> HIDE DEF t, Good
    <3>2. /\ Len(Append(t, s[n])) = Len(t) + 1 /\ Len(t) \in Nat
          /\ \A i \in 1 .. Len(t) : Append(t, s[n])[i] = t[i]
          /\ Append(t, s[n])[Len(t) + 1] = s[n]
      BY <1>2, <3>1, AppendProperties, LenProperties
    <3>3. ASSUME NEW j \in 1 .. Len(t) + 1
          PROVE  \E k \in ns \cap (1 .. Len(s)) : Append(t, s[n])[j] = s[k]
      <4>1. CASE j \in 1 .. Len(t)
        BY <3>1, <3>2, <4>1 DEF Good
      <4>2. CASE j = Len(t) + 1
        BY <2>2, <3>2, <4>2
      <4> QED BY <3>2, <4>1, <4>2
    <3>4. Good(f[n])
      BY <3>1, <3>2, <3>3 DEF Good
    <3> QED BY <2>1, <3>4
  <2>3. CASE n \notin ns
    <3>1. f[n] = f[n - 1]
      BY <1>3, <2>3
    <3> HIDE DEF Good
    <3> QED BY <2>1, <3>1
  <2> QED BY <2>2, <2>3
<1>6. Len(s) \in T
  <2> HIDE DEF T
  <2>1. 0 .. Len(s) \subseteq T
    BY <1>2, <1>4, <1>5, UpTo
  <2> QED BY <1>2, <2>1
<1>7. Pick(s, ns) \in Seq(S)
  BY <1>2, <1>3
<1> QED BY <1>3, <1>6, <1>7

\* One element more.
LEMMA PickMore ==
  ASSUME NEW S, NEW s \in Seq(S), NEW x \in S, NEW ns
  PROVE  Pick(Append(s, x), ns) =
           IF Len(s) + 1 \in ns THEN Append(Pick(s, ns), x) ELSE Pick(s, ns)
<1> DEFINE t == Append(s, x)
<1>0. /\ t \in Seq(S) /\ Len(t) = Len(s) + 1 /\ Len(s) \in Nat
      /\ \A i \in 1 .. Len(s) : t[i] = s[i]
      /\ t[Len(s) + 1] = x
  BY AppendProperties, LenProperties
<1> HIDE DEF t
<1>1. PICK f : PicksAlong(f, s, ns, S)
  BY PickRuns
<1>2. PICK g : PicksAlong(g, t, ns, S)
  BY <1>0, PickRuns
<1>3. /\ f[0] = <<>> /\ Pick(s, ns) = f[Len(s)]
      /\ \A n \in 1 .. Len(s) : f[n] = IF n \in ns THEN Append(f[n - 1], s[n]) ELSE f[n - 1]
  BY <1>1 DEF PicksAlong
<1>4. /\ g[0] = <<>> /\ Pick(t, ns) = g[Len(s) + 1]
      /\ \A n \in 1 .. Len(s) + 1 : g[n] = IF n \in ns THEN Append(g[n - 1], t[n]) ELSE g[n - 1]
  BY <1>0, <1>2 DEF PicksAlong
<1> DEFINE T == {n \in 0 .. Len(s) : f[n] = g[n]}
<1>5. 0 \in T
  BY <1>0, <1>3, <1>4
<1>6. ASSUME NEW n \in 1 .. Len(s), n - 1 \in T PROVE n \in T
  <2>1. n \in 1 .. Len(s) + 1 /\ n \in 0 .. Len(s) /\ f[n - 1] = g[n - 1] /\ t[n] = s[n]
    BY <1>0, <1>6
  <2> QED BY <1>3, <1>4, <2>1
<1>7. Len(s) \in T
  <2> HIDE DEF T
  <2>1. 0 .. Len(s) \subseteq T
    BY <1>0, <1>5, <1>6, UpTo
  <2> QED BY <1>0, <2>1
<1>8. (Len(s) + 1) - 1 = Len(s) /\ Len(s) + 1 \in 1 .. Len(s) + 1
  BY <1>0
<1>9. Pick(t, ns) = IF Len(s) + 1 \in ns THEN Append(g[Len(s)], x) ELSE g[Len(s)]
  BY <1>0, <1>4, <1>8
<1> QED BY <1>3, <1>7, <1>9 DEF t

\* Nothing from no place.
LEMMA PickNothing ==
  ASSUME NEW S, NEW s \in Seq(S), NEW ns, \A n \in 1 .. Len(s) : n \notin ns
  PROVE  Pick(s, ns) = <<>>
<1>1. Pick(s, ns) \in Seq(S)
  BY PickMembers
<1>2. \A j \in 1 .. Len(Pick(s, ns)) : FALSE
  BY PickMembers
<1>3. Len(Pick(s, ns)) = 0
  BY <1>1, <1>2, LenProperties
<1> QED BY <1>1, <1>3, EmptySeq

-------------------------------------------------------------------------------
(* The grids in the order in which they were used. *)

\* The grids of the points with the numbers a to b.
Used(l, a, b) == {Pos2Grid(l[k]) : k \in a .. b}
\* As far as l goes there was never, since the point n was added, a stretch in which it
\* would have been forgotten.
Stays(l, n) ==
  \A a \in n + 1 .. Len(l) : \A b \in a .. Len(l) :
    Pos2Grid(l[n]) \in Used(l, a, b) \/ Cardinality(Used(l, a, b)) < Capacity - 1
PlacesOf(l, g) == {n \in 1 .. Len(l) : Stays(l, n) /\ Pos2Grid(l[n]) = g}
GridsBefore(c, i) == {c[k].grid : k \in 1 .. i - 1}

\* After the last point of a grid came those of the grids before it in the list, and no other;
\* a grid holds its points that stay, and every point that stays has its grid there.
InOrderOfUse(st) ==
  /\ \A i, j \in 1 .. Len(st.cache) : st.cache[i].grid = st.cache[j].grid => i = j
  /\ st.keys = {st.cache[i].grid : i \in 1 .. Len(st.cache)} /\ Len(st.cache) < Capacity
  /\ \A i \in 1 .. Len(st.cache) : \E last \in 1 .. Len(st.log) :
       /\ Pos2Grid(st.log[last]) = st.cache[i].grid
       /\ Used(st.log, last + 1, Len(st.log)) = GridsBefore(st.cache, i)
  /\ \A n \in 1 .. Len(st.log) : Stays(st.log, n) => Pos2Grid(st.log[n]) \in st.keys
  /\ \A i \in 1 .. Len(st.cache) :
       st.cache[i].points = Pick(st.log, PlacesOf(st.log, st.cache[i].grid))
GridOfPoints == [grid : Int, points : Seq(Int)]
VoxelMap ==
  {st \in [cache : Seq(GridOfPoints), keys : SUBSET Int, log : Seq(Int)] : InOrderOfUse(st)}

\* A position has a grid.
LEMMA GridOfPosition ==
  ASSUME NEW p \in Int
  PROVE  Pos2Grid(p) \in Int
<1>1. CellSize \in Nat \ {0} /\ GridCells \in Nat \ {0}
  BY LocalMapAssumption
<1>2. p \div CellSize \in Int
  BY <1>1, Quotient
<1>3. (p \div CellSize) \div GridCells \in Int
  BY <1>1, <1>2, Quotient
<1> QED BY <1>3 DEF Pos2Grid, Cell

\* As many keys as grids.
LEMMA KeysCount ==
  ASSUME NEW st \in VoxelMap
  PROVE  /\ IsFiniteSet(st.keys) /\ Cardinality(st.keys) = Len(st.cache)
         /\ Len(st.cache) \in Nat
<1> DEFINE n == Len(st.cache)
<1> DEFINE f == [i \in 1 .. n |-> st.cache[i].grid]
<1>1. /\ st.cache \in Seq(GridOfPoints) /\ st.keys = {st.cache[i].grid : i \in 1 .. n}
      /\ \A i, j \in 1 .. n : st.cache[i].grid = st.cache[j].grid => i = j
  BY DEF VoxelMap, InOrderOfUse
<1>2. n \in Nat
  BY <1>1, LenProperties
<1> HIDE DEF n
<1>3. f \in [1 .. n -> st.keys] /\ (\A i, j \in 1 .. n : f[i] = f[j] => i = j)
  BY <1>1
<1>4. \A k \in st.keys : \E i \in 1 .. n : f[i] = k
  BY <1>1
<1>5. f \in Bijection(1 .. n, st.keys)
  <2> HIDE DEF f
  <2> QED BY <1>3, <1>4 DEF Bijection, Injection, Surjection, IsInjective
<1>6. IsFiniteSet(1 .. n) /\ Cardinality(1 .. n) = n
  BY <1>2, FS_Interval
<1>7. ExistsBijection(1 .. n, st.keys)
  BY <1>5 DEF ExistsBijection
<1> QED BY <1>2, <1>6, <1>7, FS_Bijection DEF n

\* One point more: what was used since, and what stays.
LEMMA UsedMore ==
  ASSUME NEW l \in Seq(Int), NEW p \in Int, NEW a \in 1 .. Len(l) + 1
  PROVE  /\ \A b \in 0 .. Len(l) : Used(Append(l, p), a, b) = Used(l, a, b)
         /\ Used(Append(l, p), a, Len(l) + 1) = Used(l, a, Len(l)) \cup {Pos2Grid(p)}
<1> DEFINE t == Append(l, p)
<1>1. /\ Len(l) \in Nat /\ \A i \in 1 .. Len(l) : t[i] = l[i]
      /\ t[Len(l) + 1] = p
  BY AppendProperties, LenProperties
<1> HIDE DEF t
<1>2. ASSUME NEW b \in 0 .. Len(l) PROVE Used(t, a, b) = Used(l, a, b)
  <2>1. \A k \in a .. b : t[k] = l[k]
    BY <1>1
  <2> QED BY <2>1 DEF Used
<1>3. Used(t, a, Len(l) + 1) = Used(l, a, Len(l)) \cup {Pos2Grid(p)}
  <2>1. \A k \in a .. Len(l) + 1 : (k \in a .. Len(l) /\ t[k] = l[k]) \/ (k = Len(l) + 1 /\ t[k] = p)
    BY <1>1
  <2>2. /\ \A k \in a .. Len(l) : k \in a .. Len(l) + 1 /\ t[k] = l[k]
        /\ Len(l) + 1 \in a .. Len(l) + 1
    BY <1>1
  <2> QED BY <1>1, <2>1, <2>2 DEF Used
<1> QED BY <1>2, <1>3 DEF t

\* A point that stays has stayed before; and it does if its grid is the new point's, or if
\* the grids used since the last point of its own are few.
LEMMA StaysMore ==
  ASSUME NEW l \in Seq(Int), NEW p \in Int, NEW n \in 1 .. Len(l)
  PROVE  /\ Stays(Append(l, p), n) <=>
              /\ Stays(l, n)
              /\ \A a \in n + 1 .. Len(l) + 1 :
                   \/ Pos2Grid(l[n]) \in Used(l, a, Len(l)) \cup {Pos2Grid(p)}
                   \/ Cardinality(Used(l, a, Len(l)) \cup {Pos2Grid(p)}) < Capacity - 1
<1> DEFINE t == Append(l, p)
<1> DEFINE N == Len(l)
<1>1. N \in Nat /\ Len(t) = N + 1 /\ t[n] = l[n]
  BY AppendProperties, LenProperties
<1>2. \A a \in n + 1 .. N + 1 :
        /\ \A b \in 0 .. N : Used(t, a, b) = Used(l, a, b)
        /\ Used(t, a, N + 1) = Used(l, a, N) \cup {Pos2Grid(p)}
  <2> SUFFICES ASSUME NEW a \in n + 1 .. N + 1
               PROVE  /\ \A b \in 0 .. N : Used(t, a, b) = Used(l, a, b)
                      /\ Used(t, a, N + 1) = Used(l, a, N) \cup {Pos2Grid(p)}
    OBVIOUS
  <2>1. a \in 1 .. N + 1
    BY <1>1
  <2> QED BY <2>1, UsedMore
<1> HIDE DEF t, N
<1> DEFINE Few(u) == Pos2Grid(l[n]) \in u \/ Cardinality(u) < Capacity - 1
<1>3. Stays(t, n) <=> \A a \in n + 1 .. N + 1 : \A b \in a .. N + 1 : Few(Used(t, a, b))
  BY <1>1 DEF Stays
<1>4. Stays(l, n) <=> \A a \in n + 1 .. N : \A b \in a .. N : Few(Used(l, a, b))
  BY DEF Stays, N
<1> HIDE DEF Few
<1>5. n \in 1 .. N
  BY DEF N
<1>6. ASSUME Stays(t, n)
      PROVE  Stays(l, n) /\ \A a \in n + 1 .. N + 1 : Few(Used(l, a, N) \cup {Pos2Grid(p)})
  <2>1. ASSUME NEW a \in n + 1 .. N, NEW b \in a .. N PROVE Few(Used(l, a, b))
    <3>1. a \in n + 1 .. N + 1 /\ b \in a .. N + 1 /\ b \in 0 .. N
      BY <1>1, <1>5
    <3>2. Few(Used(t, a, b)) /\ Used(t, a, b) = Used(l, a, b)
      BY <1>2, <1>3, <1>6, <3>1
    <3> QED BY <3>2
  <2>2. ASSUME NEW a \in n + 1 .. N + 1 PROVE Few(Used(l, a, N) \cup {Pos2Grid(p)})
    <3>1. N + 1 \in a .. N + 1
      BY <1>1, <1>5
    <3>2. Few(Used(t, a, N + 1)) /\ Used(t, a, N + 1) = Used(l, a, N) \cup {Pos2Grid(p)}
      BY <1>2, <1>3, <1>6, <3>1
    <3> QED BY <3>2
  <2> QED BY <1>4, <2>1, <2>2
<1>7. ASSUME Stays(l, n), \A a \in n + 1 .. N + 1 : Few(Used(l, a, N) \cup {Pos2Grid(p)})
      PROVE  Stays(t, n)
  <2> SUFFICES ASSUME NEW a \in n + 1 .. N + 1, NEW b \in a .. N + 1 PROVE Few(Used(t, a, b))
    BY <1>3
  <2>1. CASE b = N + 1
    <3>1. Used(t, a, b) = Used(l, a, N) \cup {Pos2Grid(p)}
      BY <1>2, <2>1
    <3> QED BY <1>7, <3>1
  <2>2. CASE b # N + 1
    <3>1. a \in n + 1 .. N /\ b \in a .. N /\ b \in 0 .. N
      BY <1>1, <1>5, <2>2
    <3>2. Used(t, a, b) = Used(l, a, b) /\ Few(Used(l, a, b))
      BY <1>2, <1>4, <1>7, <3>1
    <3> QED BY <3>2
  <2> QED BY <2>1, <2>2
<1> QED BY <1>6, <1>7 DEF t, N, Few

\* The points of a grid that stay, with one more.
LEMMA PlacesMore ==
  ASSUME NEW l \in Seq(Int), NEW p \in Int, NEW g
  PROVE  /\ \A n \in 1 .. Len(l) :
              n \in PlacesOf(Append(l, p), g) <=> Stays(Append(l, p), n) /\ Pos2Grid(l[n]) = g
         /\ Stays(Append(l, p), Len(l) + 1)
         /\ Len(l) + 1 \in PlacesOf(Append(l, p), g) <=> Pos2Grid(p) = g
<1> DEFINE t == Append(l, p)
<1>1. /\ Len(l) \in Nat /\ Len(t) = Len(l) + 1 /\ \A i \in 1 .. Len(l) : t[i] = l[i]
      /\ t[Len(l) + 1] = p
  BY AppendProperties, LenProperties
<1> HIDE DEF t
<1>2. Stays(t, Len(l) + 1)
  BY <1>1 DEF Stays
<1>3. Len(l) + 1 \in 1 .. Len(t) /\ 1 .. Len(l) \subseteq 1 .. Len(t)
  BY <1>1
<1> QED BY <1>1, <1>2, <1>3 DEF PlacesOf, t

\* What a grid holds, if none of its points has to go.
LEMMA PointsMore ==
  ASSUME NEW l \in Seq(Int), NEW p \in Int, NEW g,
         \A n \in PlacesOf(l, g) : Stays(Append(l, p), n)
  PROVE  Pick(Append(l, p), PlacesOf(Append(l, p), g)) =
           IF g = Pos2Grid(p) THEN Append(Pick(l, PlacesOf(l, g)), p) ELSE Pick(l, PlacesOf(l, g))
<1> DEFINE ns == PlacesOf(Append(l, p), g)
<1>1. ASSUME NEW n \in 1 .. Len(l) PROVE n \in ns <=> n \in PlacesOf(l, g)
  <2>1. n \in ns <=> Stays(Append(l, p), n) /\ Pos2Grid(l[n]) = g
    BY PlacesMore
  <2>2. Stays(Append(l, p), n) => Stays(l, n)
    BY StaysMore
  <2>3. n \in PlacesOf(l, g) <=> Stays(l, n) /\ Pos2Grid(l[n]) = g
    BY DEF PlacesOf
  <2> HIDE DEF ns
  <2> QED BY <2>1, <2>2, <2>3
<1>2. Len(l) + 1 \in ns <=> Pos2Grid(p) = g
  BY PlacesMore
<1> HIDE DEF ns
<1>3. Pick(l, ns) = Pick(l, PlacesOf(l, g))
  BY <1>1, PickSame
<1>4. Pick(Append(l, p), ns) = IF Len(l) + 1 \in ns THEN Append(Pick(l, ns), p) ELSE Pick(l, ns)
  BY PickMore
<1> QED BY <1>2, <1>3, <1>4 DEF ns

\* The grids before a place in the list are fewer than the place.
LEMMA BeforeCount ==
  ASSUME NEW c, NEW i \in Nat \ {0}
  PROVE  IsFiniteSet(GridsBefore(c, i)) /\ Cardinality(GridsBefore(c, i)) <= i - 1
<1> DEFINE f == [k \in 1 .. i - 1 |-> c[k].grid]
<1>1. IsFiniteSet(1 .. i - 1) /\ Cardinality(1 .. i - 1) = i - 1
  BY FS_Interval
<1>2. f \in Surjection(1 .. i - 1, GridsBefore(c, i))
  BY DEF Surjection, GridsBefore
<1> HIDE DEF f
<1> DEFINE a == 1 .. i - 1
<1> DEFINE b == GridsBefore(c, i)
<1>3. IsFiniteSet(a) /\ Cardinality(a) = i - 1 /\ f \in Surjection(a, b)
  BY <1>1, <1>2
<1> HIDE DEF a, b
<1>4. IsFiniteSet(b) /\ Cardinality(b) <= Cardinality(a)
  BY <1>3, FS_Surjection
<1> QED BY <1>3, <1>4 DEF b

\* With one member more a set has at most one more.
LEMMA OneMore ==
  ASSUME NEW u, IsFiniteSet(u), NEW g
  PROVE  /\ IsFiniteSet(u \cup {g}) /\ Cardinality(u \cup {g}) <= Cardinality(u) + 1
         /\ Cardinality(u) \in Nat /\ Cardinality(u \cup {g}) \in Nat
<1> DEFINE v == u \cup {g}
<1>1. Cardinality(u) \in Nat
  BY FS_CardinalityType
<1>2. CASE g \in u
  <2>1. v = u
    BY <1>2
  <2> HIDE DEF v
  <2> QED BY <1>1, <2>1 DEF v
<1>3. CASE g \notin u
  <2>1. IsFiniteSet(v) /\ Cardinality(v) = Cardinality(u) + 1
    BY <1>3, FS_AddElement
  <2> HIDE DEF v
  <2> QED BY <1>1, <2>1 DEF v
<1> QED BY <1>2, <1>3

\* What a grid holds stays, if with the new one the grids used since its last point are few.
LEMMA GridStays ==
  ASSUME NEW st \in VoxelMap, NEW p \in Int, NEW i \in 1 .. Len(st.cache),
         IsFiniteSet(GridsBefore(st.cache, i) \cup {Pos2Grid(p)}),
         \/ st.cache[i].grid = Pos2Grid(p)
         \/ Cardinality(GridsBefore(st.cache, i) \cup {Pos2Grid(p)}) < Capacity - 1
  PROVE  \A n \in PlacesOf(st.log, st.cache[i].grid) : Stays(Append(st.log, p), n)
<1> DEFINE l == st.log
<1> DEFINE h == st.cache[i].grid
<1> DEFINE few == GridsBefore(st.cache, i) \cup {Pos2Grid(p)}
<1>1. l \in Seq(Int) /\ Len(l) \in Nat
  BY LenProperties DEF VoxelMap
<1>2. PICK last \in 1 .. Len(l) :
        /\ Pos2Grid(l[last]) = h /\ Used(l, last + 1, Len(l)) = GridsBefore(st.cache, i)
  BY DEF VoxelMap, InOrderOfUse
<1> SUFFICES ASSUME NEW n \in PlacesOf(l, h) PROVE Stays(Append(l, p), n)
  OBVIOUS
<1>3. n \in 1 .. Len(l) /\ Stays(l, n) /\ Pos2Grid(l[n]) = h
  BY DEF PlacesOf
<1>4. IsFiniteSet(few) /\ (h = Pos2Grid(p) \/ Cardinality(few) < Capacity - 1) /\ Capacity \in Nat
  BY LocalMapAssumption
<1> HIDE DEF l, h
<1>5. ASSUME NEW a \in n + 1 .. Len(l) + 1, h \notin Used(l, a, Len(l)) \cup {Pos2Grid(p)}
      PROVE  Cardinality(Used(l, a, Len(l)) \cup {Pos2Grid(p)}) < Capacity - 1
  <2>1. ~(last \in a .. Len(l))
    BY <1>2, <1>5 DEF Used
  <2>2. \A k \in a .. Len(l) : k \in last + 1 .. Len(l)
    BY <1>1, <1>3, <2>1
  <2>3. Used(l, a, Len(l)) \subseteq GridsBefore(st.cache, i)
    BY <1>2, <2>2 DEF Used
  <2> DEFINE u == Used(l, a, Len(l)) \cup {Pos2Grid(p)}
  <2>4. u \subseteq few
    BY <2>3
  <2>5. Cardinality(few) < Capacity - 1
    BY <1>4, <1>5
  <2> HIDE DEF u, few
  <2>6. IsFiniteSet(u) /\ Cardinality(u) <= Cardinality(few)
    BY <1>4, <2>4, FS_Subset
  <2>7. Cardinality(u) \in Nat /\ Cardinality(few) \in Nat
    BY <1>4, <2>6, FS_CardinalityType
  <2> QED BY <1>4, <2>5, <2>6, <2>7 DEF u
<1>6. /\ \A a \in n + 1 .. Len(l) + 1 :
           \/ Pos2Grid(l[n]) \in Used(l, a, Len(l)) \cup {Pos2Grid(p)}
           \/ Cardinality(Used(l, a, Len(l)) \cup {Pos2Grid(p)}) < Capacity - 1
  BY <1>3, <1>5
<1> QED BY <1>1, <1>3, <1>6, StaysMore

\* A grid that comes into the list, in front: the last one goes if the list is full.
LEMMA GridComes ==
  ASSUME NEW st \in VoxelMap, NEW p \in Int, Pos2Grid(p) \notin st.keys,
         NEW m \in Nat, m + 1 < Capacity,
         \/ m = Len(st.cache)
         \/ m + 1 = Len(st.cache) /\ Len(st.cache) = Capacity - 1,
         NEW new \in Seq(GridOfPoints), Len(new) = m + 1,
         new[1] = [grid |-> Pos2Grid(p), points |-> <<p>>],
         \A k \in 1 .. m : new[k + 1] = st.cache[k],
         NEW ks, ks = {Pos2Grid(p)} \cup {st.cache[k].grid : k \in 1 .. m}
  PROVE  [cache |-> new, keys |-> ks, log |-> Append(st.log, p)] \in VoxelMap
<1> DEFINE c == st.cache
<1> DEFINE N == Len(c)
<1> DEFINE l == st.log
<1> DEFINE L == Len(l)
<1> DEFINE t == Append(l, p)
<1> DEFINE g == Pos2Grid(p)
<1>1. /\ c \in Seq(GridOfPoints) /\ N \in Nat /\ m \in 0 .. N /\ l \in Seq(Int) /\ L \in Nat
      /\ \A i \in 1 .. N : c[i] \in GridOfPoints
  BY LenProperties, ElementOfSeq DEF VoxelMap
<1>2. /\ \A i, j \in 1 .. N : c[i].grid = c[j].grid => i = j
      /\ st.keys = {c[i].grid : i \in 1 .. N}
      /\ \A n \in 1 .. L : Stays(l, n) => Pos2Grid(l[n]) \in st.keys
      /\ \A i \in 1 .. N : c[i].points = Pick(l, PlacesOf(l, c[i].grid))
  BY DEF VoxelMap, InOrderOfUse
<1>3. \A i \in 1 .. N : \E last \in 1 .. L :
        /\ Pos2Grid(l[last]) = c[i].grid
        /\ Used(l, last + 1, L) = GridsBefore(c, i)
  BY DEF VoxelMap, InOrderOfUse
<1>4. t \in Seq(Int) /\ Len(t) = L + 1 /\ (\A i \in 1 .. L : t[i] = l[i]) /\ t[L + 1] = p /\ g \in Int
  <2>1. g \in Int
    BY GridOfPosition
  <2>2. l \in Seq(Int) /\ p \in Int
    BY <1>1
  <2> HIDE DEF l, g
  <2> QED BY <2>1, <2>2, AppendProperties
<1>5. IsFiniteSet(st.keys) /\ Cardinality(st.keys) = N
  BY KeysCount
<1>6. Capacity \in Nat
  BY LocalMapAssumption
<1>7. /\ \A k \in 1 .. m : new[k + 1].grid = c[k].grid /\ new[k + 1].points = c[k].points
      /\ new[1].grid = g /\ new[1].points = <<p>>
      /\ \A k \in 1 .. m + 1 : k = 1 \/ k - 1 \in 1 .. m
  OBVIOUS
<1>8. \A k \in 1 .. m : c[k].grid # g /\ k \in 1 .. N
  BY <1>1, <1>2
<1> HIDE DEF c, l, t, g, N, L
<1>9. ASSUME NEW k \in 1 .. m
      PROVE  /\ \A n \in PlacesOf(l, c[k].grid) : Stays(t, n)
  <2>1. k \in Nat \ {0} /\ k \in 1 .. N /\ k <= m
    BY <1>8
  <2>2. IsFiniteSet(GridsBefore(c, k)) /\ Cardinality(GridsBefore(c, k)) <= k - 1
    BY <2>1, BeforeCount
  <2> DEFINE u == GridsBefore(c, k)
  <2> HIDE DEF u
  <2>3. IsFiniteSet(u \cup {g}) /\ Cardinality(u \cup {g}) <= Cardinality(u) + 1 /\ Cardinality(u) \in Nat
        /\ Cardinality(u \cup {g}) \in Nat
    <3>1. IsFiniteSet(u)
      BY <2>2 DEF u
    <3> QED BY <3>1, OneMore
  <2>4. Cardinality(u \cup {g}) < Capacity - 1
    BY <1>6, <2>1, <2>2, <2>3 DEF u
  <2> QED BY <2>1, <2>3, <2>4, GridStays DEF u, c, l, t, g, N
<1>10. ASSUME NEW n \in 1 .. L, Stays(t, n)
       PROVE  Pos2Grid(l[n]) \in ks
  <2>1. Stays(l, n) /\ \A a \in n + 1 .. L + 1 :
                         \/ Pos2Grid(l[n]) \in Used(l, a, L) \cup {g}
                         \/ Cardinality(Used(l, a, L) \cup {g}) < Capacity - 1
    BY <1>1, <1>10, StaysMore DEF t, L, g
  <2>2. PICK j \in 1 .. N : Pos2Grid(l[n]) = c[j].grid
    BY <1>2, <2>1
  <2>3. CASE j \in 1 .. m
    BY <2>2, <2>3 DEF c
  <2>4. CASE j \notin 1 .. m
    <3>1. j = N /\ N = m + 1 /\ N = Capacity - 1
      BY <1>1, <2>4 DEF N, c
    <3>2. PICK last \in 1 .. L : Pos2Grid(l[last]) = c[N].grid /\ Used(l, last + 1, L) = GridsBefore(c, N)
      BY <1>3, <3>1
    <3>3. GridsBefore(c, N) = st.keys \ {c[N].grid}
      <4>1. \A k \in 1 .. N - 1 : k \in 1 .. N /\ k # N
        BY <1>1
      <4>2. \A k \in 1 .. N : k = N \/ k \in 1 .. N - 1
        BY <1>1
      <4>3. N \in 1 .. N
        BY <3>1
      <4> QED BY <1>2, <4>1, <4>2, <4>3 DEF GridsBefore
    <3>4. ~(n \in last + 1 .. L)
      <4> SUFFICES ASSUME n \in last + 1 .. L PROVE FALSE
        OBVIOUS
      <4>1. Pos2Grid(l[n]) \in Used(l, last + 1, L)
        BY DEF Used
      <4> QED BY <2>2, <3>1, <3>2, <3>3, <4>1
    <3>5. last + 1 \in n + 1 .. L + 1
      BY <1>1, <3>4
    <3>6. c[N].grid # g /\ c[N].grid \in st.keys
      BY <1>2, <3>1 DEF g
    <3>7. Cardinality(GridsBefore(c, N) \cup {g}) < Capacity - 1
      <4>1. Pos2Grid(l[n]) \notin Used(l, last + 1, L) \cup {g}
        BY <2>2, <3>1, <3>2, <3>3, <3>6
      <4> QED BY <2>1, <3>2, <3>5, <4>1
    <3>8. Cardinality(GridsBefore(c, N) \cup {g}) = N
      <4> DEFINE u == st.keys \ {c[N].grid}
      <4>1. IsFiniteSet(u) /\ Cardinality(u) = N - 1
        BY <1>5, <3>6, FS_RemoveElement
      <4>2. g \notin u
        BY DEF g
      <4> HIDE DEF u
      <4>3. Cardinality(u \cup {g}) = (N - 1) + 1
        BY <4>1, <4>2, FS_AddElement
      <4> QED BY <1>1, <3>3, <4>3 DEF u
    <3> QED BY <1>1, <1>6, <3>1, <3>7, <3>8
  <2> QED BY <2>3, <2>4
<1> DEFINE s == [cache |-> new, keys |-> ks, log |-> t]
<1>11. s \in [cache : Seq(GridOfPoints), keys : SUBSET Int, log : Seq(Int)]
  <2>1. \A k \in 1 .. m : c[k].grid \in Int
    BY <1>1, <1>8 DEF GridOfPoints
  <2>2. ks \subseteq Int
    BY <1>4, <2>1 DEF c, g
  <2> QED BY <1>4, <2>2
<1>12. \A i, j \in 1 .. m + 1 : new[i].grid = new[j].grid => i = j
  <2> SUFFICES ASSUME NEW i \in 1 .. m + 1, NEW j \in 1 .. m + 1, new[i].grid = new[j].grid
               PROVE  i = j
    OBVIOUS
  <2>1. \A k \in 1 .. m + 1 : k # 1 => /\ k - 1 \in 1 .. m /\ k - 1 \in 1 .. N
                                       /\ new[k].grid = c[k - 1].grid /\ new[k].grid # g
    <3> SUFFICES ASSUME NEW k \in 1 .. m + 1, k # 1
                 PROVE  /\ k - 1 \in 1 .. m /\ k - 1 \in 1 .. N
                        /\ new[k].grid = c[k - 1].grid /\ new[k].grid # g
      OBVIOUS
    <3>1. k - 1 \in 1 .. m /\ (k - 1) + 1 = k
      OBVIOUS
    <3>2. new[(k - 1) + 1].grid = c[k - 1].grid /\ c[k - 1].grid # g /\ k - 1 \in 1 .. N
      BY <1>7, <1>8, <3>1
    <3> QED BY <3>1, <3>2
  <2>2. CASE i = 1 \/ j = 1
    BY <1>7, <2>1, <2>2
  <2>3. CASE i # 1 /\ j # 1
    <3>1. c[i - 1].grid = c[j - 1].grid /\ i - 1 \in 1 .. N /\ j - 1 \in 1 .. N
      BY <2>1, <2>3
    <3>2. i - 1 = j - 1
      BY <1>2, <3>1
    <3> QED BY <3>2
  <2> QED BY <2>2, <2>3
<1>13. ks = {new[i].grid : i \in 1 .. m + 1}
  <2>1. \A k \in 1 .. m : k + 1 \in 1 .. m + 1
    OBVIOUS
  <2>2. \A k \in 1 .. m + 1 : k # 1 => k - 1 \in 1 .. m /\ (k - 1) + 1 = k
    OBVIOUS
  <2>3. 1 \in 1 .. m + 1
    OBVIOUS
  <2>4. ASSUME NEW x \in {new[i].grid : i \in 1 .. m + 1} PROVE x \in ks
    <3>1. PICK i \in 1 .. m + 1 : x = new[i].grid
      OBVIOUS
    <3>2. CASE i = 1
      BY <1>7, <3>1, <3>2 DEF g
    <3>3. CASE i # 1
      <4>1. i - 1 \in 1 .. m /\ new[(i - 1) + 1].grid = c[i - 1].grid /\ (i - 1) + 1 = i
        BY <1>7, <2>2, <3>3
      <4> QED BY <3>1, <4>1 DEF c
    <3> QED BY <3>2, <3>3
  <2>5. ASSUME NEW x \in ks PROVE x \in {new[i].grid : i \in 1 .. m + 1}
    <3>1. CASE x = g
      BY <1>7, <2>3, <3>1
    <3>2. CASE x # g
      <4>1. PICK k \in 1 .. m : x = c[k].grid
        BY <3>2 DEF c, g
      <4> QED BY <1>7, <2>1, <4>1
    <3> QED BY <3>1, <3>2
  <2> QED BY <2>4, <2>5
<1>14. ASSUME NEW i \in 1 .. m + 1
       PROVE  \E last \in 1 .. L + 1 :
                /\ Pos2Grid(t[last]) = new[i].grid
                /\ Used(t, last + 1, L + 1) = GridsBefore(new, i)
  <2>1. CASE i = 1
    <3>1. GridsBefore(new, 1) = {} /\ Used(t, (L + 1) + 1, L + 1) = {}
      BY <1>1 DEF GridsBefore, Used
    <3>2. Pos2Grid(t[L + 1]) = g /\ L + 1 \in 1 .. L + 1
      BY <1>1, <1>4 DEF g
    <3> QED BY <1>7, <2>1, <3>1, <3>2
  <2>2. CASE i # 1
    <3> DEFINE k == i - 1
    <3>1. k \in 1 .. m /\ k \in 1 .. N /\ i = k + 1 /\ new[i].grid = c[k].grid
      <4>1. k \in 1 .. m /\ i = k + 1
        BY <2>2
      <4> HIDE DEF k
      <4> QED BY <1>7, <1>8, <4>1
    <3> HIDE DEF k
    <3>2. PICK last \in 1 .. L : Pos2Grid(l[last]) = c[k].grid /\ Used(l, last + 1, L) = GridsBefore(c, k)
      BY <1>3, <3>1
    <3>3. last \in 1 .. L + 1 /\ last + 1 \in 1 .. L + 1 /\ t[last] = l[last]
      BY <1>1, <1>4
    <3>4. Used(t, last + 1, L + 1) = Used(l, last + 1, L) \cup {g}
      BY <1>1, <3>3, UsedMore DEF t, L, g
    <3>5. GridsBefore(new, i) = GridsBefore(c, k) \cup {g}
      <4>1. \A a \in 1 .. k : a = 1 \/ (a - 1 \in 1 .. k - 1 /\ a - 1 \in 1 .. m /\ (a - 1) + 1 = a)
        BY <3>1
      <4>2. \A a \in 1 .. k - 1 : a + 1 \in 1 .. k /\ a \in 1 .. m
        BY <3>1
      <4>3. 1 \in 1 .. k /\ i - 1 = k
        BY <3>1
      <4>4. ASSUME NEW x \in GridsBefore(new, i) PROVE x \in GridsBefore(c, k) \cup {g}
        <5>1. PICK a \in 1 .. k : x = new[a].grid
          BY <4>3 DEF GridsBefore
        <5>2. CASE a = 1
          BY <1>7, <5>1, <5>2
        <5>3. CASE a # 1
          <6>1. a - 1 \in 1 .. k - 1 /\ new[(a - 1) + 1].grid = c[a - 1].grid /\ (a - 1) + 1 = a
            BY <1>7, <4>1, <5>3
          <6> QED BY <5>1, <6>1 DEF GridsBefore
        <5> QED BY <5>2, <5>3
      <4>5. ASSUME NEW x \in GridsBefore(c, k) \cup {g} PROVE x \in GridsBefore(new, i)
        <5>1. CASE x = g
          BY <1>7, <4>3, <5>1 DEF GridsBefore
        <5>2. CASE x # g
          <6>1. PICK a \in 1 .. k - 1 : x = c[a].grid
            BY <5>2 DEF GridsBefore
          <6>2. a + 1 \in 1 .. i - 1 /\ new[a + 1].grid = x
            BY <1>7, <4>2, <4>3, <6>1
          <6> QED BY <6>2 DEF GridsBefore
        <5> QED BY <5>1, <5>2
      <4> QED BY <4>4, <4>5
    <3> QED BY <3>1, <3>2, <3>3, <3>4, <3>5
  <2> QED BY <2>1, <2>2
<1>15. ASSUME NEW n \in 1 .. L + 1, Stays(t, n)
       PROVE  Pos2Grid(t[n]) \in ks
  <2>1. CASE n = L + 1
    BY <1>4, <2>1 DEF g
  <2>2. CASE n # L + 1
    <3>1. n \in 1 .. L
      BY <1>1, <2>2
    <3> QED BY <1>4, <1>10, <1>15, <3>1
  <2> QED BY <2>1, <2>2
<1>16. ASSUME NEW i \in 1 .. m + 1
       PROVE  new[i].points = Pick(t, PlacesOf(t, new[i].grid))
  <2>1. CASE i = 1
    <3> DEFINE ns == PlacesOf(t, g)
    <3>1. L + 1 \in ns
      BY <1>1, PlacesMore DEF t, L, g
    <3>2. ASSUME NEW n \in 1 .. L PROVE n \notin ns
      <4>1. n \in ns => Stays(t, n) /\ Pos2Grid(l[n]) = g
        <5>1. l \in Seq(Int) /\ n \in 1 .. Len(l) /\ p \in Int
          BY <1>1 DEF L
        <5> QED BY <5>1, PlacesMore DEF t
      <4>2. Stays(t, n) => Stays(l, n)
        BY <1>1, StaysMore DEF t, L
      <4>3. Stays(l, n) => Pos2Grid(l[n]) # g
        BY <1>2 DEF g
      <4> QED BY <4>1, <4>2, <4>3
    <3> HIDE DEF ns
    <3>3. Pick(l, ns) = <<>>
      BY <1>1, <3>2, PickNothing DEF L
    <3>4. Pick(t, ns) = Append(Pick(l, ns), p)
      <4>1. l \in Seq(Int) /\ p \in Int /\ Len(l) + 1 \in ns
        BY <1>1, <3>1 DEF L
      <4>2. Pick(Append(l, p), ns) =
              IF Len(l) + 1 \in ns THEN Append(Pick(l, ns), p) ELSE Pick(l, ns)
        BY <4>1, PickMore
      <4> QED BY <4>1, <4>2 DEF t
    <3>5. Append(<<>>, p) = <<p>>
      OBVIOUS
    <3> QED BY <1>7, <2>1, <3>3, <3>4, <3>5 DEF ns
  <2>2. CASE i # 1
    <3> DEFINE k == i - 1
    <3>1. k \in 1 .. m /\ k \in 1 .. N /\ new[i].grid = c[k].grid /\ new[i].points = c[k].points
      <4>1. k \in 1 .. m /\ i = k + 1
        BY <2>2
      <4> HIDE DEF k
      <4> QED BY <1>7, <1>8, <4>1
    <3> HIDE DEF k
    <3> DEFINE h == c[k].grid
    <3>2. h # g /\ c[k].points = Pick(l, PlacesOf(l, h)) /\ \A n \in PlacesOf(l, h) : Stays(t, n)
      BY <1>2, <1>8, <1>9, <3>1
    <3> HIDE DEF h
    <3>3. Pick(t, PlacesOf(t, h)) = Pick(l, PlacesOf(l, h))
      BY <1>1, <3>2, PointsMore DEF t, g
    <3> QED BY <3>1, <3>2, <3>3 DEF h
  <2> QED BY <2>1, <2>2
<1>17. InOrderOfUse(s)
  <2>1. s.cache = new /\ s.keys = ks /\ s.log = t
    OBVIOUS
  <2>2. m + 1 < Capacity
    OBVIOUS
  <2>3. Len(s.cache) = m + 1 /\ Len(s.log) = L + 1
    BY <1>4, <2>1
  <2> HIDE DEF s
  <2>4. \A i, j \in 1 .. Len(s.cache) : s.cache[i].grid = s.cache[j].grid => i = j
    BY <1>12, <2>1, <2>3
  <2>5. s.keys = {s.cache[i].grid : i \in 1 .. Len(s.cache)} /\ Len(s.cache) < Capacity
    BY <1>13, <2>1, <2>2, <2>3
  <2>6. \A i \in 1 .. Len(s.cache) : \E last \in 1 .. Len(s.log) :
          /\ Pos2Grid(s.log[last]) = s.cache[i].grid
          /\ Used(s.log, last + 1, Len(s.log)) = GridsBefore(s.cache, i)
    BY <1>14, <2>1, <2>3
  <2>7. \A n \in 1 .. Len(s.log) : Stays(s.log, n) => Pos2Grid(s.log[n]) \in s.keys
    BY <1>15, <2>1, <2>3
  <2>8. \A i \in 1 .. Len(s.cache) :
          s.cache[i].points = Pick(s.log, PlacesOf(s.log, s.cache[i].grid))
    BY <1>16, <2>1, <2>3
  <2> QED BY <2>4, <2>5, <2>6, <2>7, <2>8 DEF InOrderOfUse
<1> QED
  <2>1. s \in VoxelMap
    <3> HIDE DEF s
    <3> QED BY <1>11, <1>17 DEF VoxelMap
  <2> QED BY <2>1 DEF t, l

\* The list after an element was moved to its front.
LEMMA RecentIs ==
  ASSUME NEW S, NEW list \in Seq(S), NEW i \in 1 .. Len(list)
  PROVE  /\ Recent(list, i) \in Seq(S) /\ Len(Recent(list, i)) = Len(list)
         /\ Recent(list, i)[1] = list[i]
         /\ \A k \in 2 .. i : Recent(list, i)[k] = list[k - 1]
         /\ \A k \in i + 1 .. Len(list) : Recent(list, i)[k] = list[k]
<1> DEFINE N == Len(list)
<1> DEFINE a == SubSeq(list, 1, i - 1)
<1> DEFINE b == SubSeq(list, i + 1, N)
<1> DEFINE x == list[i]
<1>1. N \in Nat /\ i \in 1 .. N /\ x \in S /\ list \in Seq(S)
  BY LenProperties, ElementOfSeq
<1>2. Recent(list, i) = <<x>> \o (a \o b)
  BY DEF Recent, RemoveAt
<1>3. a \in Seq(S) /\ Len(a) = i - 1 /\ \A k \in 1 .. i - 1 : a[k] = list[k]
  <2>1. /\ 1 \in 1 .. N + 1 /\ i - 1 \in 1 - 1 .. N /\ ((i - 1) - 1) + 1 = i - 1
        /\ \A k \in 1 .. i - 1 : 1 + (k - 1) = k
    BY <1>1
  <2> DEFINE e == i - 1
  <2> HIDE DEF e
  <2>2. /\ SubSeq(list, 1, e) \in Seq(S) /\ Len(SubSeq(list, 1, e)) = (e - 1) + 1
        /\ \A k \in 1 .. (e - 1) + 1 : SubSeq(list, 1, e)[k] = list[1 + (k - 1)]
    <3>1. 1 \in 1 .. Len(list) + 1 /\ e \in 1 - 1 .. Len(list)
      BY <2>1 DEF N, e
    <3> QED BY <3>1, SliceIs
  <2> QED BY <2>1, <2>2 DEF e
<1>4. b \in Seq(S) /\ Len(b) = N - i /\ \A k \in 1 .. N - i : b[k] = list[i + k]
  <2>1. /\ i + 1 \in 1 .. N + 1 /\ N \in (i + 1) - 1 .. N /\ (N - (i + 1)) + 1 = N - i
        /\ \A k \in 1 .. N - i : (i + 1) + (k - 1) = i + k
    BY <1>1
  <2> DEFINE e == i + 1
  <2> HIDE DEF e
  <2>2. /\ SubSeq(list, e, N) \in Seq(S) /\ Len(SubSeq(list, e, N)) = (N - e) + 1
        /\ \A k \in 1 .. (N - e) + 1 : SubSeq(list, e, N)[k] = list[e + (k - 1)]
    <3>1. e \in 1 .. Len(list) + 1 /\ N \in e - 1 .. Len(list)
      BY <2>1 DEF N, e
    <3> HIDE DEF N
    <3> QED BY <3>1, SliceIs
  <2> QED BY <2>1, <2>2 DEF e
<1> HIDE DEF a, b, x, N
<1> DEFINE r == a \o b
<1>5. /\ r \in Seq(S) /\ Len(r) = N - 1
      /\ \A k \in 1 .. N - 1 : r[k] = IF k <= i - 1 THEN a[k] ELSE b[k - (i - 1)]
  <2>1. /\ r \in Seq(S) /\ Len(r) = Len(a) + Len(b)
        /\ \A k \in 1 .. Len(a) + Len(b) : r[k] = IF k <= Len(a) THEN a[k] ELSE b[k - Len(a)]
    BY <1>3, <1>4, ConcatProperties
  <2>2. Len(a) = i - 1 /\ Len(b) = N - i /\ Len(a) + Len(b) = N - 1
    BY <1>1, <1>3, <1>4
  <2> HIDE DEF r
  <2> QED BY <2>1, <2>2
<1> HIDE DEF r
<1> DEFINE u == <<x>>
<1>6. u \in Seq(S) /\ Len(u) = 1 /\ u[1] = x
  BY <1>1
<1> HIDE DEF u
<1> DEFINE w == u \o r
<1>7. /\ w \in Seq(S) /\ Len(w) = 1 + (N - 1)
      /\ \A k \in 1 .. 1 + (N - 1) : w[k] = IF k <= 1 THEN u[k] ELSE r[k - 1]
  <2>1. /\ w \in Seq(S) /\ Len(w) = Len(u) + Len(r)
        /\ \A k \in 1 .. Len(u) + Len(r) : w[k] = IF k <= Len(u) THEN u[k] ELSE r[k - Len(u)]
    BY <1>5, <1>6, ConcatProperties
  <2> HIDE DEF w
  <2> QED BY <1>5, <1>6, <2>1
<1> HIDE DEF w
<1>8. w[1] = x
  BY <1>1, <1>6, <1>7
<1>9. ASSUME NEW k \in 2 .. i PROVE w[k] = list[k - 1]
  <2>1. /\ k \in 1 .. 1 + (N - 1) /\ ~(k <= 1) /\ k - 1 \in 1 .. N - 1 /\ k - 1 <= i - 1
        /\ k - 1 \in 1 .. i - 1
    BY <1>1
  <2>2. w[k] = r[k - 1]
    BY <1>7, <2>1
  <2>3. r[k - 1] = a[k - 1]
    BY <1>5, <2>1
  <2> QED BY <1>3, <2>1, <2>2, <2>3
<1>10. ASSUME NEW k \in i + 1 .. N PROVE w[k] = list[k]
  <2>1. /\ k \in 1 .. 1 + (N - 1) /\ ~(k <= 1) /\ k - 1 \in 1 .. N - 1 /\ ~(k - 1 <= i - 1)
        /\ (k - 1) - (i - 1) = k - i /\ k - i \in 1 .. N - i /\ i + (k - i) = k
    BY <1>1
  <2>2. w[k] = r[k - 1]
    BY <1>7, <2>1
  <2>3. r[k - 1] = b[k - i]
    BY <1>5, <2>1
  <2>4. b[k - i] = list[i + (k - i)]
    BY <1>4, <2>1
  <2> QED BY <2>1, <2>2, <2>3, <2>4
<1>11. Recent(list, i) = w
  BY <1>2 DEF w, u, r
<1> QED BY <1>1, <1>7, <1>8, <1>9, <1>10, <1>11 DEF x, N

\* Where an element of the list came from, when i was moved to the front, and where it goes.
From(i, k) == IF k = 1 THEN i ELSE IF k <= i THEN k - 1 ELSE k
Goes(i, k) == IF k = i THEN 1 ELSE IF k < i THEN k + 1 ELSE k

\* A grid that is in the list already and comes to its front.
LEMMA GridReturns ==
  ASSUME NEW st \in VoxelMap, NEW p \in Int, NEW i \in 1 .. Len(st.cache),
         st.cache[i].grid = Pos2Grid(p),
         NEW new \in Seq(GridOfPoints), Len(new) = Len(st.cache),
         new[1] = [grid |-> Pos2Grid(p), points |-> Append(st.cache[i].points, p)],
         \A k \in 2 .. i : new[k] = st.cache[k - 1],
         \A k \in i + 1 .. Len(st.cache) : new[k] = st.cache[k]
  PROVE  [cache |-> new, keys |-> st.keys, log |-> Append(st.log, p)] \in VoxelMap
<1> DEFINE c == st.cache
<1> DEFINE N == Len(c)
<1> DEFINE l == st.log
<1> DEFINE L == Len(l)
<1> DEFINE t == Append(l, p)
<1> DEFINE g == Pos2Grid(p)
<1> DEFINE ks == st.keys
<1>1. /\ c \in Seq(GridOfPoints) /\ N \in Nat /\ i \in 1 .. N /\ l \in Seq(Int) /\ L \in Nat
      /\ ks \in SUBSET Int
      /\ \A k \in 1 .. N : c[k] \in GridOfPoints
  BY LenProperties, ElementOfSeq DEF VoxelMap
<1>2. /\ \A j, k \in 1 .. N : c[j].grid = c[k].grid => j = k
      /\ ks = {c[k].grid : k \in 1 .. N} /\ N < Capacity
      /\ \A n \in 1 .. L : Stays(l, n) => Pos2Grid(l[n]) \in ks
      /\ \A k \in 1 .. N : c[k].points = Pick(l, PlacesOf(l, c[k].grid))
  BY DEF VoxelMap, InOrderOfUse
<1>3. \A k \in 1 .. N : \E last \in 1 .. L :
        /\ Pos2Grid(l[last]) = c[k].grid
        /\ Used(l, last + 1, L) = GridsBefore(c, k)
  BY DEF VoxelMap, InOrderOfUse
<1>4. t \in Seq(Int) /\ Len(t) = L + 1 /\ (\A k \in 1 .. L : t[k] = l[k]) /\ t[L + 1] = p /\ g \in Int
  <2>1. g \in Int
    BY GridOfPosition
  <2>2. l \in Seq(Int) /\ p \in Int
    BY <1>1
  <2> HIDE DEF l, g
  <2> QED BY <2>1, <2>2, AppendProperties
<1>5. IsFiniteSet(ks) /\ Cardinality(ks) = N
  BY KeysCount
<1>6. Capacity \in Nat
  BY LocalMapAssumption
<1>7. /\ new[1].grid = g /\ new[1].points = Append(c[i].points, p) /\ c[i].grid = g
      /\ Len(new) = N
  OBVIOUS
<1>8. \A k \in 2 .. N : /\ new[k].grid = c[From(i, k)].grid /\ new[k].points = c[From(i, k)].points
                        /\ From(i, k) \in 1 .. N /\ From(i, k) # i
  <2> SUFFICES ASSUME NEW k \in 2 .. N
               PROVE  /\ new[k] = c[From(i, k)]
                      /\ From(i, k) \in 1 .. N /\ From(i, k) # i
    OBVIOUS
  <2>1. CASE k <= i
    <3>1. From(i, k) = k - 1 /\ k \in 2 .. i
      BY <1>1, <2>1 DEF From
    <3> QED BY <1>1, <2>1, <3>1
  <2>2. CASE ~(k <= i)
    <3>1. From(i, k) = k /\ k \in i + 1 .. N
      BY <1>1, <2>2 DEF From
    <3> QED BY <1>1, <2>2, <3>1
  <2> QED BY <2>1, <2>2
<1> HIDE DEF c, l, t, g, N, L, ks
<1>9. /\ \A j \in 1 .. N : /\ Goes(i, j) \in 1 .. N /\ From(i, Goes(i, j)) = j
                           /\ j # i => Goes(i, j) \in 2 .. N
      /\ \A j, k \in 2 .. N : From(i, j) = From(i, k) => j = k
  <2>1. ASSUME NEW j \in 1 .. N
        PROVE  /\ Goes(i, j) \in 1 .. N /\ From(i, Goes(i, j)) = j
               /\ j # i => Goes(i, j) \in 2 .. N
    <3>1. CASE j = i
      BY <1>1, <3>1 DEF Goes, From
    <3>2. CASE j < i
      BY <1>1, <3>2 DEF Goes, From
    <3>3. CASE j > i
      BY <1>1, <3>3 DEF Goes, From
    <3> QED BY <1>1, <3>1, <3>2, <3>3
  <2>2. ASSUME NEW j \in 2 .. N, NEW k \in 2 .. N, From(i, j) = From(i, k) PROVE j = k
    BY <1>1, <2>2 DEF From
  <2> QED BY <2>1, <2>2
<1>10. \A k \in 2 .. N : /\ \A a \in 2 .. k - 1 : From(i, a) < From(i, k)
                         /\ \A b \in 1 .. From(i, k) - 1 : Goes(i, b) < k
  BY <1>1 DEF Goes, From
<1>11. ASSUME NEW k \in 2 .. N PROVE GridsBefore(new, k) = GridsBefore(c, From(i, k)) \cup {g}
  <2>0. From(i, k) \in 1 .. N
    BY <1>8
  <2>1. ASSUME NEW x \in GridsBefore(new, k) PROVE x \in GridsBefore(c, From(i, k)) \cup {g}
    <3>1. PICK a \in 1 .. k - 1 : x = new[a].grid
      BY DEF GridsBefore
    <3>2. CASE a = 1
      BY <1>7, <3>1, <3>2
    <3>3. CASE a # 1
      <4>1. a \in 2 .. k - 1 /\ a \in 2 .. N
        BY <1>1, <3>3
      <4>2. x = c[From(i, a)].grid /\ From(i, a) \in 1 .. N /\ From(i, a) < From(i, k)
        BY <1>8, <1>10, <3>1, <4>1
      <4>3. From(i, a) \in 1 .. From(i, k) - 1
        BY <1>1, <2>0, <4>2
      <4> QED BY <4>2, <4>3 DEF GridsBefore
    <3> QED BY <3>2, <3>3
  <2>2. ASSUME NEW x \in GridsBefore(c, From(i, k)) \cup {g} PROVE x \in GridsBefore(new, k)
    <3>1. CASE x = g
      <4>1. 1 \in 1 .. k - 1
        OBVIOUS
      <4> QED BY <1>7, <3>1, <4>1 DEF GridsBefore
    <3>2. CASE x # g
      <4>1. PICK b \in 1 .. From(i, k) - 1 : x = c[b].grid
        BY <3>2 DEF GridsBefore
      <4>2. b \in 1 .. N /\ b # i
        BY <1>1, <1>7, <2>0, <3>2, <4>1
      <4>3. Goes(i, b) \in 2 .. N /\ From(i, Goes(i, b)) = b /\ Goes(i, b) < k
        BY <1>9, <1>10, <4>1, <4>2
      <4>4. new[Goes(i, b)].grid = x /\ Goes(i, b) \in 1 .. k - 1
        BY <1>8, <4>1, <4>3
      <4> QED BY <4>4 DEF GridsBefore
    <3> QED BY <3>1, <3>2
  <2> QED BY <2>1, <2>2
<1>12. ASSUME NEW j \in 1 .. N
       PROVE  \A n \in PlacesOf(l, c[j].grid) : Stays(t, n)
  <2> DEFINE u == GridsBefore(c, j)
  <2>1. IsFiniteSet(u)
    BY BeforeCount
  <2> HIDE DEF u
  <2>2. IsFiniteSet(u \cup {g})
    BY <2>1, OneMore
  <2>3. CASE j = i
    BY <1>7, <2>2, <2>3, GridStays DEF u, c, l, t, g, N
  <2>4. CASE j # i
    <3> DEFINE h == c[j].grid
    <3> DEFINE v == ks \ {h}
    <3>1. IsFiniteSet(v) /\ Cardinality(v) = N - 1
      <4>1. h \in ks
        BY <1>2
      <4> QED BY <1>5, <4>1, FS_RemoveElement
    <3>2. u \cup {g} \subseteq v
      <4>1. g \in ks /\ g # h
        BY <1>1, <1>2, <1>7, <2>4
      <4>2. \A k \in 1 .. j - 1 : k \in 1 .. N /\ k # j
        BY <1>1
      <4> QED BY <1>2, <4>1, <4>2 DEF u, GridsBefore
    <3> HIDE DEF v
    <3>3. Cardinality(u \cup {g}) <= Cardinality(v) /\ Cardinality(u \cup {g}) \in Nat
      BY <2>2, <3>1, <3>2, FS_Subset, FS_CardinalityType
    <3>4. Cardinality(u \cup {g}) < Capacity - 1
      BY <1>1, <1>2, <1>6, <3>1, <3>3
    <3> QED BY <2>2, <3>4, GridStays DEF u, c, l, t, g, N
  <2> QED BY <2>3, <2>4
<1> DEFINE s == [cache |-> new, keys |-> ks, log |-> t]
<1>13. s \in [cache : Seq(GridOfPoints), keys : SUBSET Int, log : Seq(Int)]
  BY <1>1, <1>4
<1>14. \A j, k \in 1 .. N : new[j].grid = new[k].grid => j = k
  <2> SUFFICES ASSUME NEW j \in 1 .. N, NEW k \in 1 .. N, new[j].grid = new[k].grid
               PROVE  j = k
    OBVIOUS
  <2>1. ASSUME NEW a \in 2 .. N PROVE c[From(i, a)].grid # g
    <3>1. From(i, a) \in 1 .. N /\ From(i, a) # i
      BY <1>8
    <3> QED BY <1>1, <1>2, <1>7, <3>1, Zenon
  <2>0. \A a \in 1 .. N : a # 1 => a \in 2 .. N /\ new[a].grid = c[From(i, a)].grid /\ From(i, a) \in 1 .. N
    <3>1. \A a \in 1 .. N : a # 1 => a \in 2 .. N
      OBVIOUS
    <3> QED BY <1>8, <3>1
  <2>2. CASE j = 1 \/ k = 1
    <3>1. CASE j = 1
      <4>1. new[k].grid = g
        BY <1>7, <3>1
      <4> QED BY <2>0, <2>1, <3>1, <4>1
    <3>2. CASE k = 1
      <4>1. new[j].grid = g
        BY <1>7, <3>2
      <4> QED BY <2>0, <2>1, <3>2, <4>1
    <3> QED BY <2>2, <3>1, <3>2
  <2>3. CASE j # 1 /\ k # 1
    <3>1. j \in 2 .. N /\ k \in 2 .. N
      BY <2>0, <2>3
    <3>2. c[From(i, j)].grid = c[From(i, k)].grid /\ From(i, j) \in 1 .. N /\ From(i, k) \in 1 .. N
      BY <2>0, <2>3
    <3>3. From(i, j) = From(i, k)
      BY <1>2, <3>2, Zenon
    <3> QED BY <1>9, <3>1, <3>3
  <2> QED BY <2>2, <2>3
<1>15. ks = {new[k].grid : k \in 1 .. N}
  <2>1. ASSUME NEW x \in ks PROVE x \in {new[k].grid : k \in 1 .. N}
    <3>1. PICK j \in 1 .. N : x = c[j].grid
      BY <1>2
    <3>2. CASE j = i
      BY <1>1, <1>7, <3>1, <3>2
    <3>3. CASE j # i
      <4>1. Goes(i, j) \in 2 .. N /\ Goes(i, j) \in 1 .. N /\ From(i, Goes(i, j)) = j
        BY <1>9, <3>3
      <4>2. new[Goes(i, j)].grid = x
        BY <1>8, <3>1, <4>1
      <4> QED BY <4>1, <4>2
    <3> QED BY <3>2, <3>3
  <2>2. ASSUME NEW x \in {new[k].grid : k \in 1 .. N} PROVE x \in ks
    <3>1. PICK k \in 1 .. N : x = new[k].grid
      OBVIOUS
    <3>2. CASE k = 1
      BY <1>1, <1>2, <1>7, <3>1, <3>2
    <3>3. CASE k # 1
      <4>1. k \in 2 .. N
        BY <3>3
      <4>2. x = c[From(i, k)].grid /\ From(i, k) \in 1 .. N
        BY <1>8, <3>1, <4>1
      <4> QED BY <1>2, <4>2
    <3> QED BY <3>2, <3>3
  <2> QED BY <2>1, <2>2
<1>16. ASSUME NEW k \in 1 .. N
       PROVE  \E last \in 1 .. L + 1 :
                /\ Pos2Grid(t[last]) = new[k].grid
                /\ Used(t, last + 1, L + 1) = GridsBefore(new, k)
  <2>1. CASE k = 1
    <3>1. GridsBefore(new, 1) = {} /\ Used(t, (L + 1) + 1, L + 1) = {}
      BY <1>1 DEF GridsBefore, Used
    <3>2. Pos2Grid(t[L + 1]) = g /\ L + 1 \in 1 .. L + 1
      BY <1>1, <1>4 DEF g
    <3> QED BY <1>7, <2>1, <3>1, <3>2
  <2>2. CASE k # 1
    <3> DEFINE j == From(i, k)
    <3>1. j \in 1 .. N /\ new[k].grid = c[j].grid /\ GridsBefore(new, k) = GridsBefore(c, j) \cup {g}
      <4>1. k \in 2 .. N
        BY <2>2
      <4> QED BY <1>8, <1>11, <4>1
    <3> HIDE DEF j
    <3>2. PICK last \in 1 .. L : Pos2Grid(l[last]) = c[j].grid /\ Used(l, last + 1, L) = GridsBefore(c, j)
      BY <1>3, <3>1
    <3>3. last \in 1 .. L + 1 /\ last + 1 \in 1 .. L + 1 /\ t[last] = l[last]
      BY <1>1, <1>4
    <3>4. Used(t, last + 1, L + 1) = Used(l, last + 1, L) \cup {g}
      BY <1>1, <3>3, UsedMore DEF t, L, g
    <3> QED BY <3>1, <3>2, <3>3, <3>4
  <2> QED BY <2>1, <2>2
<1>17. ASSUME NEW n \in 1 .. L + 1, Stays(t, n)
       PROVE  Pos2Grid(t[n]) \in ks
  <2>1. CASE n = L + 1
    BY <1>1, <1>2, <1>4, <1>7, <2>1 DEF g
  <2>2. CASE n # L + 1
    <3>1. n \in 1 .. L
      BY <1>1, <2>2
    <3>2. Stays(l, n)
      BY <1>1, <1>17, <3>1, StaysMore DEF t, L
    <3> QED BY <1>2, <1>4, <3>1, <3>2
  <2> QED BY <2>1, <2>2
<1>18. ASSUME NEW k \in 1 .. N
       PROVE  new[k].points = Pick(t, PlacesOf(t, new[k].grid))
  <2>0. ASSUME NEW j \in 1 .. N
        PROVE  Pick(t, PlacesOf(t, c[j].grid)) =
                 IF c[j].grid = g THEN Append(c[j].points, p) ELSE c[j].points
    <3> DEFINE h == c[j].grid
    <3>1. c[j].points = Pick(l, PlacesOf(l, h)) /\ \A n \in PlacesOf(l, h) : Stays(t, n)
      BY <1>2, <1>12
    <3> HIDE DEF h
    <3>2. Pick(t, PlacesOf(t, h)) =
            IF h = g THEN Append(Pick(l, PlacesOf(l, h)), p) ELSE Pick(l, PlacesOf(l, h))
      BY <1>1, <3>1, PointsMore DEF t, g
    <3> QED BY <3>1, <3>2 DEF h
  <2>1. CASE k = 1
    BY <1>1, <1>7, <2>0, <2>1
  <2>2. CASE k # 1
    <3>1. k \in 2 .. N
      BY <2>2
    <3>2. /\ new[k].grid = c[From(i, k)].grid /\ new[k].points = c[From(i, k)].points
          /\ From(i, k) \in 1 .. N /\ From(i, k) # i
      BY <1>8, <3>1
    <3>3. c[From(i, k)].grid # g
      BY <1>1, <1>2, <1>7, <3>2
    <3> QED BY <2>0, <3>2, <3>3
  <2> QED BY <2>1, <2>2
<1>19. InOrderOfUse(s)
  <2>1. s.cache = new /\ s.keys = ks /\ s.log = t
    OBVIOUS
  <2>2. Len(s.cache) = N /\ Len(s.log) = L + 1 /\ N < Capacity
    BY <1>2, <1>4, <1>7, <2>1
  <2> HIDE DEF s
  <2>3. \A j, k \in 1 .. Len(s.cache) : s.cache[j].grid = s.cache[k].grid => j = k
    BY <1>14, <2>1, <2>2
  <2>4. s.keys = {s.cache[k].grid : k \in 1 .. Len(s.cache)} /\ Len(s.cache) < Capacity
    BY <1>15, <2>1, <2>2
  <2>5. \A k \in 1 .. Len(s.cache) : \E last \in 1 .. Len(s.log) :
          /\ Pos2Grid(s.log[last]) = s.cache[k].grid
          /\ Used(s.log, last + 1, Len(s.log)) = GridsBefore(s.cache, k)
    BY <1>16, <2>1, <2>2
  <2>6. \A n \in 1 .. Len(s.log) : Stays(s.log, n) => Pos2Grid(s.log[n]) \in s.keys
    BY <1>17, <2>1, <2>2
  <2>7. \A k \in 1 .. Len(s.cache) :
          s.cache[k].points = Pick(s.log, PlacesOf(s.log, s.cache[k].grid))
    BY <1>18, <2>1, <2>2
  <2> QED BY <2>3, <2>4, <2>5, <2>6, <2>7 DEF InOrderOfUse
<1> QED
  <2>1. s \in VoxelMap
    <3> HIDE DEF s
    <3> QED BY <1>13, <1>19 DEF VoxelMap
  <2> QED BY <2>1 DEF t, l, ks

\* A list with an element in front.
LEMMA InFront ==
  ASSUME NEW S, NEW c \in Seq(S), NEW x \in S
  PROVE  /\ <<x>> \o c \in Seq(S) /\ Len(<<x>> \o c) = Len(c) + 1 /\ Len(c) \in Nat
         /\ (<<x>> \o c)[1] = x /\ \A k \in 1 .. Len(c) : (<<x>> \o c)[k + 1] = c[k]
<1> DEFINE u == <<x>>
<1>1. u \in Seq(S) /\ Len(u) = 1 /\ u[1] = x
  OBVIOUS
<1> HIDE DEF u
<1> DEFINE w == u \o c
<1>2. /\ w \in Seq(S) /\ Len(w) = Len(u) + Len(c)
      /\ \A k \in 1 .. Len(u) + Len(c) : w[k] = IF k <= Len(u) THEN u[k] ELSE c[k - Len(u)]
  BY <1>1, ConcatProperties
<1>3. Len(c) \in Nat
  BY LenProperties
<1> HIDE DEF w
<1>4. w \in Seq(S) /\ Len(w) = Len(c) + 1 /\ w[1] = x
  BY <1>1, <1>2, <1>3
<1>5. ASSUME NEW k \in 1 .. Len(c) PROVE w[k + 1] = c[k]
  <2>1. k + 1 \in 1 .. 1 + Len(c) /\ ~(k + 1 <= 1) /\ (k + 1) - 1 = k
    BY <1>3
  <2> QED BY <1>1, <1>2, <2>1
<1> QED BY <1>3, <1>4, <1>5 DEF w, u

\* A function on the places of a sequence is one.
LEMMA SeqOfFunction ==
  ASSUME NEW S, NEW n \in Nat, NEW f \in [1 .. n -> S]
  PROVE  f \in Seq(S) /\ Len(f) = n
  OBVIOUS

\* A point, added.
LEMMA AddPointKeeps ==
  ASSUME NEW st \in VoxelMap, NEW p \in Int
  PROVE  AddPoint(st, p) \in VoxelMap
<1> DEFINE c == st.cache
<1> DEFINE N == Len(c)
<1> DEFINE g == Pos2Grid(p)
<1> DEFINE own == {j \in DOMAIN c : c[j].grid = g}
<1> DEFINE x == [grid |-> g, points |-> <<p>>]
<1> DEFINE grown == <<x>> \o c
<1> DEFINE all == Append(st.log, p)
<1>1. /\ st = [cache |-> c, keys |-> st.keys, log |-> st.log]
      /\ c \in Seq(GridOfPoints) /\ N \in Nat /\ st.log \in Seq(Int) /\ DOMAIN c = 1 .. N
      /\ \A k \in 1 .. N : c[k] \in GridOfPoints
  BY LenProperties, ElementOfSeq DEF VoxelMap
<1>2. g \in Int /\ Capacity \in Nat /\ Capacity >= 2
  <2>1. g \in Int
    BY GridOfPosition
  <2>2. Capacity \in Nat \ {0, 1}
    BY LocalMapAssumption
  <2> HIDE DEF g
  <2> QED BY <2>1, <2>2
<1>3. /\ \A j, k \in 1 .. N : c[j].grid = c[k].grid => j = k
      /\ st.keys = {c[k].grid : k \in 1 .. N} /\ N < Capacity
  BY DEF VoxelMap, InOrderOfUse
<1>4. IsFiniteSet(st.keys) /\ Cardinality(st.keys) = N
  BY KeysCount
<1>5. x \in GridOfPoints
  BY <1>2 DEF GridOfPoints
<1>6. /\ grown \in Seq(GridOfPoints) /\ Len(grown) = N + 1 /\ grown[1] = x
      /\ \A k \in 1 .. N : grown[k + 1] = c[k]
  <2> HIDE DEF c, x
  <2> QED BY <1>1, <1>5, InFront
<1>7. CASE g \in st.keys
  <2> DEFINE i == CHOOSE j \in own : TRUE
  <2> DEFINE list == [c EXCEPT ![i].points = Append(@, p)]
  <2>1. AddPoint(st, p) = [cache |-> Recent(list, i), keys |-> st.keys, log |-> all]
    BY <1>7 DEF AddPoint
  <2>2. i \in 1 .. N /\ c[i].grid = g
    <3>1. \E j : j \in own
      BY <1>1, <1>3, <1>7
    <3>2. i \in own
      BY <3>1
    <3> QED BY <1>1, <3>2
  <2> HIDE DEF i, c, N, g
  <2> DEFINE y == [grid |-> g, points |-> Append(c[i].points, p)]
  <2>3. list = [c EXCEPT ![i] = y] /\ y \in GridOfPoints
    <3>1. c[i] \in [grid : Int, points : Seq(Int)]
      BY <1>1, <2>2 DEF GridOfPoints
    <3>2. [c[i] EXCEPT !.points = Append(@, p)] = y
      <4> DEFINE o == c[i]
      <4> DEFINE more == Append(o.points, p)
      <4>1. o \in [grid : Int, points : Seq(Int)] /\ o.grid = g
        BY <2>2, <3>1
      <4> HIDE DEF o, more
      <4>2. [o EXCEPT !.points = more] = [grid |-> g, points |-> more]
        BY <4>1
      <4> QED BY <4>2 DEF o, more
    <3>3. Append(c[i].points, p) \in Seq(Int)
      BY <3>1
    <3> QED BY <1>2, <3>2, <3>3 DEF GridOfPoints
  <2> HIDE DEF list
  <2>4. list \in Seq(GridOfPoints) /\ Len(list) = N /\ list[i] = y
        /\ \A k \in 1 .. N : k # i => list[k] = c[k]
    <3>1. c \in [1 .. N -> GridOfPoints]
      BY <1>1
    <3>2. list \in [1 .. N -> GridOfPoints] /\ list[i] = y /\ \A k \in 1 .. N : k # i => list[k] = c[k]
      BY <2>2, <2>3, <3>1
    <3>3. list \in Seq(GridOfPoints) /\ Len(list) = N
      BY <1>1, <3>2, SeqOfFunction
    <3> QED BY <3>2, <3>3
  <2> DEFINE new == Recent(list, i)
  <2>5. /\ new \in Seq(GridOfPoints) /\ Len(new) = N /\ new[1] = y
        /\ \A k \in 2 .. i : new[k] = list[k - 1]
        /\ \A k \in i + 1 .. N : new[k] = list[k]
    <3> HIDE DEF y
    <3>1. list \in Seq(GridOfPoints) /\ i \in 1 .. Len(list) /\ Len(list) = N /\ list[i] = y
      BY <2>2, <2>4
    <3>2. /\ Recent(list, i) \in Seq(GridOfPoints) /\ Len(Recent(list, i)) = Len(list)
          /\ Recent(list, i)[1] = list[i]
          /\ \A k \in 2 .. i : Recent(list, i)[k] = list[k - 1]
          /\ \A k \in i + 1 .. Len(list) : Recent(list, i)[k] = list[k]
      BY <3>1, RecentIs
    <3> HIDE DEF new
    <3> QED BY <3>1, <3>2 DEF new
  <2> HIDE DEF new
  <2>6. /\ \A k \in 2 .. i : new[k] = c[k - 1]
        /\ \A k \in i + 1 .. N : new[k] = c[k]
    <3>1. ASSUME NEW k \in 2 .. i PROVE new[k] = c[k - 1]
      <4>1. k - 1 \in 1 .. N /\ k - 1 # i
        BY <1>1, <2>2
      <4> QED BY <2>4, <2>5, <4>1
    <3>2. ASSUME NEW k \in i + 1 .. N PROVE new[k] = c[k]
      <4>1. k \in 1 .. N /\ k # i
        BY <1>1, <2>2
      <4> QED BY <2>4, <2>5, <4>1
    <3> QED BY <3>1, <3>2
  <2> HIDE DEF y
  <2>7. [cache |-> new, keys |-> st.keys, log |-> Append(st.log, p)] \in VoxelMap
    BY <2>2, <2>5, <2>6, GridReturns DEF y, c, N, g
  <2> QED BY <2>1, <2>7 DEF new
<1>8. CASE g \notin st.keys /\ Cardinality(st.keys) + 1 < Capacity
  <2> DEFINE ks == st.keys \cup {g}
  <2>1. AddPoint(st, p) = [cache |-> grown, keys |-> ks, log |-> all]
    BY <1>8 DEF AddPoint
  <2> HIDE DEF grown, c
  <2> DEFINE m == N
  <2>2. m \in Nat /\ m + 1 < Capacity /\ m = Len(c) /\ Len(grown) = m + 1
    BY <1>1, <1>4, <1>6, <1>8
  <2>3. ks = {g} \cup {c[k].grid : k \in 1 .. m}
    BY <1>3
  <2> HIDE DEF ks, m
  <2>4. [cache |-> grown, keys |-> ks, log |-> Append(st.log, p)] \in VoxelMap
    BY <1>6, <1>8, <2>2, <2>3, GridComes DEF c, m
  <2> QED BY <2>1, <2>4
<1>9. CASE g \notin st.keys /\ ~(Cardinality(st.keys) + 1 < Capacity)
  <2> DEFINE ks == (st.keys \cup {g}) \ {Last(grown).grid}
  <2> DEFINE new == Front(grown)
  <2>1. AddPoint(st, p) = [cache |-> new, keys |-> ks, log |-> all]
    BY <1>9 DEF AddPoint
  <2> DEFINE m == N - 1
  <2> HIDE DEF grown, c, x
  <2>2. m \in Nat /\ m + 1 < Capacity /\ m + 1 = N /\ N = Capacity - 1 /\ N >= 1
    <3> HIDE DEF N
    <3> QED BY <1>1, <1>2, <1>3, <1>4, <1>9
  <2>3. new \in Seq(GridOfPoints) /\ Len(new) = m + 1 /\ \A k \in 1 .. m + 1 : new[k] = grown[k]
    <3> DEFINE G == Len(grown)
    <3> DEFINE e == G - 1
    <3>1. G = N + 1 /\ e = N
      BY <1>1, <1>6
    <3>2. /\ 1 \in 1 .. G + 1 /\ e \in 1 - 1 .. G /\ (e - 1) + 1 = m + 1
          /\ \A k \in 1 .. m + 1 : 1 + (k - 1) = k
      BY <1>1, <2>2, <3>1
    <3> HIDE DEF e
    <3>3. /\ SubSeq(grown, 1, e) \in Seq(GridOfPoints) /\ Len(SubSeq(grown, 1, e)) = (e - 1) + 1
          /\ \A k \in 1 .. (e - 1) + 1 : SubSeq(grown, 1, e)[k] = grown[1 + (k - 1)]
      BY <1>6, <3>2, SliceIs
    <3>4. new = SubSeq(grown, 1, e)
      BY DEF Front, e
    <3> HIDE DEF new, m
    <3> QED BY <3>2, <3>3, <3>4
  <2>4. Last(grown) = c[N]
    BY <1>1, <1>6, <2>2 DEF Last
  <2> HIDE DEF new
  <2>5. new[1] = x /\ \A k \in 1 .. m : new[k + 1] = c[k]
    <3>1. 1 \in 1 .. m + 1 /\ \A k \in 1 .. m : k + 1 \in 1 .. m + 1 /\ k \in 1 .. N
      BY <2>2
    <3> QED BY <1>6, <2>3, <3>1
  <2>6. ks = {g} \cup {c[k].grid : k \in 1 .. m}
    <3> HIDE DEF g
    <3>1. \A k \in 1 .. m : k \in 1 .. N /\ k # N
      BY <2>2
    <3>2. \A k \in 1 .. N : k = N \/ k \in 1 .. m
      BY <2>2
    <3>3. N \in 1 .. N /\ c[N].grid \in st.keys
      BY <1>1, <1>3, <2>2
    <3>4. \A k \in 1 .. m : c[k].grid # c[N].grid
      BY <1>3, <3>1, <3>3
    <3>5. c[N].grid # g
      BY <1>9, <3>3
    <3>6. ks = (st.keys \cup {g}) \ {c[N].grid}
      BY <2>4
    <3> HIDE DEF ks, m
    <3>7. ASSUME NEW h \in ks PROVE h \in {g} \cup {c[k].grid : k \in 1 .. m}
      BY <1>3, <3>2, <3>6
    <3>8. ASSUME NEW h \in {g} \cup {c[k].grid : k \in 1 .. m} PROVE h \in ks
      BY <1>3, <3>1, <3>4, <3>5, <3>6
    <3> QED BY <3>7, <3>8
  <2> HIDE DEF ks, m, N
  <2>7. [cache |-> new, keys |-> ks, log |-> Append(st.log, p)] \in VoxelMap
    BY <1>9, <2>2, <2>3, <2>5, <2>6, GridComes DEF c, N, x
  <2> QED BY <2>1, <2>7
<1> QED BY <1>7, <1>8, <1>9

\* The points of a call, one after the other.
WithAll(st, points) ==
  LET f[n \in 0 .. Len(points)] == IF n = 0 THEN st ELSE AddPoint(f[n - 1], points[n])
  IN f[Len(points)]
LEMMA AddPointsKeeps ==
  ASSUME NEW st \in VoxelMap, NEW points \in Seq(Int)
  PROVE  WithAll(st, points) \in VoxelMap
<1> DEFINE N == Len(points)
<1> DEFINE f[n \in 0 .. N] == IF n = 0 THEN st ELSE AddPoint(f[n - 1], points[n])
<1> DEFINE step == [d \in (1 .. N) \X VoxelMap |-> AddPoint(d[2], points[d[1]])]
<1>1. N \in Nat /\ \A n \in 1 .. N : points[n] \in Int
  BY LenProperties, ElementOfSeq
<1>2. WithAll(st, points) = f[N]
  BY DEF WithAll
<1> HIDE DEF N
<1>3. /\ step \in StepsOf(N, VoxelMap)
      /\ \A n \in 1 .. N, x \in VoxelMap : step[<<n, x>>] = AddPoint(x, points[n])
  BY <1>1, AddPointKeeps DEF StepsOf
<1> HIDE DEF step
<1>4. PICK h : Unrolls(h, st, N, VoxelMap, step)
  BY <1>1, <1>3, Recursion
<1>5. /\ h \in [0 .. N -> VoxelMap] /\ h[0] = st
      /\ \A n \in 1 .. N : h[n] = AddPoint(h[n - 1], points[n])
  <2>1. h \in [0 .. N -> VoxelMap] /\ h[0] = st /\ \A n \in 1 .. N : h[n] = step[<<n, h[n - 1]>>]
    BY <1>4 DEF Unrolls
  <2>2. \A n \in 1 .. N : h[n - 1] \in VoxelMap
    BY <1>1, <2>1
  <2> QED BY <1>3, <2>1, <2>2
<1>6. h = [n \in 0 .. N |-> IF n = 0 THEN st ELSE AddPoint(h[n - 1], points[n])]
  BY <1>5
<1>7. f = [n \in 0 .. N |-> IF n = 0 THEN st ELSE AddPoint(f[n - 1], points[n])]
  BY <1>6
<1> HIDE DEF f
<1>8. \A n \in 0 .. N : f[n] = IF n = 0 THEN st ELSE AddPoint(f[n - 1], points[n])
  BY <1>7
<1> DEFINE T == {n \in 0 .. N : f[n] = h[n]}
<1>9. 0 \in T
  BY <1>1, <1>5, <1>8
<1>10. ASSUME NEW n \in 1 .. N, n - 1 \in T PROVE n \in T
  <2>1. n \in 0 .. N /\ f[n] = AddPoint(f[n - 1], points[n])
    BY <1>1, <1>8
  <2> QED BY <1>5, <1>10, <2>1
<1>11. N \in T
  <2> HIDE DEF T
  <2>1. 0 .. N \subseteq T
    BY <1>1, <1>9, <1>10, UpTo
  <2> QED BY <1>1, <2>1
<1> QED BY <1>1, <1>2, <1>5, <1>11

\* A map in the order of use holds what was used recently.
LEMMA MapKeepsRecent ==
  ASSUME [cache |-> cache, keys |-> keys, log |-> log] \in VoxelMap
  PROVE  KeepsRecentlyUsed
<1> DEFINE st == [cache |-> cache, keys |-> keys, log |-> log]
<1> DEFINE N == Len(cache)
<1> DEFINE L == Len(log)
<1>1. st.cache = cache /\ st.keys = keys /\ st.log = log
  OBVIOUS
<1>2. st \in VoxelMap
  OBVIOUS
<1> HIDE DEF st
<1>3. /\ cache \in Seq(GridOfPoints) /\ log \in Seq(Int) /\ N \in Nat /\ L \in Nat
      /\ DOMAIN cache = 1 .. N /\ DOMAIN log = 1 .. L
  BY <1>1, <1>2, LenProperties DEF VoxelMap
<1>4. /\ keys = {cache[i].grid : i \in 1 .. N} /\ N < Capacity
      /\ \A n \in 1 .. L : Stays(log, n) => Pos2Grid(log[n]) \in keys
      /\ \A i \in 1 .. N : cache[i].points = Pick(log, PlacesOf(log, cache[i].grid))
  BY <1>1, <1>2 DEF VoxelMap, InOrderOfUse
<1>5. \A i \in 1 .. N : \E last \in 1 .. L :
        /\ Pos2Grid(log[last]) = cache[i].grid
        /\ Used(log, last + 1, L) = GridsBefore(cache, i)
  BY <1>1, <1>2 DEF VoxelMap, InOrderOfUse
<1>6. Cardinality(keys) = N
  BY <1>1, <1>2, KeysCount
<1>7. Capacity \in Nat
  BY LocalMapAssumption
<1> DEFINE held == {n \in DOMAIN log :
      \A a \in n + 1 .. Len(log) : \A b \in a .. Len(log) :
        \/ Pos2Grid(log[n]) \in {Pos2Grid(log[k]) : k \in a .. b}
        \/ Cardinality({Pos2Grid(log[k]) : k \in a .. b}) < Capacity - 1}
<1>8. held = {n \in 1 .. L : Stays(log, n)}
  BY <1>3 DEF Stays, Used
<1>9. KeepsRecentlyUsed <=>
        /\ keys = {Pos2Grid(log[n]) : n \in held} /\ Cardinality(keys) = Len(cache)
        /\ \A i \in DOMAIN cache :
             /\ cache[i].grid \in keys
             /\ cache[i].points = Pick(log, {n \in held : Pos2Grid(log[n]) = cache[i].grid})
  BY DEF KeepsRecentlyUsed
<1> HIDE DEF held, L, N
<1>10. ASSUME NEW h \in keys PROVE \E n \in held : h = Pos2Grid(log[n])
  <2>1. PICK i \in 1 .. N : h = cache[i].grid
    BY <1>4
  <2>2. PICK last \in 1 .. L : Pos2Grid(log[last]) = h /\ Used(log, last + 1, L) = GridsBefore(cache, i)
    BY <1>5, <2>1
  <2> DEFINE u == GridsBefore(cache, i)
  <2>3. IsFiniteSet(u) /\ Cardinality(u) <= i - 1
    BY <1>3, BeforeCount
  <2> HIDE DEF u
  <2>4. Cardinality(u) \in Nat /\ Cardinality(u) < Capacity - 1
    <3>1. Cardinality(u) \in Nat
      BY <2>3, FS_CardinalityType
    <3> QED BY <1>3, <1>4, <1>7, <2>3, <3>1
  <2>5. ASSUME NEW a \in last + 1 .. L, NEW b \in a .. L
        PROVE  Cardinality(Used(log, a, b)) < Capacity - 1
    <3> DEFINE v == Used(log, a, b)
    <3>1. \A k \in a .. b : k \in last + 1 .. L
      BY <1>3
    <3>2. v \subseteq u
      BY <2>2, <3>1 DEF Used, u
    <3> HIDE DEF v
    <3>3. IsFiniteSet(v) /\ Cardinality(v) <= Cardinality(u)
      BY <2>3, <3>2, FS_Subset
    <3>4. Cardinality(v) \in Nat
      BY <3>3, FS_CardinalityType
    <3>5. Cardinality(v) < Capacity - 1
      BY <1>7, <2>4, <3>3, <3>4
    <3> QED BY <3>5 DEF v
  <2>6. Stays(log, last)
    BY <2>5 DEF Stays, L
  <2> QED BY <1>8, <2>2, <2>6
<1>11. keys = {Pos2Grid(log[n]) : n \in held}
  BY <1>4, <1>8, <1>10
<1>12. ASSUME NEW i \in DOMAIN cache
       PROVE  /\ cache[i].grid \in keys
              /\ cache[i].points = Pick(log, {n \in held : Pos2Grid(log[n]) = cache[i].grid})
  <2>1. i \in 1 .. N
    BY <1>3
  <2>2. PlacesOf(log, cache[i].grid) = {n \in held : Pos2Grid(log[n]) = cache[i].grid}
    BY <1>8 DEF PlacesOf, L
  <2> QED BY <1>4, <2>1, <2>2
<1> QED BY <1>6, <1>9, <1>11, <1>12 DEF N

\* A point in the map is one that was given to it.
LEMMA PointsAreGiven ==
  ASSUME [cache |-> cache, keys |-> keys, log |-> log] \in VoxelMap,
         NEW m \in DOMAIN cache, NEW j \in 1 .. Len(cache[m].points)
  PROVE  \E k \in DOMAIN log : cache[m].points[j] = log[k]
<1> DEFINE st == [cache |-> cache, keys |-> keys, log |-> log]
<1>1. st.cache = cache /\ st.keys = keys /\ st.log = log
  OBVIOUS
<1>2. st \in VoxelMap
  OBVIOUS
<1> HIDE DEF st
<1>3. /\ cache \in Seq(GridOfPoints) /\ log \in Seq(Int)
      /\ DOMAIN cache = 1 .. Len(cache) /\ DOMAIN log = 1 .. Len(log)
  BY <1>1, <1>2, LenProperties DEF VoxelMap
<1>4. cache[m].points = Pick(log, PlacesOf(log, cache[m].grid))
  BY <1>1, <1>2, <1>3 DEF VoxelMap, InOrderOfUse
<1> DEFINE ns == PlacesOf(log, cache[m].grid)
<1> HIDE DEF ns
<1>5. j \in 1 .. Len(Pick(log, ns)) /\ cache[m].points = Pick(log, ns)
  BY <1>4 DEF ns
<1>6. PICK k \in ns \cap (1 .. Len(log)) : Pick(log, ns)[j] = log[k]
  BY <1>3, <1>5, PickMembers
<1>7. k \in DOMAIN log /\ cache[m].points[j] = log[k]
  BY <1>3, <1>5, <1>6
<1> QED BY <1>7

-------------------------------------------------------------------------------
(* The neighbours. *)

\* Below each member of an ordered finite set are as many as its place in the order says.
Below(S, R, c) == Cardinality({d \in S : <<d, c>> \in R})
LEMMA RanksExist ==
  ASSUME NEW S, IsFiniteSet(S), NEW R,
         \A a \in S : <<a, a>> \notin R,
         \A a, b \in S : a = b \/ <<a, b>> \in R \/ <<b, a>> \in R,
         \A a, b, c \in S : <<a, b>> \in R /\ <<b, c>> \in R => <<a, c>> \in R,
         NEW r \in 0 .. Cardinality(S) - 1
  PROVE  \E c \in S : Below(S, R, c) = r
<1> DEFINE n == Cardinality(S)
<1> DEFINE f == [c \in S |-> Below(S, R, c)]
<1> DEFINE below(c) == {d \in S : <<d, c>> \in R}
<1>1. n \in Nat
  BY FS_CardinalityType
<1>2. ASSUME NEW c \in S
      PROVE  IsFiniteSet(below(c)) /\ f[c] = Cardinality(below(c)) /\ f[c] \in 0 .. n - 1
  <2> DEFINE t == below(c)
  <2>1. t \subseteq S /\ c \notin t /\ f[c] = Cardinality(t)
    BY DEF Below
  <2> HIDE DEF t, f
  <2>2. IsFiniteSet(t) /\ Cardinality(t) <= n /\ (n = Cardinality(t) => S = t)
    BY <2>1, FS_Subset
  <2>3. Cardinality(t) \in Nat /\ n # Cardinality(t)
    BY <2>1, <2>2, FS_CardinalityType
  <2>4. f[c] \in 0 .. n - 1
    BY <1>1, <2>1, <2>2, <2>3
  <2> QED BY <2>1, <2>2, <2>4 DEF t
<1>3. ASSUME NEW c \in S, NEW d \in S, <<c, d>> \in R PROVE f[c] # f[d]
  <2> DEFINE t == below(c)
  <2> DEFINE u == below(d)
  <2>1. t \subseteq u /\ c \in u /\ c \notin t
    BY <1>3
  <2>2. IsFiniteSet(u) /\ f[c] = Cardinality(t) /\ f[d] = Cardinality(u)
    BY <1>2
  <2> HIDE DEF t, u, f
  <2>3. Cardinality(u) = Cardinality(t) => u = t
    BY <2>1, <2>2, FS_Subset
  <2> QED BY <2>1, <2>2, <2>3
<1> DEFINE T == 0 .. n - 1
<1>4. f \in [S -> T] /\ \A c, d \in S : f[c] = f[d] => c = d
  <2>1. \A c \in S : f[c] \in T
    BY <1>2
  <2>2. f \in [S -> T]
    BY <2>1
  <2>3. ASSUME NEW c \in S, NEW d \in S, f[c] = f[d] PROVE c = d
    <3> HIDE DEF f
    <3> QED BY <1>3, <2>3
  <2> HIDE DEF f, T
  <2> QED BY <2>2, <2>3
<1>5. IsFiniteSet(T) /\ Cardinality(T) = n
  BY <1>1, FS_Interval
<1>6. \A c \in S : f[c] = Below(S, R, c)
  OBVIOUS
<1>7. r \in T
  OBVIOUS
<1> HIDE DEF f, T
<1>8. f \in Injection(S, T)
  BY <1>4 DEF Injection, IsInjective
<1>9. f \in Surjection(S, T)
  BY <1>5, <1>8, FS_Injection DEF n
<1>10. PICK c \in S : f[c] = r
  BY <1>7, <1>9 DEF Surjection
<1> QED BY <1>6, <1>10

\* The points of the neighbourhood, and their order.
PointPlaces == {c \in (DOMAIN cache) \X Nat : c[2] \in DOMAIN cache[c[1]].points}
LEMMA AroundIsFinite ==
  ASSUME cache \in Seq(GridOfPoints), NEW p
  PROVE  IsFiniteSet(Around(p)) /\ Around(p) \subseteq PointPlaces
<1> DEFINE K == {k \in DOMAIN cache : cache[k].grid - Pos2Grid(p) \in {-1, 0, 1}}
<1> DEFINE F == [i \in K |-> KNNPointByCondition(i, p)]
<1> DEFINE U == {KNNPointByCondition(i, p) : i \in K}
<1>0. Len(cache) \in Nat /\ DOMAIN cache = 1 .. Len(cache)
      /\ \A i \in DOMAIN cache : cache[i] \in GridOfPoints
  BY LenProperties, ElementOfSeq
<1>1. IsFiniteSet(DOMAIN cache)
  BY <1>0, FS_Interval
<1>2. IsFiniteSet(K)
  BY <1>1, FS_Subset
<1>3. F \in Surjection(K, U)
  BY DEF Surjection
<1>4. Around(p) = UNION U
  BY DEF Around
<1>5. ASSUME NEW i \in K
      PROVE  IsFiniteSet(KNNPointByCondition(i, p)) /\ KNNPointByCondition(i, p) \subseteq PointPlaces
  <2> DEFINE D == DOMAIN cache[i].points
  <2> DEFINE P == PointsIn(i)
  <2> DEFINE h == [j \in D |-> <<i, j>>]
  <2>1. cache[i].points \in Seq(Int)
    BY <1>0 DEF GridOfPoints
  <2>2. D = 1 .. Len(cache[i].points) /\ Len(cache[i].points) \in Nat
    BY <2>1, LenProperties
  <2>3. IsFiniteSet(D)
    <3> DEFINE n == Len(cache[i].points)
    <3>1. D = 1 .. n /\ n \in Nat
      BY <2>2
    <3> HIDE DEF n, D
    <3>2. IsFiniteSet(1 .. n)
      BY <3>1, FS_Interval
    <3> QED BY <3>1, <3>2
  <2>4. h \in Surjection(D, P)
    BY DEF Surjection, PointsIn
  <2>5. P \subseteq PointPlaces
    BY <2>2 DEF PointsIn, PointPlaces
  <2>6. KNNPointByCondition(i, p) \subseteq P
    BY DEF KNNPointByCondition
  <2> HIDE DEF h, P, D
  <2>8. IsFiniteSet(P)
    BY <2>3, <2>4, FS_Surjection
  <2>9. IsFiniteSet(KNNPointByCondition(i, p))
    BY <2>6, <2>8, FS_Subset
  <2> QED BY <2>5, <2>6, <2>9
<1> HIDE DEF F, K
<1>7. \A T \in U : IsFiniteSet(T) /\ T \subseteq PointPlaces
  BY <1>5
<1> HIDE DEF U
<1>8. IsFiniteSet(U)
  BY <1>2, <1>3, FS_Surjection
<1>9. IsFiniteSet(UNION U)
  BY <1>7, <1>8, FS_UNION
<1> QED BY <1>4, <1>7, <1>9

\* A neighbour that is found is a point of the map.
InMap(x) == \E m \in DOMAIN cache : Contains(cache[m].points, x)
LEMMA ClosestAreInMap ==
  ASSUME cache \in Seq(GridOfPoints), NEW p \in Int, NEW k \in DOMAIN GetClosestPoint(p)
  PROVE  InMap(GetClosestPoint(p)[k])
<1> DEFINE S == Around(p)
<1> DEFINE R == {e \in S \X S : Nearer(e[1], e[2], p)}
<1>1. IsFiniteSet(S) /\ S \subseteq PointPlaces
  BY AroundIsFinite
<1>2. /\ k \in 1 .. Matches /\ k <= Cardinality(S)
      /\ GetClosestPoint(p)[k] = At(CHOOSE c \in S : Rank(c, p) = k - 1)
  BY DEF GetClosestPoint
<1>3. Cardinality(S) \in Nat /\ Matches \in Nat
  BY <1>1, FS_CardinalityType, LocalMapAssumption
<1>4. ASSUME NEW c \in S
      PROVE  /\ c[1] \in Int /\ c[2] \in Int /\ Distance(c, p) \in Int /\ InMap(At(c)) /\ c = <<c[1], c[2]>>
  <2>1. c \in PointPlaces
    BY <1>1
  <2>2. c[1] \in DOMAIN cache /\ c[2] \in Nat /\ c[2] \in DOMAIN cache[c[1]].points /\ c = <<c[1], c[2]>>
    BY <2>1 DEF PointPlaces
  <2>3. DOMAIN cache = 1 .. Len(cache) /\ Len(cache) \in Nat
    BY LenProperties
  <2>4. cache[c[1]] \in GridOfPoints
    BY <2>2, <2>3, ElementOfSeq
  <2> DEFINE q == cache[c[1]].points
  <2>5. q \in Seq(Int) /\ c[2] \in DOMAIN q /\ At(c) = q[c[2]]
    BY <2>2, <2>4 DEF GridOfPoints, At
  <2> HIDE DEF q
  <2>6. c[2] \in 1 .. Len(q) /\ q[c[2]] \in Int
    BY <2>5, LenProperties, ElementOfSeq
  <2>7. Distance(c, p) \in Int
    BY <2>5, <2>6 DEF Distance
  <2>8. InMap(At(c))
    BY <2>2, <2>5, <2>6 DEF InMap, Contains, q
  <2> QED BY <2>2, <2>3, <2>7, <2>8
<1>5. \A c, d \in S : <<c, d>> \in R <=> Nearer(c, d, p)
  OBVIOUS
<1> HIDE DEF S, R
<1>6. \A c \in S : ~Nearer(c, c, p)
  BY <1>4 DEF Nearer
<1>7. ASSUME NEW c \in S, NEW d \in S PROVE c = d \/ Nearer(c, d, p) \/ Nearer(d, c, p)
  <2>1. CASE Distance(c, p) # Distance(d, p)
    BY <1>4, <2>1 DEF Nearer
  <2>2. CASE Distance(c, p) = Distance(d, p) /\ c[1] # d[1]
    BY <1>4, <2>2 DEF Nearer
  <2>3. CASE Distance(c, p) = Distance(d, p) /\ c[1] = d[1] /\ c[2] # d[2]
    BY <1>4, <2>3 DEF Nearer
  <2>4. CASE c[1] = d[1] /\ c[2] = d[2]
    BY <1>4, <2>4
  <2> QED BY <2>1, <2>2, <2>3, <2>4
<1>8. ASSUME NEW c \in S, NEW d \in S, NEW e \in S, Nearer(c, d, p), Nearer(d, e, p)
      PROVE  Nearer(c, e, p)
  <2> DEFINE D(x) == Distance(x, p)
  <2>1. /\ D(c) \in Int /\ D(d) \in Int /\ D(e) \in Int
        /\ c[1] \in Int /\ d[1] \in Int /\ e[1] \in Int /\ c[2] \in Int /\ d[2] \in Int /\ e[2] \in Int
    BY <1>4
  <2>2. \A x, y \in S : Nearer(x, y, p) <=>
          \/ D(x) < D(y)
          \/ D(x) = D(y) /\ x[1] < y[1]
          \/ D(x) = D(y) /\ x[1] = y[1] /\ x[2] < y[2]
    BY DEF Nearer
  <2> HIDE DEF D
  <2>3. /\ \/ D(c) < D(d)
           \/ D(c) = D(d) /\ c[1] < d[1]
           \/ D(c) = D(d) /\ c[1] = d[1] /\ c[2] < d[2]
        /\ \/ D(d) < D(e)
           \/ D(d) = D(e) /\ d[1] < e[1]
           \/ D(d) = D(e) /\ d[1] = e[1] /\ d[2] < e[2]
    BY <1>8, <2>2
  <2>4. \/ D(c) < D(e)
        \/ D(c) = D(e) /\ c[1] < e[1]
        \/ D(c) = D(e) /\ c[1] = e[1] /\ c[2] < e[2]
    BY <2>1, <2>3
  <2> QED BY <2>2, <2>4
<1>9. k - 1 \in 0 .. Cardinality(S) - 1
  BY <1>2, <1>3
<1>10. /\ \A a \in S : <<a, a>> \notin R
       /\ \A a, b \in S : a = b \/ <<a, b>> \in R \/ <<b, a>> \in R
       /\ \A a, b, c \in S : <<a, b>> \in R /\ <<b, c>> \in R => <<a, c>> \in R
  BY <1>5, <1>6, <1>7, <1>8, Zenon
<1>11. PICK c \in S : Below(S, R, c) = k - 1
  BY <1>1, <1>9, <1>10, RanksExist
<1>12. Rank(c, p) = Below(S, R, c)
  <2>1. {d \in S : Nearer(d, c, p)} = {d \in S : <<d, c>> \in R}
    BY <1>5
  <2> QED BY <2>1 DEF Rank, Below, S
<1>13. (CHOOSE d \in S : Rank(d, p) = k - 1) \in S
  BY <1>11, <1>12
<1> QED BY <1>2, <1>4, <1>13

-------------------------------------------------------------------------------
(* The points of a scan. *)

\* f joins the groups one after the other.
Joins(f, scan) ==
  /\ f \in [0 .. Len(scan) - 1 -> Seq(Int)] /\ f[0] = scan[1]
  /\ \A k \in 1 .. Len(scan) - 1 : f[k] = f[k - 1] \o scan[k + 1]
  /\ FlattenSeq(scan) = f[Len(scan) - 1]

\* Of a scan with some group there is one.
LEMMA ScanJoins ==
  ASSUME NEW scan \in Seq(Seq(Int)), Len(scan) # 0
  PROVE  \E f : Joins(f, scan)
<1> DEFINE Q == Seq(Int)
<1> DEFINE N == Len(scan)
<1> DEFINE flatten[i \in 1 .. N] == IF i = 1 THEN scan[i] ELSE flatten[i - 1] \o scan[i]
<1> DEFINE step == [d \in (1 .. N - 1) \X Q |-> d[2] \o scan[d[1] + 1]]
<1>1. N \in Nat /\ N # 0 /\ N - 1 \in Nat /\ \A i \in 1 .. N : scan[i] \in Q
  BY LenProperties, ElementOfSeq
<1>2. FlattenSeq(scan) = flatten[N]
  BY DEF FlattenSeq
<1> HIDE DEF N
<1>3. ASSUME NEW n \in 1 .. N - 1, NEW x \in Q PROVE x \o scan[n + 1] \in Q
  <2>1. scan[n + 1] \in Q
    BY <1>1
  <2> DEFINE y == scan[n + 1]
  <2> HIDE DEF y
  <2>2. x \o y \in Seq(Int)
    BY <2>1, ConcatProperties DEF y
  <2> QED BY <2>2 DEF y
<1> HIDE DEF Q
<1>4. step \in StepsOf(N - 1, Q) /\ \A n \in 1 .. N - 1, x \in Q : step[<<n, x>>] = x \o scan[n + 1]
  BY <1>3 DEF StepsOf
<1> HIDE DEF step
<1> DEFINE a == scan[1]
<1> DEFINE M == N - 1
<1>5. a \in Q /\ M \in Nat
  BY <1>1
<1> HIDE DEF a, M
<1>6. PICK h : Unrolls(h, a, M, Q, step)
  BY <1>4, <1>5, Recursion DEF M
<1>7. h \in [0 .. M -> Q] /\ h[0] = a /\ \A n \in 1 .. M : h[n] = step[<<n, h[n - 1]>>]
  BY <1>6 DEF Unrolls
<1>8. \A n \in 1 .. M : h[n] = h[n - 1] \o scan[n + 1]
  <2>1. ASSUME NEW n \in 1 .. M PROVE h[n - 1] \in Q
    <3>1. n - 1 \in 0 .. M
      BY <1>5
    <3> QED BY <1>7, <3>1
  <2> QED BY <1>4, <1>7, <2>1 DEF M
<1> DEFINE e == [i \in 1 .. N |-> h[i - 1]]
<1>9. e = [i \in 1 .. N |-> IF i = 1 THEN scan[i] ELSE e[i - 1] \o scan[i]]
  <2> SUFFICES ASSUME NEW i \in 1 .. N PROVE e[i] = IF i = 1 THEN scan[i] ELSE e[i - 1] \o scan[i]
    OBVIOUS
  <2>1. CASE i = 1
    BY <1>7, <2>1 DEF a
  <2>2. CASE i # 1
    <3>1. i - 1 \in 1 .. M /\ i - 1 \in 1 .. N /\ (i - 1) + 1 = i
      BY <1>1, <2>2 DEF M
    <3>2. h[i - 1] = h[(i - 1) - 1] \o scan[i] /\ e[i - 1] = h[(i - 1) - 1]
      BY <1>8, <3>1
    <3> QED BY <2>2, <3>2
  <2> QED BY <2>1, <2>2
<1> HIDE DEF e
<1>10. flatten = [i \in 1 .. N |-> IF i = 1 THEN scan[i] ELSE flatten[i - 1] \o scan[i]]
  BY <1>9
<1> HIDE DEF flatten
<1>11. \A i \in 1 .. N : flatten[i] = IF i = 1 THEN scan[i] ELSE flatten[i - 1] \o scan[i]
  BY <1>10
<1> DEFINE T == {n \in 0 .. M : flatten[n + 1] = h[n]}
<1>12. 0 \in T
  BY <1>1, <1>5, <1>7, <1>11 DEF a
<1>13. ASSUME NEW n \in 1 .. M, n - 1 \in T PROVE n \in T
  <2>1. n + 1 \in 1 .. N /\ n + 1 # 1 /\ n \in 0 .. M /\ (n + 1) - 1 = n /\ (n - 1) + 1 = n
    BY <1>1 DEF M
  <2>2. flatten[n + 1] = flatten[n] \o scan[n + 1]
    BY <1>11, <2>1
  <2> QED BY <1>8, <1>13, <2>1, <2>2
<1>14. M \in T
  <2> HIDE DEF T
  <2>1. 0 .. M \subseteq T
    BY <1>5, <1>12, <1>13, UpTo
  <2> QED BY <1>5, <2>1
<1>15. flatten[N] = h[M]
  BY <1>1, <1>14 DEF M
<1>16. Joins(h, scan)
  BY <1>2, <1>7, <1>8, <1>15 DEF Joins, M, N, Q, a
<1> QED BY <1>16

\* They are positions.
LEMMA ScanPoints ==
  ASSUME NEW scan \in Seq(Seq(Int))
  PROVE  FlattenSeq(scan) \in Seq(Int) /\ Size(scan) \in Nat
<1>1. Len(scan) \in Nat
  BY LenProperties
<1>2. CASE Len(scan) = 0
  <2>1. scan = <<>>
    BY <1>2, EmptySeq
  <2>2. FlattenSeq(scan) = <<>>
    BY <1>2, <2>1 DEF FlattenSeq
  <2> QED BY <2>2 DEF Size
<1>3. CASE Len(scan) # 0
  <2>1. PICK f : Joins(f, scan)
    BY <1>3, ScanJoins
  <2>2. f[Len(scan) - 1] \in Seq(Int)
    <3>1. Len(scan) - 1 \in 0 .. Len(scan) - 1
      BY <1>1, <1>3
    <3>2. f \in [0 .. Len(scan) - 1 -> Seq(Int)]
      BY <2>1 DEF Joins
    <3> QED BY <3>1, <3>2
  <2>3. FlattenSeq(scan) \in Seq(Int)
    BY <2>1, <2>2 DEF Joins
  <2> QED BY <2>3, LenProperties DEF Size
<1> QED BY <1>2, <1>3

\* Without its first group a scan has that many points less.
LEMMA SizeOfRest ==
  ASSUME NEW scan \in Seq(Seq(Int)), scan # <<>>
  PROVE  /\ Head(scan) \in Seq(Int) /\ Tail(scan) \in Seq(Seq(Int))
         /\ Size(scan) = Len(Head(scan)) + Size(Tail(scan))
<1> DEFINE rest == Tail(scan)
<1> DEFINE N == Len(scan)
<1>1. N \in Nat /\ N # 0 /\ \A i \in 1 .. N : scan[i] \in Seq(Int)
  BY LenProperties, ElementOfSeq, EmptySeq
<1>2. Head(scan) = scan[1] /\ scan[1] \in Seq(Int)
  BY <1>1
<1>3. /\ rest \in Seq(Seq(Int)) /\ Len(rest) = N - 1
      /\ \A i \in 1 .. N - 1 : rest[i] = scan[i + 1]
  BY HeadTailProperties
<1> HIDE DEF rest
<1>4. PICK f : Joins(f, scan)
  BY <1>1, ScanJoins
<1>5. /\ f \in [0 .. N - 1 -> Seq(Int)] /\ f[0] = scan[1]
      /\ \A k \in 1 .. N - 1 : f[k] = f[k - 1] \o scan[k + 1]
      /\ FlattenSeq(scan) = f[N - 1]
  BY <1>4 DEF Joins
<1> HIDE DEF N
<1>6. CASE N = 1
  <2>1. rest = <<>>
    BY <1>3, <1>6, EmptySeq
  <2>2. FlattenSeq(rest) = <<>> /\ Len(<<>>) = 0
    BY <2>1 DEF FlattenSeq
  <2>3. Size(rest) = 0 /\ FlattenSeq(scan) = scan[1]
    BY <1>5, <1>6, <2>2 DEF Size
  <2>4. Len(scan[1]) \in Nat
    BY <1>2, LenProperties
  <2>5. Size(scan) = Len(scan[1])
    BY <2>3 DEF Size
  <2> QED BY <1>2, <1>3, <2>3, <2>4, <2>5 DEF rest
<1>7. CASE N # 1
  <2> DEFINE M == N - 2
  <2>0. M \in Nat /\ N - 1 = M + 1 /\ Len(rest) = M + 1 /\ Len(rest) - 1 = M /\ Len(rest) # 0
    BY <1>1, <1>3, <1>7
  <2> HIDE DEF M
  <2>1. PICK h : Joins(h, rest)
    BY <1>3, <2>0, ScanJoins
  <2>2. /\ h \in [0 .. M -> Seq(Int)] /\ h[0] = rest[1]
        /\ \A k \in 1 .. M : h[k] = h[k - 1] \o rest[k + 1]
        /\ FlattenSeq(rest) = h[M]
    BY <2>0, <2>1 DEF Joins
  <2>3. \A k \in 0 .. M : Len(h[k]) \in Nat /\ h[k] \in Seq(Int) /\ k + 1 \in 0 .. N - 1
    BY <2>0, <2>2, LenProperties
  <2>4. \A k \in 0 .. N - 1 : Len(f[k]) \in Nat /\ f[k] \in Seq(Int)
    BY <1>5, LenProperties
  <2>5. \A q, r \in Seq(Int) : Len(q \o r) = Len(q) + Len(r) /\ Len(q) \in Nat /\ Len(r) \in Nat
    BY ConcatProperties, LenProperties
  <2>6. Len(scan[1]) \in Nat
    BY <1>2, LenProperties
  <2> DEFINE Longer(k) == Len(f[k + 1]) = Len(scan[1]) + Len(h[k])
  <2> DEFINE T == {k \in 0 .. M : Longer(k)}
  <2>7. 0 \in T
    <3>1. 1 \in 1 .. N - 1 /\ 1 - 1 = 0 /\ rest[1] = scan[1 + 1] /\ scan[1 + 1] \in Seq(Int)
      BY <1>1, <1>3, <2>0
    <3>2. f[1] = f[0] \o scan[1 + 1]
      BY <1>5, <3>1
    <3> DEFINE a == scan[1]
    <3> DEFINE b == scan[1 + 1]
    <3>3. f[1] = a \o b /\ h[0] = b /\ a \in Seq(Int) /\ b \in Seq(Int)
      BY <1>2, <1>5, <2>2, <3>1, <3>2
    <3> HIDE DEF a, b
    <3>4. Len(f[1]) = Len(a) + Len(h[0])
      BY <2>5, <3>3
    <3>5. 0 + 1 = 1 /\ 0 \in 0 .. M
      BY <2>0
    <3>6. Longer(0)
      BY <3>4, <3>5 DEF a
    <3> HIDE DEF Longer
    <3> QED BY <3>5, <3>6
  <2>8. ASSUME NEW k \in 1 .. M, k - 1 \in T PROVE k \in T
    <3>1. /\ k + 1 \in 1 .. N - 1 /\ (k + 1) - 1 = k /\ rest[k + 1] = scan[(k + 1) + 1]
          /\ scan[(k + 1) + 1] \in Seq(Int) /\ k \in 0 .. N - 1 /\ k - 1 \in 0 .. M /\ k \in 0 .. M
          /\ (k - 1) + 1 = k
      BY <1>1, <1>3, <2>0
    <3> DEFINE x == scan[(k + 1) + 1]
    <3>2. f[k + 1] = f[k] \o x /\ h[k] = h[k - 1] \o x /\ x \in Seq(Int)
      BY <1>5, <2>2, <3>1
    <3> HIDE DEF x
    <3>3. Len(f[k + 1]) = Len(f[k]) + Len(x) /\ Len(h[k]) = Len(h[k - 1]) + Len(x) /\ Len(x) \in Nat
      BY <2>3, <2>4, <2>5, <3>1, <3>2
    <3>4. Len(f[k]) = Len(scan[1]) + Len(h[k - 1])
      <4>1. Longer(k - 1)
        <5> HIDE DEF Longer
        <5> QED BY <2>8
      <4> QED BY <3>1, <4>1
    <3>5. Len(f[k]) \in Nat /\ Len(h[k - 1]) \in Nat
      BY <2>3, <2>4, <3>1
    <3>6. Longer(k)
      <4> DEFINE a == Len(scan[1])
      <4> DEFINE b == Len(h[k - 1])
      <4> DEFINE d == Len(x)
      <4> DEFINE u == Len(f[k + 1])
      <4> DEFINE v == Len(h[k])
      <4>1. u = (a + b) + d /\ v = b + d /\ a \in Nat /\ b \in Nat /\ d \in Nat
        BY <2>6, <3>3, <3>4, <3>5
      <4> HIDE DEF a, b, d, u, v
      <4>2. u = a + v
        BY <4>1
      <4> QED BY <4>2 DEF a, u, v
    <3> HIDE DEF Longer
    <3> QED BY <3>1, <3>6
  <2>9. M \in T
    <3> HIDE DEF T
    <3>1. 0 .. M \subseteq T
      BY <2>0, <2>7, <2>8, UpTo
    <3> QED BY <2>0, <3>1
  <2>10. Len(f[N - 1]) = Len(scan[1]) + Len(h[M])
    BY <2>0, <2>9
  <2>11. Size(scan) = Len(scan[1]) + Size(rest)
    BY <1>5, <2>2, <2>10 DEF Size
  <2> QED BY <1>2, <1>3, <2>11 DEF rest
<1> QED BY <1>6, <1>7

\* A group as it stands in the world.
LEMMA WorldPoints ==
  ASSUME NEW points \in Seq(Int), NEW shift \in Int
  PROVE  /\ PointBodyToWorld(points, shift) \in Seq(Int)
         /\ Len(PointBodyToWorld(points, shift)) = Len(points)
<1> DEFINE n == Len(points)
<1> DEFINE w == PointBodyToWorld(points, shift)
<1>1. n \in Nat /\ DOMAIN points = 1 .. n /\ \A i \in 1 .. n : points[i] \in Int
  BY LenProperties, ElementOfSeq
<1>2. w \in [1 .. n -> Int]
  BY <1>1 DEF PointBodyToWorld
<1> HIDE DEF w, n
<1>3. w \in Seq(Int) /\ Len(w) = n
  BY <1>1, <1>2, SeqOfFunction
<1> QED BY <1>3 DEF w, n

-------------------------------------------------------------------------------
(* The node. *)

VoxelState == [cache |-> cache, keys |-> keys, log |-> log]
LocalTypes ==
  /\ {prior, initFeats, world} \subseteq Seq(Int) /\ shifted \in Int /\ scanned \in Nat
  /\ groups \in Seq(Seq(Int))
\* The lists are numbered by the scan that found them; those of the present scan name points
\* of the map, which does not change before the scan has ended.
ListsOfScans ==
  /\ \A i \in DOMAIN nearest : nearest[i].scan \in 0 .. scanned
  /\ Idle \/ /\ DOMAIN nearest = 1 .. Len(world) + Size(groups)
             /\ \A i \in DOMAIN nearest : nearest[i].scan = scanned =>
                  \A j \in DOMAIN nearest[i].points : InMap(nearest[i].points[j])
LocalInv == VoxelState \in VoxelMap /\ LocalTypes /\ ListsOfScans

\* A call of AddPoints keeps the order.
LEMMA AddPointsStep ==
  ASSUME VoxelState \in VoxelMap, NEW points \in Seq(Int), AddPoints(points)
  PROVE  VoxelState' \in VoxelMap
<1> DEFINE end == WithAll(VoxelState, points)
<1>1. end \in VoxelMap
  BY AddPointsKeeps
<1>2. cache' = end.cache /\ keys' = end.keys /\ log' = end.log
  BY DEF AddPoints, WithAll, VoxelState
<1> HIDE DEF end
<1>3. end = [cache |-> end.cache, keys |-> end.keys, log |-> end.log]
  BY <1>1 DEF VoxelMap
<1> QED BY <1>1, <1>2, <1>3 DEF VoxelState

\* In the beginning there is no grid.
LEMMA LocalInitOk ==
  ASSUME LocalInit
  PROVE  LocalInv
<1>1. VoxelState = [cache |-> <<>>, keys |-> {}, log |-> <<>>]
  BY DEF LocalInit, VoxelState
<1> DEFINE st == [cache |-> <<>>, keys |-> {}, log |-> <<>>]
<1>2. /\ st.cache = <<>> /\ st.keys = {} /\ st.log = <<>> /\ Len(<<>>) = 0
      /\ st \in [cache : Seq(GridOfPoints), keys : SUBSET Int, log : Seq(Int)]
  OBVIOUS
<1>3. 0 < Capacity
  BY LocalMapAssumption
<1> HIDE DEF st
<1>4. \A n \in 1 .. 0 : FALSE
  OBVIOUS
<1>5. st.keys = {st.cache[i].grid : i \in 1 .. Len(st.cache)}
  BY <1>2, <1>4
<1>6. InOrderOfUse(st)
  BY <1>2, <1>3, <1>4, <1>5 DEF InOrderOfUse
<1>7. VoxelState \in VoxelMap
  BY <1>1, <1>2, <1>6 DEF VoxelMap, st
<1>8. LocalTypes
  BY LocalMapAssumption DEF LocalInit, LocalTypes
<1>9. ListsOfScans
  BY DEF LocalInit, ListsOfScans, Idle
<1> QED BY <1>7, <1>8, <1>9 DEF LocalInv

\* The map is begun.
LEMMA InitMapKeeps ==
  ASSUME LocalInv, NEW scan \in TakenScans, InitMap(scan)
  PROVE  LocalInv'
<1>1. /\ VoxelState \in VoxelMap /\ prior \in Seq(Int) /\ initFeats \in Seq(Int) /\ world \in Seq(Int)
      /\ shifted \in Int /\ scanned \in Nat /\ groups \in Seq(Seq(Int))
      /\ \A i \in DOMAIN nearest : nearest[i].scan \in 0 .. scanned
  BY DEF LocalInv, LocalTypes, ListsOfScans
<1>2. scan \in Seq(Seq(Int))
  BY LocalMapAssumption
<1>3. /\ Idle /\ scanned' = scanned + 1
      /\ prior' = prior /\ shifted' = shifted /\ groups' = groups /\ world' = world /\ nearest' = nearest
  BY DEF InitMap
<1> DEFINE flat == FlattenSeq(scan)
<1> DEFINE seen == PointBodyToWorld(flat, shifted)
<1> DEFINE feats == initFeats \o seen
<1>4. feats \in Seq(Int)
  <2>1. flat \in Seq(Int)
    BY <1>2, ScanPoints
  <2> HIDE DEF flat
  <2>2. seen \in Seq(Int)
    BY <1>1, <2>1, WorldPoints
  <2> HIDE DEF seen
  <2> QED BY <1>1, <2>2, ConcatProperties
<1>5. \/ /\ AddPoints(IF prior # <<>> THEN prior ELSE feats) /\ initFeats' = <<>>
      \/ initFeats' = feats /\ UNCHANGED voxelVars
  BY DEF InitMap
<1> HIDE DEF feats
<1>6. VoxelState' \in VoxelMap /\ initFeats' \in Seq(Int)
  <2>1. CASE AddPoints(IF prior # <<>> THEN prior ELSE feats) /\ initFeats' = <<>>
    <3> DEFINE points == IF prior # <<>> THEN prior ELSE feats
    <3>1. points \in Seq(Int) /\ AddPoints(points)
      BY <1>1, <1>4, <2>1
    <3> HIDE DEF points
    <3>2. VoxelState' \in VoxelMap
      BY <1>1, <3>1, AddPointsStep
    <3>3. <<>> \in Seq(Int)
      OBVIOUS
    <3> QED BY <2>1, <3>2, <3>3
  <2>2. CASE initFeats' = feats /\ UNCHANGED voxelVars
    BY <1>1, <1>4, <2>2 DEF VoxelState, voxelVars
  <2> QED BY <1>5, <2>1, <2>2
<1>7. LocalTypes'
  BY <1>1, <1>3, <1>6 DEF LocalTypes
<1>8. ListsOfScans'
  BY <1>1, <1>3 DEF ListsOfScans, Idle
<1> QED BY <1>6, <1>7, <1>8 DEF LocalInv

\* A scan is begun.
LEMMA BeginScanKeeps ==
  ASSUME LocalInv, NEW scan \in TakenScans, BeginScan(scan)
  PROVE  LocalInv'
<1>1. /\ VoxelState \in VoxelMap /\ prior \in Seq(Int) /\ initFeats \in Seq(Int) /\ world \in Seq(Int)
      /\ shifted \in Int /\ scanned \in Nat
      /\ \A i \in DOMAIN nearest : nearest[i].scan \in 0 .. scanned
  BY DEF LocalInv, LocalTypes, ListsOfScans
<1>2. scan \in Seq(Seq(Int))
  BY LocalMapAssumption
<1>3. /\ Idle /\ scanned' = scanned + 1 /\ groups' = scan
      /\ nearest' = [i \in 1 .. Size(scan) |->
           IF i \in DOMAIN nearest THEN nearest[i] ELSE [points |-> <<>>, scan |-> 0]]
      /\ UNCHANGED <<prior, voxelVars, initFeats, shifted, world>>
  BY DEF BeginScan
<1>4. VoxelState' = VoxelState
  BY <1>3 DEF VoxelState, voxelVars
<1>5. LocalTypes'
  BY <1>1, <1>2, <1>3 DEF LocalTypes
<1>6. Size(scan) \in Nat /\ Len(world') = 0
  BY <1>2, <1>3, ScanPoints DEF Idle
<1>7. \A i \in DOMAIN nearest' : nearest'[i].scan \in 0 .. scanned
  <2> SUFFICES ASSUME NEW i \in 1 .. Size(scan) PROVE nearest'[i].scan \in 0 .. scanned
    BY <1>3
  <2>1. CASE i \in DOMAIN nearest
    <3>1. nearest'[i] = nearest[i]
      BY <1>3, <2>1
    <3> QED BY <1>1, <2>1, <3>1
  <2>2. CASE i \notin DOMAIN nearest
    <3>1. nearest'[i] = [points |-> <<>>, scan |-> 0]
      BY <1>3, <2>2
    <3> QED BY <1>1, <3>1
  <2> QED BY <2>1, <2>2
<1>8. \A i \in DOMAIN nearest' : nearest'[i].scan \in 0 .. scanned' /\ nearest'[i].scan # scanned'
  BY <1>1, <1>3, <1>7
<1>9. DOMAIN nearest' = 1 .. Len(world') + Size(groups')
  BY <1>3, <1>6
<1>10. ListsOfScans'
  BY <1>8, <1>9 DEF ListsOfScans, Size
<1> QED BY <1>1, <1>4, <1>5, <1>10 DEF LocalInv

\* A group is processed.
LEMMA UpdateGroupKeeps ==
  ASSUME LocalInv, NEW ahead \in Moves, NEW correction \in Moves, UpdateGroup(ahead, correction)
  PROVE  LocalInv'
<1> DEFINE body == Head(groups)
<1> DEFINE idx == Len(world)
<1> DEFINE moved == shifted + ahead + correction
<1> DEFINE predicted == PointBodyToWorld(body, shifted + ahead)
<1> DEFINE found == [j \in DOMAIN body |-> GetClosestPoint(predicted[j])]
<1>1. /\ VoxelState \in VoxelMap /\ prior \in Seq(Int) /\ initFeats \in Seq(Int) /\ world \in Seq(Int)
      /\ shifted \in Int /\ scanned \in Nat /\ groups \in Seq(Seq(Int))
      /\ \A i \in DOMAIN nearest : nearest[i].scan \in 0 .. scanned
  BY DEF LocalInv, LocalTypes, ListsOfScans
<1>2. /\ groups # <<>> /\ shifted' = moved
      /\ world' = world \o PointBodyToWorld(body, shifted')
      /\ nearest' = [i \in DOMAIN nearest |->
             IF i - idx \in DOMAIN body /\ found[i - idx] # <<>>
             THEN [points |-> found[i - idx], scan |-> scanned] ELSE nearest[i]]
      /\ groups' = Tail(groups)
      /\ UNCHANGED <<prior, voxelVars, initFeats, scanned>>
  BY DEF UpdateGroup
<1>3. /\ DOMAIN nearest = 1 .. Len(world) + Size(groups)
      /\ \A i \in DOMAIN nearest : nearest[i].scan = scanned =>
           \A j \in DOMAIN nearest[i].points : InMap(nearest[i].points[j])
  BY <1>2 DEF LocalInv, ListsOfScans, Idle
<1>4. ahead \in Int /\ correction \in Int
  BY LocalMapAssumption
<1>5. /\ body \in Seq(Int) /\ Tail(groups) \in Seq(Seq(Int))
      /\ Size(groups) = Len(body) + Size(Tail(groups))
  BY <1>1, <1>2, SizeOfRest
<1>6. Size(Tail(groups)) \in Nat /\ Len(body) \in Nat /\ idx \in Nat /\ DOMAIN body = 1 .. Len(body)
  BY <1>1, <1>5, ScanPoints, LenProperties
<1> HIDE DEF body, idx
<1>7. moved \in Int /\ shifted + ahead \in Int
  BY <1>1, <1>4
<1>8. \A j \in DOMAIN body : predicted[j] \in Int
  BY <1>5, <1>6, <1>7, ElementOfSeq DEF PointBodyToWorld
<1> HIDE DEF predicted, moved
<1>9. world' \in Seq(Int) /\ Len(world') = idx + Len(body)
  <2> DEFINE next == PointBodyToWorld(body, moved)
  <2>1. next \in Seq(Int) /\ Len(next) = Len(body)
    BY <1>5, <1>7, WorldPoints
  <2> HIDE DEF next
  <2>2. world \o next \in Seq(Int) /\ Len(world \o next) = Len(world) + Len(next)
    BY <1>1, <2>1, ConcatProperties
  <2> QED BY <1>2, <2>1, <2>2 DEF next, idx
<1>10. VoxelState' = VoxelState /\ cache' = cache
  BY <1>2 DEF VoxelState, voxelVars
<1>11. LocalTypes'
  BY <1>1, <1>2, <1>5, <1>7, <1>9 DEF LocalTypes
<1>12. cache \in Seq(GridOfPoints)
  BY <1>1 DEF VoxelState, VoxelMap
<1>13. \A j \in DOMAIN body : found[j] = GetClosestPoint(predicted[j])
  OBVIOUS
<1> HIDE DEF found
<1>14. ASSUME NEW j \in DOMAIN body, NEW k \in DOMAIN found[j] PROVE InMap(found[j][k])
  BY <1>8, <1>12, <1>13, ClosestAreInMap
<1>15. ASSUME NEW i \in DOMAIN nearest
       PROVE  /\ nearest'[i].scan \in 0 .. scanned
              /\ nearest'[i].scan = scanned =>
                   \A j \in DOMAIN nearest'[i].points : InMap(nearest'[i].points[j])
  <2>1. CASE i - idx \in DOMAIN body /\ found[i - idx] # <<>>
    <3>1. nearest'[i] = [points |-> found[i - idx], scan |-> scanned]
      BY <1>2, <2>1
    <3>2. nearest'[i].points = found[i - idx] /\ nearest'[i].scan = scanned
      BY <3>1
    <3> QED BY <1>1, <1>14, <2>1, <3>2
  <2>2. CASE ~(i - idx \in DOMAIN body /\ found[i - idx] # <<>>)
    <3>1. nearest'[i] = nearest[i]
      BY <1>2, <2>2
    <3> QED BY <1>1, <1>3, <3>1
  <2> QED BY <2>1, <2>2
<1>16. DOMAIN nearest' = DOMAIN nearest /\ scanned' = scanned
  BY <1>2
<1>17. DOMAIN nearest' = 1 .. Len(world') + Size(groups')
  <2>1. Len(world) + Size(groups) = Len(world') + Size(Tail(groups))
    BY <1>5, <1>6, <1>9 DEF idx
  <2> QED BY <1>2, <1>3, <1>16, <2>1
<1>18. \A x : InMap(x)' <=> InMap(x)
  BY <1>10 DEF InMap
<1>19. ListsOfScans'
  BY <1>10, <1>15, <1>16, <1>17 DEF ListsOfScans, Size, InMap
<1> QED BY <1>1, <1>10, <1>11, <1>19 DEF LocalInv

\* A scan is over.
LEMMA EndScanKeeps ==
  ASSUME LocalInv, EndScan
  PROVE  LocalInv'
<1>1. /\ VoxelState \in VoxelMap /\ prior \in Seq(Int) /\ initFeats \in Seq(Int) /\ world \in Seq(Int)
      /\ shifted \in Int /\ scanned \in Nat /\ groups \in Seq(Seq(Int))
      /\ \A i \in DOMAIN nearest : nearest[i].scan \in 0 .. scanned
  BY DEF LocalInv, LocalTypes, ListsOfScans
<1>2. /\ groups = <<>> /\ world' = <<>> /\ (AddPoints(Added) \/ UNCHANGED voxelVars)
      /\ shifted' \in {0, shifted}
      /\ UNCHANGED <<prior, initFeats, groups, nearest, scanned>>
  BY DEF EndScan, PublishOdometry
<1>3. Added \in Seq(Int)
  <2> DEFINE ns == {i \in DOMAIN world : NeedAdd(i)}
  <2> HIDE DEF ns
  <2>1. Pick(world, ns) \in Seq(Int)
    BY <1>1, PickMembers
  <2> QED BY <2>1 DEF Added, ns
<1>4. VoxelState' \in VoxelMap
  <2>1. CASE AddPoints(Added)
    BY <1>1, <1>3, <2>1, AddPointsStep
  <2>2. CASE UNCHANGED voxelVars
    BY <1>1, <2>2 DEF VoxelState, voxelVars
  <2> QED BY <1>2, <2>1, <2>2
<1>5. LocalTypes'
  BY <1>1, <1>2 DEF LocalTypes
<1>6. ListsOfScans'
  BY <1>1, <1>2 DEF ListsOfScans, Idle
<1> QED BY <1>4, <1>5, <1>6 DEF LocalInv

\* What is left out, the map has.
LEMMA MapKnows ==
  ASSUME LocalInv
  PROVE  LeftOutIsKnown
<1>1. VoxelState \in VoxelMap /\ world \in Seq(Int) /\ ListsOfScans
  BY DEF LocalInv, LocalTypes
<1> SUFFICES ASSUME groups = <<>>, NEW i \in DOMAIN world, ~NeedAdd(i), nearest[i].scan = scanned
             PROVE  \E j \in DOMAIN cache, k \in DOMAIN log :
                      Cell(log[k]) = Cell(world[i]) /\ Contains(cache[j].points, log[k])
  BY DEF LeftOutIsKnown
<1>2. DOMAIN world = 1 .. Len(world) /\ Len(world) \in Nat
  BY <1>1, LenProperties
<1>3. world # <<>> /\ ~Idle
  <2>1. DOMAIN world # {}
    OBVIOUS
  <2> QED BY <2>1 DEF Idle
<1>4. Size(groups) = 0
  BY DEF Size, FlattenSeq
<1>5. i \in DOMAIN nearest
  BY <1>1, <1>2, <1>3, <1>4 DEF ListsOfScans
<1>6. PICK j \in DOMAIN nearest[i].points : Cell(nearest[i].points[j]) = Cell(world[i])
  BY DEF NeedAdd
<1> DEFINE x == nearest[i].points[j]
<1>7. InMap(x)
  BY <1>1, <1>3, <1>5 DEF ListsOfScans
<1>8. PICK m \in DOMAIN cache : Contains(cache[m].points, x)
  BY <1>7 DEF InMap
<1>9. PICK n \in 1 .. Len(cache[m].points) : cache[m].points[n] = x
  BY <1>8 DEF Contains
<1>10. PICK k \in DOMAIN log : cache[m].points[n] = log[k]
  BY <1>1, PointsAreGiven DEF VoxelState
<1> HIDE DEF x
<1>11. Cell(log[k]) = Cell(world[i]) /\ Contains(cache[m].points, log[k])
  BY <1>6, <1>8, <1>9, <1>10 DEF x
<1> QED BY <1>11

\* The local map keeps the points of the grids used most recently, all of them and no other, in
\* the list and in the hash map alike (ivox3d.h, AddPoints), and a scan leaves a point out
\* only where the map has one of its cell (MapIncremental): for every capacity, scan and move.
THEOREM MapAlwaysKeepsUp == LocalSpec => []MapKeepsUp
<1>1. LocalInit => LocalInv
  BY LocalInitOk
<1>2. LocalInv /\ [LocalNext]_localVars => LocalInv'
  <2> SUFFICES ASSUME LocalInv, [LocalNext]_localVars PROVE LocalInv'
    OBVIOUS
  <2>1. CASE \E scan \in TakenScans : InitMap(scan)
    BY <2>1, InitMapKeeps
  <2>2. CASE \E scan \in TakenScans : BeginScan(scan)
    BY <2>2, BeginScanKeeps
  <2>3. CASE \E ahead, correction \in Moves : UpdateGroup(ahead, correction)
    BY <2>3, UpdateGroupKeeps
  <2>4. CASE EndScan
    BY <2>4, EndScanKeeps
  <2>5. CASE UNCHANGED localVars
    BY <2>5 DEF localVars, voxelVars, LocalInv, VoxelState, LocalTypes, ListsOfScans, Idle, InMap, Size
  <2> QED BY <2>1, <2>2, <2>3, <2>4, <2>5 DEF LocalNext
<1>3. LocalInv => MapKeepsUp
  <2> SUFFICES ASSUME LocalInv PROVE MapKeepsUp
    OBVIOUS
  <2>1. KeepsRecentlyUsed
    BY MapKeepsRecent DEF LocalInv, VoxelState
  <2>2. LeftOutIsKnown
    BY MapKnows
  <2> QED BY <2>1, <2>2 DEF MapKeepsUp
<1> QED BY <1>1, <1>2, <1>3, PTL DEF LocalSpec
===============================================================================
