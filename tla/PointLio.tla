-------------------------------- MODULE PointLio --------------------------------
(***************************************************************************)
(* The order in which Point-LIO feeds its filter (li_initialization.cpp    *)
(* and the main loop of laserMapping.cpp), as it is deployed: with the IMU *)
(* enabled, scans neither cut nor combined.  The callbacks buffer scans    *)
(* and IMU samples; the loop takes a scan once the IMU has reached its     *)
(* end, and then moves through the times of its points, integrating every  *)
(* sample on the way.  What the filter computes is left out.               *)
(*                                                                         *)
(* One thread runs the callbacks and the loop, so an iteration is a step.  *)
(* A sample is [no, time].  A point of the driver's message is [off, line, *)
(* inRange, place]: its offset, whether its line and its tag are accepted, *)
(* whether it lies between the blind and the detection range, and where it *)
(* is; a buffered scan is [beg, offs], the offsets of the points that the  *)
(* preprocessing leaves.                                                   *)
(***************************************************************************)
EXTENDS Integers, SequencesExt, FiniteSetsExt

CONSTANTS
  ImuStamps,     \* the stamps of IMU samples
  ScanStamps,    \* the stamps of scans
  RawScans,      \* the points of a scan, in the driver's order
  Origin,        \* where a point is that was not copied
  FilterNum,     \* point_filter_num
  Jitter,        \* kImuLoopBackToleranceSec
  MaxIniCount,   \* MAX_INI_COUNT
  MaxImu, MaxScans   \* bounds: samples and scans that are kept

ASSUME LioAssumption ==
  /\ ImuStamps \subseteq Nat /\ ScanStamps \subseteq Nat
  /\ \A points \in RawScans : /\ points \in Seq(Range(points))
                               /\ \A i \in DOMAIN points : points[i].off \in Nat
  /\ FilterNum \in Nat \ {0}
  /\ Jitter \in Nat /\ MaxIniCount \in Nat /\ MaxImu \in Nat /\ MaxScans \in Nat

VARIABLES
  lidarBuffer, lastLidar, scans,   \* lidar_buffer with time_buffer, last_timestamp_lidar
  imuDeque, lastImu, heard,        \* imu_deque, last_timestamp_imu, samples kept so far
  measImu,       \* meas.imu.size()
  imuNext,       \* imu_next
  needInit, iterNum,               \* imu_need_init_, init_iter_num
  firstScan, firstFrame, initMap,  \* flg_first_scan, is_first_frame, init_map
  predictLast,   \* time_predict_last_const
  used           \* history: the samples integrated, in order

bufferVars == <<lidarBuffer, lastLidar, scans, imuDeque, lastImu, heard>>
filterVars == <<measImu, imuNext, needInit, iterNum, firstScan, firstFrame, initMap,
                predictLast, used>>
lioVars == <<bufferVars, filterVars>>

LioInit ==
  /\ lidarBuffer = <<>> /\ lastLidar = -1 /\ scans = 0
  /\ imuDeque = <<>> /\ lastImu = -1 /\ heard = 0
  /\ measImu = 0 /\ imuNext = [no |-> 0, time |-> -1]
  /\ needInit = TRUE /\ iterNum = 1
  /\ firstScan = TRUE /\ firstFrame = TRUE /\ initMap = FALSE
  /\ predictLast = 0 /\ used = <<>>

-------------------------------------------------------------------------------
\* avia_handler: of the points but the first whose line and tag are accepted, every
\* FilterNum-th is copied; it is left out if it is out of range, or where the point
\* before it in the message is, which is the origin unless that one was copied too.
Copied(points) ==
  {i \in 2 .. Len(points) :
     /\ points[i].line
     /\ Cardinality({j \in 2 .. i : points[j].line}) % FilterNum = 0}
AviaHandler(points) ==
  {points[i].off : i \in {k \in Copied(points) :
     /\ points[k].inRange
     /\ points[k].place # (IF k - 1 \in Copied(points) THEN points[k - 1].place
                           ELSE Origin)}}

\* livox_pcl_cbk: an older scan, or one of which no point is left, is dropped.
PclCbk(stamp, points) ==
  /\ scans < MaxScans /\ stamp >= lastLidar
  /\ lastLidar' = stamp
  /\ LET offs == AviaHandler(points)
     IN lidarBuffer' = IF offs = {} THEN lidarBuffer
                       ELSE Append(lidarBuffer, [beg |-> stamp, offs |-> offs])
  /\ scans' = scans + 1
  /\ UNCHANGED <<imuDeque, lastImu, heard, filterVars>>

\* imu_cbk: a small step back is clamped just after the last sample, a larger one dropped.
ImuCbk(raw) ==
  /\ heard < MaxImu /\ raw >= lastImu - Jitter
  /\ lastImu' = IF raw < lastImu THEN lastImu + 1 ELSE raw
  /\ imuDeque' = Append(imuDeque, [no |-> heard + 1, time |-> lastImu'])
  /\ heard' = heard + 1
  /\ UNCHANGED <<lidarBuffer, lastLidar, scans, filterVars>>

-------------------------------------------------------------------------------
\* The loops over imu_deque.  st is [deque, next], and usually next is the front: then
\* the samples before t are passed, and next is the first that is not, or the last of
\* all.  They pop before they look, so a next that is not the front costs a sample.
Advance(st, t) ==
  IF st.deque = <<>> \/ st.next.time >= t
  THEN [deque |-> st.deque, next |-> st.next, passed |-> <<>>]
  ELSE LET len == Len(st.deque)
           stop == Min({i \in 2 .. len : st.deque[i].time >= t} \cup {len + 1})
           passed == <<st.next>> \o SubSeq(st.deque, 2, stop - 1)
       IN [deque |-> SubSeq(st.deque, stop, len), passed |-> passed,
           next |-> IF stop <= len THEN st.deque[stop] ELSE Last(passed)]

\* Mutant of EndOf: the scan is taken as soon as the IMU has reached its beginning.
EndOfEarly(scan) == scan.beg
EndOf(scan) == scan.beg + Max(scan.offs)

\* sync_packages: a scan waits at the front until the IMU has reached its end; while the
\* IMU initializes, the samples before the end move to meas.imu.
Synced == lidarBuffer # <<>> /\ imuDeque # <<>> /\ lastImu >= EndOf(Head(lidarBuffer))

SyncPackages ==
  IF needInit
  THEN Advance([deque |-> imuDeque, next |-> Head(imuDeque)], EndOf(Head(lidarBuffer)))
  ELSE [deque |-> imuDeque, next |-> imuNext, passed |-> <<>>]

\* The filter at one time of the scan, with [deque, next, first, predict, used].
FirstPoint(st, t) ==
  IF st.first
  THEN LET skipped == Advance([deque |-> st.deque, next |-> st.next], t)
       IN [st EXCEPT !.deque = skipped.deque, !.next = skipped.next,
                     !.first = FALSE, !.predict = t]
  ELSE st

\* Samples older than the state are skipped; a next that is not the front becomes it.
SkipOld(st) ==
  IF st.deque = <<>> \/ st.next.time >= st.predict THEN st
  ELSE IF st.next.time # Head(st.deque).time THEN [st EXCEPT !.next = Head(st.deque)]
  ELSE LET skipped == Advance([deque |-> st.deque, next |-> st.next], st.predict)
       IN [st EXCEPT !.deque = skipped.deque, !.next = skipped.next]

AtTime(st, t) ==
  LET ready == SkipOld(FirstPoint(st, t))
      moved == Advance([deque |-> ready.deque, next |-> ready.next], t)
  IN [deque |-> moved.deque, next |-> moved.next, first |-> FALSE, predict |-> t,
      used |-> ready.used \o [i \in DOMAIN moved.passed |-> moved.passed[i].no]]

\* The loop over the points that the sampling leaves of a scan, in the order of their
\* times: at[n] is the filter after those with an offset below n.
Walk(st, beg, offs) ==
  LET at[n \in 0 .. Max(offs) + 1] ==
        IF n = 0 THEN st
        ELSE IF n - 1 \in offs THEN AtTime(at[n - 1], beg + (n - 1)) ELSE at[n - 1]
  IN at[Max(offs) + 1]

\* ImuProcess::Process counts the samples of meas.imu, those of earlier scans again, until
\* there are enough to initialize with.
ImuProcess ==
  /\ iterNum' = IF needInit THEN iterNum + measImu' ELSE iterNum
  /\ needInit' = (needInit /\ (measImu' = 0 \/ iterNum' <= MaxIniCount))

\* An iteration of the main loop that takes a scan.
MainLoop ==
  /\ Synced
  /\ LET scan == Head(lidarBuffer)
         synced == SyncPackages
         st == [deque |-> synced.deque, next |-> synced.next]
         begun == IF firstScan THEN Advance(st, scan.beg) ELSE st
     IN /\ measImu' = measImu + Len(synced.passed)
        /\ ImuProcess
        /\ IF needInit' \/ ~initMap
           THEN /\ imuDeque' = begun.deque /\ imuNext' = begun.next
                /\ initMap' \in (IF needInit' THEN {FALSE} ELSE BOOLEAN)
                /\ UNCHANGED <<firstFrame, predictLast, used>>
           ELSE \E offs \in (SUBSET scan.offs) \ {{}} :
                  LET done == Walk([deque |-> begun.deque, next |-> begun.next, used |-> used,
                                    first |-> firstFrame, predict |-> predictLast],
                                   scan.beg, offs)
                  IN /\ imuDeque' = done.deque /\ imuNext' = done.next
                     /\ firstFrame' = FALSE /\ predictLast' = done.predict
                     /\ used' = done.used
                     /\ UNCHANGED initMap
  /\ firstScan' = FALSE
  /\ lidarBuffer' = Tail(lidarBuffer)
  /\ UNCHANGED <<lastLidar, scans, lastImu, heard>>

LioNext ==
  \/ \E stamp \in ScanStamps, points \in RawScans : PclCbk(stamp, points)
  \/ \E raw \in ImuStamps : ImuCbk(raw)
  \/ MainLoop

LioSpec == LioInit /\ [][LioNext]_lioVars

-------------------------------------------------------------------------------
\* The loops pop before they look, pass over samples in five places, and would go on with
\* a stale imu_next if the deque ran empty; still, however scans overlap and stamps
\* jitter, the samples the filter has integrated are consecutive: none is taken twice or
\* out of order, or left out.
SamplesIntegratedOnce ==
  \A i \in 1 .. Len(used) - 1 : used[i + 1] = used[i] + 1
===============================================================================
