------------------------------- MODULE MergeScans -------------------------------
(***************************************************************************)
(* dual_mid360_merge.cpp: pairs of scans of the two lidars, matched by     *)
(* their stamps, become one scan for Point-LIO.  The times of the points   *)
(* are offsets from the base of their scan and are re-based to the earlier *)
(* of the two; the header keeps the stamp of the first lidar.              *)
(*                                                                         *)
(* A point is [of, at]: its lidar and the offset from its scan's base.     *)
(***************************************************************************)
EXTENDS Integers, FiniteSets

CONSTANTS
  Bases,       \* the times at which scans begin: timebase and header.stamp
  PointSets,   \* the offsets of a scan's points
  Slop,        \* max_sync_slop_sec
  MaxOffset,   \* max_point_offset_ns
  MaxStamp     \* bound: stamps moved beyond the largest base

ASSUME MergeAssumption ==
  /\ Bases \subseteq Nat \ {0} /\ Slop \in Nat /\ MaxOffset \in Nat /\ MaxStamp \in Nat
  /\ \A P \in PointSets : P \subseteq Nat

VARIABLE merged   \* the scan published last; history: its pair, whether its stamp was moved

NoScan == [base |-> 0, stamp |-> 0, moved |-> FALSE, points |-> {}, of |-> <<>>]

MergeInit == merged = NoScan

\* The synchronizer hands over scans at most Slop apart, however old.
LivoxScan == [base : Bases, points : PointSets]
Pairs == {pair \in LivoxScan \X LivoxScan : pair[1].base - pair[2].base \in -Slop .. Slop}

\* computeRelativeOffset and the limit on what it returns: the points of scan i whose
\* times the merged scan can express.
\* Mutant of Rebased: offsets from the first lidar's base.
RebasedToFirst(pair, i) ==
  {[of |-> i, at |-> pair[i].base + p - pair[1].base] :
     p \in {p \in pair[i].points : pair[i].base + p - pair[1].base \in 0 .. MaxOffset}}

OutBase(pair) == IF pair[1].base < pair[2].base THEN pair[1].base ELSE pair[2].base

Rebased(pair, i) ==
  {[of |-> i, at |-> pair[i].base + p - OutBase(pair)] :
     p \in {p \in pair[i].points : pair[i].base + p - OutBase(pair) \in 0 .. MaxOffset}}

\* The first lidar's points stay as they are, without the limit, when its base is kept.
FirstPoints(pair) ==
  IF pair[1].base = OutBase(pair)
  THEN {[of |-> 1, at |-> p] : p \in pair[1].points}
  ELSE Rebased(pair, 1)

\* syncCallback: a pair whose first scan is empty, or none of whose points is left, is
\* skipped; a stamp that does not grow is moved just beyond the last one.
SyncCallback(pair) ==
  LET points == FirstPoints(pair) \cup Rebased(pair, 2)
      moved == merged # NoScan /\ pair[1].base <= merged.stamp
  IN IF pair[1].points = {} \/ points = {}
     THEN UNCHANGED merged
     ELSE merged' = [base |-> OutBase(pair), points |-> points, moved |-> moved,
                     of |-> pair, stamp |->
                       IF moved THEN merged.stamp + 1 ELSE pair[1].base]

MergeNext == merged.stamp < MaxStamp /\ \E pair \in Pairs : SyncCallback(pair)

MergeSpec == MergeInit /\ [][MergeNext]_merged

-------------------------------------------------------------------------------
\* What a step that publishes a pair does of its points and stamps.
Measured(pair, i, p) == pair[i].base + p
PairIsKept(pair) ==
  /\ \A i \in 1 .. 2 : \A p \in pair[i].points :
       Measured(pair, i, p) - OutBase(pair) <= MaxOffset =>
         [of |-> i, at |-> Measured(pair, i, p) - merged'.base] \in merged'.points
  /\ \A q \in merged'.points :
       \E p \in pair[q.of].points : Measured(pair, q.of, p) = merged'.base + q.at
  /\ ~merged'.moved => merged'.stamp - merged'.base \in 0 .. Slop
  /\ merged # NoScan => merged'.stamp > merged.stamp

\* Whichever lidar began first, no point of a published pair that was measured within
\* MaxOffset of the earlier base is lost, each keeps the time at which it was measured,
\* and Point-LIO, which counts from the stamp, takes it for later by at most Slop unless
\* the stamp had to be moved.
MergeKeepsPoints == [][merged' # merged => PairIsKept(merged'.of)]_merged
===============================================================================
