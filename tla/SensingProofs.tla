------------------------------ MODULE SensingProofs ------------------------------
(***************************************************************************)
(* From the configuration of the lidars to the velocity of the robot: a    *)
(* lidar publishes only what it has been configured for, the rings of the  *)
(* driver implement FrameQueue, frames lose no packet, the merge of two    *)
(* scans loses no point, the velocity derived from the odometry is that of *)
(* its source, and the terrain analysis loses no place whose stamps are    *)
(* young and publishes true maps, for every number of lidars, size, width, *)
(* stamp, interval, slop, length, drive and cloud.                         *)
(***************************************************************************)
EXTENDS LivoxQueue, LidarFrames, MergeScans, ScanChain, TerrainMaps, DataLemmas

-------------------------------------------------------------------------------
(* The configuration. *)

SetupTyped ==
  /\ config \in [Lidars -> SUBSET Options]
  /\ informing \in Lidars \cup {0}
  /\ todo \subseteq Options
  /\ setBits \in [Lidars -> SUBSET Options]
  /\ asked \in [Lidars -> [Settings -> Nat]]
  /\ accepted \in [Lidars -> SUBSET Settings]
  /\ connected \in [Lidars -> BOOLEAN]

Informed(l) == informing = l \/ \E o \in Options : asked[l][o] > 0
Unsent(l) == IF informing = l THEN todo ELSE {}

\* What a lidar that has been told anything is meant to have is sent to it, waits for
\* its answer, or has been accepted.
NothingForgotten ==
  \A l \in Lidars : Informed(l) => config[l] \subseteq Unsent(l) \cup setBits[l] \cup accepted[l]

SetupInv == SetupTyped /\ (informing = 0 => todo = {}) /\ NothingForgotten /\ SamplesAsConfigured

\* Nothing is set and nobody samples before a lidar is reported.
LEMMA SetupInitially == SetupInit => SetupInv
BY LidarAssumption, OptionAssumption
DEF SetupInit, SetupInv, SetupTyped, Settings, NothingForgotten, Informed, Unsent, SamplesAsConfigured

\* Types.
LEMMA SetupTypedPreserved == SetupInv /\ [SetupNext]_setupVars => SetupTyped'
<1> SUFFICES ASSUME SetupInv, [SetupNext]_setupVars PROVE SetupTyped'
  OBVIOUS
<1> USE DEF SetupInv, SetupTyped
<1>1. ASSUME NEW l \in Lidars, InfoChange(l) PROVE SetupTyped'
  BY <1>1 DEF InfoChange
<1>2. ASSUME NEW o \in Options, SendOption(o) PROVE SetupTyped'
  <2>1. informing \in Lidars /\ o \in Settings
    BY <1>2 DEF SendOption, Settings
  <2>2. asked' \in [Lidars -> [Settings -> Nat]] /\ setBits' \in [Lidars -> SUBSET Options]
    BY <1>2, <2>1 DEF SendOption
  <2> QED BY <1>2, <2>2 DEF SendOption
<1>3. ASSUME SendRest PROVE SetupTyped'
  <2> DEFINE more == [o \in Settings |-> IF o \in Options THEN asked[informing][o]
                                          ELSE asked[informing][o] + 1]
  <2>0. asked' = [asked EXCEPT ![informing] = more] /\ informing \in Lidars
    BY <1>3 DEF SendRest
  <2>1. asked' \in [Lidars -> [Settings -> Nat]]
    <3>1. more \in [Settings -> Nat]
      BY <2>0
    <3> HIDE DEF more
    <3> QED BY <2>0, <3>1
  <2> QED BY <1>3, <2>1 DEF SendRest
<1>4. ASSUME NEW l \in Lidars, NEW o \in Settings, Answer(l, o) PROVE SetupTyped'
  <2>1. asked[l][o] > 0 /\ Answered(l, o) => asked' \in [Lidars -> [Settings -> Nat]]
    BY DEF Answered
  <2>2. CASE Accepts(l, o)
    <3>1. /\ asked' \in [Lidars -> [Settings -> Nat]]
          /\ accepted' \in [Lidars -> SUBSET Settings]
      BY <2>1, <2>2 DEF Accepts
    <3>2. setBits' \in [Lidars -> SUBSET Options]
      BY <2>2 DEF Accepts
    <3>3. connected' \in [Lidars -> BOOLEAN]
      <4> DEFINE b == connected[l] \/ setBits'[l] = {}
      <4>1. connected' = [connected EXCEPT ![l] = b] \/ connected' = connected
        BY <2>2 DEF Accepts
      <4>2. b \in BOOLEAN
        OBVIOUS
      <4> HIDE DEF b
      <4> QED BY <4>1, <4>2
    <3> QED BY <2>2, <3>1, <3>2, <3>3 DEF Accepts
  <2>3. CASE TimesOut(l, o)
    BY <2>3 DEF TimesOut, setupVars
  <2>4. CASE Refuses(l, o)
    BY <2>1, <2>4 DEF Refuses
  <2> QED BY <1>4, <2>2, <2>3, <2>4 DEF Answer
<1>5. CASE UNCHANGED setupVars
  BY <1>5 DEF setupVars
<1> QED BY <1>1, <1>2, <1>3, <1>4, <1>5 DEF SetupNext

\* An answer leaves what it does not clear, and clears what it has accepted.
LEMMA SetupPreserved == SetupInv /\ [SetupNext]_setupVars => SetupInv'
<1> SUFFICES ASSUME SetupInv, [SetupNext]_setupVars PROVE SetupInv'
  OBVIOUS
<1>0. SetupTyped' BY SetupTypedPreserved
<1> USE LidarAssumption DEF SetupInv, SetupTyped, NothingForgotten, SamplesAsConfigured, Informed, Unsent
<1>1. ASSUME NEW l \in Lidars, InfoChange(l) PROVE SetupInv'
  BY <1>0, <1>1 DEF InfoChange
<1>2. ASSUME NEW o \in Options, SendOption(o) PROVE SetupInv'
  <2>1. informing \in Lidars /\ o \in Settings
    BY <1>2 DEF SendOption, Settings
  <2>2. \A l \in Lidars : config[l] \subseteq Unsent(l) \cup setBits[l] \cup accepted[l]
                            => config'[l] \subseteq Unsent(l)' \cup setBits'[l] \cup accepted'[l]
    BY <1>2, <2>1 DEF SendOption
  <2>3. \A l \in Lidars : Informed(l)' => Informed(l)
    BY <1>2, <2>1 DEF SendOption
  <2> QED BY <1>0, <1>2, <2>1, <2>2, <2>3 DEF SendOption
<1>3. ASSUME SendRest PROVE SetupInv'
  <2>1. \A l \in Lidars, o \in Options : asked'[l][o] = asked[l][o]
    BY <1>3 DEF SendRest, Settings
  <2> QED BY <1>0, <1>3, <2>1 DEF SendRest
<1>4. ASSUME NEW l \in Lidars, NEW o \in Settings, Answer(l, o) PROVE SetupInv'
  <2>1. asked[l][o] > 0 /\ Answered(l, o) => \A k \in Lidars : Informed(k)' /\ UNCHANGED informing => Informed(k)
    BY DEF Answered, Settings
  <2>2. CASE Accepts(l, o)
    <3>1. CASE o \in Options
      <4>1. config[l] \subseteq setBits[l] \cup accepted[l]
        BY <2>2, <3>1 DEF Accepts, Unlocked
      <4>2. setBits'[l] \cup accepted'[l] = setBits[l] \cup accepted[l] \cup {o}
        BY <2>2, <3>1 DEF Accepts
      <4>3. SamplesAsConfigured'
        BY <2>2, <3>1, <4>1, <4>2 DEF Accepts
      <4>4. NothingForgotten'
        BY <2>1, <2>2, <3>1, <4>1, <4>2 DEF Accepts, Unlocked
      <4> QED BY <1>0, <2>2, <4>3, <4>4 DEF Accepts
    <3>2. CASE o \notin Options
      <4>1. \A k \in Lidars : accepted[k] \subseteq accepted'[k]
        BY <2>2 DEF Accepts
      <4> QED BY <1>0, <2>1, <2>2, <3>2, <4>1 DEF Accepts
    <3> QED BY <3>1, <3>2
  <2>3. CASE TimesOut(l, o)
    BY <2>3 DEF TimesOut, setupVars
  <2>4. CASE Refuses(l, o)
    BY <1>0, <2>1, <2>4 DEF Refuses
  <2> QED BY <1>4, <2>2, <2>3, <2>4 DEF Answer
<1>5. CASE UNCHANGED setupVars
  BY <1>5 DEF setupVars
<1> QED BY <1>1, <1>2, <1>3, <1>4, <1>5 DEF SetupNext

\* LidarInfoChangeCallback and the callbacks of its options: whatever answers fail, time
\* out or overtake it, a lidar samples only when it has accepted all that was asked of it.
THEOREM ConfiguredBeforeSampling == SetupSpec => []SamplesAsConfigured
<1>1. SetupInv => SamplesAsConfigured
  BY DEF SetupInv
<1> QED BY SetupInitially, SetupPreserved, <1>1, PTL DEF SetupSpec

-------------------------------------------------------------------------------
(* The rings. *)

Indices == 0 .. Wrap - 1
Numbers == 0 .. MaxFrames

RingTyped ==
  /\ rdIdx \in [Lidars -> Indices] /\ wrIdx \in [Lidars -> Indices]
  /\ slot \in [Lidars -> [0 .. Size - 1 -> Numbers]]
  /\ out \in [Lidars -> Numbers]
  /\ frame \in Numbers
  /\ producer # "idle" => target \in Lidars
  /\ poll \in {"pop", "update"} => lidar \in Lidars

\* The producer has room from its look at the ring on: only the poll thread moves rdIdx,
\* and forwards.
RoomIsKept ==
  /\ \A l \in Lidars : Used(l) <= Size
  /\ producer \in {"store", "advance"} => Used(target) < Size
  /\ producer \in {"full?", "store", "advance"} => frame \in 1 .. MaxFrames
  /\ producer = "advance" => slot[target][wrIdx[target] % Size] = frame

\* What the poll thread has copied is still the oldest frame.
CopyIsOldest == poll = "update" => ~IsEmpty(lidar) /\ pkg = slot[lidar][rdIdx[lidar] % Size]

RingInv == RingTyped /\ RoomIsKept /\ CopyIsOldest

\* What RingsAssumption says, with the quotient named.
LEMMA Sizes == Size \in Nat \ {0} /\ Wrap \in Nat \ {0} /\ Wrap > Size /\ \E k \in Nat : Wrap = k * Size
<1>1. Size \in Nat \ {0} /\ Wrap \in Nat \ {0} /\ Wrap % Size = 0 /\ Wrap > Size
  BY RingAssumption, BoundAssumption
<1>2. PICK k \in Nat : Wrap = k * Size + (Wrap % Size)
  BY <1>1, Remainder
<1>3. Wrap = k * Size
  BY <1>1, <1>2
<1> QED BY <1>1, <1>3

\* An index that wraps keeps its slot.
LEMMA SlotWraps == \A a \in Nat : (a + Wrap) % Size = a % Size
<1>1. PICK k \in Nat : Wrap = k * Size
  BY Sizes
<1>2. Size \in Nat \ {0}
  BY Sizes
<1> QED BY <1>1, <1>2, RemainderOfSum, Zenon

\* The successor of an index, with the wrap written as a case.
LEMMA NextIndex == \A a \in Indices : (a + 1) % Wrap = IF a = Wrap - 1 THEN 0 ELSE a + 1
<1> SUFFICES ASSUME NEW a \in Indices PROVE (a + 1) % Wrap = IF a = Wrap - 1 THEN 0 ELSE a + 1
  OBVIOUS
<1>0. Wrap \in Nat \ {0} /\ a + 1 \in Nat
  BY Sizes DEF Indices
<1>1. CASE a = Wrap - 1
  <2>1. a + 1 = 1 * Wrap + 0 /\ 0 \in 0 .. Wrap - 1 /\ 1 \in Int
    BY <1>0, <1>1
  <2>2. (a + 1) % Wrap = 0
    BY <1>0, <2>1, RemainderIs, Zenon
  <2> QED BY <1>1, <2>2
<1>2. CASE a # Wrap - 1
  <2>1. a + 1 = 0 * Wrap + (a + 1) /\ a + 1 \in 0 .. Wrap - 1 /\ 0 \in Int
    BY <1>0, <1>2 DEF Indices
  <2>2. (a + 1) % Wrap = a + 1
    BY <1>0, <2>1, RemainderIs, Zenon
  <2> QED BY <1>2, <2>2
<1> QED BY <1>1, <1>2

UsedByIndices ==
  \A l \in Lidars :
    Used(l) = IF wrIdx[l] >= rdIdx[l] THEN wrIdx[l] - rdIdx[l] ELSE Wrap + wrIdx[l] - rdIdx[l]

\* The number of slots in use is what the two indices say.
LEMMA UsedIs == RingTyped => UsedByIndices
<1> SUFFICES ASSUME RingTyped, NEW l \in Lidars
             PROVE Used(l) = IF wrIdx[l] >= rdIdx[l] THEN wrIdx[l] - rdIdx[l]
                                                     ELSE Wrap + wrIdx[l] - rdIdx[l]
  BY DEF UsedByIndices
<1> DEFINE w == wrIdx[l]
<1> DEFINE r == rdIdx[l]
<1>0. w \in Indices /\ r \in Indices /\ Wrap \in Nat \ {0}
  BY Sizes DEF RingTyped
<1>1. Used(l) = (Wrap + w - r) % Wrap
  BY DEF Used
<1> HIDE DEF w, r
<1>2. Wrap + w - r \in Nat
  BY <1>0 DEF Indices
<1>3. CASE w >= r
  <2>1. Wrap + w - r = 1 * Wrap + (w - r) /\ w - r \in 0 .. Wrap - 1 /\ 1 \in Int
    BY <1>0, <1>3 DEF Indices
  <2>2. (Wrap + w - r) % Wrap = w - r
    BY <1>0, <1>2, <2>1, RemainderIs, Zenon
  <2> QED BY <1>1, <1>3, <2>2 DEF w, r
<1>4. CASE ~(w >= r)
  <2>1. Wrap + w - r = 0 * Wrap + (Wrap + w - r) /\ Wrap + w - r \in 0 .. Wrap - 1 /\ 0 \in Int
    BY <1>0, <1>4 DEF Indices
  <2>2. (Wrap + w - r) % Wrap = Wrap + w - r
    BY <1>0, <1>2, <2>1, RemainderIs, Zenon
  <2> QED BY <1>1, <1>4, <2>2 DEF w, r
<1> QED BY <1>3, <1>4

\* The place behind the frames that wait is the one the next frame takes.
LEMMA EndOfRing ==
  RingTyped => \A l \in Lidars : /\ Used(l) \in Indices
                                 /\ (rdIdx[l] + Used(l)) % Size = wrIdx[l] % Size
<1> SUFFICES ASSUME RingTyped, NEW l \in Lidars
             PROVE Used(l) \in Indices /\ (rdIdx[l] + Used(l)) % Size = wrIdx[l] % Size
  OBVIOUS
<1> DEFINE w == wrIdx[l]
<1> DEFINE r == rdIdx[l]
<1>0. w \in Indices /\ r \in Indices /\ Wrap \in Nat \ {0}
  BY Sizes DEF RingTyped
<1>1. Used(l) = IF w >= r THEN w - r ELSE Wrap + w - r
  BY UsedIs DEF UsedByIndices
<1> HIDE DEF w, r
<1>2. r + Used(l) = w \/ r + Used(l) = w + Wrap
  BY <1>0, <1>1 DEF Indices
<1>3. (r + Used(l)) % Size = w % Size
  <2>1. w \in Nat
    BY <1>0 DEF Indices
  <2>2. (w + Wrap) % Size = w % Size
    BY <2>1, SlotWraps, Zenon
  <2> QED BY <1>2, <2>2, Zenon
<1>4. Used(l) \in Indices
  BY <1>0, <1>1 DEF Indices
<1> QED BY <1>3, <1>4 DEF w, r

WaitingBySlots ==
  \A l \in Lidars :
    /\ Waiting(l) \in Seq(Numbers) /\ Len(Waiting(l)) = Used(l)
    /\ \A i \in 1 .. Used(l) : Waiting(l)[i] = slot[l][(rdIdx[l] + i - 1) % Size]

\* The frames that wait are the contents of the slots in use, from the read index on.
LEMMA WaitingIs == RingTyped => WaitingBySlots
<1> SUFFICES ASSUME RingTyped, NEW l \in Lidars
             PROVE /\ Waiting(l) \in Seq(Numbers) /\ Len(Waiting(l)) = Used(l)
                   /\ \A i \in 1 .. Used(l) : Waiting(l)[i] = slot[l][(rdIdx[l] + i - 1) % Size]
  BY DEF WaitingBySlots
<1>1. Used(l) \in Nat /\ rdIdx[l] \in Nat /\ Size \in Nat \ {0}
  BY EndOfRing, Sizes DEF Indices, RingTyped
<1>2. ASSUME NEW i \in 1 .. Used(l) PROVE slot[l][(rdIdx[l] + i - 1) % Size] \in Numbers
  <2>1. rdIdx[l] + i - 1 \in Nat
    BY <1>1
  <2>2. (rdIdx[l] + i - 1) % Size \in 0 .. Size - 1
    BY <1>1, <2>1, Remainder
  <2> HIDE DEF Numbers
  <2> QED BY <2>2, Zenon DEF RingTyped
<1>3. Waiting(l) \in [1 .. Used(l) -> Numbers]
  BY <1>2, Zenon DEF Waiting
<1>4. Waiting(l) \in Seq(Numbers)
  BY <1>1, <1>3, SeqDef
<1>5. Len(Waiting(l)) = Used(l)
  BY <1>1, <1>3, <1>4, LenProperties
<1> QED BY <1>4, <1>5, Zenon DEF Waiting

EmptyUnused == \A l \in Lidars : IsEmpty(l) <=> Used(l) = 0

\* Equal indices mean an empty ring.
LEMMA EmptyIsUnused == RingTyped => EmptyUnused
<1> SUFFICES ASSUME RingTyped, NEW l \in Lidars PROVE IsEmpty(l) <=> Used(l) = 0
  BY DEF EmptyUnused
<1>1. Used(l) = IF wrIdx[l] >= rdIdx[l] THEN wrIdx[l] - rdIdx[l] ELSE Wrap + wrIdx[l] - rdIdx[l]
  BY UsedIs DEF UsedByIndices
<1>2. wrIdx[l] \in Indices /\ rdIdx[l] \in Indices /\ Wrap \in Nat
  BY Sizes DEF RingTyped
<1> HIDE RingAssumption
<1> QED BY <1>1, <1>2 DEF IsEmpty, Indices

\* A frame stored does not land in what waits.
LEMMA StoreMissesWaiting ==
  RingTyped => \A l \in Lidars : Used(l) < Size =>
    \A i \in 1 .. Used(l) : (rdIdx[l] + i - 1) % Size # wrIdx[l] % Size
<1> SUFFICES ASSUME RingTyped, NEW l \in Lidars, Used(l) < Size, NEW i \in 1 .. Used(l)
             PROVE (rdIdx[l] + i - 1) % Size # wrIdx[l] % Size
  OBVIOUS
<1> DEFINE u == Used(l)
<1> DEFINE r == rdIdx[l]
<1>1. u \in Nat /\ r \in Nat /\ Size \in Nat \ {0} /\ i \in 1 .. u /\ u < Size
  BY EndOfRing, Sizes DEF Indices, RingTyped
<1>2. (r + u) % Size = wrIdx[l] % Size
  BY EndOfRing
<1> HIDE DEF u, r
<1>3. r + i - 1 \in Nat /\ u - i + 1 \in 1 .. Size - 1 /\ (r + i - 1) + (u - i + 1) = r + u
  BY <1>1
<1>4. (r + u) % Size # (r + i - 1) % Size
  BY <1>1, <1>3, NearRemaindersDiffer
<1> QED BY <1>2, <1>4 DEF r

\* The slot of the frame after the oldest, once the oldest is taken.
LEMMA NextSlot ==
  RingTyped => \A l \in Lidars : \A i \in Nat :
    (((rdIdx[l] + 1) % Wrap) + i) % Size = (rdIdx[l] + 1 + i) % Size
<1> SUFFICES ASSUME RingTyped, NEW l \in Lidars, NEW i \in Nat
             PROVE (((rdIdx[l] + 1) % Wrap) + i) % Size = (rdIdx[l] + 1 + i) % Size
  OBVIOUS
<1> DEFINE r == rdIdx[l]
<1>1. r \in Indices /\ Wrap \in Nat \ {0}
  BY Sizes DEF RingTyped
<1> HIDE DEF r
<1>2. CASE r = Wrap - 1
  <2>1. (r + 1) % Wrap = 0
    BY <1>1, <1>2, NextIndex
  <2>2. r + 1 + i = i + Wrap
    BY <1>1, <1>2
  <2>3. (i + Wrap) % Size = i % Size
    BY SlotWraps
  <2>4. ((r + 1) % Wrap) + i = i
    BY <2>1
  <2> QED BY <2>2, <2>3, <2>4, Zenon DEF r
<1>3. CASE r # Wrap - 1
  <2>1. (r + 1) % Wrap = r + 1
    BY <1>1, <1>3, NextIndex
  <2> QED BY <2>1, Zenon DEF r
<1> QED BY <1>2, <1>3

\* Empty rings are empty queues.
LEMMA RingInitially == QueueInit => RingInv /\ Rings!Init
<1> SUFFICES ASSUME QueueInit PROVE RingInv /\ Rings!Init
  OBVIOUS
<1>1. RingTyped
  BY Sizes, BoundAssumption DEF QueueInit, RingsEmpty, RingTyped, Indices, Numbers
<1>2. \A l \in Lidars : Used(l) = 0
  BY <1>1, EmptyIsUnused DEF EmptyUnused, QueueInit, RingsEmpty, IsEmpty
<1>3. \A l \in Lidars : Waiting(l) = <<>>
  BY <1>1, <1>2, WaitingIs, EmptySeq DEF WaitingBySlots
<1>4. RingInv
  BY <1>1, <1>2, Sizes DEF RingInv, RoomIsKept, CopyIsOldest, QueueInit, RingsEmpty
<1>5. Rings!Init
  BY <1>3 DEF Rings!Init, QueueInit, RingsEmpty
<1> QED BY <1>4, <1>5

\* What the abstract queues see.
Rest == <<[l \in Lidars |-> Waiting(l)], out>>

\* The same of the rings after a step.
LEMMA RingsAfter == RingTyped' => UsedByIndices' /\ WaitingBySlots' /\ EmptyUnused'
BY UsedIs, WaitingIs, EmptyIsUnused, PTL

\* A step that leaves the rings alone stutters.
LEMMA QuietStep ==
  ASSUME RingInv, UNCHANGED <<ringVars, out>>, frame' \in Numbers,
         producer' # "idle" => target' \in Lidars,
         poll' \in {"pop", "update"} => lidar' \in Lidars,
         RoomIsKept', CopyIsOldest'
  PROVE  RingInv' /\ UNCHANGED Rest
<1>1. RingTyped'
  BY DEF RingInv, RingTyped, ringVars, Numbers
<1>2. UNCHANGED Rest
  BY DEF Rest, Waiting, Used, ringVars
<1> QED BY <1>1, <1>2 DEF RingInv

\* The producer's steps.
LEMMA PushStep ==
  RingInv /\ Pushing => RingInv' /\ (Rings!Next \/ UNCHANGED Rest)
<1> SUFFICES ASSUME RingInv, Pushing PROVE RingInv' /\ (Rings!Next \/ UNCHANGED Rest)
  OBVIOUS
<1>0. RingTyped /\ RoomIsKept /\ CopyIsOldest /\ UNCHANGED <<pollVars, out, exit>>
  BY DEF RingInv, Pushing
<1>s. Size \in Nat \ {0} /\ Wrap \in Nat \ {0} /\ Wrap > Size
  BY Sizes
<1> HIDE RingAssumption
<1>1. ASSUME NEW l \in Lidars, Arrive(l) PROVE RingInv' /\ UNCHANGED Rest
  <2>1. UNCHANGED <<ringVars, out>> /\ producer = "idle" /\ producer' = "full?" /\ target' = l
    BY <1>0, <1>1 DEF Arrive, Push
  <2>2. frame' \in 1 .. MaxFrames
    BY <1>0, <1>1, BoundAssumption DEF Arrive, RingTyped, Numbers
  <2>3. RoomIsKept' /\ CopyIsOldest'
    BY <1>0, <2>1, <2>2 DEF RoomIsKept, CopyIsOldest, Used, IsEmpty, ringVars, pollVars
  <2>4. frame' \in Numbers
    BY <2>2, BoundAssumption DEF Numbers
  <2> QED BY <1>0, <2>1, <2>3, <2>4, QuietStep DEF RingTyped, pollVars
<1>2. ASSUME LookAtRing PROVE RingInv' /\ UNCHANGED Rest
  <2>1. /\ UNCHANGED <<ringVars, out, target, frame>> /\ producer = "full?"
        /\ producer' = IF IsFull(target) THEN "count?" ELSE "store"
    BY <1>0, <1>2 DEF LookAtRing, Push
  <2>2. target \in Lidars /\ Used(target) \in Nat
    BY <1>0, <2>1, EndOfRing DEF RingTyped, Indices
  <2>3. producer' = "store" => Used(target) < Size
    BY <1>s, <2>1, <2>2 DEF IsFull
  <2>4. RoomIsKept' /\ CopyIsOldest'
    BY <1>0, <2>1, <2>3 DEF RoomIsKept, CopyIsOldest, Used, IsEmpty, ringVars, pollVars
  <2> QED BY <1>0, <2>1, <2>2, <2>4, QuietStep DEF RingTyped, pollVars
<1>3. ASSUME LookAtCount \/ Signal PROVE RingInv' /\ UNCHANGED Rest
  <2>1. UNCHANGED <<ringVars, out, target, frame>> /\ producer # "idle" /\ producer' \in {"signal", "idle"}
    BY <1>0, <1>3 DEF LookAtCount, Signal, Push
  <2>2. RoomIsKept' /\ CopyIsOldest'
    BY <1>0, <2>1 DEF RoomIsKept, CopyIsOldest, Used, IsEmpty, ringVars, pollVars
  <2> QED BY <1>0, <2>1, <2>2, QuietStep DEF RingTyped, pollVars
<1>4. ASSUME Store PROVE RingInv' /\ UNCHANGED Rest
  <2>0. PICK t \in Lidars : t = target
    <3>1. producer = "store"
      BY <1>4 DEF Store, Push
    <3> QED BY <1>0, <3>1 DEF RingTyped
  <2> DEFINE at == wrIdx[t] % Size
  <2>1. /\ UNCHANGED <<rdIdx, wrIdx, out, target, frame, pollVars>>
        /\ producer = "store" /\ producer' = "advance"
        /\ slot' = [slot EXCEPT ![t][at] = frame]
    BY <1>0, <1>4, <2>0 DEF Store, Push
  <2>2. t \in Lidars /\ Used(t) < Size
    BY <1>0, <2>0, <2>1 DEF RingTyped, RoomIsKept
  <2>3. at \in 0 .. Size - 1
    <3>1. wrIdx[t] \in Nat
      BY <1>0, <2>2 DEF RingTyped, Indices
    <3> QED BY <1>s, <3>1, Remainder, Zenon
  <2>4. \A l \in Lidars : UNCHANGED <<Used(l), IsEmpty(l)>>
    BY <2>1 DEF Used, IsEmpty
  <2>5. \A l \in Lidars : \A i \in 1 .. Used(l) : slot'[l][(rdIdx[l] + i - 1) % Size] = slot[l][(rdIdx[l] + i - 1) % Size]
    <3> SUFFICES ASSUME NEW l \in Lidars, NEW i \in 1 .. Used(l)
                 PROVE slot'[l][(rdIdx[l] + i - 1) % Size] = slot[l][(rdIdx[l] + i - 1) % Size]
      OBVIOUS
    <3> DEFINE k == (rdIdx[l] + i - 1) % Size
    <3>1. l = t => k # at
      BY <1>0, <2>2, StoreMissesWaiting
    <3> HIDE DEF k, at
    <3>2. slot'[l][k] = slot[l][k]
      BY <1>0, <2>1, <3>1 DEF RingTyped
    <3> QED BY <3>2 DEF k
  <2>6. RingTyped'
    <3> HIDE DEF at
    <3>1. slot' \in [Lidars -> [0 .. Size - 1 -> Numbers]]
      BY <1>0, <2>1, <2>2, <2>3 DEF RingTyped
    <3> QED BY <1>0, <2>1, <2>2, <3>1 DEF RingTyped, pollVars
  <2>7. RoomIsKept'
    <3>1. slot'[t][at] = frame
      <4> HIDE DEF at
      <4> QED BY <1>0, <2>1, <2>2, <2>3 DEF RingTyped
    <3>2. \A l \in Lidars : Used(l)' <= Size
      BY <1>0, <2>4 DEF RoomIsKept
    <3>3. Used(t)' < Size
      BY <2>2, <2>4
    <3>4. frame' \in 1 .. MaxFrames
      BY <1>0, <2>1 DEF RoomIsKept
    <3>5. slot'[t][wrIdx'[t] % Size] = frame'
      BY <2>1, <3>1
    <3>6. target' = t
      BY <2>0, <2>1
    <3> QED BY <3>2, <3>3, <3>4, <3>5, <3>6 DEF RoomIsKept
  <2>8. CopyIsOldest'
    <3> SUFFICES ASSUME poll = "update"
                 PROVE  ~IsEmpty(lidar)' /\ pkg = slot'[lidar][rdIdx[lidar] % Size]
      BY <2>1 DEF CopyIsOldest, pollVars
    <3>1. lidar \in Lidars /\ Used(lidar) \in Nat /\ rdIdx[lidar] \in Nat
      BY <1>0, EndOfRing DEF RingTyped, Indices
    <3>2. 1 \in 1 .. Used(lidar)
      BY <1>0, <3>1, EmptyIsUnused DEF EmptyUnused, CopyIsOldest
    <3>3. rdIdx[lidar] + 1 - 1 = rdIdx[lidar]
      BY <3>1
    <3>4. slot'[lidar][rdIdx[lidar] % Size] = slot[lidar][rdIdx[lidar] % Size]
      BY <2>5, <3>1, <3>2, <3>3, Zenon
    <3> QED BY <1>0, <2>1, <3>4 DEF CopyIsOldest, IsEmpty, pollVars
  <2>9. UNCHANGED Rest
    <3>1. \A l \in Lidars : Waiting(l)' = Waiting(l)
      BY <2>1, <2>4, <2>5, Zenon DEF Waiting
    <3> QED BY <2>1, <3>1 DEF Rest
  <2> QED BY <2>6, <2>7, <2>8, <2>9 DEF RingInv
<1>5. ASSUME Advance PROVE RingInv' /\ Rings!Next
  <2>0. PICK t \in Lidars : t = target
    <3>1. producer = "advance"
      BY <1>5 DEF Advance, Push
    <3> QED BY <1>0, <3>1 DEF RingTyped
  <2>1. /\ UNCHANGED <<rdIdx, slot, out, target, frame, pollVars>>
        /\ producer = "advance" /\ producer' = "count?"
        /\ wrIdx' = [wrIdx EXCEPT ![t] = (@ + 1) % Wrap]
    BY <1>0, <1>5, <2>0 DEF Advance, Push
  <2>2. t \in Lidars /\ Used(t) < Size /\ Used(t) \in Nat /\ frame \in 1 .. MaxFrames
        /\ slot[t][wrIdx[t] % Size] = frame
    BY <1>0, <2>0, <2>1, EndOfRing DEF RingTyped, RoomIsKept, Indices
  <2>3. wrIdx[t] \in Indices /\ rdIdx[t] \in Indices
    BY <1>0, <2>2 DEF RingTyped
  <2>4. wrIdx'[t] = (IF wrIdx[t] = Wrap - 1 THEN 0 ELSE wrIdx[t] + 1)
    BY <1>0, <2>1, <2>2, <2>3, NextIndex DEF RingTyped
  <2>5. wrIdx' \in [Lidars -> Indices]
    <3>1. wrIdx'[t] \in Indices
      BY <1>s, <2>3, <2>4 DEF Indices
    <3> QED BY <1>0, <2>1, <3>1 DEF RingTyped
  <2>6. RingTyped'
    BY <1>0, <2>1, <2>2, <2>5 DEF RingTyped, pollVars
  <2>7. Used(t)' = Used(t) + 1
    <3>1. Used(t) = IF wrIdx[t] >= rdIdx[t] THEN wrIdx[t] - rdIdx[t] ELSE Wrap + wrIdx[t] - rdIdx[t]
      BY <1>0, <2>2, UsedIs DEF UsedByIndices
    <3>2. UsedByIndices'
      BY <2>6, RingsAfter
    <3>3. Used(t)' = IF wrIdx'[t] >= rdIdx[t] THEN wrIdx'[t] - rdIdx[t] ELSE Wrap + wrIdx'[t] - rdIdx[t]
      BY <2>1, <2>2, <3>2 DEF UsedByIndices
    <3> QED BY <1>s, <2>2, <2>3, <2>4, <3>1, <3>3 DEF Indices
  <2>8. \A l \in Lidars \ {t} : UNCHANGED <<Used(l), IsEmpty(l), Waiting(l)>>
    BY <1>0, <2>1 DEF Used, IsEmpty, Waiting, RingTyped
  <2>9. RoomIsKept'
    BY <1>0, <1>s, <2>1, <2>2, <2>7, <2>8 DEF RoomIsKept
  <2>10. CopyIsOldest'
    <3>1. ~IsEmpty(t)'
      BY <2>2, <2>6, <2>7, RingsAfter DEF EmptyUnused
    <3> QED BY <1>0, <2>1, <2>2, <2>8, <3>1 DEF CopyIsOldest, RingTyped, pollVars, IsEmpty
  <2>11. Waiting(t)' = Append(Waiting(t), frame)
    <3> DEFINE w == Waiting(t)
    <3> DEFINE v == Waiting(t)'
    <3>1. /\ w \in Seq(Numbers) /\ Len(w) = Used(t)
          /\ \A i \in 1 .. Used(t) : w[i] = slot[t][(rdIdx[t] + i - 1) % Size]
      BY <1>0, <2>2, WaitingIs, Zenon DEF WaitingBySlots
    <3>2. /\ v \in Seq(Numbers) /\ Len(v) = Used(t) + 1
          /\ \A i \in 1 .. Used(t) + 1 : v[i] = slot[t][(rdIdx[t] + i - 1) % Size]
      BY <2>1, <2>2, <2>6, <2>7, RingsAfter, Zenon DEF WaitingBySlots
    <3>3. v[Used(t) + 1] = frame
      <4>1. rdIdx[t] + (Used(t) + 1) - 1 = rdIdx[t] + Used(t) /\ Used(t) + 1 \in 1 .. Used(t) + 1
        BY <2>2, <2>3 DEF Indices
      <4>2. (rdIdx[t] + Used(t)) % Size = wrIdx[t] % Size
        BY <1>0, <2>2, EndOfRing
      <4> QED BY <2>2, <3>2, <4>1, <4>2, Zenon
    <3>4. \A i \in 1 .. Len(w) : v[i] = w[i]
      BY <2>2, <3>1, <3>2
    <3>5. frame \in Numbers
      BY <1>0 DEF RingTyped
    <3> HIDE DEF w, v
    <3>6. v = Append(w, frame)
      BY <2>2, <3>1, <3>2, <3>3, <3>4, <3>5, AppendIs
    <3> QED BY <3>6 DEF w, v
  <2>12. Rings!Put(t, frame)
    <3> DEFINE W == [l \in Lidars |-> Waiting(l)]
    <3>1. Len(W[t]) < Size
      BY <1>0, <2>2, WaitingIs, Zenon DEF WaitingBySlots
    <3>2. W' = [W EXCEPT ![t] = Append(@, frame)]
      BY <2>8, <2>11
    <3> QED BY <2>1, <3>1, <3>2 DEF Rings!Put
  <2> QED BY <2>2, <2>6, <2>9, <2>10, <2>12 DEF RingInv, Rings!Next
<1> QED BY <1>1, <1>2, <1>3, <1>4, <1>5 DEF Pushing, Produce

\* The poll thread's and the destructor's steps.
LEMMA PollStep ==
  RingInv /\ Polling => RingInv' /\ (Rings!Next \/ UNCHANGED Rest)
<1> SUFFICES ASSUME RingInv, Polling PROVE RingInv' /\ (Rings!Next \/ UNCHANGED Rest)
  OBVIOUS
<1>0. RingTyped /\ RoomIsKept /\ CopyIsOldest /\ UNCHANGED <<wrIdx, slot, producer, target, frame>>
  BY DEF RingInv, Polling, pushVars
<1>s. Size \in Nat \ {0} /\ Wrap \in Nat \ {0} /\ Wrap > Size
  BY Sizes
<1> HIDE RingAssumption
<1>1. ASSUME AskExit \/ Wait \/ NextLidar \/ AskEnd PROVE RingInv' /\ UNCHANGED Rest
  <2>1. UNCHANGED <<ringVars, out>> /\ poll' # "update" /\ (poll' = "pop" => lidar' \in Lidars)
    BY <1>0, <1>1 DEF AskExit, Wait, NextLidar, AskEnd, At, Beyond, ringVars
  <2>2. RoomIsKept' /\ CopyIsOldest'
    BY <1>0, <2>1 DEF RoomIsKept, CopyIsOldest, Used, IsEmpty, ringVars
  <2> QED BY <1>0, <2>1, <2>2, QuietStep DEF RingTyped
<1>2. ASSUME PrePop PROVE RingInv' /\ UNCHANGED Rest
  <2>1. UNCHANGED <<ringVars, out, lidar>> /\ poll = "pop" /\ poll' \in {"lidar", "update"}
    BY <1>0, <1>2 DEF PrePop, At, ringVars
  <2>2. poll' = "update" => ~IsEmpty(lidar) /\ pkg' = slot[lidar][rdIdx[lidar] % Size]
    BY <1>2 DEF PrePop, At
  <2>3. RoomIsKept' /\ CopyIsOldest'
    BY <1>0, <2>1, <2>2 DEF RoomIsKept, CopyIsOldest, Used, IsEmpty, ringVars
  <2> QED BY <1>0, <2>1, <2>3, QuietStep DEF RingTyped
<1>3. ASSUME PopUpdate PROVE RingInv' /\ Rings!Next
  <2>0. PICK t \in Lidars : t = lidar
    <3>1. poll = "update"
      BY <1>3 DEF PopUpdate, PublishCustomPointData, At
    <3> QED BY <1>0, <3>1 DEF RingTyped
  <2>1. /\ UNCHANGED <<wrIdx, slot, target, frame, producer, lidar>>
        /\ poll = "update" /\ poll' = "pop"
        /\ rdIdx' = [rdIdx EXCEPT ![t] = (@ + 1) % Wrap]
        /\ out' = [out EXCEPT ![t] = pkg]
    BY <1>0, <1>3, <2>0 DEF PopUpdate, PublishCustomPointData, At
  <2>2. t \in Lidars /\ Used(t) \in Nat \ {0} /\ Used(t) <= Size /\ pkg = slot[t][rdIdx[t] % Size]
    BY <1>0, <2>0, <2>1, EndOfRing, EmptyIsUnused
    DEF EmptyUnused, RingTyped, RoomIsKept, CopyIsOldest, Indices
  <2>3. wrIdx[t] \in Indices /\ rdIdx[t] \in Indices
    BY <1>0, <2>2 DEF RingTyped
  <2>4. rdIdx'[t] = (IF rdIdx[t] = Wrap - 1 THEN 0 ELSE rdIdx[t] + 1)
    BY <1>0, <2>1, <2>2, <2>3, NextIndex DEF RingTyped
  <2>5. rdIdx' \in [Lidars -> Indices]
    <3>1. rdIdx'[t] \in Indices
      BY <1>s, <2>3, <2>4 DEF Indices
    <3> QED BY <1>0, <2>1, <3>1 DEF RingTyped
  <2>w. /\ Waiting(t) \in Seq(Numbers) /\ Len(Waiting(t)) = Used(t)
        /\ \A i \in 1 .. Used(t) : Waiting(t)[i] = slot[t][(rdIdx[t] + i - 1) % Size]
    BY <1>0, <2>2, WaitingIs, Zenon DEF WaitingBySlots
  <2>h. Waiting(t) # <<>> /\ pkg = Head(Waiting(t)) /\ pkg \in Numbers
    <3>1. Waiting(t)[1] = slot[t][(rdIdx[t] + 1 - 1) % Size]
      BY <2>2, <2>w
    <3>2. rdIdx[t] + 1 - 1 = rdIdx[t]
      BY <2>3 DEF Indices
    <3>3. Waiting(t)[1] = pkg
      BY <2>2, <3>1, <3>2, Zenon
    <3>4. Waiting(t) # <<>> /\ Head(Waiting(t)) = Waiting(t)[1]
      BY <2>2, <2>w, EmptySeq
    <3>5. Waiting(t)[1] \in Numbers
      BY <2>2, <2>w, ElementOfSeq
    <3> QED BY <3>3, <3>4, <3>5
  <2>6. RingTyped'
    BY <1>0, <2>1, <2>2, <2>5, <2>h DEF RingTyped
  <2>7. Used(t)' = Used(t) - 1
    <3>1. Used(t) = IF wrIdx[t] >= rdIdx[t] THEN wrIdx[t] - rdIdx[t] ELSE Wrap + wrIdx[t] - rdIdx[t]
      BY <1>0, <2>2, UsedIs DEF UsedByIndices
    <3>2. Used(t)' = IF wrIdx[t] >= rdIdx'[t] THEN wrIdx[t] - rdIdx'[t] ELSE Wrap + wrIdx[t] - rdIdx'[t]
      BY <2>1, <2>2, <2>6, RingsAfter DEF UsedByIndices
    <3> QED BY <1>s, <2>2, <2>3, <2>4, <3>1, <3>2 DEF Indices
  <2>8. \A l \in Lidars \ {t} : UNCHANGED <<Used(l), IsEmpty(l), Waiting(l)>>
    BY <1>0, <2>1 DEF Used, IsEmpty, Waiting, RingTyped
  <2>9. RoomIsKept'
    <3>1. \A l \in Lidars : Used(l) \in Nat
      BY <1>0, EndOfRing DEF Indices
    <3>2. \A l \in Lidars : Used(l)' = Used(l) \/ Used(l)' = Used(l) - 1
      BY <2>7, <2>8
    <3>3. \A l \in Lidars : Used(l)' <= Size /\ (Used(l) < Size => Used(l)' < Size)
      BY <1>0, <1>s, <3>1, <3>2 DEF RoomIsKept
    <3>4. producer \in {"store", "advance"} => target \in Lidars /\ Used(target)' < Size
      BY <1>0, <2>1, <3>3 DEF RoomIsKept, RingTyped
    <3>5. producer = "advance" => slot'[target'][wrIdx'[target'] % Size] = frame'
      BY <1>0, <2>1 DEF RoomIsKept
    <3>6. producer \in {"full?", "store", "advance"} => frame' \in 1 .. MaxFrames
      BY <1>0, <2>1 DEF RoomIsKept
    <3> QED BY <2>1, <3>3, <3>4, <3>5, <3>6 DEF RoomIsKept
  <2>10. CopyIsOldest'
    BY <2>1 DEF CopyIsOldest
  <2>11. Waiting(t)' = Tail(Waiting(t))
    <3> DEFINE w == Waiting(t)
    <3> DEFINE v == Waiting(t)'
    <3>2. /\ v \in Seq(Numbers) /\ Len(v) = Used(t) - 1
          /\ \A i \in 1 .. Used(t) - 1 : v[i] = slot[t][(rdIdx'[t] + i - 1) % Size]
      BY <2>1, <2>2, <2>6, <2>7, RingsAfter, Zenon DEF WaitingBySlots
    <3>4. \A i \in 1 .. Len(v) : v[i] = w[i + 1]
      <4> SUFFICES ASSUME NEW i \in 1 .. Used(t) - 1 PROVE v[i] = w[i + 1]
        BY <3>2
      <4>1. i - 1 \in Nat /\ i + 1 \in 1 .. Used(t)
        BY <2>2
      <4>2. (rdIdx'[t] + (i - 1)) % Size = (rdIdx[t] + 1 + (i - 1)) % Size
        BY <1>0, <2>1, <2>2, <4>1, NextSlot DEF RingTyped
      <4>3. rdIdx'[t] + i - 1 = rdIdx'[t] + (i - 1) /\ rdIdx[t] + (i + 1) - 1 = rdIdx[t] + 1 + (i - 1)
        BY <2>2, <2>3, <2>5 DEF Indices
      <4>4. w[i + 1] = slot[t][(rdIdx[t] + (i + 1) - 1) % Size]
        BY <2>w, <4>1
      <4> QED BY <3>2, <4>2, <4>3, <4>4, Zenon
    <3>5. w \in Seq(Numbers) /\ w # <<>> /\ Len(v) = Len(w) - 1
      BY <2>w, <2>h, <3>2
    <3> HIDE DEF w, v
    <3>6. v = Tail(w)
      BY <3>2, <3>4, <3>5, TailIs, Zenon
    <3> QED BY <3>6 DEF w, v
  <2>12. Rings!Take(t)
    <3> DEFINE W == [l \in Lidars |-> Waiting(l)]
    <3>1. W[t] # <<>> /\ out' = [out EXCEPT ![t] = Head(W[t])]
      BY <2>1, <2>2, <2>h
    <3>2. W' = [W EXCEPT ![t] = Tail(@)]
      BY <2>8, <2>11
    <3> QED BY <3>1, <3>2 DEF Rings!Take
  <2> QED BY <2>2, <2>6, <2>9, <2>10, <2>12 DEF RingInv, Rings!Next
<1> QED BY <1>1, <1>2, <1>3 DEF Polling, Poll

\* Every step keeps the invariant and is a step of FrameQueue or leaves it alone.
LEMMA RingStep ==
  RingInv /\ [QueueNext]_<<setupVars, queueVars>> => RingInv' /\ (Rings!Next \/ UNCHANGED Rest)
<1> SUFFICES ASSUME RingInv, [QueueNext]_<<setupVars, queueVars>>
             PROVE  RingInv' /\ (Rings!Next \/ UNCHANGED Rest)
  OBVIOUS
<1>1. CASE Exiting \/ UNCHANGED queueVars
  <2>1. UNCHANGED <<ringVars, out, target, frame, producer, poll, lidar, pkg>>
    BY <1>1 DEF Exiting, queueVars, pushVars, pollVars
  <2>2. RoomIsKept' /\ CopyIsOldest'
    BY <2>1 DEF RingInv, RoomIsKept, CopyIsOldest, Used, IsEmpty, ringVars
  <2> QED BY <2>1, <2>2, QuietStep DEF RingInv, RingTyped
<1> QED BY <1>1, PushStep, PollStep DEF QueueNext, queueVars

\* QueuePush, QueuePrePop and the poll thread: every ring is a queue that drops what comes
\* when it is full, wherever producer, poll thread and destructor cut in.
THEOREM RingsImplementFrameQueue == QueueSpec => ImplementsFrameQueue
<1>1. QueueInit => RingInv /\ Rings!Init
  BY RingInitially
<1>2. RingInv /\ [QueueNext]_<<setupVars, queueVars>> => RingInv' /\ [Rings!Next]_Rest
  BY RingStep
<1> QED BY <1>1, <1>2, PTL DEF QueueSpec, ImplementsFrameQueue, Rings!Spec, Rest

-------------------------------------------------------------------------------
(* LidarFrames *)

Packets == [id : Nat, time : PacketTimes]

FramesTyped ==
  /\ rawQueue \in Seq(Sensors \X Packets) /\ arrived \in Nat
  /\ points \in [Sensors -> Seq(Packets)]
  /\ stored \in [Sensors -> Seq(Packets)]
  /\ processed \in [Sensors -> Seq(Packets)]

FramesInv == FramesTyped /\ FramesCarryEachPacketOnce

\* What is gathered, with the packet just processed, is handed out or kept.
LEMMA GatheredIsKept ==
  ASSUME FramesInv, NEW s \in Sensors, NEW packet \in Packets,
         NEW gathered, gathered = [points EXCEPT ![s] = Append(@, packet)],
         processed' = [processed EXCEPT ![s] = Append(@, packet)],
         Keep(gathered) \/ \E S \in SUBSET Sensors : HandOut(S, gathered)
  PROVE  /\ points' \in [Sensors -> Seq(Packets)]
         /\ stored' \in [Sensors -> Seq(Packets)]
         /\ processed' \in [Sensors -> Seq(Packets)]
         /\ FramesCarryEachPacketOnce'
<1>0. /\ points \in [Sensors -> Seq(Packets)]
      /\ stored \in [Sensors -> Seq(Packets)]
      /\ processed \in [Sensors -> Seq(Packets)]
      /\ \A r \in Sensors : stored[r] \o points[r] = processed[r]
  BY DEF FramesInv, FramesTyped, FramesCarryEachPacketOnce
<1>1. \A q \in Seq(Packets) : Append(q, packet) \in Seq(Packets)
  BY AppendProperties
<1> HIDE DEF Packets
<1>2. gathered \in [Sensors -> Seq(Packets)] /\ processed' \in [Sensors -> Seq(Packets)]
  BY <1>0, <1>1
\* The packets of a sensor are what is stored and what is gathered.
<1>3. \A r \in Sensors : stored[r] \o gathered[r] = processed'[r]
  <2> SUFFICES ASSUME NEW r \in Sensors PROVE stored[r] \o gathered[r] = processed'[r]
    OBVIOUS
  <2>1. CASE r # s
    BY <1>0, <2>1
  <2>2. CASE r = s
    <3>1. gathered[s] = Append(points[s], packet) /\ processed'[s] = Append(processed[s], packet)
      BY <1>0
    <3>2. stored[s] \in Seq(Packets) /\ points[s] \in Seq(Packets)
      BY <1>0
    <3>3. stored[s] \o Append(points[s], packet) = Append(stored[s] \o points[s], packet)
      <4> DEFINE a == stored[s]
      <4> DEFINE b == points[s]
      <4>1. a \in Seq(Packets) /\ b \in Seq(Packets) /\ <<packet>> \in Seq(Packets) /\ a \o b \in Seq(Packets)
        BY <3>2, ConcatProperties
      <4> HIDE DEF a, b
      <4>2. Append(b, packet) = b \o <<packet>> /\ Append(a \o b, packet) = (a \o b) \o <<packet>>
        BY <4>1, AppendIsConcat
      <4>3. (a \o b) \o <<packet>> = a \o (b \o <<packet>>)
        BY <4>1, ConcatAssociative
      <4> QED BY <4>2, <4>3 DEF a, b
    <3> QED BY <1>0, <2>2, <3>1, <3>3
  <2> QED BY <2>1, <2>2
<1>4. CASE Keep(gathered)
  BY <1>0, <1>2, <1>3, <1>4 DEF Keep, FramesCarryEachPacketOnce
<1>5. ASSUME NEW S \in SUBSET Sensors, HandOut(S, gathered)
      PROVE  /\ points' \in [Sensors -> Seq(Packets)]
             /\ stored' \in [Sensors -> Seq(Packets)]
             /\ FramesCarryEachPacketOnce'
  <2>1. /\ points' = [r \in Sensors |-> IF r \in S THEN <<>> ELSE gathered[r]]
        /\ stored' = [r \in Sensors |-> IF r \in S THEN stored[r] \o gathered[r] ELSE stored[r]]
    BY <1>5 DEF HandOut, Cleared
  <2>2. \A r \in Sensors : stored[r] \o gathered[r] \in Seq(Packets) /\ <<>> \in Seq(Packets)
    BY <1>0, <1>2, ConcatProperties, EmptySeq
  <2>3. points' \in [Sensors -> Seq(Packets)] /\ stored' \in [Sensors -> Seq(Packets)]
    BY <1>0, <1>2, <2>1, <2>2
  <2>4. \A r \in Sensors : (stored[r] \o gathered[r]) \o <<>> = stored[r] \o gathered[r]
    BY <2>2, ConcatEmptySeq
  <2>5. \A r \in Sensors : stored'[r] \o points'[r] = processed'[r]
    BY <1>3, <2>1, <2>4
  <2> QED BY <2>3, <2>5 DEF FramesCarryEachPacketOnce
<1> QED BY <1>2, <1>4, <1>5

\* What the gathering thread has processed is in the frames or gathered, one step per action.
LEMMA FramesPreserved == FramesInv /\ [FramesNext]_frameVars => FramesInv'
<1> SUFFICES ASSUME FramesInv, [FramesNext]_frameVars PROVE FramesInv'
  OBVIOUS
<1>1. ASSUME NEW s \in Sensors, NEW t \in PacketTimes, NEW sync \in BOOLEAN, PacketArrives(s, t, sync)
      PROVE FramesInv'
  <2> DEFINE p == <<s, [id |-> arrived + 1, time |-> t]>>
  <2>1. p \in Sensors \X Packets
    BY DEF FramesInv, FramesTyped, Packets
  <2>2. rawQueue' = Append(rawQueue, p) /\ rawQueue \in Seq(Sensors \X Packets)
    BY <1>1 DEF PacketArrives, FramesInv, FramesTyped
  <2> HIDE DEF p
  <2>3. rawQueue' \in Seq(Sensors \X Packets)
    BY <2>1, <2>2, AppendProperties
  <2> QED BY <1>1, <2>3 DEF PacketArrives, FramesInv, FramesTyped, FramesCarryEachPacketOnce
<1>2. ASSUME NEW sync \in BOOLEAN, ImuArrives(sync) PROVE FramesInv'
  BY <1>2 DEF ImuArrives, FramesInv, FramesTyped, FramesCarryEachPacketOnce
<1>3. ASSUME NEW late \in BOOLEAN, Process(late) PROVE FramesInv'
  <2> DEFINE s == rawQueue[1][1]
  <2> DEFINE packet == rawQueue[1][2]
  <2> DEFINE gathered == [points EXCEPT ![s] = Append(@, packet)]
  <2>1. rawQueue # <<>> /\ rawQueue' = Tail(rawQueue) /\ arrived' = arrived
        /\ rawQueue \in Seq(Sensors \X Packets)
    BY <1>3 DEF Process, Gathered, FramesInv, FramesTyped
  <2>2. rawQueue' \in Seq(Sensors \X Packets)
    BY <2>1, HeadTailProperties
  <2>3. rawQueue[1] \in Sensors \X Packets
    BY <2>1, EmptySeq, ElementOfSeq
  <2>4. s \in Sensors /\ packet \in Packets
    BY <2>3
  <2>5. processed' = [processed EXCEPT ![s] = Append(@, packet)]
    BY <1>3 DEF Process, Gathered
  <2>6. Keep(gathered) \/ \E S \in SUBSET Sensors : HandOut(S, gathered)
    BY <1>3, <2>4 DEF Process, Gathered
  <2> HIDE DEF s, packet
  <2>7. /\ points' \in [Sensors -> Seq(Packets)]
        /\ stored' \in [Sensors -> Seq(Packets)]
        /\ processed' \in [Sensors -> Seq(Packets)]
        /\ FramesCarryEachPacketOnce'
    <3> HIDE DEF gathered
    <3>1. gathered = [points EXCEPT ![s] = Append(@, packet)]
      BY DEF gathered
    <3> QED BY <2>4, <2>5, <2>6, <3>1, GatheredIsKept, Zenon
  <2> QED BY <2>1, <2>2, <2>7 DEF FramesInv, FramesTyped
<1>4. CASE UNCHANGED frameVars
  BY <1>4 DEF frameVars, FramesInv, FramesTyped, FramesCarryEachPacketOnce
<1> QED BY <1>1, <1>2, <1>3, <1>4 DEF FramesNext

\* However the stamps jump, the flag flips and the host's clock cuts the frames.
THEOREM EachPacketOnce == FramesSpec => []FramesCarryEachPacketOnce
<1>1. FramesInit => FramesInv
  <2> SUFFICES ASSUME FramesInit PROVE FramesInv
    OBVIOUS
  <2>1. <<>> \in Seq(Packets) /\ <<>> \in Seq(Sensors \X Packets) /\ <<>> \o <<>> = <<>>
    BY EmptySeq, ConcatEmptySeq
  <2> QED BY <2>1 DEF FramesInit, Nothing, FramesInv, FramesTyped, FramesCarryEachPacketOnce
<1>2. FramesInv => FramesCarryEachPacketOnce
  BY DEF FramesInv
<1> QED BY <1>1, <1>2, FramesPreserved, PTL DEF FramesSpec

-------------------------------------------------------------------------------
(* MergeScans *)

MergedTyped == merged.stamp \in Nat

\* What syncCallback publishes of a pair.
LEMMA PublishedPair ==
  ASSUME MergedTyped, NEW pair \in Pairs, SyncCallback(pair), merged' # merged
  PROVE  MergedTyped' /\ merged'.of = pair /\ PairIsKept(pair)
<1> DEFINE a == pair[1].base
<1> DEFINE b == pair[2].base
<1>1. /\ a \in Nat /\ b \in Nat /\ Slop \in Nat /\ MaxOffset \in Nat
      /\ a - b \in -Slop .. Slop
      /\ \A i \in 1 .. 2 : pair[i].points \subseteq Nat /\ pair[i].base \in Nat
  <2>1. pair[1] \in LivoxScan /\ pair[2] \in LivoxScan /\ a - b \in -Slop .. Slop
    BY DEF Pairs
  <2>2. \A m \in LivoxScan : m.base \in Nat /\ m.points \subseteq Nat
    BY MergeAssumption DEF LivoxScan
  <2>3. \A i \in 1 .. 2 : pair[i] \in LivoxScan
    BY <2>1
  <2> QED BY <2>1, <2>2, <2>3, MergeAssumption
<1>2. OutBase(pair) = IF a < b THEN a ELSE b
  BY DEF OutBase
<1>3. /\ merged'.base = OutBase(pair) /\ merged'.of = pair
      /\ merged'.points = FirstPoints(pair) \cup Rebased(pair, 2)
      /\ ~merged'.moved => merged'.stamp = a
      /\ merged'.stamp = IF merged # NoScan /\ a <= merged.stamp THEN merged.stamp + 1 ELSE a
  <2> DEFINE m == merged # NoScan /\ a <= merged.stamp
  <2>1. merged' = [base |-> OutBase(pair), points |-> FirstPoints(pair) \cup Rebased(pair, 2),
                   moved |-> m, of |-> pair, stamp |-> IF m THEN merged.stamp + 1 ELSE a]
    BY DEF SyncCallback
  <2>2. m \in BOOLEAN
    OBVIOUS
  <2>3. merged'.moved = m /\ merged'.stamp = (IF m THEN merged.stamp + 1 ELSE a)
    <3> HIDE DEF m
    <3> QED BY <2>1
  <2>4. merged'.base = OutBase(pair) /\ merged'.of = pair /\ merged'.points = FirstPoints(pair) \cup Rebased(pair, 2)
    <3> HIDE DEF m
    <3> QED BY <2>1
  <2>5. ~merged'.moved => merged'.stamp = a
    <3> HIDE DEF m
    <3> QED BY <2>2, <2>3
  <2> QED BY <2>3, <2>4, <2>5
<1>4. FirstPoints(pair) \subseteq {[of |-> 1, at |-> (pair[1].base + p) - OutBase(pair)] : p \in pair[1].points}
  BY <1>1, <1>2 DEF FirstPoints, Rebased
<1>5. Rebased(pair, 2) \subseteq {[of |-> 2, at |-> (pair[2].base + p) - OutBase(pair)] : p \in pair[2].points}
  BY <1>1, <1>2 DEF Rebased
<1>6. ASSUME NEW i \in 1 .. 2, NEW p \in pair[i].points, (pair[i].base + p) - OutBase(pair) <= MaxOffset
      PROVE [of |-> i, at |-> (pair[i].base + p) - merged'.base] \in merged'.points
  <2>1. (pair[i].base + p) - OutBase(pair) \in 0 .. MaxOffset
    BY <1>1, <1>2, <1>6
  <2>2. CASE i = 1
    <3>1. [of |-> 1, at |-> (pair[1].base + p) - OutBase(pair)] \in FirstPoints(pair)
      BY <1>1, <1>2, <1>6, <2>1, <2>2 DEF FirstPoints, Rebased
    <3> QED BY <1>3, <2>2, <3>1
  <2>3. CASE i = 2
    <3>1. [of |-> 2, at |-> (pair[2].base + p) - OutBase(pair)] \in Rebased(pair, 2)
      BY <1>1, <1>2, <1>6, <2>1, <2>3 DEF Rebased
    <3> QED BY <1>3, <2>3, <3>1
  <2> QED BY <2>2, <2>3
<1>7. ASSUME NEW q \in merged'.points
      PROVE \E p \in pair[q.of].points : pair[q.of].base + p = merged'.base + q.at
  <2>1. \E i \in 1 .. 2 : \E p \in pair[i].points : q = [of |-> i, at |-> (pair[i].base + p) - OutBase(pair)]
    BY <1>3, <1>4, <1>5, <1>7
  <2>2. PICK i \in 1 .. 2 : \E p \in pair[i].points : q = [of |-> i, at |-> (pair[i].base + p) - OutBase(pair)]
    BY <2>1
  <2>p. PICK p \in pair[i].points : q = [of |-> i, at |-> (pair[i].base + p) - OutBase(pair)]
    BY <2>2
  <2>3. q.of = i /\ q.at = (pair[i].base + p) - OutBase(pair)
    BY <2>p
  <2>4. pair[i].base + p = merged'.base + q.at
    BY <1>1, <1>2, <1>3, <2>3
  <2> QED BY <2>3, <2>4
<1>8. ~merged'.moved => merged'.stamp - merged'.base \in 0 .. Slop
  <2>1. a \in Nat /\ b \in Nat /\ Slop \in Nat /\ a - b \in -Slop .. Slop
    BY <1>1
  <2> HIDE DEF a, b
  <2>2. a - OutBase(pair) \in 0 .. Slop
    BY <1>2, <2>1
  <2> QED BY <1>3, <2>2
<1>9. merged # NoScan => merged'.stamp > merged.stamp
  BY <1>1, <1>3 DEF MergedTyped
<1>10. MergedTyped'
  BY <1>1, <1>3 DEF MergedTyped
<1> HIDE DEF a, b
<1>11. \A i \in 1 .. 2 : \A p \in pair[i].points :
         Measured(pair, i, p) - OutBase(pair) <= MaxOffset =>
           [of |-> i, at |-> Measured(pair, i, p) - merged'.base] \in merged'.points
  BY <1>6, Zenon DEF Measured
<1>12. \A q \in merged'.points :
         \E p \in pair[q.of].points : Measured(pair, q.of, p) = merged'.base + q.at
  BY <1>7 DEF Measured
<1> QED BY <1>3, <1>8, <1>9, <1>10, <1>11, <1>12, Zenon DEF PairIsKept

\* No point that the merged scan can express is lost, whichever lidar began first.
THEOREM MergeLosesNoPoint == MergeSpec => MergeKeepsPoints
<1>1. MergeInit => MergedTyped
  BY DEF MergeInit, MergedTyped, NoScan
<1>2. ASSUME MergedTyped, [MergeNext]_merged, merged' # merged
      PROVE  MergedTyped' /\ PairIsKept(merged'.of)
  <2>1. PICK pair \in Pairs : SyncCallback(pair)
    BY <1>2 DEF MergeNext
  <2> QED BY <1>2, <2>1, PublishedPair
<1>3. ASSUME MergedTyped, [MergeNext]_merged PROVE MergedTyped'
  BY <1>2, <1>3 DEF MergedTyped
<1>5. MergedTyped /\ [MergeNext]_merged =>
        MergedTyped' /\ [merged' # merged => PairIsKept(merged'.of)]_merged
  BY <1>2, <1>3
<1> QED BY <1>1, <1>5, PTL DEF MergeSpec, MergeKeepsPoints

-------------------------------------------------------------------------------
(* ScanChain *)

ChainTyped ==
  /\ stamp \in Nat /\ odoms \in Seq(Nat) /\ clouds \in Seq(Nat)
  /\ previous.known \in BOOLEAN /\ previous.matched \in BOOLEAN
  /\ previous.stamp \in Nat /\ previous.at \in Nat

\* The velocity is derived from where the source was at the stamp it is divided by.
PreviousIsTrue == previous.known /\ previous.matched => previous.at = Position(previous.stamp)

ChainInv == ChainTyped /\ PreviousIsTrue /\ SpeedIsTrue

LEMMA TwistIsSpeed ==
  ASSUME ChainInv, NEW t \in Nat, t > previous.stamp, previous.known, previous.matched
  PROVE  Twist(t, Position(t)) = Speed
<1> DEFINE n == t - previous.stamp
<1>1. n \in Nat \ {0} /\ Speed \in Int
  BY ChainAssumption DEF ChainInv, ChainTyped
<1>2. Position(t) - previous.at = Speed * n
  BY ChainAssumption DEF ChainInv, ChainTyped, PreviousIsTrue, Position
<1>3. Twist(t, Position(t)) = (Speed * n) \div n
  BY <1>2 DEF Twist
<1> HIDE DEF n
<1> QED BY <1>1, <1>3, QuotientOfMultiple

\* The messages of a robot at constant speed lie on its line, one step per action.
LEMMA ChainPreserved == ChainInv /\ [ChainNext]_chainVars => ChainInv'
<1> SUFFICES ASSUME ChainInv, [ChainNext]_chainVars PROVE ChainInv'
  OBVIOUS
<1>0. ChainTyped /\ PreviousIsTrue /\ SpeedIsTrue
  BY DEF ChainInv
<1>1. ASSUME NEW t \in Nat, Forward(t), stamp' = t PROVE ChainInv'
  <2>1. odoms' \in Seq(Nat) /\ clouds' \in Seq(Nat)
    <3>1. odoms' \in {odoms, Append(odoms, t)} /\ clouds' \in {clouds, Append(clouds, t)}
      BY <1>1 DEF Forward
    <3>2. Append(odoms, t) \in Seq(Nat) /\ Append(clouds, t) \in Seq(Nat)
      BY <1>0, AppendProperties DEF ChainTyped
    <3> QED BY <1>0, <3>1, <3>2 DEF ChainTyped
  <2>2. UNCHANGED <<previous, reported>>
    BY <1>1 DEF Forward
  <2> QED BY <1>0, <1>1, <2>1, <2>2 DEF ChainInv, ChainTyped, PreviousIsTrue, SpeedIsTrue
<1>2. CASE Scans
  <2>1. stamp' \in Nat /\ Forward(stamp')
    BY <1>0, <1>2 DEF Scans, ChainTyped
  <2> QED BY <1>1, <2>1
<1>3. CASE Restarts
  BY <1>1, <1>3 DEF Restarts
<1>4. CASE LaserCloudAndOdometryHandler
  <2>1. PICK i \in DOMAIN odoms, j \in DOMAIN clouds :
          Paired(i, j) /\ (Publish(odoms[i], clouds[j]) \/ UNCHANGED <<previous, reported>>)
    BY <1>4 DEF LaserCloudAndOdometryHandler
  <2>2. UNCHANGED <<stamp, rewinds, ready>>
    BY <1>4 DEF LaserCloudAndOdometryHandler
  <2> DEFINE o == odoms[i]
  <2> DEFINE c == clouds[j]
  <2>3. o \in Nat /\ c \in Nat /\ i \in 1 .. Len(odoms) /\ j \in 1 .. Len(clouds)
    BY <1>0, LenProperties, ElementOfSeq DEF ChainTyped
  <2>4. odoms' \in Seq(Nat) /\ clouds' \in Seq(Nat)
    <3>1. odoms' = SubSeq(odoms, i + 1, Len(odoms)) /\ clouds' = SubSeq(clouds, j + 1, Len(clouds))
      BY <2>1 DEF Paired
    <3> QED BY <1>0, <2>3, <3>1, RestOfSeq DEF ChainTyped
  <2>5. CASE UNCHANGED <<previous, reported>>
    BY <1>0, <2>2, <2>4, <2>5 DEF ChainInv, ChainTyped, PreviousIsTrue, SpeedIsTrue
  <2>6. CASE Publish(o, c)
    <3>1. /\ previous' = [known |-> TRUE, stamp |-> c, at |-> Position(o), matched |-> o = c]
          /\ reported'.twist = Twist(c, Position(o))
          /\ reported'.moved => previous.known /\ c > previous.stamp /\ o = c /\ previous.matched
      BY <2>6 DEF Publish
    <3> HIDE DEF o, c
    <3>2. Position(o) \in Nat
      BY <2>3, ChainAssumption DEF Position
    <3>3. ChainTyped' /\ PreviousIsTrue'
      BY <1>0, <2>2, <2>3, <2>4, <3>1, <3>2 DEF ChainTyped, PreviousIsTrue
    <3>4. SpeedIsTrue'
      BY <2>3, <3>1, TwistIsSpeed DEF SpeedIsTrue
    <3> QED BY <3>3, <3>4 DEF ChainInv
  <2> QED BY <2>1, <2>5, <2>6
<1>5. CASE UNCHANGED chainVars
  BY <1>0, <1>5 DEF chainVars, ChainInv, ChainTyped, PreviousIsTrue, SpeedIsTrue
<1> QED BY <1>2, <1>3, <1>4, <1>5 DEF ChainNext

\* Whatever is lost, skipped or repeated, at every speed and with queues of every length.
THEOREM ReportedSpeedIsTrue == ChainSpec => []SpeedIsTrue
<1>1. ChainInit => ChainInv
  BY EmptySeq DEF ChainInit, ChainInv, ChainTyped, PreviousIsTrue, SpeedIsTrue, NoOdometry, NoReport
<1>2. ChainInv => SpeedIsTrue
  BY DEF ChainInv
<1> QED BY <1>1, <1>2, ChainPreserved, PTL DEF ChainSpec

-------------------------------------------------------------------------------
(* Where the points are that the voxels hold. *)

\* Rolling stops within a voxel of the vehicle.
LEMMA RolledNear ==
  ASSUME NEW s \in Int, NEW v \in Int
  PROVE  Rolled(s, v) \in Int /\ v - Unit * Rolled(s, v) \in -Unit .. Unit
<1>0. Unit \in Nat \ {0}
  BY TerrainAssumption
<1> DEFINE a == Unit * s
<1>1. a \in Int
  BY <1>0
<1>2. CASE v - a < -Unit
  <2> DEFINE q == ((a - v) - 1) \div Unit
  <2>1. q \in Int /\ q * Unit \in Int /\ q * Unit <= (a - v) - 1 /\ (a - v) - 1 < q * Unit + Unit
    BY <1>0, <1>1, Quotient
  <2>2. Rolled(s, v) = s - q
    BY <1>2, <1>1, <1>0 DEF Rolled
  <2> HIDE DEF q
  <2>3. Unit * (s - q) = a - q * Unit
    BY <1>0, <2>1, SMT
  <2> HIDE DEF a
  <2> QED BY <1>0, <1>1, <2>1, <2>2, <2>3
<1>3. CASE v - a > Unit
  <2> DEFINE q == ((v - a) - 1) \div Unit
  <2>1. q \in Int /\ q * Unit \in Int /\ q * Unit <= (v - a) - 1 /\ (v - a) - 1 < q * Unit + Unit
    BY <1>0, <1>1, Quotient
  <2>2. Rolled(s, v) = s + q
    BY <1>3, <1>1, <1>0 DEF Rolled
  <2> HIDE DEF q
  <2>3. Unit * (s + q) = a + q * Unit
    BY <1>0, <2>1, SMT
  <2> HIDE DEF a
  <2> QED BY <1>0, <1>1, <2>1, <2>2, <2>3
<1>4. CASE v - a \in -Unit .. Unit
  <2>1. Rolled(s, v) = s
    BY <1>4, <1>1, <1>0 DEF Rolled
  <2> QED BY <1>4, <2>1
<1> HIDE DEF a
<1> QED BY <1>0, <1>1, <1>2, <1>3, <1>4

\* A point is put into a cell whose place, from the vehicle, it is at most half a voxel from.
LEMMA IndexNear ==
  ASSUME NEW d \in Int
  PROVE  Index(d) \in Int /\ 2 * (d - Unit * (Index(d) - Half)) \in -Unit .. Unit
<1> DEFINE h == Unit \div 2
<1>0. Unit \in Nat \ {0} /\ Half \in Nat /\ h \in Int /\ 2 * h = Unit
  BY TerrainAssumption
<1> DEFINE n == d + h
<1> HIDE DEF h
<1>1. n \in Int
  BY <1>0
<1>2. CASE n >= 0
  <2> DEFINE q == n \div Unit
  <2>1. q \in Int /\ q * Unit \in Int /\ q * Unit <= n /\ n < q * Unit + Unit
    BY <1>0, <1>1, Quotient
  <2>2. Index(d) = Half + q
    BY <1>2 DEF Index, h
  <2> HIDE DEF q
  <2>3. Unit * (Index(d) - Half) = q * Unit
    BY <1>0, <2>1, <2>2, SMT
  <2> QED BY <1>0, <1>1, <2>1, <2>2, <2>3
<1>3. CASE n < 0
  <2> DEFINE q == (-n) \div Unit
  <2>1. q \in Int /\ q * Unit \in Int /\ q * Unit <= -n /\ -n < q * Unit + Unit
    BY <1>0, <1>1, Quotient
  <2>2. Index(d) = Half + ((-q) - 1)
    BY <1>0, <1>1, <1>3, <2>1 DEF Index, h
  <2> HIDE DEF q
  <2>3. Unit * (Index(d) - Half) = (-(q * Unit)) - Unit
    BY <1>0, <2>1, <2>2, SMT
  <2> QED BY <1>0, <1>1, <2>1, <2>2, <2>3
<1> QED BY <1>1, <1>2, <1>3

\* The mean of stamps is not below what bounds them from below, and not after the present.
LEMMA MeanBetween ==
  ASSUME time \in Nat, NEW low \in Nat, NEW ps, IsFiniteSet(ps), ps # {},
         \A p \in ps : p.t \in low .. time
  PROVE  MeanTime(ps) \in low .. time
<1> DEFINE at(n) == {p \in ps : p.t = n}
<1> DEFINE upto(n) == {p \in ps : p.t <= n}
<1> DEFINE N == Cardinality(ps)
<1> DEFINE sum[n \in 0 .. time] == IF n = 0 THEN 0 ELSE sum[n - 1] + n * Cardinality(at(n))
<1> DEFINE step == [d \in (1 .. time) \X Nat |-> d[2] + d[1] * Cardinality(at(d[1]))]
<1>0. N \in Nat \ {0}
  BY FS_CardinalityType, FS_EmptySet
<1>1. \A n \in 0 .. time : /\ IsFiniteSet(at(n)) /\ Cardinality(at(n)) \in Nat
                           /\ IsFiniteSet(upto(n)) /\ Cardinality(upto(n)) \in Nat
  <2> SUFFICES ASSUME NEW n \in 0 .. time
               PROVE  /\ IsFiniteSet(at(n)) /\ Cardinality(at(n)) \in Nat
                      /\ IsFiniteSet(upto(n)) /\ Cardinality(upto(n)) \in Nat
    OBVIOUS
  <2>1. at(n) \in SUBSET ps /\ upto(n) \in SUBSET ps
    OBVIOUS
  <2> HIDE DEF at, upto
  <2>2. IsFiniteSet(at(n)) /\ IsFiniteSet(upto(n))
    BY <2>1, FS_Subset
  <2> QED BY <2>2, FS_CardinalityType
<1>2. MeanTime(ps) = (sum[time] + (N - 1)) \div N
  BY Zenon DEF MeanTime
<1>3. step \in StepsOf(time, Nat)
  <2>1. ASSUME NEW d \in (1 .. time) \X Nat
        PROVE  d[2] + d[1] * Cardinality(at(d[1])) \in Nat
    <3>1. d[1] \in Nat /\ d[2] \in Nat /\ Cardinality(at(d[1])) \in Nat
      <4>1. d[1] \in 0 .. time /\ d[2] \in Nat
        OBVIOUS
      <4> HIDE DEF at, upto
      <4> QED BY <1>1, <4>1
    <3> DEFINE k == Cardinality(at(d[1]))
    <3> HIDE DEF k
    <3>2. d[1] * k \in Nat
      BY <3>1 DEF k
    <3>3. d[2] + d[1] * k \in Nat
      BY <3>1, <3>2
    <3> QED BY <3>3 DEF k
  <2> HIDE DEF at
  <2> QED BY <2>1 DEF StepsOf
<1>4. \A n \in 1 .. time, x \in Nat : step[<<n, x>>] = x + n * Cardinality(at(n))
  <2> HIDE DEF at
  <2> QED OBVIOUS
<1> HIDE DEF step
<1>5. PICK f : Unrolls(f, 0, time, Nat, step)
  BY <1>3, Recursion
<1> HIDE DEF at
<1>6. f \in [0 .. time -> Nat] /\ f[0] = 0 /\ \A n \in 1 .. time : f[n] = f[n - 1] + n * Cardinality(at(n))
  <2>1. f \in [0 .. time -> Nat] /\ f[0] = 0 /\ \A n \in 1 .. time : f[n] = step[<<n, f[n - 1]>>]
    BY <1>5 DEF Unrolls
  <2>2. \A n \in 1 .. time : n - 1 \in 0 .. time
    OBVIOUS
  <2> QED BY <1>4, <2>1, <2>2
<1>7. f = [n \in 0 .. time |-> IF n = 0 THEN 0 ELSE f[n - 1] + n * Cardinality(at(n))]
  <2>1. \A n \in 0 .. time : f[n] = IF n = 0 THEN 0 ELSE f[n - 1] + n * Cardinality(at(n))
    BY <1>6
  <2> QED BY <1>6, <2>1
<1>8. sum = [n \in 0 .. time |-> IF n = 0 THEN 0 ELSE sum[n - 1] + n * Cardinality(at(n))]
  BY <1>7
<1> HIDE DEF sum
<1>9. sum[0] = 0 /\ \A n \in 1 .. time : sum[n] = sum[n - 1] + n * Cardinality(at(n))
  <2>1. \A n \in 0 .. time : sum[n] = IF n = 0 THEN 0 ELSE sum[n - 1] + n * Cardinality(at(n))
    BY <1>8
  <2> QED BY <2>1
<1> DEFINE C(n) == Cardinality(upto(n))
<1> DEFINE T == {n \in 0 .. time :
      sum[n] \in Nat /\ low * C(n) <= sum[n] /\ sum[n] <= time * C(n)}
<1>10. 0 \in T
  <2>1. C(0) \in Nat
    BY <1>1
  <2>2. low * C(0) = 0
    <3>1. CASE upto(0) = {}
      <4>1. C(0) = 0
        BY <3>1, FS_EmptySet, Zenon
      <4> HIDE DEF C
      <4> QED BY <4>1
    <3>2. CASE upto(0) # {}
      <4>1. low = 0
        BY <3>2
      <4> HIDE DEF C
      <4> QED BY <2>1, <4>1
    <3> QED BY <3>1, <3>2
  <2>3. time * C(0) >= 0
    <3> HIDE DEF C
    <3> QED BY <2>1
  <2> HIDE DEF C
  <2> QED BY <1>9, <2>2, <2>3
<1>11. ASSUME NEW n \in 1 .. time, n - 1 \in T PROVE n \in T
  <2> DEFINE k == Cardinality(at(n))
  <2> DEFINE b == C(n - 1)
  <2> DEFINE s == sum[n - 1]
  <2>1. /\ n \in 0 .. time /\ n - 1 \in 0 .. time /\ k \in Nat /\ b \in Nat /\ C(n) \in Nat
        /\ s \in Nat /\ low * b <= s /\ s <= time * b
    <3>1. n \in 0 .. time /\ n - 1 \in 0 .. time
      BY <1>11
    <3>2. s \in Nat /\ low * b <= s /\ s <= time * b
      <4> HIDE DEF C
      <4> QED BY <1>11
    <3> HIDE DEF upto
    <3>3. k \in Nat /\ b \in Nat /\ C(n) \in Nat
      BY <1>1, <3>1
    <3> HIDE DEF k, b, s, C, T
    <3> QED BY <3>1, <3>2, <3>3
  <2>2. C(n) = b + k
    <3>1. upto(n) = upto(n - 1) \cup at(n) /\ upto(n - 1) \cap at(n) = {}
      BY DEF at
    <3>2. IsFiniteSet(upto(n - 1)) /\ IsFiniteSet(at(n))
      BY <1>1, <2>1
    <3> HIDE DEF upto
    <3>3. Cardinality(upto(n - 1) \cup at(n)) = b + k - 0
      BY <3>1, <3>2, FS_Union, FS_EmptySet
    <3> QED BY <2>1, <3>1, <3>3
  <2>3. low * k <= n * k /\ n * k <= time * k
    <3>1. CASE at(n) = {}
      <4>1. k = 0
        BY <3>1, FS_EmptySet
      <4> HIDE DEF k
      <4> QED BY <4>1
    <3>2. CASE at(n) # {}
      <4>1. low <= n /\ n <= time
        BY <3>2 DEF at
      <4> HIDE DEF k
      <4> QED BY <2>1, <4>1, SMT
    <3> QED BY <3>1, <3>2
  <2>4. sum[n] = s + n * k
    BY <1>9
  <2> HIDE DEF k, b, s, C
  <2>5. low * (b + k) = low * b + low * k /\ time * (b + k) = time * b + time * k
    BY <2>1, SMT
  <2>6. n * k \in Nat /\ low * b \in Nat /\ low * k \in Nat /\ time * b \in Nat /\ time * k \in Nat
    BY <2>1, SMT
  <2>7. sum[n] \in Nat /\ low * C(n) <= sum[n] /\ sum[n] <= time * C(n)
    BY <2>1, <2>2, <2>3, <2>4, <2>5, <2>6
  <2> QED BY <2>7
<1>12. time \in T
  <2> HIDE DEF T
  <2>1. 0 .. time \subseteq T
    BY <1>10, <1>11, UpTo
  <2> QED BY <2>1
<1>13. upto(time) = ps
  OBVIOUS
<1>14. sum[time] \in Nat /\ low * N <= sum[time] /\ sum[time] <= time * N
  BY <1>12, <1>13
<1> DEFINE s == sum[time]
<1> DEFINE q == (s + (N - 1)) \div N
<1>15. s \in Nat /\ low * N <= s /\ s <= time * N
  BY <1>14
<1> HIDE DEF N, s, upto, C, T
<1>16. low <= q /\ q \in Int /\ q * N \in Int /\ q * N <= s + (N - 1)
  <2>1. low * N \in Int /\ s + (N - 1) \in Int /\ low * N <= s + (N - 1)
    BY <1>0, <1>15
  <2>2. (low * N) \div N <= q
    BY <1>0, <2>1, QuotientMonotone
  <2>3. (low * N) \div N = low
    BY <1>0, QuotientOfMultiple
  <2>4. q \in Int /\ q * N \in Int /\ q * N <= s + (N - 1)
    BY <1>0, <2>1, Quotient
  <2> QED BY <2>2, <2>3, <2>4
<1> HIDE DEF q
<1>17. q <= time
  <2> SUFFICES ASSUME q >= time + 1 PROVE FALSE
    BY <1>16
  <2>1. (time + 1) * N <= q * N
    BY <1>0, <1>16, SMT
  <2>2. (time + 1) * N = time * N + N /\ time * N \in Nat
    BY <1>0, SMT
  <2> QED BY <1>0, <1>15, <1>16, <2>1, <2>2
<1> QED BY <1>2, <1>16, <1>17 DEF q, s

\* What the voxels hold: points that are at most one and a half voxels from the place of
\* their cell along each axis, stamped up to now.  A place that is due is held, by points
\* that are all stamped since then: so their mean is too.
Stamped == [at : Int \X Int, t : 0 .. time]
Strays(p, c) ==
  \A i \in {1, 2} :
    2 * (p.at[i] - Unit * ((c[i] - Half) + shift[i])) \in -(3 * Unit) .. 3 * Unit
Backed(d) ==
  /\ \E c \in Cells : \E p \in voxels[c] : p.at = d.at
  /\ \A c \in Cells : \A p \in voxels[c] : p.at = d.at => d.t <= p.t
VoxelInv ==
  /\ leg \in 1 .. Len(Drive) /\ shift \in Int \X Int /\ time \in Nat
  /\ IsFiniteSet(crop) /\ \A p \in crop : p \in Stamped /\ p.t = time
  /\ \A c \in Cells : IsFiniteSet(voxels[c]) /\ \A p \in voxels[c] : p \in Stamped /\ Strays(p, c)
  /\ \A d \in due : d \in Stamped /\ Backed(d)
  /\ KeepsRecentNear

\* What the filter leaves of some points: one for each of their places, stamped between them.
LEMMA ThinnedIs ==
  ASSUME time \in Nat, NEW ps, IsFiniteSet(ps), \A p \in ps : p \in Stamped
  PROVE  /\ IsFiniteSet(Thinned(ps))
         /\ \A q \in Thinned(ps) : q \in Stamped /\ \E p \in ps : p.at = q.at
         /\ \A p \in ps : \E q \in Thinned(ps) : q.at = p.at
         /\ \A q \in Thinned(ps), low \in Nat :
              (\A p \in ps : p.at = q.at => low <= p.t) => low <= q.t
<1> DEFINE leaf(a) == {p \in ps : p.at = a}
<1> DEFINE places == {p.at : p \in ps}
<1> DEFINE mean(a) == [at |-> a, t |-> MeanTime(leaf(a))]
<1>1. Thinned(ps) = {mean(a) : a \in places}
  BY Zenon DEF Thinned
<1>2. \A p \in ps : p.at \in Int \X Int /\ p.t \in 0 .. time
  BY DEF Stamped
<1>3. ASSUME NEW a \in places, NEW low \in Nat, \A p \in leaf(a) : low <= p.t
      PROVE  MeanTime(leaf(a)) \in low .. time
  <2>1. leaf(a) # {} /\ leaf(a) \in SUBSET ps
    OBVIOUS
  <2>2. \A p \in leaf(a) : p.t \in low .. time
    BY <1>2, <1>3
  <2> HIDE DEF leaf
  <2>3. IsFiniteSet(leaf(a))
    BY <2>1, FS_Subset
  <2> QED BY <2>1, <2>2, <2>3, MeanBetween
<1>4. \A a \in places : a \in Int \X Int /\ MeanTime(leaf(a)) \in 0 .. time
  <2> SUFFICES ASSUME NEW a \in places PROVE a \in Int \X Int /\ MeanTime(leaf(a)) \in 0 .. time
    OBVIOUS
  <2>1. a \in Int \X Int
    BY <1>2
  <2>2. \A p \in leaf(a) : 0 <= p.t
    BY <1>2
  <2> HIDE DEF leaf, places
  <2> QED BY <1>3, <2>1, <2>2
<1>5. IsFiniteSet(Thinned(ps))
  <2> DEFINE f == [p \in ps |-> mean(p.at)]
  <2>1. f \in Surjection(ps, Thinned(ps))
    <3> HIDE DEF mean
    <3>1. \A p \in ps : mean(p.at) \in Thinned(ps)
      BY <1>1
    <3>2. f \in [ps -> Thinned(ps)]
      BY <3>1
    <3>3. \A q \in Thinned(ps) : \E p \in ps : f[p] = q
      BY <1>1
    <3> QED BY <3>2, <3>3 DEF Surjection
  <2> HIDE DEF f
  <2> QED BY <2>1, FS_Surjection
<1>6. ASSUME NEW q \in Thinned(ps)
      PROVE  /\ q \in Stamped /\ \E p \in ps : p.at = q.at
             /\ \A low \in Nat : (\A p \in ps : p.at = q.at => low <= p.t) => low <= q.t
  <2>1. PICK a \in places : q = mean(a)
    BY <1>1
  <2>2. q.at = a /\ q.t = MeanTime(leaf(a))
    <3> HIDE DEF leaf, places
    <3> QED BY <2>1
  <2>3. q \in Stamped
    <3> HIDE DEF leaf, places
    <3> QED BY <1>4, <2>1 DEF Stamped
  <2>4. \E p \in ps : p.at = q.at
    BY <2>2
  <2>5. ASSUME NEW low \in Nat, \A p \in ps : p.at = q.at => low <= p.t
        PROVE  low <= q.t
    <3>1. \A p \in leaf(a) : low <= p.t
      BY <2>2, <2>5
    <3>2. MeanTime(leaf(a)) \in low .. time
      <4> HIDE DEF leaf, places
      <4> QED BY <1>3, <3>1
    <3> HIDE DEF leaf
    <3> QED BY <2>2, <3>2
  <2> HIDE DEF places
  <2> QED BY <2>3, <2>4, <2>5
<1>7. ASSUME NEW p \in ps PROVE \E q \in Thinned(ps) : q.at = p.at
  <2>1. mean(p.at) \in Thinned(ps) /\ mean(p.at).at = p.at
    <3>1. p.at \in places
      OBVIOUS
    <3> HIDE DEF leaf, places
    <3> QED BY <1>1, <3>1
  <2> HIDE DEF mean
  <2> QED BY <2>1
<1> QED BY <1>5, <1>6, <1>7

\* A point near the vehicle that is not far from its cell is in a cell that is viewed: x is
\* where the point is, k and s the cell and the grid, v the vehicle.
LEMMA NearIsViewed ==
  ASSUME NEW x \in Int, NEW v \in Int, NEW k \in Int, NEW s \in Int,
         x - v \in -((View - 2) * Unit) .. (View - 2) * Unit,
         v - Unit * s \in -Unit .. Unit,
         2 * (x - Unit * (k + s)) \in -(3 * Unit) .. 3 * Unit
  PROVE  k \in -View .. View
<1>0. Unit \in Nat \ {0} /\ View \in Nat
  BY TerrainAssumption
<1> DEFINE a == Unit * s
<1> DEFINE b == Unit * k
<1> DEFINE w == View * Unit
<1>1. /\ a \in Int /\ b \in Int /\ w \in Int /\ Unit * (k + s) = b + a
      /\ (View - 2) * Unit = w - 2 * Unit
  BY <1>0, SMT
<1>2. /\ x - v >= -(w - 2 * Unit) /\ x - v <= w - 2 * Unit
      /\ v - a >= -Unit /\ v - a <= Unit
      /\ 2 * (x - (b + a)) >= -(3 * Unit) /\ 2 * (x - (b + a)) <= 3 * Unit
  <2> HIDE DEF b, w
  <2> QED BY <1>0, <1>1
<1> HIDE DEF a, b, w
<1>3. 2 * b <= 2 * w + Unit /\ 2 * b >= -(2 * w + Unit)
  BY <1>0, <1>1, <1>2
<1>4. ~(k >= View + 1)
  <2> SUFFICES ASSUME k >= View + 1 PROVE FALSE
    OBVIOUS
  <2>1. Unit * k >= Unit * (View + 1)
    BY <1>0, SMT
  <2>2. b >= w + Unit
    BY <1>0, <2>1, SMT DEF b, w
  <2> QED BY <1>0, <1>1, <1>3, <2>2
<1>5. ~(k <= -(View + 1))
  <2> SUFFICES ASSUME k <= -(View + 1) PROVE FALSE
    OBVIOUS
  <2>1. Unit * k <= Unit * (-(View + 1))
    BY <1>0, SMT
  <2>2. b <= -(w + Unit)
    BY <1>0, <2>1, SMT DEF b, w
  <2> QED BY <1>0, <1>1, <1>3, <2>2
<1> QED BY <1>0, <1>4, <1>5

\* A pass loses no such point: what it has to serve is where it can be seen.
LEMMA PassKeeps ==
  ASSUME VoxelInv, Pass
  PROVE  VoxelInv'
<1> DEFINE dx == shift'[1] - shift[1]
<1> DEFINE dy == shift'[2] - shift[2]
<1> DEFINE rolled == Moved(voxels, dx, dy)
<1> DEFINE new(c) == {p \in crop : CellOf(p) = c}
<1> DEFINE all(c) == rolled[c] \cup new(c)
<1> DEFINE stamps(a) == {q.t : q \in {p \in crop \cup UNION {rolled[c] : c \in Cells} : p.at = a}}
<1> DEFINE seen == {[at |-> p.at, t |-> Min(stamps(p.at))] : p \in crop}
<1>0. /\ leg \in 1 .. Len(Drive) /\ shift \in Int \X Int /\ time \in Nat
      /\ IsFiniteSet(crop) /\ \A p \in crop : p \in Stamped /\ p.t = time
      /\ \A c \in Cells : IsFiniteSet(voxels[c]) /\ \A p \in voxels[c] : p \in Stamped /\ Strays(p, c)
      /\ \A d \in due : d \in Stamped /\ Backed(d)
  BY DEF VoxelInv
<1>1. /\ shift' = <<Rolled(shift[1], vehicle[1]), Rolled(shift[2], vehicle[2])>>
      /\ served' = UNION {voxels'[c] : c \in Viewed}
      /\ leg' = leg /\ crop' = crop /\ time' = time
  BY DEF Pass
<1>2. \A c \in Cells : voxels'[c] = all(c) \/ voxels'[c] = {p \in Thinned(all(c)) : Kept(p)}
  BY DEF Pass
<1>3. due' = MustServe(due \cup seen)
  BY Zenon DEF Pass
<1>4. vehicle \in Int \X Int
  <2>1. Drive \in Seq(Int \X Int)
    BY TerrainAssumption
  <2> QED BY <1>0, <2>1, ElementOfSeq DEF vehicle
<1>5. Unit \in Nat \ {0} /\ Half \in Nat /\ View \in Nat /\ View <= Half
  BY TerrainAssumption
<1>6. /\ shift'[1] \in Int /\ shift'[2] \in Int /\ shift' \in Int \X Int
      /\ vehicle[1] - Unit * shift'[1] \in -Unit .. Unit
      /\ vehicle[2] - Unit * shift'[2] \in -Unit .. Unit
  BY <1>0, <1>1, <1>4, RolledNear
<1>7. dx \in Int /\ dy \in Int
  BY <1>0, <1>6
<1> DEFINE Near(p, c) ==
  \A i \in {1, 2} :
    2 * (p.at[i] - Unit * ((c[i] - Half) + shift'[i])) \in -(3 * Unit) .. 3 * Unit
<1>8. ASSUME NEW c \in Cells, NEW p \in rolled[c]
      PROVE  p \in Stamped /\ Near(p, c)
  <2> DEFINE from == <<c[1] + dx, c[2] + dy>>
  <2>1. from \in Cells /\ p \in voxels[from]
    BY <1>8 DEF Moved
  <2>2. p \in Stamped /\ Strays(p, from)
    <3> HIDE DEF from
    <3> QED BY <1>0, <2>1
  <2>3. c[1] \in Int /\ c[2] \in Int /\ shift[1] \in Int /\ shift[2] \in Int
    BY <1>0, <1>5 DEF Cells, Width
  <2>4. /\ (from[1] - Half) + shift[1] = (c[1] - Half) + shift'[1]
        /\ (from[2] - Half) + shift[2] = (c[2] - Half) + shift'[2]
    BY <1>5, <1>6, <2>3
  <2> HIDE DEF from
  <2> QED BY <2>2, <2>4 DEF Strays
<1>9. ASSUME NEW p \in crop
      PROVE  /\ p \in Stamped /\ Near(p, CellOf(p))
             /\ CellOf(p)[1] \in Int /\ CellOf(p)[2] \in Int
  <2>1. p \in Stamped /\ p.at[1] \in Int /\ p.at[2] \in Int
    BY <1>0 DEF Stamped
  <2>2. ASSUME NEW x \in Int, NEW v \in Int, NEW s \in Int, v - Unit * s \in -Unit .. Unit
        PROVE  2 * (x - Unit * ((Index(x - v) - Half) + s)) \in -(3 * Unit) .. 3 * Unit
    <3> DEFINE k == Index(x - v) - Half
    <3>1. k \in Int /\ 2 * ((x - v) - Unit * k) \in -Unit .. Unit
      BY <1>5, IndexNear
    <3> HIDE DEF k
    <3> DEFINE a == Unit * k
    <3> DEFINE b == Unit * s
    <3>2. a \in Int /\ b \in Int /\ Unit * (k + s) = a + b
      BY <1>5, <3>1, SMT
    <3>3. 2 * ((x - v) - a) \in -Unit .. Unit /\ v - b \in -Unit .. Unit
      BY <2>2, <3>1
    <3> HIDE DEF a, b
    <3>4. 2 * (x - (a + b)) \in -(3 * Unit) .. 3 * Unit
      BY <1>5, <3>2, <3>3
    <3> QED BY <3>2, <3>4 DEF k
  <2>3. /\ CellOf(p)[1] = Index(p.at[1] - vehicle[1]) /\ CellOf(p)[2] = Index(p.at[2] - vehicle[2])
    BY DEF CellOf
  <2>4. CellOf(p)[1] \in Int /\ CellOf(p)[2] \in Int
    BY <1>4, <2>1, <2>3, IndexNear
  <2>5. Near(p, CellOf(p))
    <3>1. vehicle[1] \in Int /\ vehicle[2] \in Int
      BY <1>4
    <3>2. /\ 2 * (p.at[1] - Unit * ((CellOf(p)[1] - Half) + shift'[1])) \in -(3 * Unit) .. 3 * Unit
          /\ 2 * (p.at[2] - Unit * ((CellOf(p)[2] - Half) + shift'[2])) \in -(3 * Unit) .. 3 * Unit
      BY <1>6, <2>1, <2>2, <2>3, <3>1
    <3> QED BY <3>2
  <2> QED BY <2>1, <2>4, <2>5
<1>10. ASSUME NEW c \in Cells
       PROVE  IsFiniteSet(all(c)) /\ \A p \in all(c) : p \in Stamped /\ Near(p, c)
  <2>1. ASSUME NEW p \in all(c) PROVE p \in Stamped /\ Near(p, c)
    <3>1. p \in rolled[c] \/ (p \in crop /\ CellOf(p) = c)
      OBVIOUS
    <3> HIDE DEF rolled, Near
    <3> QED BY <3>1, <1>8, <1>9
  <2>2. IsFiniteSet(rolled[c])
    <3> DEFINE from == <<c[1] + dx, c[2] + dy>>
    <3>1. rolled[c] = IF from \in Cells THEN voxels[from] ELSE {}
      BY DEF Moved
    <3> HIDE DEF from, rolled
    <3> QED BY <1>0, <3>1, FS_EmptySet
  <2>3. IsFiniteSet(new(c))
    <3>1. new(c) \in SUBSET crop
      OBVIOUS
    <3> HIDE DEF new
    <3> QED BY <1>0, <3>1, FS_Subset
  <2>4. IsFiniteSet(all(c))
    <3> HIDE DEF rolled, new
    <3> QED BY <2>2, <2>3, FS_Union
  <2> HIDE DEF all, Near
  <2> QED BY <2>1, <2>4
<1>11. ASSUME NEW c \in Cells
       PROVE  /\ IsFiniteSet(voxels'[c])
              /\ \A p \in voxels'[c] :
                   /\ p \in Stamped /\ Near(p, c)
                   /\ \A low \in Nat : (\A q \in all(c) : q.at = p.at => low <= q.t) => low <= p.t
              /\ \A p \in all(c), low \in Nat :
                   /\ \A q \in all(c) : q.at = p.at => low <= q.t
                   /\ \A q \in Stamped : q.at = p.at /\ low <= q.t => Kept(q)
                   => \E q \in voxels'[c] : q.at = p.at
  <2> DEFINE thin == Thinned(all(c))
  <2>1. /\ IsFiniteSet(all(c)) /\ \A p \in all(c) : p \in Stamped /\ Near(p, c)
    BY <1>10
  <2>2. voxels'[c] = all(c) \/ voxels'[c] = {p \in thin : Kept(p)}
    BY <1>2
  <2> HIDE DEF all
  <2>3. /\ IsFiniteSet(thin)
        /\ \A q \in thin : q \in Stamped /\ \E p \in all(c) : p.at = q.at
        /\ \A p \in all(c) : \E q \in thin : q.at = p.at
        /\ \A q \in thin, low \in Nat :
             (\A p \in all(c) : p.at = q.at => low <= p.t) => low <= q.t
    BY <1>0, <2>1, ThinnedIs
  <2> HIDE DEF thin
  <2>4. \A q \in thin : Near(q, c)
    BY <2>1, <2>3
  <2> HIDE DEF Near
  <2>5. CASE voxels'[c] = all(c)
    BY <2>1, <2>5
  <2>6. CASE voxels'[c] = {p \in thin : Kept(p)}
    <3>1. voxels'[c] \in SUBSET thin
      BY <2>6
    <3>2. IsFiniteSet(voxels'[c])
      BY <2>3, <3>1, FS_Subset
    <3>3. ASSUME NEW p \in voxels'[c], NEW low \in Nat, \A q \in all(c) : q.at = p.at => low <= q.t
          PROVE  low <= p.t
      BY <2>3, <3>1, <3>3
    <3>4. ASSUME NEW p \in all(c), NEW low \in Nat,
                 \A q \in all(c) : q.at = p.at => low <= q.t,
                 \A q \in Stamped : q.at = p.at /\ low <= q.t => Kept(q)
          PROVE  \E q \in voxels'[c] : q.at = p.at
      <4>1. PICK q \in thin : q.at = p.at
        BY <2>3
      <4>2. low <= q.t
        BY <2>3, <3>4, <4>1
      <4>3. Kept(q)
        BY <2>3, <3>4, <4>1, <4>2
      <4> QED BY <2>6, <4>1, <4>3
    <3> QED BY <2>3, <2>4, <3>1, <3>2, <3>3, <3>4
  <2> QED BY <2>2, <2>5, <2>6
<1>12. ASSUME NEW d \in due \cup seen
       PROVE  /\ d \in Stamped
              /\ \A c \in Cells : \A p \in all(c) : p.at = d.at => d.t <= p.t
  <2>0. \A c \in Cells : \A p \in all(c) : p \in rolled[c] \/ p \in crop
    OBVIOUS
  <2>1. CASE d \in due
    <3>1. d \in Stamped /\ \A c \in Cells : \A p \in voxels[c] : p.at = d.at => d.t <= p.t
      BY <1>0, <2>1 DEF Backed
    <3>2. \A p \in crop : d.t <= p.t
      BY <1>0, <3>1 DEF Stamped
    <3>3. \A c \in Cells : \A p \in rolled[c] : p.at = d.at => d.t <= p.t
      <4>1. \A c \in Cells : \A p \in rolled[c] : \E from \in Cells : p \in voxels[from]
        BY DEF Moved
      <4> HIDE DEF rolled
      <4> QED BY <3>1, <4>1
    <3> HIDE DEF all, rolled
    <3> QED BY <2>0, <3>1, <3>2, <3>3
  <2>2. CASE d \in seen
    <3>1. PICK s \in crop : d = [at |-> s.at, t |-> Min(stamps(s.at))]
      <4> HIDE DEF stamps
      <4> QED BY <2>2
    <3>2. d.at = s.at /\ d.t = Min(stamps(d.at)) /\ d = [at |-> d.at, t |-> d.t]
      <4> HIDE DEF stamps
      <4> QED BY <3>1
    <3>3. s \in Stamped /\ s.at \in Int \X Int /\ s.t \in stamps(d.at)
      BY <1>0, <3>2 DEF Stamped
    <3>4. \A p \in crop \cup UNION {rolled[c] : c \in Cells} : p.t \in 0 .. time
      <4>1. \A p \in crop : p.t \in 0 .. time
        BY <1>0 DEF Stamped
      <4>2. \A c \in Cells : \A p \in rolled[c] : p.t \in 0 .. time
        <5> HIDE DEF rolled
        <5> QED BY <1>8 DEF Stamped
      <4> HIDE DEF rolled
      <4> QED BY <4>1, <4>2
    <3>5. stamps(d.at) \in SUBSET (0 .. time)
      <4> HIDE DEF rolled
      <4> QED BY <3>4
    <3>6. stamps(d.at) \subseteq Int /\ IsFiniteSet(stamps(d.at))
      <4>1. IsFiniteSet(0 .. time)
        BY <1>0, FS_Interval
      <4> HIDE DEF stamps
      <4> QED BY <1>0, <3>5, <4>1, FS_Subset
    <3>7. d.t \in stamps(d.at) /\ \A x \in stamps(d.at) : d.t <= x
      <4> HIDE DEF stamps
      <4> QED BY <3>2, <3>3, <3>6, MinMaxBound
    <3>8. \A c \in Cells : \A p \in all(c) : p.at = d.at => p.t \in stamps(d.at)
      <4> HIDE DEF rolled, new
      <4>1. \A c \in Cells : \A p \in rolled[c] : p \in UNION {rolled[b] : b \in Cells}
        OBVIOUS
      <4> HIDE DEF all
      <4> QED BY <2>0, <4>1
    <3>9. d.t \in 0 .. time /\ d.at \in Int \X Int
      <4> HIDE DEF stamps
      <4> QED BY <3>2, <3>3, <3>5, <3>7
    <3>10. d \in Stamped
      <4> HIDE DEF stamps
      <4> QED BY <3>2, <3>9 DEF Stamped
    <3> HIDE DEF all, stamps
    <3> QED BY <3>7, <3>8, <3>10
  <2> QED BY <2>1, <2>2
<1>13. ASSUME NEW d \in due \cup seen,
              \A i \in {1, 2} : d.at[i] - vehicle[i] \in -((View - 2) * Unit) .. (View - 2) * Unit
       PROVE  \E c \in Viewed \cap Cells : \E p \in all(c) : p.at = d.at
  <2>1. \A i \in {1, 2} : d.at[i] - vehicle[i] \in -((View - 2) * Unit) .. (View - 2) * Unit
    BY <1>13
  <2>2. PICK p, c : /\ p.at = d.at
                    /\ c = <<c[1], c[2]>> /\ c[1] \in Int /\ c[2] \in Int
                    /\ p \in Stamped /\ Near(p, c)
                    /\ (c \in Cells => p \in all(c))
    <3>1. CASE d \in seen
      <4>1. PICK s \in crop : s.at = d.at
        <5> HIDE DEF stamps
        <5> QED BY <3>1
      <4>2. CellOf(s) = <<CellOf(s)[1], CellOf(s)[2]>>
        BY DEF CellOf
      <4>3. CellOf(s) \in Cells => s \in all(CellOf(s))
        OBVIOUS
      <4> HIDE DEF all, Near
      <4> QED BY <1>9, <4>1, <4>2, <4>3
    <3>2. CASE d \in due
      <4>0. PICK f \in Cells : \E p \in voxels[f] : p.at = d.at
        BY <1>0, <3>2 DEF Backed
      <4>1. PICK p \in voxels[f] : p.at = d.at
        BY <4>0
      <4>2. p \in Stamped /\ Strays(p, f)
        BY <1>0, <4>1
      <4>3. f = <<f[1], f[2]>> /\ f[1] \in Int /\ f[2] \in Int /\ shift[1] \in Int /\ shift[2] \in Int
        BY <1>0, <1>5 DEF Cells, Width
      <4> DEFINE c == <<f[1] - dx, f[2] - dy>>
      <4>4. c[1] = f[1] - dx /\ c[2] = f[2] - dy
        OBVIOUS
      <4>5. c[1] \in Int /\ c[2] \in Int /\ c = <<c[1], c[2]>>
        BY <1>7, <4>3
      <4>6. /\ (f[1] - Half) + shift[1] = (c[1] - Half) + shift'[1]
            /\ (f[2] - Half) + shift[2] = (c[2] - Half) + shift'[2]
        BY <1>5, <1>6, <4>3
      <4>7. <<c[1] + dx, c[2] + dy>> = f
        <5>1. c[1] + dx = f[1] /\ c[2] + dy = f[2]
          BY <1>7, <4>3, <4>4
        <5> HIDE DEF c, dx, dy
        <5> QED BY <4>3, <5>1
      <4> HIDE DEF c
      <4>8. c \in Cells => p \in rolled[c]
        <5> HIDE DEF dx, dy
        <5> QED BY <4>1, <4>7 DEF Moved
      <4>9. Near(p, c)
        BY <4>2, <4>6 DEF Strays
      <4>10. c \in Cells => p \in all(c)
        BY <4>8
      <4> HIDE DEF all, Near
      <4> QED BY <4>1, <4>2, <4>5, <4>9, <4>10
    <3> QED BY <3>1, <3>2
  <2>3. p.at[1] \in Int /\ p.at[2] \in Int /\ vehicle[1] \in Int /\ vehicle[2] \in Int
    BY <1>4, <2>2 DEF Stamped
  <2>4. c[1] - Half \in Int /\ c[2] - Half \in Int
    BY <1>5, <2>2
  <2>5. c[1] - Half \in -View .. View
    <3>1. /\ 2 * (p.at[1] - Unit * ((c[1] - Half) + shift'[1])) \in -(3 * Unit) .. 3 * Unit
          /\ p.at[1] - vehicle[1] \in -((View - 2) * Unit) .. (View - 2) * Unit
      BY <2>1, <2>2
    <3> QED BY <1>6, <2>3, <2>4, <3>1, NearIsViewed
  <2>6. c[2] - Half \in -View .. View
    <3>1. /\ 2 * (p.at[2] - Unit * ((c[2] - Half) + shift'[2])) \in -(3 * Unit) .. 3 * Unit
          /\ p.at[2] - vehicle[2] \in -((View - 2) * Unit) .. (View - 2) * Unit
      BY <2>1, <2>2
    <3> QED BY <1>6, <2>3, <2>4, <3>1, NearIsViewed
  <2>7. /\ c[1] \in Half - View .. Half + View /\ c[2] \in Half - View .. Half + View
        /\ c[1] \in 0 .. Width - 1 /\ c[2] \in 0 .. Width - 1
    BY <1>5, <2>2, <2>5, <2>6 DEF Width
  <2>8. c \in Viewed \cap Cells
    BY <2>2, <2>7 DEF Viewed, Cells
  <2> HIDE DEF all, Near
  <2> QED BY <2>2, <2>8
<1>14. ASSUME NEW d \in due'
       PROVE  /\ d \in Stamped
              /\ \A c \in Cells : \A p \in voxels'[c] : p.at = d.at => d.t <= p.t
              /\ \E c \in Viewed \cap Cells : \E p \in voxels'[c] : p.at = d.at
  <2>1. /\ d \in due \cup seen
        /\ \A i \in {1, 2} : d.at[i] - vehicle[i] \in -((View - 2) * Unit) .. (View - 2) * Unit
        /\ time - d.t < Decay
        /\ ~(clearing /\ Dist2(d.at, vehicle) < ClearingDis * ClearingDis)
    BY <1>3, Zenon DEF MustServe
  <2> HIDE DEF all, seen, Near
  <2>2. /\ d \in Stamped /\ d.t \in Nat /\ Decay \in Nat
        /\ \A c \in Cells : \A p \in all(c) : p.at = d.at => d.t <= p.t
    BY <1>12, <2>1, TerrainAssumption DEF Stamped
  <2>3. \A q \in Stamped : q.at = d.at /\ d.t <= q.t => Kept(q)
    <3> SUFFICES ASSUME NEW q \in Stamped, q.at = d.at, d.t <= q.t PROVE Kept(q)
      OBVIOUS
    <3>1. q.t \in Int /\ d.t \in Int
      BY <1>0, <2>2 DEF Stamped
    <3>2. time - q.t < Decay
      BY <1>0, <2>1, <2>2, <3>1
    <3> QED BY <2>1, <3>2 DEF Kept
  <2>4. PICK c \in Viewed \cap Cells : \E p \in all(c) : p.at = d.at
    BY <1>13, <2>1
  <2>5. \E p \in voxels'[c] : p.at = d.at
    BY <1>11, <2>2, <2>3, <2>4
  <2>6. \A b \in Cells : \A p \in voxels'[b] : p.at = d.at => d.t <= p.t
    BY <1>11, <2>2
  <2> QED BY <2>2, <2>4, <2>5, <2>6
<1>15. Stamped' = Stamped
  BY <1>1 DEF Stamped
<1>16. \A c \in Cells : /\ IsFiniteSet(voxels'[c])
                        /\ \A p \in voxels'[c] : p \in Stamped /\ Strays(p, c)'
  BY <1>11 DEF Strays
<1> HIDE DEF rolled, new, all, dx, dy, Near, stamps, seen
<1>17. \A d \in due' : d \in Stamped /\ Backed(d)'
  BY <1>14 DEF Backed
<1>18. KeepsRecentNear'
  <2>1. \A d \in due' : \E c \in Viewed : \E p \in voxels'[c] : p.at = d.at
    BY <1>14
  <2> QED BY <1>1, <2>1 DEF KeepsRecentNear
<1>19. \A p \in crop' : p \in Stamped' /\ p.t = time'
  BY <1>0, <1>1, <1>15
<1> QED
  BY <1>0, <1>1, <1>6, <1>15, <1>16, <1>17, <1>18, <1>19 DEF VoxelInv

\* The handlers do not touch the voxels.
LEMMA VoxelStep ==
  ASSUME VoxelInv, [AnalysisNext]_<<terrainVars, mapsVars>>
  PROVE  VoxelInv'
<1> USE DEF VoxelInv, KeepsRecentNear, Strays, Backed, Stamped
<1>1. CASE OdometryHandler
  <2>1. leg' \in 1 .. Len(Drive)
    <3>1. Len(Drive) \in Nat
      BY TerrainAssumption, LenProperties
    <3> QED BY <1>1, <3>1 DEF OdometryHandler
  <2> QED BY <1>1, <2>1 DEF OdometryHandler
<1>2. CASE LaserCloudHandler
  <2>0. Returns \subseteq Int \X Int /\ IsFiniteSet(Returns) /\ Stamps \subseteq Nat
    BY TerrainAssumption
  <2>1. time' \in Nat /\ time < time'
    BY <1>2, <2>0 DEF LaserCloudHandler
  <2>2. PICK ps \in SUBSET Returns :
          crop' = {[at |-> q, t |-> time'] : q \in {r \in ps : InReach(r)}}
    BY <1>2 DEF LaserCloudHandler
  <2>3. \A p \in crop' : p \in Stamped' /\ p.t = time'
    BY <2>0, <2>1, <2>2
  <2>4. IsFiniteSet(crop')
    <3> DEFINE near == {r \in ps : InReach(r)}
    <3> DEFINE f == [q \in near |-> [at |-> q, t |-> time']]
    <3>1. near \in SUBSET Returns
      OBVIOUS
    <3> HIDE DEF near
    <3>2. f \in Surjection(near, crop')
      <4>1. f \in [near -> crop'] /\ \A p \in crop' : \E q \in near : f[q] = p
        BY <2>2 DEF near
      <4> QED BY <4>1 DEF Surjection
    <3> HIDE DEF f
    <3> QED BY <2>0, <3>1, <3>2, FS_Subset, FS_Surjection
  <2>5. leg' = leg /\ shift' = shift /\ voxels' = voxels /\ served' = served /\ due' = due
    BY <1>2 DEF LaserCloudHandler
  <2>6. Stamped \subseteq Stamped'
    BY <2>1
  <2> HIDE DEF Stamped
  <2> QED BY <2>1, <2>3, <2>4, <2>5, <2>6
<1>3. CASE ClearingHandler
  BY <1>3 DEF ClearingHandler
<1>4. CASE Pass
  BY <1>4, PassKeeps
<1>5. CASE UNCHANGED terrainVars
  BY <1>5 DEF terrainVars
<1> QED
  BY <1>1, <1>2, <1>3, <1>4, <1>5 DEF AnalysisNext, TerrainNext, terrainVars, mapsVars

\* Before the first scan there is no point.
LEMMA VoxelBegin ==
  ASSUME AnalysisInit
  PROVE  VoxelInv
<1>1. 1 \in 1 .. Len(Drive)
  <2>1. Len(Drive) \in Nat /\ Len(Drive) # 0
    BY TerrainAssumption, LenProperties, EmptySeq
  <2> QED BY <2>1
<1> QED
  BY <1>1, FS_EmptySet DEF AnalysisInit, TerrainInit, VoxelInv, KeepsRecentNear

-------------------------------------------------------------------------------
(* The ground and where there is no data. *)

\* The loops come to every voxel, once.
LEMMA RasterCovers ==
  /\ Voxels \in Nat /\ \A i \in 1 .. Voxels : Raster[i] \in Planar
  /\ \A c \in Planar : \E i \in 1 .. Voxels : Raster[i] = c
  /\ \A i, j \in 1 .. Voxels : Raster[i] = Raster[j] => i = j
<1> DEFINE W == PlanarWidth
<1>1. W \in Nat /\ W >= 1
  BY PlanarAssumption
<1> HIDE DEF W
<1>2. W * W \in Nat
  BY <1>1
<1>3. ASSUME NEW i \in 1 .. W * W
      PROVE  (i - 1) \div W \in 0 .. W - 1 /\ (i - 1) % W \in 0 .. W - 1
  BY <1>1, <1>2
<1>4. ASSUME NEW x \in 0 .. W - 1, NEW y \in 0 .. W - 1
      PROVE  \E i \in 1 .. W * W : (i - 1) \div W = x /\ (i - 1) % W = y
  <2> DEFINE i == (x * W + y) + 1
  <2>1. x * W \in Nat /\ x * W + W <= W * W
    BY <1>1
  <2>2. i \in 1 .. W * W /\ i - 1 = x * W + y
    BY <1>1, <1>2, <2>1
  <2>3. (x * W + y) \div W = x /\ (x * W + y) % W = y
    BY <1>1
  <2> QED BY <2>2, <2>3
<1>5. ASSUME NEW i \in 1 .. W * W, NEW j \in 1 .. W * W,
             (i - 1) \div W = (j - 1) \div W, (i - 1) % W = (j - 1) % W
      PROVE  i = j
  <2>1. i - 1 \in Int /\ j - 1 \in Int
    BY <1>2
  <2>2. /\ i - 1 = ((i - 1) \div W) * W + ((i - 1) % W)
        /\ j - 1 = ((j - 1) \div W) * W + ((j - 1) % W)
    BY <1>1, <2>1, SMT
  <2>3. i - 1 = j - 1
    BY <1>5, <2>2, Zenon
  <2> QED BY <1>2, <2>3
<1> QED BY <1>2, <1>3, <1>4, <1>5 DEF Voxels, Raster, Planar, W

\* No voxel within j of c is known.
Far(cloud, c, j) == \A d \in Planar : Within(c, d, j) => ~Known(cloud, d)

\* A voxel that has been raised m times, where it could be, counts how far it is from what
\* is known, up to there.
IsLevel(x, cloud, c, m) ==
  x \in 0 .. m + 1 /\ \A j \in 0 .. m : x > j <=> Far(cloud, c, j)

\* The voxels around a voxel that is far from the known ones are almost as far.
LEMMA FarAround ==
  ASSUME NEW cloud, NEW c \in Planar, NEW j \in Nat, Far(cloud, c, j + 1),
         NEW d \in Planar, Within(c, d, 1)
  PROVE  Far(cloud, d, j)
<1> SUFFICES ASSUME NEW k \in Planar, Within(d, k, j) PROVE Within(c, k, j + 1)
  BY DEF Far
<1>1. PlanarWidth \in Nat
  BY PlanarAssumption
<1> QED BY <1>1 DEF Within, Planar

\* And a voxel that is not far has one of them nearer to what is known.
LEMMA NearAround ==
  ASSUME NEW cloud, NEW c \in Planar, NEW j \in Nat, ~Far(cloud, c, j + 1)
  PROVE  \E d \in Planar : Within(c, d, 1) /\ ~Far(cloud, d, j)
<1>1. PlanarWidth \in Nat
  BY PlanarAssumption
<1>2. PICK k \in Planar : Within(c, k, j + 1) /\ Known(cloud, k)
  BY DEF Far
<1> DEFINE toward(a, b) == IF a < b THEN a + 1 ELSE IF a > b THEN a - 1 ELSE a
<1> DEFINE d == <<toward(c[1], k[1]), toward(c[2], k[2])>>
<1>3. /\ c[1] \in 0 .. PlanarWidth - 1 /\ c[2] \in 0 .. PlanarWidth - 1
      /\ k[1] \in 0 .. PlanarWidth - 1 /\ k[2] \in 0 .. PlanarWidth - 1
  BY DEF Planar
<1>4. /\ c[1] - k[1] \in -(j + 1) .. j + 1 /\ c[2] - k[2] \in -(j + 1) .. j + 1
  BY <1>2 DEF Within
<1>5. ASSUME NEW a \in 0 .. PlanarWidth - 1, NEW b \in 0 .. PlanarWidth - 1,
             a - b \in -(j + 1) .. j + 1
      PROVE  /\ toward(a, b) \in 0 .. PlanarWidth - 1 /\ a - toward(a, b) \in -1 .. 1
             /\ toward(a, b) - b \in -j .. j
  BY <1>1, <1>5
<1>6. d[1] = toward(c[1], k[1]) /\ d[2] = toward(c[2], k[2])
  OBVIOUS
<1> HIDE DEF toward
<1>7. /\ d \in Planar /\ Within(c, d, 1) /\ Within(d, k, j)
  BY <1>3, <1>4, <1>5, <1>6 DEF Planar, Within
<1> HIDE DEF d
<1> QED BY <1>2, <1>7 DEF Far

\* What one visit makes of the voxels, when those that were visited before are raised.
LEMMA EdgeStepRaises ==
  ASSUME NEW cloud, NEW m \in Nat, NEW e \in [Planar -> Nat], NEW c \in Planar,
         \A d \in Planar : IsLevel(e[d], cloud, d, m) \/ IsLevel(e[d], cloud, d, m + 1),
         IsLevel(e[c], cloud, c, m)
  PROVE  /\ EdgeStep(e, c) \in [Planar -> Nat]
         /\ IsLevel(EdgeStep(e, c)[c], cloud, c, m + 1)
         /\ \A d \in Planar \ {c} : EdgeStep(e, c)[d] = e[d]
<1> DEFINE x == e[c]
<1> DEFINE raised == e[c] >= 1 /\ \A d \in Planar : Within(c, d, 1) => e[d] >= e[c]
<1>1. x \in 0 .. m + 1 /\ \A j \in 0 .. m : x > j <=> Far(cloud, c, j)
  BY DEF IsLevel
<1>2. \A d \in Planar : e[d] \in Nat /\ \A j \in 0 .. m : e[d] > j <=> Far(cloud, d, j)
  BY DEF IsLevel
<1>3. EdgeStep(e, c) = IF raised THEN [e EXCEPT ![c] = @ + 1] ELSE e
  BY DEF EdgeStep
<1>4. /\ EdgeStep(e, c) \in [Planar -> Nat]
      /\ \A d \in Planar \ {c} : EdgeStep(e, c)[d] = e[d]
      /\ raised => EdgeStep(e, c)[c] = x + 1
      /\ ~raised => EdgeStep(e, c)[c] = x
  <2> HIDE DEF raised
  <2> QED BY <1>3
<1>5. ASSUME x >= 1, ~Far(cloud, c, x) PROVE ~raised
  <2>1. x - 1 \in 0 .. m /\ x - 1 \in Nat /\ (x - 1) + 1 = x
    BY <1>1, <1>5
  <2>2. PICK d \in Planar : Within(c, d, 1) /\ ~Far(cloud, d, x - 1)
    BY <1>5, <2>1, NearAround
  <2>3. ~(e[d] > x - 1)
    BY <1>2, <2>1, <2>2
  <2>4. ~(e[d] >= x)
    BY <1>2, <2>1, <2>3
  <2> QED BY <2>2, <2>4
<1>6. ASSUME x = m + 1, Far(cloud, c, m + 1) PROVE raised
  <2>1. ASSUME NEW d \in Planar, Within(c, d, 1) PROVE e[d] >= e[c]
    <3>1. Far(cloud, d, m)
      BY <1>6, <2>1, FarAround
    <3>2. e[d] > m /\ e[d] \in Nat
      BY <1>2, <3>1
    <3> QED BY <1>6, <3>2
  <2> QED BY <1>6, <2>1
<1>7. CASE x = m + 1 /\ Far(cloud, c, m + 1)
  <2>1. EdgeStep(e, c)[c] = m + 2
    BY <1>4, <1>6, <1>7
  <2>2. \A j \in 0 .. m + 1 : Far(cloud, c, j)
    <3>1. \A j \in 0 .. m : Far(cloud, c, j)
      BY <1>1, <1>7
    <3> QED BY <1>7, <3>1
  <2> QED BY <1>4, <2>1, <2>2 DEF IsLevel
<1>8. CASE x = m + 1 /\ ~Far(cloud, c, m + 1)
  <2>1. EdgeStep(e, c)[c] = m + 1
    BY <1>4, <1>5, <1>8
  <2>2. \A j \in 0 .. m + 1 : m + 1 > j <=> Far(cloud, c, j)
    <3>1. \A j \in 0 .. m : Far(cloud, c, j)
      BY <1>1, <1>8
    <3>2. \A j \in 0 .. m + 1 : j \in 0 .. m \/ j = m + 1
      OBVIOUS
    <3> QED BY <1>8, <3>1, <3>2
  <2> QED BY <1>4, <2>1, <2>2 DEF IsLevel
<1>9. CASE x \in 0 .. m
  <2>1. ~Far(cloud, c, x)
    BY <1>1, <1>9
  <2>2. EdgeStep(e, c)[c] = x
    <3>1. x = 0 => ~raised
      OBVIOUS
    <3> QED BY <1>4, <1>5, <1>9, <2>1, <3>1
  <2>3. ~Far(cloud, c, m + 1)
    <3>1. ~Far(cloud, c, m)
      BY <1>1, <1>9
    <3>2. PlanarWidth \in Nat
      BY PlanarAssumption
    <3>3. \A d \in Planar : Within(c, d, m) => Within(c, d, m + 1)
      BY <3>2 DEF Planar, Within
    <3> QED BY <3>1, <3>3 DEF Far
  <2>4. \A j \in 0 .. m + 1 : j \in 0 .. m \/ j = m + 1
    OBVIOUS
  <2>5. \A j \in 0 .. m + 1 : x > j <=> Far(cloud, c, j)
    BY <1>1, <1>9, <2>3, <2>4
  <2>6. x \in 0 .. (m + 1) + 1
    BY <1>9
  <2> QED BY <1>4, <2>2, <2>5, <2>6 DEF IsLevel
<1> QED BY <1>1, <1>7, <1>8, <1>9

\* A sweep raises every voxel once.
LEMMA SweepRaises ==
  ASSUME edge \in [Planar -> Nat], sweeps \in Nat, Sweep,
         \A c \in Planar : IsLevel(edge[c], terrainCloud, c, sweeps)
  PROVE  /\ edge' \in [Planar -> Nat]
         /\ \A c \in Planar : IsLevel(edge'[c], terrainCloud, c, sweeps + 1)
<1> DEFINE S == [Planar -> Nat]
<1> DEFINE swept[i \in 0 .. Voxels] == IF i = 0 THEN edge ELSE EdgeStep(swept[i - 1], Raster[i])
<1> DEFINE step == [d \in (1 .. Voxels) \X S |-> EdgeStep(d[2], Raster[d[1]])]
<1>0. /\ Voxels \in Nat /\ \A i \in 1 .. Voxels : Raster[i] \in Planar
      /\ \A c \in Planar : \E i \in 1 .. Voxels : Raster[i] = c
      /\ \A i, j \in 1 .. Voxels : Raster[i] = Raster[j] => i = j
  BY RasterCovers
<1>1. edge' = swept[Voxels]
  BY DEF Sweep
<1>2. \A e \in S, c \in Planar : EdgeStep(e, c) \in S
  BY DEF EdgeStep
<1>3. step \in StepsOf(Voxels, S)
  <2>1. \A d \in (1 .. Voxels) \X S : EdgeStep(d[2], Raster[d[1]]) \in S
    BY <1>0, <1>2
  <2> HIDE DEF S
  <2> QED BY <2>1 DEF StepsOf
<1>4. \A i \in 1 .. Voxels, e \in S : step[<<i, e>>] = EdgeStep(e, Raster[i])
  <2> HIDE DEF S
  <2> QED OBVIOUS
<1> HIDE DEF step, S
<1>5. PICK f : Unrolls(f, edge, Voxels, S, step)
  BY <1>0, <1>3, Recursion DEF S
<1>6. f \in [0 .. Voxels -> S] /\ f[0] = edge /\ \A i \in 1 .. Voxels : f[i] = EdgeStep(f[i - 1], Raster[i])
  <2>1. f \in [0 .. Voxels -> S] /\ f[0] = edge /\ \A i \in 1 .. Voxels : f[i] = step[<<i, f[i - 1]>>]
    BY <1>5 DEF Unrolls
  <2>2. \A i \in 1 .. Voxels : i - 1 \in 0 .. Voxels
    BY <1>0
  <2> QED BY <1>4, <2>1, <2>2
<1>7. f = [i \in 0 .. Voxels |-> IF i = 0 THEN edge ELSE EdgeStep(f[i - 1], Raster[i])]
  <2>1. \A i \in 0 .. Voxels : f[i] = IF i = 0 THEN edge ELSE EdgeStep(f[i - 1], Raster[i])
    BY <1>0, <1>6
  <2> QED BY <1>6, <2>1
<1>8. swept = [i \in 0 .. Voxels |-> IF i = 0 THEN edge ELSE EdgeStep(swept[i - 1], Raster[i])]
  BY <1>7
<1> HIDE DEF swept
<1>9. \A i \in 0 .. Voxels : swept[i] = IF i = 0 THEN edge ELSE EdgeStep(swept[i - 1], Raster[i])
  BY <1>8
<1> DEFINE Done(i) == {Raster[k] : k \in 1 .. i}
<1> DEFINE T == {i \in 0 .. Voxels :
      /\ swept[i] \in S
      /\ \A c \in Planar : IF c \in Done(i) THEN IsLevel(swept[i][c], terrainCloud, c, sweeps + 1)
                           ELSE IsLevel(swept[i][c], terrainCloud, c, sweeps)}
<1>10. 0 \in T
  <2>1. swept[0] = edge
    BY <1>0, <1>9
  <2>2. Done(0) = {}
    OBVIOUS
  <2> HIDE DEF Done
  <2> QED BY <1>0, <2>1, <2>2 DEF S
<1>11. ASSUME NEW i \in 1 .. Voxels, i - 1 \in T PROVE i \in T
  <2> DEFINE e == swept[i - 1]
  <2> DEFINE r == Raster[i]
  <2>1. /\ e \in [Planar -> Nat] /\ r \in Planar
        /\ \A c \in Planar : IF c \in Done(i - 1) THEN IsLevel(e[c], terrainCloud, c, sweeps + 1)
                             ELSE IsLevel(e[c], terrainCloud, c, sweeps)
    BY <1>0, <1>11 DEF S
  <2>2. r \notin Done(i - 1)
    BY <1>0
  <2>3. \A c \in Planar : c \in Done(i) <=> c \in Done(i - 1) \/ c = r
    <3>1. \A k \in 1 .. i : k \in 1 .. i - 1 \/ k = i
      OBVIOUS
    <3>2. 1 .. i - 1 \subseteq 1 .. i /\ i \in 1 .. i
      OBVIOUS
    <3> QED BY <3>1, <3>2
  <2>4. swept[i] = EdgeStep(e, r)
    BY <1>0, <1>9
  <2> HIDE DEF e, r, Done
  <2>5. /\ EdgeStep(e, r) \in [Planar -> Nat]
        /\ IsLevel(EdgeStep(e, r)[r], terrainCloud, r, sweeps + 1)
        /\ \A d \in Planar \ {r} : EdgeStep(e, r)[d] = e[d]
    <3>1. /\ \A d \in Planar : \/ IsLevel(e[d], terrainCloud, d, sweeps)
                               \/ IsLevel(e[d], terrainCloud, d, sweeps + 1)
          /\ IsLevel(e[r], terrainCloud, r, sweeps)
      BY <2>1, <2>2
    <3> QED BY <2>1, <3>1, EdgeStepRaises
  <2>6. ASSUME NEW c \in Planar
        PROVE  IF c \in Done(i) THEN IsLevel(swept[i][c], terrainCloud, c, sweeps + 1)
               ELSE IsLevel(swept[i][c], terrainCloud, c, sweeps)
    <3>1. CASE c = r
      BY <2>3, <2>4, <2>5, <3>1
    <3>2. CASE c # r
      <4>1. swept[i][c] = e[c]
        BY <2>4, <2>5, <3>2
      <4> QED BY <2>1, <2>3, <3>2, <4>1
    <3> QED BY <3>1, <3>2
  <2> QED BY <2>4, <2>5, <2>6 DEF S
<1>12. Voxels \in T
  <2> HIDE DEF T
  <2>1. 0 .. Voxels \subseteq T
    BY <1>0, <1>10, <1>11, UpTo
  <2> QED BY <1>0, <2>1
<1>13. \A c \in Planar : c \in Done(Voxels)
  BY <1>0
<1> HIDE DEF Done
<1> QED BY <1>1, <1>12, <1>13 DEF S

\* What is kept of the ground between the steps of an analysis.
Published ==
  [obstacles |-> {p \in terrainCloud : Obstacle(terrainCloud, p)},
   blocks |-> {c \in Planar : edge[c] > NoDataBlockSkipNum}]
GroundInv ==
  /\ edge = <<>> => sweeps = 0
  /\ edge # <<>> =>
       /\ elev = <<>> /\ sweeps \in 0 .. NoDataBlockSkipNum /\ edge \in [Planar -> Nat]
       /\ \A c \in Planar : IsLevel(edge[c], terrainCloud, c, sweeps)
       /\ terrainMap # NoMapYet => sweeps = NoDataBlockSkipNum /\ terrainMap = Published
  /\ edge = <<>> /\ elev = <<>> => terrainMap = NoMapYet

\* There is a voxel; so that a grid is not the empty one.
LEMMA GridNotEmpty ==
  /\ Centre \in Planar
  /\ \A S : \A f \in [Planar -> S] : f # <<>>
<1>1. Centre \in Planar
  <2> DEFINE w == PlanarWidth \div 2
  <2>1. PlanarWidth \in Nat /\ PlanarWidth >= 1 /\ w \in 0 .. PlanarWidth - 1
    BY PlanarAssumption
  <2> HIDE DEF w
  <2>2. <<w, w>> \in Planar
    BY <2>1 DEF Planar
  <2> QED BY <2>2 DEF Centre, w
<1>2. DOMAIN <<>> = {}
  OBVIOUS
<1> QED BY <1>1, <1>2

\* Every step of an analysis keeps it.
LEMMA GroundStep ==
  ASSUME GroundInv, [AnalysisNext]_<<terrainVars, mapsVars>>
  PROVE  GroundInv'
<1>0. NoDataBlockSkipNum \in Nat
  BY PlanarAssumption
<1>1. CASE BeginGround
  <2>1. PICK cloud \in Clouds :
          /\ terrainCloud' = cloud
          /\ edge' = [c \in Planar |-> IF Known(cloud, c) THEN 0 ELSE 1]
    BY <1>1 DEF BeginGround
  <2>2. /\ edge = <<>> /\ elev = <<>> /\ sweeps = 0 /\ terrainMap = NoMapYet
        /\ elev' = elev /\ sweeps' = sweeps /\ terrainMap' = terrainMap
    BY <1>1 DEF BeginGround, NothingYet, GroundInv
  <2>3. edge' \in [Planar -> Nat]
    BY <2>1
  <2>4. ASSUME NEW c \in Planar PROVE IsLevel(edge'[c], cloud, c, 0)
    <3>1. edge'[c] = IF Known(cloud, c) THEN 0 ELSE 1
      BY <2>1
    <3>2. Far(cloud, c, 0) <=> ~Known(cloud, c)
      <4>1. PlanarWidth \in Nat
        BY PlanarAssumption
      <4>2. \A d \in Planar : Within(c, d, 0) <=> d = c
        <5>1. ASSUME NEW d \in Planar PROVE Within(c, d, 0) <=> c[1] = d[1] /\ c[2] = d[2]
          BY <4>1 DEF Planar, Within
        <5>2. \A d \in Planar : d = <<d[1], d[2]>>
          BY DEF Planar
        <5> QED BY <5>1, <5>2
      <4> QED BY <4>2 DEF Far
    <3> QED BY <3>1, <3>2 DEF IsLevel
  <2>5. edge' # <<>>
    BY <2>3, GridNotEmpty
  <2> QED BY <1>0, <2>1, <2>2, <2>3, <2>4, <2>5 DEF GroundInv
<1>2. CASE Sweep
  <2>1. /\ edge # <<>> /\ sweeps < NoDataBlockSkipNum /\ sweeps' = sweeps + 1
        /\ terrainCloud' = terrainCloud /\ terrainMap' = terrainMap /\ elev' = elev
    BY <1>2 DEF Sweep
  <2>2. /\ elev = <<>> /\ sweeps \in 0 .. NoDataBlockSkipNum /\ edge \in [Planar -> Nat]
        /\ \A c \in Planar : IsLevel(edge[c], terrainCloud, c, sweeps)
        /\ terrainMap = NoMapYet
    BY <1>0, <2>1 DEF GroundInv
  <2>3. /\ edge' \in [Planar -> Nat]
        /\ \A c \in Planar : IsLevel(edge'[c], terrainCloud, c, sweeps')
    BY <1>2, <2>1, <2>2, SweepRaises
  <2>4. edge' # <<>>
    BY <2>3, GridNotEmpty
  <2> QED BY <1>0, <2>1, <2>2, <2>3, <2>4 DEF GroundInv
<1>3. CASE EndGround
  <2>1. /\ edge # <<>> /\ sweeps = NoDataBlockSkipNum /\ terrainMap' = Published
        /\ terrainCloud' = terrainCloud /\ edge' = edge /\ sweeps' = sweeps /\ elev' = elev
    BY <1>3 DEF EndGround, Swept, Published
  <2>2. Published' = Published
    BY <2>1 DEF Published
  <2> QED BY <2>1, <2>2 DEF GroundInv
<1>4. CASE BeginExt
  <2>1. /\ edge = <<>> /\ elev = <<>> /\ terrainMap' = terrainMap /\ edge' = edge /\ sweeps' = sweeps
    BY <1>4 DEF BeginExt, NothingYet
  <2> QED BY <2>1 DEF GroundInv
<1>5. CASE EndExt
  <2>1. /\ elev # <<>> /\ edge' = edge /\ sweeps' = sweeps /\ elev' = elev
    BY <1>5 DEF EndExt, Searched
  <2> QED BY <2>1 DEF GroundInv
<1>6. CASE UNCHANGED <<terrainCloud, terrainMap, edge, sweeps, elev>>
  <2>1. Published' = Published
    BY <1>6 DEF Published
  <2> QED BY <1>6, <2>1 DEF GroundInv
<1>7. CASE Visit
  BY <1>6, <1>7 DEF Visit
<1> QED
  BY <1>1, <1>2, <1>3, <1>4, <1>5, <1>6, <1>7 DEF AnalysisNext, MapsNext, mapsVars

\* And it says what the published map says.
LEMMA GroundIsSound ==
  ASSUME GroundInv
  PROVE  NoDataIsUnknown /\ FreshIsKept
<1> SUFFICES ASSUME Swept, terrainMap # NoMapYet PROVE NoDataIsUnknown /\ FreshIsKept
  BY DEF NoDataIsUnknown, FreshIsKept
<1>0. NoDataBlockSkipNum \in Nat
  BY PlanarAssumption
<1>1. /\ terrainMap = Published /\ sweeps = NoDataBlockSkipNum
      /\ \A c \in Planar : IsLevel(edge[c], terrainCloud, c, sweeps)
  BY DEF GroundInv, Swept
<1>2. \A c \in Planar : edge[c] > NoDataBlockSkipNum <=> Far(terrainCloud, c, NoDataBlockSkipNum)
  BY <1>0, <1>1 DEF IsLevel
<1>3. /\ terrainMap.obstacles = {p \in terrainCloud : Obstacle(terrainCloud, p)}
      /\ terrainMap.blocks = {c \in Planar : edge[c] > NoDataBlockSkipNum}
  BY <1>1 DEF Published
<1>4. terrainMap.blocks =
        {c \in Planar : \A d \in Planar : Within(c, d, NoDataBlockSkipNum) => ~Known(terrainCloud, d)}
  BY <1>2, <1>3 DEF Far
<1>5. ASSUME NEW p \in terrainMap.obstacles PROVE p.cell \notin terrainMap.blocks
  <2>1. p.cell \in Planar /\ Known(terrainCloud, p.cell)
    BY <1>3 DEF Obstacle
  <2>2. PlanarWidth \in Nat
    BY PlanarAssumption
  <2>3. Within(p.cell, p.cell, NoDataBlockSkipNum)
    BY <1>0, <2>1, <2>2 DEF Planar, Within
  <2> QED BY <1>4, <2>1, <2>3
<1>6. FreshIsKept
  <2> SUFFICES ASSUME NEW p \in terrainCloud,
                      p.fresh, p.seen = "high", p.cell \in Planar, Known(terrainCloud, p.cell),
                      p.z > MinRelZ, p.z < MaxRelZ,
                      p.z - Ground(terrainCloud, p.cell) >= 0,
                      p.z - Ground(terrainCloud, p.cell) < VehicleHeight
               PROVE  Obstacle(terrainCloud, p)
    BY <1>3 DEF FreshIsKept
  <2>1. DyObs(terrainCloud, p.cell) = 0
    BY DEF DyObs
  <2>2. DyObs(terrainCloud, p.cell) < MinDyObsPointNum
    BY <2>1, PlanarAssumption
  <2> QED BY <2>2 DEF Obstacle
<1> QED BY <1>4, <1>5, <1>6 DEF NoDataIsUnknown

-------------------------------------------------------------------------------
(* Which ground is connected. *)

\* The loops come to every voxel of a set, and to no other.
LEMMA InRasterIs ==
  ASSUME NEW ds \in SUBSET Planar
  PROVE  InRaster(ds) \in Seq(Planar) /\ Range(InRaster(ds)) = ds
<1> DEFINE S == Seq(Planar)
<1> DEFINE next(i, x) == IF Raster[i] \in ds THEN Append(x, Raster[i]) ELSE x
<1> DEFINE met[i \in 0 .. Voxels] == IF i = 0 THEN <<>> ELSE next(i, met[i - 1])
<1> DEFINE step == [d \in (1 .. Voxels) \X S |-> next(d[1], d[2])]
<1>0. /\ Voxels \in Nat /\ \A i \in 1 .. Voxels : Raster[i] \in Planar
      /\ \A c \in Planar : \E i \in 1 .. Voxels : Raster[i] = c
  BY RasterCovers
<1>1. InRaster(ds) = met[Voxels]
  BY DEF InRaster
<1>2. \A i \in 1 .. Voxels, x \in S : next(i, x) \in S
  BY <1>0, AppendProperties
<1>3. ASSUME NEW i \in 1 .. Voxels, NEW x \in S
      PROVE  Range(next(i, x)) = Range(x) \cup ({Raster[i]} \cap ds)
  <2>1. Range(Append(x, Raster[i])) = Range(x) \cup {Raster[i]}
    BY <1>0, RangeOfAppend
  <2> QED BY <2>1
<1> HIDE DEF S, next
<1>4. step \in StepsOf(Voxels, S) /\ \A i \in 1 .. Voxels, x \in S : step[<<i, x>>] = next(i, x)
  BY <1>2 DEF StepsOf
<1> HIDE DEF step
<1>5. <<>> \in S
  BY DEF S
<1>6. PICK f : Unrolls(f, <<>>, Voxels, S, step)
  BY <1>0, <1>4, <1>5, Recursion
<1>7. f \in [0 .. Voxels -> S] /\ f[0] = <<>> /\ \A i \in 1 .. Voxels : f[i] = step[<<i, f[i - 1]>>]
  BY <1>6 DEF Unrolls
<1>8. ASSUME NEW i \in 1 .. Voxels PROVE f[i] = next(i, f[i - 1])
  <2>1. f[i - 1] \in S
    BY <1>0, <1>7
  <2> QED BY <1>4, <1>7, <2>1
<1>9. f = [i \in 0 .. Voxels |-> IF i = 0 THEN <<>> ELSE next(i, f[i - 1])]
  BY <1>7, <1>8
<1>10. met = [i \in 0 .. Voxels |-> IF i = 0 THEN <<>> ELSE next(i, met[i - 1])]
  BY <1>9
<1> HIDE DEF met
<1>11. \A i \in 0 .. Voxels : met[i] = IF i = 0 THEN <<>> ELSE next(i, met[i - 1])
  BY <1>10
<1> DEFINE Done(i) == {Raster[k] : k \in 1 .. i}
<1> DEFINE T == {i \in 0 .. Voxels : met[i] \in S /\ Range(met[i]) = Done(i) \cap ds}
<1>12. 0 \in T
  <2>1. met[0] = <<>>
    BY <1>0, <1>11
  <2>2. Range(<<>>) = {}
    BY <1>5, RangeIs DEF S
  <2>3. Done(0) = {}
    OBVIOUS
  <2> HIDE DEF Done
  <2> QED BY <1>0, <1>5, <2>1, <2>2, <2>3
<1>13. ASSUME NEW i \in 1 .. Voxels, i - 1 \in T PROVE i \in T
  <2>1. met[i - 1] \in S /\ Range(met[i - 1]) = Done(i - 1) \cap ds
    BY <1>13
  <2>2. met[i] = next(i, met[i - 1])
    BY <1>0, <1>11
  <2>3. Done(i) = Done(i - 1) \cup {Raster[i]}
    <3>1. \A k \in 1 .. i : k \in 1 .. i - 1 \/ k = i
      OBVIOUS
    <3>2. 1 .. i - 1 \subseteq 1 .. i /\ i \in 1 .. i
      OBVIOUS
    <3> QED BY <3>1, <3>2
  <2> HIDE DEF Done
  <2>4. met[i] \in S /\ Range(met[i]) = Range(met[i - 1]) \cup ({Raster[i]} \cap ds)
    BY <1>2, <1>3, <2>1, <2>2
  <2>5. Range(met[i]) = Done(i) \cap ds
    BY <2>1, <2>3, <2>4
  <2> QED BY <2>4, <2>5
<1>14. Voxels \in T
  <2> HIDE DEF T
  <2>1. 0 .. Voxels \subseteq T
    BY <1>0, <1>12, <1>13, UpTo
  <2> QED BY <1>0, <2>1
<1>15. Planar \subseteq Done(Voxels)
  BY <1>0
<1> HIDE DEF Done
<1>16. met[Voxels] \in S /\ Range(met[Voxels]) = ds
  BY <1>14, <1>15
<1> QED BY <1>1, <1>16 DEF S

\* How far apart two voxels are in height.
Gap(el, c, d) == IF el[c] > el[d] THEN el[c] - el[d] ELSE el[d] - el[c]

\* A small step leads to d from one of the first k voxels of at.
ReachedBy(cloud, el, at, d, k) ==
  /\ PointElev(cloud, d) # {}
  /\ \E j \in 1 .. k : Within(at[j], d, Reach) /\ Gap(el, at[j], d) < TerrainConnThre

\* A known voxel that was neither connected nor queued nor taken for a ceiling is no small
\* step from any that is connected; one that was taken for a ceiling has one that is far
\* below or above it.
SearchOk(cloud, el, s) ==
  /\ s \in [queue : Seq(Planar), connected : Seq(Planar), ceiling : SUBSET Planar]
  /\ IF s.connected = <<>> THEN s.queue = <<Centre>>
     ELSE /\ s.connected[1] = Centre
          /\ \A d \in Range(s.queue) : ReachedBy(cloud, el, s.connected, d, Len(s.connected))
  /\ \A k \in 2 .. Len(s.connected) : ReachedBy(cloud, el, s.connected, s.connected[k], k - 1)
  /\ \A d \in Planar \ (Range(s.connected) \cup Range(s.queue) \cup s.ceiling) :
       PointElev(cloud, d) # {} =>
         \A c \in Range(s.connected) : Within(c, d, Reach) => Gap(el, c, d) >= TerrainConnThre
  /\ \A d \in s.ceiling : \E c \in Range(s.connected) :
       Within(c, d, Reach) /\ Gap(el, c, d) > CeilingFilteringThre
SearchInv ==
  IF elev = <<>> THEN conn.queue = <<>>
  ELSE elev \in [Planar -> Int] /\ SearchOk(terrainCloud, elev, conn)

\* The heights with which the search begins are integers.
LEMMA ExtElevType ==
  ASSUME NEW cloud \in ExtClouds
  PROVE  ExtElev(cloud) \in [Planar -> Int]
<1>1. /\ IsFiniteSet(cloud) /\ \A p \in cloud : p.z \in Int
      /\ TerrainUnderVehicle \in Int
  BY PlanarAssumption
<1>2. ASSUME NEW c, PointElev(cloud, c) # {}
      PROVE  Lowest(PointElev(cloud, c)) \in Int
  <2> DEFINE ps == PointElev(cloud, c)
  <2> DEFINE f == [p \in ps |-> p.z]
  <2> DEFINE zs == {p.z : p \in ps}
  <2>1. ps \subseteq cloud /\ IsFiniteSet(ps)
    <3>1. ps \subseteq cloud
      BY DEF PointElev
    <3> QED BY <1>1, <3>1, FS_Subset
  <2>2. zs \subseteq Int /\ zs # {} /\ f \in Surjection(ps, zs)
    <3>1. \A p \in ps : p.z \in zs
      OBVIOUS
    <3>2. zs \subseteq Int /\ zs # {}
      BY <1>1, <1>2, <2>1
    <3>3. f \in [ps -> zs]
      BY <3>1
    <3>4. \A z \in zs : \E p \in ps : f[p] = z
      OBVIOUS
    <3> QED BY <3>2, <3>3, <3>4 DEF Surjection
  <2>3. IsFiniteSet(zs)
    <3> HIDE DEF f, zs, ps
    <3> QED BY <2>1, <2>2, FS_Surjection, Zenon DEF ExistsSurjection
  <2>4. Min(zs) \in Int
    <3> HIDE DEF zs
    <3> QED BY <2>2, <2>3, MinMaxBound
  <2> QED BY <2>4 DEF Lowest
<1>3. ASSUME NEW c \in Planar PROVE ExtElev(cloud)[c] \in Int
  <2>1. CASE PointElev(cloud, c) # {}
    <3>1. ExtElev(cloud)[c] = Lowest(PointElev(cloud, c))
      BY <2>1 DEF ExtElev
    <3> QED BY <1>2, <2>1, <3>1
  <2>2. CASE PointElev(cloud, c) = {} /\ c = Centre
    <3>1. ExtElev(cloud)[c] = TerrainUnderVehicle
      BY <2>2 DEF ExtElev
    <3> QED BY <1>1, <3>1
  <2>3. CASE PointElev(cloud, c) = {} /\ c # Centre
    <3>1. ExtElev(cloud)[c] = 0
      BY <2>3 DEF ExtElev
    <3> QED BY <3>1
  <2> QED BY <2>1, <2>2, <2>3
<1>4. ExtElev(cloud) = [c \in Planar |-> ExtElev(cloud)[c]]
  BY DEF ExtElev
<1> QED BY <1>3, <1>4, Zenon

\* A visit keeps it.
LEMMA VisitKeeps ==
  ASSUME elev \in [Planar -> Int], SearchOk(terrainCloud, elev, conn), Visit
  PROVE  SearchOk(terrainCloud, elev, conn')
<1> DEFINE new == conn'
<1> DEFINE at == conn.connected
<1> DEFINE q == conn.queue
<1> DEFINE front == Head(q)
<1> DEFINE near == {d \in Unmet(front) : Apart(front, d) < TerrainConnThre}
<1> DEFINE over == {d \in Unmet(front) : Apart(front, d) > CeilingFilteringThre}
<1> DEFINE n == Len(at)
<1> DEFINE Reached(s, d, k) == ReachedBy(terrainCloud, elev, s, d, k)
<1>1. /\ q # <<>> /\ at \in Seq(Planar) /\ q \in Seq(Planar) /\ conn.ceiling \subseteq Planar
  BY DEF Visit, SearchOk
<1>2. new = [queue |-> Tail(q) \o InRaster(near), connected |-> Append(at, front),
             ceiling |-> conn.ceiling \cup over]
  BY DEF Visit
<1>3. /\ front \in Planar /\ Tail(q) \in Seq(Planar) /\ Range(q) = {front} \cup Range(Tail(q))
      /\ (q = <<Centre>> => front = Centre /\ Tail(q) = <<>>)
  <2>1. front \in Planar /\ Tail(q) \in Seq(Planar) /\ q = <<front>> \o Tail(q)
    BY <1>1, HeadTailProperties
  <2>2. <<front>> \in Seq(Planar) /\ <<front>> = Append(<<>>, front) /\ <<>> \in Seq(Planar)
    BY <2>1
  <2>3. Range(<<front>>) = {front}
    <3>1. Range(<<>>) = {}
      BY <2>2, RangeIs
    <3>2. Range(Append(<<>>, front)) = Range(<<>>) \cup {front}
      <4> DEFINE e == <<>>
      <4>1. e \in Seq(Planar)
        BY <2>2
      <4> HIDE DEF e, front
      <4>2. Range(Append(e, front)) = Range(e) \cup {front}
        BY <2>1, <4>1, RangeOfAppend
      <4> QED BY <4>2 DEF e
    <3> HIDE DEF front
    <3> QED BY <2>2, <3>1, <3>2
  <2>4. Range(q) = Range(<<front>>) \cup Range(Tail(q))
    <3> DEFINE r == <<front>>
    <3> DEFINE t == Tail(q)
    <3>1. r \in Seq(Planar) /\ t \in Seq(Planar) /\ q = r \o t
      BY <2>1, <2>2
    <3> HIDE DEF r, t
    <3>2. Range(r \o t) = Range(r) \cup Range(t)
      BY <3>1, RangeOfConcat
    <3> QED BY <3>1, <3>2 DEF r, t
  <2>5. q = <<Centre>> => front = Centre /\ Tail(q) = <<>>
    OBVIOUS
  <2> QED BY <2>1, <2>3, <2>4, <2>5
<1>4. /\ near \subseteq Planar /\ over \subseteq Planar
      /\ \A d \in near \cup over : PointElev(terrainCloud, d) # {} /\ Within(front, d, Reach)
      /\ \A d \in near : Gap(elev, front, d) < TerrainConnThre
      /\ \A d \in over : Gap(elev, front, d) > CeilingFilteringThre
      /\ \A d \in Unmet(front) \ near : ~(Gap(elev, front, d) < TerrainConnThre)
  BY DEF Unmet, Apart, Gap
<1>5. \A d \in Planar : /\ Within(front, d, Reach) /\ PointElev(terrainCloud, d) # {}
                        /\ d \notin Range(at) /\ d \notin conn.ceiling /\ d \notin Range(q)
                        => d \in Unmet(front)
  BY DEF Unmet
<1>6. InRaster(near) \in Seq(Planar) /\ Range(InRaster(near)) = near
  <2> HIDE DEF near
  <2> QED BY <1>4, InRasterIs
<1> HIDE DEF new, at, q, front, near, over, n
<1>7. /\ new.connected = Append(at, front) /\ new.queue = Tail(q) \o InRaster(near)
      /\ new.ceiling = conn.ceiling \cup over
  BY <1>2
<1>8. /\ new.connected \in Seq(Planar) /\ Len(new.connected) = n + 1 /\ n \in Nat
      /\ new.connected # <<>>
      /\ \A j \in 1 .. n : new.connected[j] = at[j]
      /\ new.connected[n + 1] = front
  <2>1. /\ Append(at, front) \in Seq(Planar) /\ Len(Append(at, front)) = Len(at) + 1
        /\ Append(at, front) # <<>>
        /\ \A j \in 1 .. Len(at) : Append(at, front)[j] = at[j]
        /\ Append(at, front)[Len(at) + 1] = front
    BY <1>1, <1>3, AppendProperties
  <2>2. n = Len(at) /\ n \in Nat
    BY <1>1, LenProperties DEF n
  <2> QED BY <1>7, <2>1, <2>2
<1>9. Range(new.connected) = Range(at) \cup {front}
  BY <1>1, <1>3, <1>7, RangeOfAppend
<1>10. new.queue \in Seq(Planar) /\ Range(new.queue) = Range(Tail(q)) \cup near
  <2>1. Tail(q) \o InRaster(near) \in Seq(Planar)
    BY <1>3, <1>6, ConcatProperties
  <2>2. Range(Tail(q) \o InRaster(near)) = Range(Tail(q)) \cup Range(InRaster(near))
    <3> DEFINE r == InRaster(near)
    <3> DEFINE t == Tail(q)
    <3>1. t \in Seq(Planar) /\ r \in Seq(Planar)
      BY <1>3, <1>6
    <3> HIDE DEF t, r
    <3>2. Range(t \o r) = Range(t) \cup Range(r)
      BY <3>1, RangeOfConcat
    <3> QED BY <3>2 DEF t, r
  <2> QED BY <1>6, <1>7, <2>1, <2>2
<1>11. new \in [queue : Seq(Planar), connected : Seq(Planar), ceiling : SUBSET Planar]
  <2>1. new = [queue |-> new.queue, connected |-> new.connected, ceiling |-> new.ceiling]
    BY <1>2
  <2>2. new.ceiling \subseteq Planar
    BY <1>1, <1>4, <1>7
  <2> QED BY <1>8, <1>10, <2>1, <2>2
\* What was reached is still reached, by the same voxels.
<1>12. ASSUME NEW d, NEW k \in 0 .. n, Reached(at, d, k)
       PROVE  Reached(new.connected, d, k)
  <2>1. PICK j \in 1 .. k : Within(at[j], d, Reach) /\ Gap(elev, at[j], d) < TerrainConnThre
    BY <1>12 DEF ReachedBy
  <2>2. new.connected[j] = at[j]
    BY <1>8
  <2> QED BY <1>12, <2>1, <2>2 DEF ReachedBy
<1>13. ASSUME NEW d, Reached(at, d, n) \/ d \in near
       PROVE  Reached(new.connected, d, n + 1)
  <2>1. CASE Reached(at, d, n)
    <3>1. Reached(new.connected, d, n)
      BY <1>8, <1>12, <2>1
    <3>2. 1 .. n \subseteq 1 .. n + 1
      BY <1>8
    <3> QED BY <3>1, <3>2 DEF ReachedBy
  <2>2. CASE d \in near
    <3>1. /\ PointElev(terrainCloud, d) # {} /\ Within(front, d, Reach)
          /\ Gap(elev, front, d) < TerrainConnThre
      BY <1>4, <2>2
    <3>2. n + 1 \in 1 .. n + 1
      BY <1>8
    <3> QED BY <1>8, <3>1, <3>2 DEF ReachedBy
  <2> QED BY <1>13, <2>1, <2>2
<1>14. /\ new.connected[1] = Centre
       /\ \A d \in Range(new.queue) : Reached(new.connected, d, n + 1)
  <2>1. CASE at = <<>>
    <3>1. q = <<Centre>> /\ n = 0
      BY <2>1 DEF SearchOk, at, q, n
    <3>2. front = Centre /\ Range(Tail(q)) = {}
      BY <1>3, <3>1, RangeIs
    <3> QED BY <1>8, <1>10, <1>13, <3>1, <3>2
  <2>2. CASE at # <<>>
    <3>1. at[1] = Centre /\ \A d \in Range(q) : Reached(at, d, n)
      BY <2>2 DEF SearchOk, at, q, n
    <3>2. 1 \in 1 .. n
      <4>1. n # 0
        BY <1>1, <2>2, EmptySeq DEF n
      <4> QED BY <1>8, <4>1
    <3> QED BY <1>3, <1>8, <1>10, <1>13, <3>1, <3>2
  <2> QED BY <2>1, <2>2
<1>15. ASSUME NEW k \in 2 .. n + 1 PROVE Reached(new.connected, new.connected[k], k - 1)
  <2>1. CASE k \in 2 .. n
    <3>1. Reached(at, at[k], k - 1)
      BY <2>1 DEF SearchOk, at, n
    <3>2. k - 1 \in 0 .. n /\ k \in 1 .. n
      BY <1>8, <2>1
    <3>3. Reached(new.connected, at[k], k - 1)
      BY <1>12, <3>1, <3>2
    <3>4. new.connected[k] = at[k]
      BY <1>8, <3>2
    <3> QED BY <3>3, <3>4
  <2>2. CASE k = n + 1
    <3>1. at # <<>>
      BY <1>8, <2>2 DEF n
    <3>2. \A d \in Range(q) : Reached(at, d, n)
      BY <3>1 DEF SearchOk, at, q, n
    <3>3. Reached(at, front, n) /\ new.connected[k] = front /\ k - 1 = n
      BY <1>3, <1>8, <2>2, <3>2
    <3>4. n \in 0 .. n
      BY <1>8
    <3>5. Reached(new.connected, front, n)
      BY <1>12, <3>3, <3>4
    <3> QED BY <3>3, <3>5
  <2> QED BY <1>8, <2>1, <2>2
<1>16. ASSUME NEW d \in Planar, d \notin Range(new.connected), d \notin Range(new.queue),
              d \notin new.ceiling, PointElev(terrainCloud, d) # {},
              NEW c \in Range(new.connected), Within(c, d, Reach)
       PROVE  Gap(elev, c, d) >= TerrainConnThre
  <2>1. /\ d \notin Range(at) /\ d # front /\ d \notin Range(q) /\ d \notin conn.ceiling
        /\ d \notin near
    BY <1>3, <1>7, <1>9, <1>10, <1>16
  <2>2. CASE c \in Range(at)
    BY <1>16, <2>1, <2>2 DEF SearchOk, at, q
  <2>3. CASE c = front
    <3>1. ~(Gap(elev, front, d) < TerrainConnThre)
      BY <1>4, <1>5, <1>16, <2>1, <2>3
    <3>2. Gap(elev, front, d) \in Int /\ TerrainConnThre \in Int
      BY <1>3, PlanarAssumption DEF Gap
    <3> QED BY <2>3, <3>1, <3>2
  <2> QED BY <1>9, <1>16, <2>2, <2>3
<1>17. ASSUME NEW d \in new.ceiling
       PROVE  \E c \in Range(new.connected) :
                Within(c, d, Reach) /\ Gap(elev, c, d) > CeilingFilteringThre
  <2>1. CASE d \in conn.ceiling
    <3>1. PICK c \in Range(at) : Within(c, d, Reach) /\ Gap(elev, c, d) > CeilingFilteringThre
      BY <2>1 DEF SearchOk, at
    <3> QED BY <1>9, <3>1
  <2>2. CASE d \in over
    BY <1>4, <1>9, <2>2
  <2> QED BY <1>7, <1>17, <2>1, <2>2
<1>18. SearchOk(terrainCloud, elev, new)
  BY <1>8, <1>11, <1>14, <1>15, <1>16, <1>17 DEF SearchOk
<1> QED BY <1>18 DEF new

\* Every step of an analysis keeps it.
LEMMA SearchStep ==
  ASSUME SearchInv, [AnalysisNext]_<<terrainVars, mapsVars>>
  PROVE  SearchInv'
<1>1. CASE BeginExt
  <2>1. PICK cloud \in ExtClouds : terrainCloud' = cloud /\ elev' = ExtElev(cloud)
    BY <1>1 DEF BeginExt
  <2>2. elev' \in [Planar -> Int] /\ elev' # <<>>
    BY <2>1, ExtElevType, GridNotEmpty
  <2>3. conn' = [queue |-> <<Centre>>, connected |-> <<>>, ceiling |-> {}]
    BY <1>1 DEF BeginExt, NoSearch
  <2>4. Centre \in Planar /\ <<Centre>> \in Seq(Planar) /\ <<>> \in Seq(Planar)
    BY GridNotEmpty
  <2>5. Range(<<>>) = {} /\ Len(<<>>) = 0
    BY <2>4, RangeIs
  <2>6. SearchOk(cloud, elev', conn')
    BY <2>3, <2>4, <2>5 DEF SearchOk
  <2> QED BY <2>1, <2>2, <2>6 DEF SearchInv
<1>2. CASE Visit
  <2>1. elev # <<>> /\ elev' = elev /\ terrainCloud' = terrainCloud
    BY <1>2 DEF Visit, SearchInv
  <2>2. SearchOk(terrainCloud, elev, conn')
    BY <1>2, <2>1, VisitKeeps DEF SearchInv
  <2> QED BY <2>1, <2>2 DEF SearchInv
<1>3. CASE BeginGround
  BY <1>3 DEF BeginGround, NothingYet, SearchInv
<1>4. CASE UNCHANGED <<terrainCloud, elev, conn>>
  BY <1>4 DEF SearchInv
<1> QED
  BY <1>1, <1>2, <1>3, <1>4
     DEF AnalysisNext, MapsNext, mapsVars, Sweep, EndGround, EndExt

\* When nothing is left to visit, it is what the map says.
LEMMA SearchIsSound ==
  ASSUME SearchInv
  PROVE  GroundIsConnected
<1> SUFFICES ASSUME Searched PROVE GroundIsConnected
  BY DEF GroundIsConnected
<1> DEFINE at == conn.connected
<1>1. conn.queue = <<>> /\ SearchOk(terrainCloud, elev, conn)
  BY DEF Searched, SearchInv
<1>2. \A c, d : Apart(c, d) = Gap(elev, c, d)
  BY DEF Apart, Gap
<1>3. at # <<>> /\ at[1] = Centre /\ at \in Seq(Planar)
  BY <1>1 DEF SearchOk
<1>4. Range(conn.queue) = {}
  BY <1>1, RangeIs DEF SearchOk
<1>5. ASSUME NEW k \in 2 .. Len(at)
      PROVE  /\ PointElev(terrainCloud, at[k]) # {}
             /\ \E j \in 1 .. k - 1 :
                  Within(at[j], at[k], Reach) /\ Apart(at[j], at[k]) < TerrainConnThre
  <2>1. ReachedBy(terrainCloud, elev, at, at[k], k - 1)
    BY <1>1 DEF SearchOk
  <2> QED BY <1>2, <2>1 DEF ReachedBy
<1>6. ASSUME NEW d \in {c \in Planar : PointElev(terrainCloud, c) # {}} \ Range(at)
      PROVE  \/ \A c \in Range(at) : Within(c, d, Reach) => Apart(c, d) >= TerrainConnThre
             \/ \E c \in Range(at) : Within(c, d, Reach) /\ Apart(c, d) > CeilingFilteringThre
  <2>1. CASE d \in conn.ceiling
    BY <1>1, <1>2, <2>1 DEF SearchOk
  <2>2. CASE d \notin conn.ceiling
    BY <1>1, <1>2, <1>4, <2>2 DEF SearchOk
  <2> QED BY <2>1, <2>2
<1> QED BY <1>3, <1>5, <1>6 DEF GroundIsConnected

\* The terrain analysis, from its voxels to both of its maps: no place near the vehicle is lost
\* while the oldest of the stamps averaged for it is young, a block without data is one with
\* nothing known around it, what the latest scan sees is not dropped, and connected ground is
\* ground that small steps lead to.
THEOREM TerrainSound == AnalysisSpec => []TerrainIsSound
<1> DEFINE Inv == VoxelInv /\ GroundInv /\ SearchInv
<1>1. AnalysisInit => Inv
  <2> SUFFICES ASSUME AnalysisInit PROVE Inv
    OBVIOUS
  <2>1. VoxelInv
    BY VoxelBegin
  <2>2. /\ edge = <<>> /\ sweeps = 0 /\ elev = <<>> /\ terrainMap = NoMapYet
        /\ conn.queue = <<>>
    BY DEF AnalysisInit, MapsInit, NoSearch
  <2> QED BY <2>1, <2>2 DEF GroundInv, SearchInv
<1>2. Inv /\ [AnalysisNext]_<<terrainVars, mapsVars>> => Inv'
  BY VoxelStep, GroundStep, SearchStep
<1>3. Inv => TerrainIsSound
  BY GroundIsSound, SearchIsSound DEF TerrainIsSound, VoxelInv
<1> QED BY <1>1, <1>2, <1>3, PTL DEF AnalysisSpec
===============================================================================
