------------------------------- MODULE LidarFrames -------------------------------
(***************************************************************************)
(* pub_handler.cpp: the packets of all lidars pass through one queue to    *)
(* the thread that gathers them into frames.  A lidar that is synchronized *)
(* ends its frame where its own time reaches a multiple of the interval;   *)
(* otherwise the host's clock ends the frames of all lidars together.      *)
(* Which of the two holds is one flag, set by whichever packet came last.  *)
(*                                                                         *)
(* A packet is [id, time]: its number, which stands for its points, and    *)
(* the time of its last point in milliseconds.                             *)
(***************************************************************************)
EXTENDS Naturals, Sequences

CONSTANTS
  Sensors,      \* handles
  PacketTimes,  \* the stamps of packets
  Interval,     \* publish_interval_ms_
  Tolerance,    \* publish_interval_tolerance_, a millisecond less
  MaxPackets    \* bound: packets that arrive

ASSUME PacketAssumption ==
  /\ PacketTimes \subseteq Nat \ {0} /\ Interval \in Nat \ {0}
  /\ Tolerance \in Nat /\ MaxPackets \in Nat

VARIABLES
  rawQueue,   \* raw_packet_queue_: <<sensor, packet>>
  arrived,    \* packets so far
  synced,     \* is_timestamp_sync_
  first,      \* CheckTimer has not run without synchronization yet
  points,     \* points_clouds_ of each sensor
  buffers,    \* points_: the frame handed out last, of each sensor
  stored,     \* history: the packets of the frames handed to StoragePointData, of each
              \* sensor
  processed   \* history: the packets processed, of each sensor

frameVars == <<rawQueue, arrived, synced, first, points, buffers, stored, processed>>

Nothing == [s \in Sensors |-> <<>>]
FramesInit ==
  /\ rawQueue = <<>> /\ arrived = 0
  /\ synced = FALSE /\ first = TRUE
  /\ points = Nothing /\ buffers = Nothing /\ stored = Nothing /\ processed = Nothing

\* OnLivoxLidarPointCloudCallback, on the SDK's thread.
PacketArrives(s, t, sync) ==
  /\ arrived < MaxPackets
  /\ arrived' = arrived + 1
  /\ synced' = sync
  /\ rawQueue' = Append(rawQueue, <<s, [id |-> arrived + 1, time |-> t]>>)
  /\ UNCHANGED <<first, points, buffers, stored, processed>>

\* An IMU sample goes its own way, but its time type sets the flag.
ImuArrives(sync) ==
  /\ synced' = sync
  /\ UNCHANGED <<rawQueue, arrived, first, points, buffers, stored, processed>>

-------------------------------------------------------------------------------
\* GetLidarPointClouds swaps the points gathered with the cleared buffer.
\* Mutant of Cleared: the buffer is not cleared first.
ClearedNot(s) == buffers[s]
Cleared(s) == <<>>

\* CheckTimer's publication of the sensors of S; to store an empty frame does nothing.
HandOut(S, gathered) ==
  /\ buffers' = [s \in Sensors |-> IF s \in S THEN gathered[s] ELSE buffers[s]]
  /\ points' = [s \in Sensors |-> IF s \in S THEN Cleared(s) ELSE gathered[s]]
  /\ stored' = [s \in Sensors |-> IF s \in S THEN stored[s] \o gathered[s] ELSE stored[s]]

Keep(gathered) == points' = gathered /\ UNCHANGED <<buffers, stored>>

\* The difference is unsigned: a stamp older than the frame's first is far ahead.
FrameDue(frame) ==
  LET recent == frame[Len(frame)].time
      base == frame[1].time
  IN /\ recent % Interval = 0
     /\ recent < base \/ recent - base >= Tolerance

\* PointCloudProcess: the points of a packet are converted, by the extrinsics the lidar
\* was first given, and join those gathered.
Gathered(s, packet) == [points EXCEPT ![s] = Append(@, packet)]

\* RawDataProcess takes a packet, and CheckTimer(id) runs after it; due says whether an
\* interval of the host's clock has passed.
Process(due) ==
  /\ rawQueue # <<>>
  /\ rawQueue' = Tail(rawQueue)
  /\ LET s == rawQueue[1][1]
         packet == rawQueue[1][2]
         gathered == Gathered(s, packet)
     IN /\ processed' = [processed EXCEPT ![s] = Append(@, packet)]
        /\ IF synced
           THEN /\ IF FrameDue(gathered[s]) THEN HandOut({s}, gathered) ELSE Keep(gathered)
                /\ UNCHANGED first
           ELSE /\ IF due /\ ~first THEN HandOut(Sensors, gathered) ELSE Keep(gathered)
                /\ first' = FALSE
  /\ UNCHANGED <<arrived, synced>>

FramesNext ==
  \/ \E s \in Sensors, t \in PacketTimes, sync \in BOOLEAN : PacketArrives(s, t, sync)
  \/ \E sync \in BOOLEAN : ImuArrives(sync)
  \/ \E due \in BOOLEAN : Process(due)

FramesSpec == FramesInit /\ [][FramesNext]_frameVars

-------------------------------------------------------------------------------
\* Whatever the flag does and however the stamps jump, the frames of a lidar and what is
\* gathered for the next one are its packets, each once and in order.
FramesCarryEachPacketOnce ==
  \A s \in Sensors : stored[s] \o points[s] = processed[s]
===============================================================================
