------------------------------- MODULE LivoxQueue -------------------------------
(***************************************************************************)
(* The point clouds on their way through the driver: the thread of the     *)
(* PubHandler puts frames into a ring per lidar (lds.cpp, ldq.cpp) and     *)
(* wakes the poll thread (lddc.cpp), which takes them out.  The rings have *)
(* no lock, and the producer looks at the semaphore's count without one,   *)
(* so each access to a shared variable is a step.  The IMU samples go the  *)
(* same way, through a list with a lock.                                   *)
(*                                                                         *)
(* The indices are those of the code, uint32 counters that wrap.           *)
(***************************************************************************)
EXTENDS LivoxSetup, Sequences

CONSTANTS
  Size,       \* queue->size, a power of two
  Wrap,       \* 2^32
  MaxFrames   \* bound: frames that arrive

ASSUME RingAssumption == Size \in Nat \ {0} /\ Wrap % Size = 0 /\ Wrap > Size
ASSUME BoundAssumption == Wrap \in Nat /\ MaxFrames \in Nat

VARIABLES
  rdIdx, wrIdx, slot,    \* the ring of each lidar
  count,                 \* pcd_semaphore_
  producer, target, frame,   \* where PushLidarData is, its lidar, the frame's number
  poll, lidar, pkg,          \* where the poll thread is, its lidar, its copy
  out,                       \* the frame popped last, of each lidar
  exit                       \* ~DriverNode: "no", or the step it has taken

ringVars == <<rdIdx, wrIdx, slot>>
pushVars == <<producer, target, frame>>
pollVars == <<poll, lidar, pkg>>
queueVars == <<ringVars, count, pushVars, pollVars, out, exit>>

First == CHOOSE l \in Lidars : \A k \in Lidars : l <= k
Beyond(l) == l \notin Lidars

RingsEmpty ==
  /\ rdIdx = [l \in Lidars |-> 0] /\ wrIdx = [l \in Lidars |-> 0]
  /\ slot = [l \in Lidars |-> [i \in 0 .. Size - 1 |-> 0]]
  /\ count = 0
  /\ producer = "idle" /\ target = First /\ frame = 0
  /\ lidar = First /\ pkg = 0
  /\ out = [l \in Lidars |-> 0]

QueueInit == RingsEmpty /\ poll = "exit?" /\ exit = "no"

\* QueueUsedSize, in uint32.
Used(l) == (Wrap + wrIdx[l] - rdIdx[l]) % Wrap
IsEmpty(l) == rdIdx[l] = wrIdx[l]
\* Mutant of IsFull: one frame too many.
IsFullLate(l) == Used(l) > Size
IsFull(l) == Used(l) > Size - 1

-------------------------------------------------------------------------------
\* PushLidarData.
Push(from, to) == producer = from /\ producer' = to

Arrive(l) ==
  /\ Push("idle", "full?")
  /\ frame < MaxFrames
  /\ frame' = frame + 1 /\ target' = l
  /\ UNCHANGED <<ringVars, count>>

\* A frame that finds the ring full is dropped, but the poll thread is woken.
LookAtRing ==
  /\ Push("full?", IF IsFull(target) THEN "count?" ELSE "store")
  /\ UNCHANGED <<ringVars, count, target, frame>>

Store ==
  /\ Push("store", "advance")
  /\ slot' = [slot EXCEPT ![target][wrIdx[target] % Size] = frame]
  /\ UNCHANGED <<rdIdx, wrIdx, count, target, frame>>

Advance ==
  /\ Push("advance", "count?")
  /\ wrIdx' = [wrIdx EXCEPT ![target] = (@ + 1) % Wrap]
  /\ UNCHANGED <<rdIdx, slot, count, target, frame>>

\* Mutant of LookAtCount: signals only when a frame was waiting already.
LookAtCountLate ==
  /\ Push("count?", IF Used(target) > 1 /\ count <= 0 THEN "signal" ELSE "idle")
  /\ UNCHANGED <<ringVars, count, target, frame>>

\* GetCount() takes no lock.  A ring the poll thread has emptied needs no signal.
LookAtCount ==
  /\ Push("count?", IF ~IsEmpty(target) /\ count <= 0 THEN "signal" ELSE "idle")
  /\ UNCHANGED <<ringVars, count, target, frame>>

Signal ==
  /\ Push("signal", "idle")
  /\ count' = count + 1
  /\ UNCHANGED <<ringVars, target, frame>>

Produce == LookAtRing \/ Store \/ Advance \/ LookAtCount \/ Signal

-------------------------------------------------------------------------------
\* PointCloudDataPollThread.
At(from, to) == poll = from /\ poll' = to

\* DistributePointCloudData.
AskExit ==
  /\ At("exit?", IF exit = "no" THEN "wait" ELSE "end?")
  /\ UNCHANGED <<rdIdx, count, lidar, pkg, out>>

Wait ==
  /\ At("wait", "lidar")
  /\ count > 0 /\ count' = count - 1
  /\ lidar' = First
  /\ UNCHANGED <<rdIdx, pkg, out>>

\* PollingLidarPointCloudData, for each lidar that is sampling.
NextLidar ==
  /\ poll = "lidar"
  /\ IF Beyond(lidar) THEN poll' = "end?" /\ UNCHANGED lidar
     ELSE IF connected[lidar] /\ exit = "no" /\ ~IsEmpty(lidar)
     THEN poll' = "pop" /\ UNCHANGED lidar
     ELSE poll' = "lidar" /\ lidar' = lidar + 1
  /\ UNCHANGED <<rdIdx, count, pkg, out>>

\* QueuePrePop and QueuePopUpdate, and the publication of what was popped.
PrePop ==
  /\ At("pop", IF IsEmpty(lidar) THEN "lidar" ELSE "update")
  /\ pkg' = IF IsEmpty(lidar) THEN pkg ELSE slot[lidar][rdIdx[lidar] % Size]
  /\ UNCHANGED <<rdIdx, count, lidar, out>>

PublishCustomPointData(l, n) == out' = [out EXCEPT ![l] = n]

PopUpdate ==
  /\ At("update", "pop")
  /\ rdIdx' = [rdIdx EXCEPT ![lidar] = (@ + 1) % Wrap]
  /\ PublishCustomPointData(lidar, pkg)
  /\ UNCHANGED <<count, lidar, pkg>>

\* The exit signal is looked at after each round.
AskEnd ==
  /\ At("end?", IF exit = "set" THEN "done" ELSE "exit?")
  /\ UNCHANGED <<rdIdx, count, lidar, pkg, out>>

Poll == AskExit \/ Wait \/ NextLidar \/ PrePop \/ PopUpdate \/ AskEnd

-------------------------------------------------------------------------------
\* ~DriverNode: RequestExit sets the flag, then signals; then the exit signal is set.
RequestExit ==
  \/ exit = "no" /\ exit' = "flag" /\ UNCHANGED count
  \/ exit = "flag" /\ exit' = "signalled" /\ count' = count + 1
  \/ exit = "signalled" /\ exit' = "set" /\ UNCHANGED count

Pushing == (Produce \/ \E l \in Lidars : Arrive(l)) /\ UNCHANGED <<pollVars, out, exit>>
Polling == Poll /\ UNCHANGED <<wrIdx, slot, pushVars, exit>>
Exiting == RequestExit /\ UNCHANGED <<ringVars, pushVars, pollVars, out>>

QueueNext ==
  \/ (Pushing \/ Polling \/ Exiting) /\ UNCHANGED setupVars
  \/ SetupNext /\ UNCHANGED queueVars

\* Whatever the configuration does meanwhile.
QueueSpec == QueueInit /\ [][QueueNext]_<<setupVars, queueVars>>

\* Neither thread stops in the middle of its work, and neither does the destructor.
QueueFairness ==
  /\ WF_queueVars(Produce /\ UNCHANGED <<pollVars, out, exit>>)
  /\ WF_queueVars(Polling)
  /\ WF_queueVars(exit # "no" /\ Exiting)

-------------------------------------------------------------------------------
\* The frames of a ring, oldest first.
Waiting(l) == [i \in 1 .. Used(l) |-> slot[l][(rdIdx[l] + i - 1) % Size]]

\* With no lock on the ring, a frame is never overwritten while it waits or is copied:
\* each is taken once, whole and in order.
Rings == INSTANCE FrameQueue WITH
           Sources <- Lidars, Capacity <- Size, Frames <- 1 .. MaxFrames,
           waiting <- [l \in Lidars |-> Waiting(l)], taken <- out
ImplementsFrameQueue == Rings!Spec

\* No wake-up is lost: once a frame of a lidar that is sampling has been stored, its
\* ring is emptied, although the count is read without the lock and several frames
\* share a signal; or the node is leaving, and then the thread ends.
FramesGoOut ==
  \A l \in Lidars :
    producer = "count?" /\ target = l /\ connected[l] ~> IsEmpty(l) \/ poll = "done"
===============================================================================
