--------------------------- MODULE MapOdomTfManager ---------------------------
(***************************************************************************)
(* map_odom_tf_manager.cpp: the only publisher of the map -> odom          *)
(* transform.  It holds the last accepted localization result and          *)
(* publishes it with the current ROS time, which a replay may pause or     *)
(* rewind at any moment.                                                   *)
(*                                                                         *)
(* The callbacks run on one executor, but the clock is set by another      *)
(* thread (or by the system): a callback is cut at every clock read, and   *)
(* each action reads it once.  A transform is identified with the stamp of *)
(* the result it was computed from, and 0 is the configured initial pose.  *)
(***************************************************************************)
EXTENDS Integers

CONSTANTS
  Modes,       \* the values of source_mode to explore
  Times,       \* the values of the ROS clock
  Stamps,      \* the header stamps of localization results
  Timeout,     \* source_timeout
  FutureTol    \* future_tolerance

ASSUME ModeAssumption == Modes \subseteq {"gicp", "slam", "static"}
ASSUME TimeAssumption == Times \subseteq Nat /\ 0 \in Times /\ Stamps \subseteq Int
ASSUME ToleranceAssumption == Timeout \in Nat \ {0} /\ FutureTol \in Nat

None == 0   \* no pending pose: a stamp that is not positive is never pending

VARIABLES
  mode,         \* mode_, fixed when the node starts
  clock,        \* the ROS time
  pc,           \* "idle", or where the running callback goes on
  return,       \* where trySlam returns to
  time, msg,    \* locals: tick's time, trySlam's pose
  lastNow, lastSource, hasSource, hasResult,   \* last_now_ns_, last_source_ns_, ...
  current,      \* current_
  pending,      \* pending_pose_
  buffer,       \* the stamps at which buffer_ can look odom -> base up
  lastPublish, lastStatus,
  state         \* the message of the last status

control == <<pc, return, time, msg>>
source == <<lastSource, hasSource, hasResult, current>>
outputs == <<lastPublish, lastStatus, state>>
vars == <<mode, clock, pc, return, time, msg, lastNow, lastSource, hasSource, hasResult,
          current, pending, buffer, lastPublish, lastStatus, state>>

Init ==
  /\ mode \in Modes
  /\ clock \in Times /\ lastNow = clock
  /\ pc = "idle" /\ return = "idle" /\ time = 0 /\ msg = None
  /\ lastSource = 0 /\ hasSource = FALSE /\ hasResult = FALSE /\ current = 0
  /\ pending = None /\ buffer = {}
  /\ lastPublish = -1 /\ lastStatus = -1 /\ state = "none"

-------------------------------------------------------------------------------
\* nowNs(): a clock that went backwards since the last read forgets how fresh the
\* source is, the pending pose and the TF buffer, and keeps the held value.
Rewound == clock < lastNow
\* Mutants of SourceKnown, PoseKept and Hold: a rewind leaves the freshness, or the
\* pending pose, alone, or resets the value with them.
SourceKnownStill == hasSource
PoseKeptStill == pending
SourceKnown == hasSource /\ ~Rewound
PoseKept == IF Rewound THEN None ELSE pending
ReadBuffer == IF Rewound THEN {} ELSE buffer
ReadClock == lastNow' = clock /\ buffer' = ReadBuffer

\* validStamp(stamp), with the clock read it starts with.
Valid(stamp) ==
  /\ stamp > 0
  /\ clock - stamp >= -FutureTol /\ clock - stamp <= Timeout
  /\ SourceKnown => stamp > lastSource

HoldNothing ==
  /\ hasSource' = SourceKnown
  /\ current' = IF Rewound THEN 0 ELSE current
  /\ UNCHANGED <<lastSource, hasResult>>

Hold == hasSource' = SourceKnown /\ UNCHANGED <<lastSource, hasResult, current>>

\* accept(value, stamp)
Accept(stamp) ==
  IF Valid(stamp)
  THEN /\ lastSource' = stamp /\ current' = stamp
       /\ hasSource' = TRUE /\ hasResult' = TRUE
  ELSE Hold

\* A result from GICP; one with a wrong frame or a malformed transform is ignored.
OnGicp(stamp) ==
  /\ pc = "idle" /\ mode = "gicp"
  /\ ReadClock
  /\ Accept(stamp)
  /\ pending' = PoseKept
  /\ UNCHANGED <<mode, clock, control, outputs>>

\* A pose from SLAM: the newest valid one is pending until odom -> base is known
\* at its stamp.
OnSlam(stamp) ==
  /\ pc = "idle" /\ mode = "slam"
  /\ ReadClock /\ Hold
  /\ IF Valid(stamp) /\ (PoseKept = None \/ stamp > PoseKept)
     THEN pending' = stamp /\ pc' = "try" /\ return' = "idle"
     ELSE pending' = PoseKept /\ UNCHANGED <<pc, return>>
  /\ UNCHANGED <<mode, clock, time, msg, outputs>>

\* trySlam() up to its lookup.
NothingPending ==
  /\ pc = "try" /\ pending = None
  /\ pc' = return
  /\ UNCHANGED <<mode, clock, return, time, msg, lastNow, source, pending, buffer, outputs>>

TrySlam ==
  /\ pc = "try" /\ pending # None
  /\ ReadClock /\ Hold
  /\ \/ /\ Valid(pending) /\ pending \in ReadBuffer       \* found
        /\ msg' = pending /\ pc' = "accept" /\ pending' = PoseKept
     \/ /\ Valid(pending) /\ pending \notin ReadBuffer    \* retried by the next tick
        /\ pc' = return /\ pending' = PoseKept /\ UNCHANGED msg
     \/ /\ ~Valid(pending) \/ pending \in ReadBuffer      \* stale, or malformed
        /\ pc' = return /\ pending' = None /\ UNCHANGED msg
  /\ UNCHANGED <<mode, clock, return, time, outputs>>

\* accept() of the pose composed with odom -> base.
AcceptSlam ==
  /\ pc = "accept"
  /\ ReadClock
  /\ Accept(msg)
  /\ pending' = None
  /\ pc' = return
  /\ UNCHANGED <<mode, clock, return, time, msg, outputs>>

\* Mutant of Tick: a time already published is any earlier one.
TickMonotonic ==
  /\ pc = "idle"
  /\ ReadClock /\ Hold
  /\ pending' = PoseKept
  /\ IF clock = 0 \/ clock <= lastPublish
     THEN UNCHANGED <<pc, return, time>>
     ELSE pc' = "try" /\ return' = "publish" /\ time' = clock
  /\ UNCHANGED <<mode, clock, msg, outputs>>

\* tick(): publishes nothing before the clock has started or while it is paused.
Tick ==
  /\ pc = "idle"
  /\ ReadClock /\ Hold
  /\ pending' = PoseKept
  /\ IF clock = 0 \/ clock = lastPublish
     THEN UNCHANGED <<pc, return, time>>
     ELSE pc' = "try" /\ return' = "publish" /\ time' = clock
  /\ UNCHANGED <<mode, clock, msg, outputs>>

Publish ==
  /\ pc = "publish"
  /\ lastPublish' = time
  /\ pc' = "idle"
  /\ UNCHANGED <<mode, clock, return, time, msg, lastNow, source, pending, buffer,
                 lastStatus, state>>

Status ==
  CASE mode = "static" -> "FIXED"
    [] mode # "static" /\ ~hasResult -> "UNINITIALIZED"
    [] mode # "static" /\ hasResult /\ (~SourceKnown \/ clock - lastSource > Timeout)
         -> "HOLDING_LAST"
    [] OTHER -> "TRACKING"

PublishStatus ==
  /\ pc = "idle"
  /\ ReadClock /\ Hold
  /\ pending' = PoseKept
  /\ IF clock = 0 \/ clock = lastStatus
     THEN UNCHANGED <<lastStatus, state>>
     ELSE lastStatus' = clock /\ state' = Status
  /\ UNCHANGED <<mode, clock, control, lastPublish>>

-------------------------------------------------------------------------------
\* The environment: the clock advances, or is rewound, at any moment; transforms
\* reach the buffer between callbacks.
SetClock(t) ==
  /\ t # clock
  /\ clock' = t
  /\ UNCHANGED <<mode, control, lastNow, source, pending, buffer, outputs>>

TfArrives(stamp) ==
  /\ pc = "idle" /\ stamp > 0
  /\ buffer' = buffer \cup {stamp}
  /\ UNCHANGED <<mode, clock, control, lastNow, source, pending, outputs>>

Callback ==
  \/ \E s \in Stamps : OnGicp(s) \/ OnSlam(s)
  \/ NothingPending \/ TrySlam \/ AcceptSlam \/ Tick \/ Publish \/ PublishStatus

Next ==
  \/ Callback
  \/ \E t \in Times : SetClock(t)
  \/ \E s \in Stamps : TfArrives(s)

Spec == Init /\ [][Next]_vars

\* The wall timers keep firing and a callback that has begun ends.
Fairness ==
  /\ WF_vars(NothingPending) /\ WF_vars(TrySlam) /\ WF_vars(AcceptSlam) /\ WF_vars(Publish)
  /\ SF_vars(Tick)

FairSpec == Spec /\ Fairness

-------------------------------------------------------------------------------
TypeOK ==
  /\ mode \in Modes
  /\ clock \in Times /\ lastNow \in Times
  /\ pc \in {"idle", "try", "accept", "publish"}
  /\ return \in {"idle", "publish"}
  /\ time \in Times /\ msg \in Stamps \cup {None}
  /\ lastSource \in Stamps \cup {0} /\ current \in Stamps \cup {0}
  /\ hasSource \in BOOLEAN /\ hasResult \in BOOLEAN
  /\ pending \in Stamps \cup {None}
  /\ buffer \subseteq Stamps
  /\ lastPublish \in Times \cup {-1} /\ lastStatus \in Times \cup {-1}
  /\ state \in {"none", "FIXED", "UNINITIALIZED", "HOLDING_LAST", "TRACKING"}

\* However the clock jumps between the reads, a source stamp the manager relies on
\* is never further ahead of the time it last read than the future tolerance.
SourceNotAhead == hasSource => lastSource <= lastNow + FutureTol

\* A pose waits for its transform only while it is newer than the result in use and
\* not ahead of the time last read: a retry never brings an older pose back.
PendingNewer ==
  pending # None => /\ pending <= lastNow + FutureTol
                    /\ hasSource => pending > lastSource

\* The two together: results in use, pending poses and the time read stay in order.
TimesInOrder == SourceNotAhead /\ PendingNewer

\* The held value is replaced only by an accepted result, and by an older one only after
\* a read of the clock has found it rewound since that value was accepted: a rewind
\* by itself "never resets the held numeric value".
NoRegression ==
  [][current' # current =>
       /\ hasSource' /\ lastSource' = current'
       /\ current' > current \/ ~hasSource \/ clock < lastNow]_vars

\* TRACKING is reported only of a result inside the window around the reported time:
\* after a replay seek a result of the previous pass never counts as fresh.
TrackingIsFresh ==
  [][lastStatus' # lastStatus /\ state' = "TRACKING" =>
       /\ hasResult
       /\ clock - lastSource <= Timeout
       /\ lastSource <= clock + FutureTol]_vars

\* "a system/ROS clock rewind must not stall the sole TF publisher": once the clock
\* stays at a time other than 0, whatever its course before, the transform is
\* published with that time.
PublisherNotStalled ==
  \A t \in Times \ {0} : <>[](clock = t) => <>[](lastPublish = t)
===============================================================================
