------------------------------- MODULE ScanChain -------------------------------
(***************************************************************************)
(* The nodes between the odometry and what navigation reads: loam_interface *)
(* moves odometry and clouds into the odom frame, sensor_scan_generation   *)
(* pairs them and derives the velocity of the robot, and the converters    *)
(* between clouds and laser scans work only while someone listens.         *)
(*                                                                         *)
(* The odometry's source moves along a line at one speed, so that where it *)
(* was is known from the stamp of a message alone.                         *)
(***************************************************************************)
EXTENDS Integers, Sequences, FiniteSetsExt

CONSTANTS LastStamp,   \* bound: stamps count up to here
          MaxRewinds,  \* bound: how often a replay starts over
          QueueBound,  \* bound: messages waiting to be paired
          Speed,       \* the speed of the source
          Listeners,   \* how many may listen to a converter's output
          Converter    \* the converter that runs: to scans, or to clouds

ASSUME ChainAssumption ==
  /\ {LastStamp, MaxRewinds, QueueBound, Listeners} \subseteq Nat \ {0} /\ Speed \in Nat \ {0}
  /\ Converter \in {"to_scan", "to_cloud"}

VARIABLES stamp, rewinds,  \* what the source publishes
          ready,           \* base_frame_to_lidar_initialized_
          odoms, clouds,   \* the stamps that wait in the synchronizer
          previous,        \* previous_stamp_, previous_transform_, has_previous_odometry_
          reported,        \* the last odometry published
          listening,       \* subscribers of the converter's output
          subscriber,      \* does sub_ subscribe to the input
          loop,            \* where the listener thread is
          graphEvent,      \* has the event it waits for been set
          alive, leaving   \* alive_; is the destructor running
chainVars == <<stamp, rewinds, ready, odoms, clouds, previous, reported>>
lazyVars == <<listening, subscriber, loop, graphEvent, alive, leaving>>

Position(t) == Speed * t
NoOdometry == [known |-> FALSE, stamp |-> 0, at |-> 0, matched |-> TRUE]
NoReport == [twist |-> 0, moved |-> FALSE]

ChainInit ==
  /\ stamp = 0 /\ rewinds = 0 /\ ready = FALSE /\ odoms = <<>> /\ clouds = <<>>
  /\ previous = NoOdometry /\ reported = NoReport

----------------------------------------------------------------------------
(* loam_interface *)

\* One scan's odometry and cloud, each of which may be lost on the way; the cloud's
\* callback runs before or after the odometry's, which initializes the transform.
Forward(t) ==
  /\ Len(odoms) < QueueBound /\ Len(clouds) < QueueBound
  /\ \E transformKnown, lostOdometry, lostCloud, cloudFirst \in BOOLEAN :
       /\ ready' = (ready \/ (transformKnown /\ ~lostOdometry))
       /\ odoms' = IF ready' /\ ~lostOdometry THEN Append(odoms, t) ELSE odoms
       /\ clouds' = IF (IF cloudFirst THEN ready ELSE ready') /\ ~lostCloud
                    THEN Append(clouds, t) ELSE clouds
  /\ UNCHANGED <<previous, reported>>

Scans ==
  /\ stamp < LastStamp /\ stamp' = stamp + 1 /\ Forward(stamp') /\ UNCHANGED rewinds

\* A replay that starts over publishes old stamps again.
Restarts ==
  /\ rewinds < MaxRewinds /\ rewinds' = rewinds + 1 /\ stamp' = 1 /\ Forward(1)

----------------------------------------------------------------------------
(* sensor_scan_generation *)

\* The linear velocity of publishOdometry; nothing is known of the first one, nor when
\* the stamps went back.
Twist(t, at) ==
  IF previous.known /\ t > previous.stamp
  THEN (at - previous.at) \div (t - previous.stamp) ELSE 0

\* The synchronizer pairs a cloud with the odometry of its stamp where it has both, and
\* else with another one; what is older is dropped.
Paired(i, j) ==
  /\ i \in DOMAIN odoms /\ j \in DOMAIN clouds
  /\ (\E k \in DOMAIN odoms : odoms[k] = clouds[j]) => odoms[i] = clouds[j]
  /\ odoms' = SubSeq(odoms, i + 1, Len(odoms))
  /\ clouds' = SubSeq(clouds, j + 1, Len(clouds))

Publish(o, c) ==
  /\ reported' = [twist |-> Twist(c, Position(o)),
                  moved |-> previous.known /\ c > previous.stamp /\ o = c /\ previous.matched]
  /\ previous' = [known |-> TRUE, stamp |-> c, at |-> Position(o), matched |-> o = c]

\* Mutant of LaserCloudAndOdometryHandler: a pair that is skipped counts as the last one.
LaserCloudAndOdometryHandlerStamped ==
  /\ \E i \in DOMAIN odoms, j \in DOMAIN clouds :
       /\ Paired(i, j)
       /\ \/ Publish(odoms[i], clouds[j])
          \/ previous' = [previous EXCEPT !.stamp = clouds[j]] /\ UNCHANGED reported
  /\ UNCHANGED <<stamp, rewinds, ready>>

LaserCloudAndOdometryHandler ==
  /\ \E i \in DOMAIN odoms, j \in DOMAIN clouds :
       /\ Paired(i, j)
       /\ \/ Publish(odoms[i], clouds[j])
          \/ UNCHANGED <<previous, reported>>  \* the model's transforms are missing
  /\ UNCHANGED <<stamp, rewinds, ready>>

ChainNext == Scans \/ Restarts \/ LaserCloudAndOdometryHandler

ChainSpec == ChainInit /\ [][ChainNext]_chainVars
----------------------------------------------------------------------------
(* pointcloud_to_laserscan: the subscription follows the listeners. *)

LazyInit ==
  /\ listening = 0 /\ subscriber = FALSE /\ loop = "count" /\ graphEvent = FALSE
  /\ alive = TRUE /\ leaving = FALSE

\* Every change of the graph sets the event that was taken before it.
Listen ==
  /\ listening' \in (0 .. Listeners) \ {listening}
  /\ graphEvent' = (loop = "wait" \/ graphEvent)
  /\ UNCHANGED <<subscriber, loop, alive, leaving>>

\* One round of subscriptionListenerThreadLoop.
Count ==
  /\ loop = "count"
  /\ IF alive
     THEN subscriber' = (listening > 0) /\ loop' = "event"
     ELSE subscriber' = FALSE /\ loop' = "left"
  /\ UNCHANGED <<listening, graphEvent, alive, leaving>>

TakeEvent ==
  /\ loop = "event" /\ loop' = "wait" /\ graphEvent' = FALSE
  /\ UNCHANGED <<listening, subscriber, alive, leaving>>

\* Mutant of Wake: only the event ends the wait.
WakeOnEvent ==
  /\ loop = "wait" /\ graphEvent /\ loop' = "count"
  /\ UNCHANGED <<listening, subscriber, graphEvent, alive, leaving>>

\* The wait ends with the event, or after 100 ms.
Wake ==
  /\ loop = "wait" /\ loop' = "count"
  /\ UNCHANGED <<listening, subscriber, graphEvent, alive, leaving>>

\* The destructors; the one of the converter to clouds sets alive_.
Destroy ==
  /\ ~leaving /\ leaving' = TRUE /\ alive' = (Converter = "to_cloud")
  /\ UNCHANGED <<listening, subscriber, loop, graphEvent>>

LazyNext == Listen \/ Count \/ TakeEvent \/ Wake \/ Destroy

\* The thread runs, and its waits end.
LazyFairness == WF_lazyVars(Count \/ TakeEvent \/ Wake)
----------------------------------------------------------------------------
(* Properties *)

\* Whatever is lost, skipped for want of a transform or repeated by a replay: a robot
\* that moves at one speed is reported to, unless clouds had to be paired with the
\* odometry of another scan.
SpeedIsTrue == reported.moved => reported.twist = Speed

\* The converter comes to subscribe while somebody listens and to unsubscribe while
\* nobody does, also if the change falls between its look at the count and its wait.
FollowsListeners ==
  \A wanted \in BOOLEAN :
    ((listening > 0) = wanted) ~> (subscriber = wanted \/ (listening > 0) # wanted \/ leaving)

\* The destructor of the converter to scans, which waits for the thread, returns.
DestructorReturns == leaving ~> (loop = "left" /\ ~subscriber)

\* What the thread of a converter owes to its listeners and to its destructor: see each.
ConverterFollows == FollowsListeners /\ DestructorReturns
===============================================================================
