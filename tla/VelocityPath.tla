----------------------------- MODULE VelocityPath -----------------------------
(***************************************************************************)
(* The way of a velocity command to the chassis: the recovery behaviour    *)
(* and the AlignChassis leaf publish on cmd_vel_nav2_result, the velocity  *)
(* transform takes the topic's commands one by one and publishes cmd_vel,  *)
(* of which the serial node keeps the last one and repeats it to the       *)
(* board.  Nothing on this path has a watchdog, so the robot stops only    *)
(* if a zero command gets through.                                         *)
(***************************************************************************)
EXTENDS FakeVelTransform, BackUpFreeSpace, SerialSender

VARIABLES
  sent,      \* the message on cmd_vel the serial node has taken: its rank
  turning,   \* is an AlignChassis leaf running
  lost       \* did a leaf or behaviour end with its pose missing

sendVars == <<ssVars, sent>>
ownVars == <<turning, lost>>
pathVars == <<buVars, fvVars, sendVars, ownVars>>

PathInit ==
  /\ BUInit /\ FVInit /\ SSInit
  /\ cmds = <<>> /\ said = NoCommand
  /\ sent = vel
  /\ turning = FALSE /\ lost = FALSE

-------------------------------------------------------------------------------
\* The behaviour server.
BackUp ==
  \/ Run /\ UNCHANGED lost
  \/ Drive /\ UNCHANGED lost
  \/ StopRobot /\ lost' = FALSE
  \/ PoseLost /\ lost' = (lost \/ ~said.zero)

\* The AlignChassis leaf.  onStart publishes nothing.
AlignStart == ~turning /\ turning' = TRUE /\ UNCHANGED <<st, safe, dir, cmds, said, lost>>

\* onRunning: the heading error is large, or small.
Turn == turning /\ Publish(FALSE) /\ UNCHANGED <<st, safe, dir, turning, lost>>
\* Mutant of Aligned: success publishes nothing.
AlignedSilently == turning /\ turning' = FALSE /\ UNCHANGED <<st, safe, dir, cmds, said, lost>>

Aligned ==
  /\ turning /\ Publish(TRUE)
  /\ turning' = FALSE /\ lost' = FALSE
  /\ UNCHANGED <<st, safe, dir>>

\* onHalted stops the robot like success does.
AlignHalted == Aligned

\* The transform map -> chassis is missing: the leaf fails and publishes nothing.
TfLost ==
  /\ turning /\ turning' = FALSE
  /\ lost' = (lost \/ ~said.zero)
  /\ UNCHANGED <<st, safe, dir, cmds, said>>

\* fake_vel_transform takes the next command of the topic.
Take ==
  /\ cmds # <<>>
  /\ CmdVel(Head(cmds))
  /\ cmds' = Tail(cmds)
  /\ UNCHANGED <<st, safe, dir, said>>

\* The serial node takes the message on cmd_vel; a newer one has replaced the others.
TakeTwist == sent # vel /\ sent' = vel /\ CmdVelCallback(vel)

Inputs == \/ \E v \in SpinValues : SpinOrNotCallback(v)
          \/ \E p \in Postures : PostureCallback(p)

Command ==
  /\ \/ BackUp /\ UNCHANGED turning
     \/ AlignStart \/ Turn \/ Aligned \/ AlignHalted \/ TfLost
  /\ UNCHANGED <<fvVars, sendVars>>
TakeCommand == Take /\ UNCHANGED <<sendVars, ownVars>>
Sense == (Expire \/ Sensed) /\ UNCHANGED <<buVars, sendVars, ownVars>>

others == <<buVars, fvVars, ownVars>>
TakeMessage == TakeTwist /\ UNCHANGED others
TakeOther == Inputs /\ UNCHANGED <<sent, others>>
SendFrame == SendWhole /\ UNCHANGED <<sent, others>>
SendFailed == (SendPart \/ SendNothing) /\ UNCHANGED <<sent, others>>

PathNext ==
  \/ Command \/ TakeCommand \/ Sense
  \/ TakeMessage \/ TakeOther \/ SendFrame \/ SendFailed

\* Both nodes take the messages they are sent, the timer goes on, and again and again the
\* port has room for a whole frame after a whole frame.
PathSpec == PathInit /\ [][PathNext]_pathVars
PathFairness ==
  /\ WF_pathVars(TakeCommand) /\ WF_pathVars(TakeMessage)
  /\ WF_pathVars(SendFrame) /\ SF_pathVars(SendFrame /\ ~cut)
FairPathSpec == PathSpec /\ PathFairness

-------------------------------------------------------------------------------
\* Whenever the behaviour server and the leaf have both finished, the board is told to
\* stand still before long, unless one of them gave up for want of a transform while the
\* robot moved, or the port never opened.
Quiet == fd /\ st = "idle" /\ ~turning /\ ~lost
QuietMeansStill == Quiet ~> (board.twist.zero \/ ~Quiet)
===============================================================================
