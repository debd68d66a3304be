----------------------------- MODULE SerialSender -----------------------------
(***************************************************************************)
(* The sending half of the serial node: every 20 ms a timer writes the     *)
(* last velocity, spin_or_not and posture to the board as one frame.  The  *)
(* port is opened once, in non-blocking mode, and the result of a write is *)
(* not looked at.                                                          *)
(***************************************************************************)
EXTENDS Naturals

CONSTANTS SpinValues, Postures   \* values on the topics spin_or_not and posture

VARIABLES
  fd,      \* is the port open
  last,    \* last_linear_x_, last_linear_y_, last_angular_z_: the rank of their command
  extra,   \* spin_or_not_ and posture_
  cut,     \* does the line end in a fragment of a frame
  board    \* the last frame the board has accepted

ssVars == <<fd, last, extra, cut, board>>

NoTwist == [n |-> 0, zero |-> TRUE]
Frame == [twist |-> last, extra |-> extra]

\* initSerial: any failure leaves serial_fd_ at -1, for good.
SSInit ==
  /\ fd \in BOOLEAN
  /\ last = NoTwist
  /\ extra = [spin |-> 0, posture |-> 3]
  /\ cut = FALSE
  /\ board = Frame

CmdVelCallback(twist) ==
  last' = [n |-> twist.n, zero |-> twist.zero] /\ UNCHANGED <<fd, extra, cut, board>>

SpinOrNotCallback(v) == extra' = [extra EXCEPT !.spin = v] /\ UNCHANGED <<fd, last, cut, board>>
PostureCallback(p) == extra' = [extra EXCEPT !.posture = p] /\ UNCHANGED <<fd, last, cut, board>>

\* timerCallback with a write that takes the whole frame.  A fragment before it may
\* cost the board this frame as well.
SendWhole ==
  /\ fd
  /\ board' \in {Frame} \cup (IF cut THEN {board} ELSE {})
  /\ cut' = FALSE
  /\ UNCHANGED <<fd, last, extra>>

\* The output buffer has room for a part of the frame: the rest is never sent.
SendPart == fd /\ cut' = TRUE /\ UNCHANGED <<fd, last, extra, board>>

\* No room at all, or no port.
SendNothing == UNCHANGED ssVars
===============================================================================
