----------------------------- MODULE FrameStream -----------------------------
(***************************************************************************)
(* What the receiving half of the serial link promises: the frames it      *)
(* delivers depend on the bytes of the line only, never on how reads cut   *)
(* them up.  They are the leftmost stretches of FrameSize bytes, none      *)
(* overlapping another, that begin with SOF and end with EOF.              *)
(***************************************************************************)
EXTENDS Naturals, Sequences

CONSTANTS
  Byte, SOF, EOF,   \* kFrameStart, kFrameEnd
  FrameSize         \* sizeof(SerialFrame<RxData>)

VARIABLES
  received,    \* the bytes of the line
  delivered    \* the frames: where each begins in the line, and its payload

vars == <<received, delivered>>

Matches(bytes) ==
  {i \in 1..Len(bytes) : /\ i + FrameSize - 1 <= Len(bytes)
                         /\ bytes[i] = SOF /\ bytes[i + FrameSize - 1] = EOF}

FrameAt(bytes, i) == [at |-> i, payload |-> SubSeq(bytes, i + 1, i + FrameSize - 2)]

\* The first byte that belongs to no delivered frame.
Free == IF delivered = <<>> THEN 1 ELSE delivered[Len(delivered)].at + FrameSize

Init == received = <<>> /\ delivered = <<>>

Receive ==
  /\ Len(received') > Len(received)
  /\ SubSeq(received', 1, Len(received)) = received
  /\ UNCHANGED delivered

Deliver ==
  /\ \E i \in Matches(received) :
       /\ i >= Free
       /\ \A k \in Matches(received) : k >= Free => i <= k
       /\ delivered' = Append(delivered, FrameAt(received, i))
  /\ UNCHANGED received

Next == Receive \/ Deliver

SafetySpec == Init /\ [][Next]_vars

Spec == SafetySpec /\ WF_vars(Deliver)
===============================================================================
