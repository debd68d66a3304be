------------------------------ MODULE SerialLink ------------------------------
(***************************************************************************)
(* The receive thread of the serial node (serial_node.cpp): it reads the   *)
(* line in chunks of any size, looks for frames in a buffer and publishes  *)
(* the payload of each.  The bytes are arbitrary: the frames carry no      *)
(* checksum, and a payload may hold the bytes that delimit frames.         *)
(***************************************************************************)
EXTENDS Naturals, Sequences

CONSTANTS
  Byte, SOF, EOF,   \* kFrameStart, kFrameEnd
  FrameSize,        \* sizeof(SerialFrame<RxData>)
  Chunks,           \* what one read may return
  MaxBytes          \* bound: the length of the line

ASSUME ByteAssumption == SOF \in Byte /\ EOF \in Byte /\ SOF # EOF
ASSUME FrameAssumption == FrameSize \in Nat /\ FrameSize >= 2
ASSUME ChunkAssumption == Chunks \subseteq Seq(Byte) \ {<<>>}

VARIABLES
  pc,          \* "read", or "scan" inside the inner loop
  buf,         \* buf
  received,    \* history: all bytes read so far
  delivered    \* history: where each published frame began, and its payload

vars == <<pc, buf, received, delivered>>

Init == pc = "read" /\ buf = <<>> /\ received = <<>> /\ delivered = <<>>

-------------------------------------------------------------------------------
\* std::find(buf.begin(), buf.end(), sof) finds position i; the bytes before are erased.
FirstStart(i) == buf[i] = SOF /\ \A k \in 1..(i - 1) : buf[k] # SOF
From(i) == SubSeq(buf, i, Len(buf))
Whole(i) == FirstStart(i) /\ Len(buf) - i + 1 >= FrameSize
Ends(i) == buf[i + FrameSize - 1] = EOF

\* read() returns bytes.
Read(chunk) ==
  /\ pc = "read"
  /\ Len(received) + Len(chunk) <= MaxBytes
  /\ buf' = buf \o chunk
  /\ received' = received \o chunk
  /\ pc' = "scan"
  /\ UNCHANGED delivered

\* Nothing to read: the thread sleeps for a millisecond.
Sleep == pc = "read" /\ UNCHANGED vars

\* One round of the inner loop.  No SOF: all but the last byte is dropped.
NoStart ==
  /\ pc = "scan" /\ \A i \in DOMAIN buf : buf[i] # SOF
  /\ buf' = IF Len(buf) > 1 THEN <<buf[Len(buf)]>> ELSE buf
  /\ pc' = "read"
  /\ UNCHANGED <<received, delivered>>

\* Mutant of Incomplete: a frame cut by a read is dropped.
IncompleteDropped ==
  /\ pc = "scan"
  /\ \E i \in DOMAIN buf : FirstStart(i) /\ ~Whole(i)
  /\ buf' = <<>>
  /\ pc' = "read"
  /\ UNCHANGED <<received, delivered>>

Incomplete ==
  /\ pc = "scan"
  /\ \E i \in DOMAIN buf : FirstStart(i) /\ ~Whole(i) /\ buf' = From(i)
  /\ pc' = "read"
  /\ UNCHANGED <<received, delivered>>

\* Mutant of Reject: everything that was taken for a frame is dropped.
RejectFrame ==
  /\ pc = "scan"
  /\ \E i \in DOMAIN buf : Whole(i) /\ ~Ends(i) /\ buf' = From(i + FrameSize)
  /\ UNCHANGED <<pc, received, delivered>>

\* No EOF where it should be: only the SOF is dropped.
Reject ==
  /\ pc = "scan"
  /\ \E i \in DOMAIN buf : Whole(i) /\ ~Ends(i) /\ buf' = From(i + 1)
  /\ UNCHANGED <<pc, received, delivered>>

\* The payload goes to the data buffer and from there to both publishers.
Deliver ==
  /\ pc = "scan"
  /\ \E i \in DOMAIN buf :
       /\ Whole(i) /\ Ends(i)
       /\ delivered' = Append(delivered, [at      |-> Len(received) - Len(buf) + i,
                                          payload |-> SubSeq(buf, i + 1, i + FrameSize - 2)])
       /\ buf' = From(i + FrameSize)
  /\ UNCHANGED <<pc, received>>

Scan == NoStart \/ Incomplete \/ Reject \/ Deliver

Next == Scan \/ Sleep \/ \E chunk \in Chunks : Read(chunk)

\* The thread goes on until the node is destroyed; nothing says that bytes arrive.
Spec == Init /\ [][Next]_vars /\ WF_vars(Scan)

-------------------------------------------------------------------------------
\* The thread delivers what the line holds, however its reads cut the line.
FS == INSTANCE FrameStream WITH received <- received, delivered <- delivered
ImplementsFrameStream == FS!Spec

\* No byte the thread has dropped can begin a frame, whatever follows on the line: the
\* bytes between the last frame and the buffer hold no SOF but those with the wrong end.
Dropped == FS!Free..(Len(received) - Len(buf))
NoFrameDropped ==
  \A k \in Dropped :
    \/ received[k] # SOF
    \/ k + FrameSize - 1 <= Len(received) /\ received[k + FrameSize - 1] # EOF
===============================================================================
