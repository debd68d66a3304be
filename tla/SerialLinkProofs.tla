--------------------------- MODULE SerialLinkProofs ---------------------------
(***************************************************************************)
(* The receive thread implements FrameStream, for every frame size, every  *)
(* line and every way reads may cut it.                                    *)
(***************************************************************************)
EXTENDS SerialLink, SequenceTheorems, TLAPS

USE ByteAssumption, FrameAssumption

Frames == [at : Nat, payload : Seq(Byte)]

\* The number of bytes the thread has dropped.
off == Len(received) - Len(buf)

Typed ==
  /\ pc \in {"read", "scan"}
  /\ buf \in Seq(Byte) /\ received \in Seq(Byte)
  /\ delivered \in Seq(Frames)

\* The buffer is the end of the line.
BufferIsTail ==
  /\ Len(buf) <= Len(received)
  /\ \A i \in 1..Len(buf) : buf[i] = received[off + i]

\* No delivered frame reaches into the buffer.
FreeBehind == FS!Free \in Nat \ {0} /\ FS!Free <= off + 1

IInv == Typed /\ BufferIsTail /\ FreeBehind /\ NoFrameDropped

-------------------------------------------------------------------------------
\* What is left of the buffer when the bytes before position n are erased.
LEMMA ErasedBuffer ==
  ASSUME Typed, NEW n \in 1..(Len(buf) + 1)
  PROVE  /\ From(n) \in Seq(Byte)
         /\ Len(From(n)) = Len(buf) - n + 1
         /\ \A k \in 1..Len(From(n)) : From(n)[k] = buf[n + k - 1]
<1>1. Len(buf) \in Nat /\ \A k \in n..Len(buf) : buf[k] \in Byte
  BY ElementOfSeq, LenProperties DEF Typed
<1> QED
  BY <1>1, SubSeqProperties DEF From

\* Erasing up to n keeps the invariant, if no byte before n begins a frame.
LEMMA EraseKeepsInvariant ==
  ASSUME IInv, NEW n \in 1..(Len(buf) + 1), buf' = From(n),
         UNCHANGED <<received, delivered>>, pc' \in {"read", "scan"},
         \A k \in 1..(n - 1) :
           \/ buf[k] # SOF
           \/ k + FrameSize - 1 <= Len(buf) /\ buf[k + FrameSize - 1] # EOF
  PROVE  IInv'
<1>1. Typed /\ BufferIsTail /\ FreeBehind /\ NoFrameDropped
  BY DEF IInv
<1>2. Len(buf) \in Nat /\ Len(received) \in Nat
  BY <1>1, LenProperties DEF Typed
<1>3. /\ buf' \in Seq(Byte) /\ Len(buf') = Len(buf) - n + 1
      /\ \A k \in 1..Len(buf') : buf'[k] = buf[n + k - 1]
  BY <1>1, ErasedBuffer
<1>4. off' = off + n - 1
  BY <1>2, <1>3 DEF off
<1>5. Typed'
  BY <1>1, <1>3 DEF Typed
<1>6. BufferIsTail'
  <2>1. ASSUME NEW k \in 1..Len(buf') PROVE buf'[k] = received'[off' + k]
    <3> DEFINE j == n + k - 1
    <3>1. j \in 1..Len(buf) /\ buf'[k] = buf[j]
      BY <1>2, <1>3
    <3>2. off' + k = off + j
      BY <1>2, <1>4 DEF off
    <3>3. buf[j] = received[off + j]
      BY <1>1, <3>1 DEF BufferIsTail
    <3> QED
      BY <3>1, <3>2, <3>3
  <2>2. Len(buf') <= Len(received')
    BY <1>1, <1>2, <1>3 DEF BufferIsTail
  <2> QED
    BY <2>1, <2>2 DEF BufferIsTail
<1>7. FS!Free' = FS!Free
  BY DEF FS!Free
<1>8. FreeBehind'
  BY <1>1, <1>2, <1>4, <1>7 DEF FreeBehind, off
<1>9. NoFrameDropped'
  <2>1. SUFFICES ASSUME NEW k \in FS!Free..(off + n - 1)
                 PROVE  \/ received[k] # SOF
                        \/ /\ k + FrameSize - 1 <= Len(received)
                           /\ received[k + FrameSize - 1] # EOF
    BY <1>4, <1>7 DEF NoFrameDropped, Dropped, off
  <2>2. CASE k <= off
    BY <1>1, <1>2, <2>1, <2>2 DEF NoFrameDropped, Dropped, FreeBehind, off
  <2>3. CASE k > off
    <3> DEFINE j == k - off
    <3>1. j \in 1..(n - 1) /\ j \in 1..Len(buf) /\ off + j = k
      BY <1>1, <1>2, <2>1, <2>3 DEF FreeBehind, off
    <3>1a. buf[j] = received[k]
      BY <1>1, <3>1 DEF BufferIsTail
    <3>2. CASE buf[j] # SOF
      BY <3>1a, <3>2
    <3>3. CASE j + FrameSize - 1 <= Len(buf) /\ buf[j + FrameSize - 1] # EOF
      <4> DEFINE m == j + FrameSize - 1
      <4>0. off \in Int /\ k \in Int /\ off + j = k
        BY <1>1, <1>2, <2>1 DEF FreeBehind, off
      <4>1. m \in 1..Len(buf) /\ off + m = k + FrameSize - 1
        <5> HIDE DEF j
        <5> QED
          BY <1>2, <3>1, <3>3, <4>0
      <4>2. buf[m] = received[off + m]
        BY <1>1, <4>1 DEF BufferIsTail
      <4> QED
        BY <1>1, <1>2, <2>1, <3>1, <3>1a, <3>3, <4>1, <4>2 DEF FreeBehind, BufferIsTail, off
    <3> QED
      BY <3>1, <3>2, <3>3
  <2> QED
    BY <1>1, <1>2, <2>1, <2>2, <2>3 DEF FreeBehind, off
<1> QED
  BY <1>5, <1>6, <1>8, <1>9 DEF IInv

\* A read appends to the buffer what it appends to the line.
LEMMA ReadStep ==
  ASSUME IInv, NEW chunk \in Chunks, Read(chunk)
  PROVE  IInv' /\ FS!Receive
<1>1. Typed /\ BufferIsTail /\ FreeBehind /\ NoFrameDropped
  BY DEF IInv
<1>2. chunk \in Seq(Byte) /\ chunk # <<>>
  BY ChunkAssumption
<1>3. Len(chunk) \in Nat \ {0} /\ Len(buf) \in Nat /\ Len(received) \in Nat
  BY <1>1, <1>2, EmptySeq, LenProperties DEF Typed
<1>4. /\ buf' \in Seq(Byte) /\ Len(buf') = Len(buf) + Len(chunk)
      /\ \A i \in 1..Len(buf) + Len(chunk) :
           buf'[i] = IF i <= Len(buf) THEN buf[i] ELSE chunk[i - Len(buf)]
  BY <1>1, <1>2, ConcatProperties DEF Read, Typed
<1>5. /\ received' \in Seq(Byte) /\ Len(received') = Len(received) + Len(chunk)
      /\ \A i \in 1..Len(received) + Len(chunk) :
           received'[i] = IF i <= Len(received) THEN received[i] ELSE chunk[i - Len(received)]
  BY <1>1, <1>2, ConcatProperties DEF Read, Typed
<1>6. off' = off /\ off \in Nat /\ off + Len(buf) = Len(received)
  BY <1>1, <1>3, <1>4, <1>5 DEF off, BufferIsTail
<1>7. FS!Free' = FS!Free
  BY DEF FS!Free, Read
<1>8. BufferIsTail'
  <2>1. ASSUME NEW i \in 1..Len(buf') PROVE buf'[i] = received'[off' + i]
    <3> DEFINE j == off + i
    <3>1. j \in 1..Len(received) + Len(chunk)
      BY <1>3, <1>4, <1>6
    <3>2. CASE i <= Len(buf)
      <4>1. buf'[i] = buf[i] /\ buf[i] = received[j]
        BY <1>1, <1>3, <1>4, <3>2 DEF BufferIsTail
      <4>2. received'[j] = received[j]
        BY <1>3, <1>5, <1>6, <3>1, <3>2
      <4> QED
        BY <1>6, <4>1, <4>2
    <3>3. CASE i > Len(buf)
      <4>1. buf'[i] = chunk[i - Len(buf)]
        <5>1. i \in 1..Len(buf) + Len(chunk) /\ ~(i <= Len(buf))
          BY <1>3, <1>4, <3>3
        <5> QED
          BY <1>4, <5>1
      <4>2. j > Len(received) /\ j - Len(received) = i - Len(buf)
        <5>1. i \in Int /\ off \in Int /\ Len(buf) \in Int /\ Len(received) \in Int
          BY <1>3, <1>4, <1>6
        <5>2. off + Len(buf) = Len(received) /\ i > Len(buf) /\ j = off + i
          BY <1>6, <3>3
        <5> HIDE DEF j
        <5> QED
          BY <5>1, <5>2
      <4>3. received'[j] = chunk[j - Len(received)]
        <5> HIDE DEF j
        <5> QED
          BY <1>3, <1>5, <3>1, <4>2
      <4> QED
        BY <1>6, <4>1, <4>2, <4>3
    <3> QED
      BY <1>3, <1>4, <3>2, <3>3
  <2>2. Len(buf') <= Len(received')
    BY <1>3, <1>4, <1>5, <1>6
  <2> QED
    BY <2>1, <2>2 DEF BufferIsTail
<1>9. NoFrameDropped'
  <2>1. SUFFICES ASSUME NEW k \in FS!Free..off
                 PROVE  \/ received'[k] # SOF
                        \/ /\ k + FrameSize - 1 <= Len(received')
                           /\ received'[k + FrameSize - 1] # EOF
    BY <1>6, <1>7 DEF NoFrameDropped, Dropped, off
  <2>2. \/ received[k] # SOF
        \/ k + FrameSize - 1 <= Len(received) /\ received[k + FrameSize - 1] # EOF
    BY <1>1, <2>1 DEF NoFrameDropped, Dropped, off
  <2>3. k \in 1..Len(received)
    BY <1>1, <1>3, <1>6 DEF FreeBehind
  <2>4. ASSUME NEW m \in 1..Len(received) PROVE received'[m] = received[m]
    BY <1>3, <1>5, <2>4
  <2>5. k + FrameSize - 1 <= Len(received) => k + FrameSize - 1 \in 1..Len(received)
    BY <1>3, <2>3
  <2> QED
    BY <1>3, <1>5, <2>2, <2>3, <2>4, <2>5
<1>10. IInv'
  BY <1>1, <1>4, <1>5, <1>6, <1>7, <1>8, <1>9 DEF IInv, Typed, FreeBehind, Read
<1>11. FS!Receive
  <2>1. SubSeq(received', 1, Len(received)) = received
    <3>1. \A i \in 1..Len(received) : received'[i] \in Byte
      BY <1>3, <1>5, ElementOfSeq
    <3>2. /\ SubSeq(received', 1, Len(received)) \in Seq(Byte)
          /\ Len(SubSeq(received', 1, Len(received))) = Len(received)
          /\ \A i \in 1..Len(received) :
               SubSeq(received', 1, Len(received))[i] = received'[i]
      BY <1>3, <3>1, SubSeqProperties
    <3>3. \A i \in 1..Len(received) : received'[i] = received[i]
      BY <1>3, <1>5
    <3> QED
      BY <1>1, <3>2, <3>3, SeqEqual DEF Typed
  <2> QED
    BY <1>3, <1>5, <2>1 DEF FS!Receive, Read
<1> QED
  BY <1>10, <1>11

\* A frame found in the buffer is the next one of the line, with the same payload.
LEMMA DeliverStep ==
  ASSUME IInv, Deliver
  PROVE  IInv' /\ FS!Deliver
<1>1. Typed /\ BufferIsTail /\ FreeBehind /\ NoFrameDropped
  BY DEF IInv
<1>2. Len(buf) \in Nat /\ Len(received) \in Nat /\ DOMAIN buf = 1..Len(buf)
  BY <1>1, LenProperties DEF Typed
<1>3. off \in Nat /\ off + Len(buf) = Len(received)
  BY <1>1, <1>2 DEF off, BufferIsTail
<1>4. PICK i \in 1..Len(buf) :
        /\ Whole(i) /\ Ends(i)
        /\ delivered' = Append(delivered, [at      |-> off + i,
                                           payload |-> SubSeq(buf, i + 1, i + FrameSize - 2)])
        /\ buf' = From(i + FrameSize)
  BY <1>2 DEF Deliver, off
<1>5. /\ i \in Nat \ {0} /\ FrameSize \in Nat /\ FrameSize >= 2
      /\ i + FrameSize - 1 \in 1..Len(buf)
      /\ i + FrameSize \in 1..(Len(buf) + 1)
  BY <1>2, <1>4 DEF Whole
<1>6. /\ buf' \in Seq(Byte) /\ Len(buf') = Len(buf) - (i + FrameSize) + 1
      /\ \A k \in 1..Len(buf') : buf'[k] = buf[i + FrameSize + k - 1]
  BY <1>1, <1>4, <1>5, ErasedBuffer
<1>7. received' = received /\ pc' = pc /\ off' = off + i + FrameSize - 1
  <2>1. received' = received /\ pc' = pc
    BY DEF Deliver
  <2> QED
    BY <1>2, <1>5, <1>6, <2>1 DEF off
<1> DEFINE payload == SubSeq(buf, i + 1, i + FrameSize - 2)
           frame == [at |-> off + i, payload |-> payload]
<1>8. /\ payload \in Seq(Byte)
      /\ Len(payload) = FrameSize - 2
      /\ \A k \in 1..(FrameSize - 2) : payload[k] = buf[i + k]
  <2>1. \A k \in i + 1..i + FrameSize - 2 : buf[k] \in Byte
    BY <1>1, <1>2, <1>5, ElementOfSeq DEF Typed
  <2>2. /\ payload \in Seq(Byte)
        /\ Len(payload) = IF i + 1 <= i + FrameSize - 2
                          THEN i + FrameSize - 2 - (i + 1) + 1 ELSE 0
        /\ \A k \in 1..i + FrameSize - 2 - (i + 1) + 1 : payload[k] = buf[i + 1 + k - 1]
    BY <1>5, <2>1, SubSeqProperties
  <2>3. /\ i + FrameSize - 2 - (i + 1) + 1 = FrameSize - 2
        /\ i + 1 <= i + FrameSize - 2 <=> FrameSize > 2
        /\ \A k \in 1..(FrameSize - 2) : i + 1 + k - 1 = i + k
    BY <1>5
  <2> HIDE DEF payload
  <2>4. Len(payload) = FrameSize - 2
    BY <1>5, <2>2, <2>3
  <2>5. \A k \in 1..(FrameSize - 2) : payload[k] = buf[i + k]
    BY <2>2, <2>3
  <2> QED
    BY <2>2, <2>4, <2>5
<1>9. frame \in Frames
  BY <1>3, <1>5, <1>8 DEF Frames
<1>10. /\ delivered' \in Seq(Frames)
       /\ delivered' # <<>> /\ delivered'[Len(delivered')] = frame
  <2> HIDE DEF frame
  <2>1. delivered' = Append(delivered, frame)
    BY <1>4 DEF frame
  <2> QED
    BY <1>1, <1>9, <2>1 DEF Typed
<1>11. FS!Free' = off + i + FrameSize
  BY <1>10 DEF FS!Free
<1>12. BufferIsTail'
  <2>1. ASSUME NEW k \in 1..Len(buf') PROVE buf'[k] = received'[off' + k]
    <3> DEFINE j == i + FrameSize + k - 1
    <3>1. j \in 1..Len(buf) /\ buf'[k] = buf[j]
      BY <1>2, <1>5, <1>6
    <3>2. off' + k = off + j
      BY <1>3, <1>5, <1>7
    <3>3. buf[j] = received[off + j]
      BY <1>1, <3>1 DEF BufferIsTail
    <3> QED
      BY <1>7, <3>1, <3>2, <3>3
  <2>2. Len(buf') <= Len(received')
    BY <1>2, <1>3, <1>5, <1>6, <1>7
  <2> QED
    BY <2>1, <2>2 DEF BufferIsTail
<1>13. IInv'
  <2>1. FreeBehind'
    BY <1>3, <1>5, <1>7, <1>11 DEF FreeBehind
  <2>2. NoFrameDropped'
    <3>1. FS!Free' > off' /\ FS!Free' \in Int /\ off' \in Int
      BY <1>3, <1>5, <1>7, <1>11
    <3>2. \A k : k \notin FS!Free'..off'
      BY <3>1
    <3> QED
      BY <3>2 DEF NoFrameDropped, Dropped, off
  <2> QED
    BY <1>1, <1>6, <1>7, <1>10, <1>12, <2>1, <2>2 DEF IInv, Typed
<1>14. off + i \in FS!Matches(received)
  <2>1. received[off + i] = SOF
    BY <1>1, <1>4, <1>5 DEF BufferIsTail, Whole, FirstStart
  <2> DEFINE m == i + FrameSize - 1
  <2>2. buf[m] = received[off + m] /\ off + m = off + i + FrameSize - 1
    BY <1>1, <1>3, <1>5 DEF BufferIsTail
  <2>3. received[off + i + FrameSize - 1] = EOF
    BY <1>4, <2>2 DEF Ends
  <2>4. off + i \in 1..Len(received) /\ off + i + FrameSize - 1 <= Len(received)
    BY <1>2, <1>3, <1>5
  <2> QED
    BY <2>1, <2>3, <2>4 DEF FS!Matches
<1>15. ASSUME NEW k \in FS!Matches(received), k >= FS!Free PROVE off + i <= k
  <2>1. SUFFICES ASSUME k < off + i PROVE FALSE
    BY <1>2, <1>3, <1>5 DEF FS!Matches
  <2>2. CASE k <= off
    BY <1>1, <1>2, <1>3, <1>15, <2>2
    DEF NoFrameDropped, Dropped, off, FS!Matches, FreeBehind
  <2>3. CASE k > off
    <3> DEFINE j == k - off
    <3>1. k \in Int
      BY DEF FS!Matches
    <3>2. j \in 1..(i - 1) /\ j \in 1..Len(buf) /\ off + j = k
      BY <1>2, <1>3, <1>5, <2>1, <2>3, <3>1
    <3>3. buf[j] = received[off + j]
      BY <1>1, <3>2 DEF BufferIsTail
    <3> QED
      BY <1>4, <3>2, <3>3 DEF Whole, FirstStart, FS!Matches
  <2> QED
    BY <1>3, <2>2, <2>3 DEF FS!Matches
<1>16. frame = FS!FrameAt(received, off + i)
  <2> DEFINE other == SubSeq(received, off + i + 1, off + i + FrameSize - 2)
  <2>1. \A k \in off + i + 1..off + i + FrameSize - 2 : received[k] \in Byte
    BY <1>1, <1>2, <1>3, <1>5, ElementOfSeq DEF Typed
  <2>2. /\ other \in Seq(Byte)
        /\ Len(other) = IF off + i + 1 <= off + i + FrameSize - 2
                        THEN off + i + FrameSize - 2 - (off + i + 1) + 1 ELSE 0
        /\ \A k \in 1..off + i + FrameSize - 2 - (off + i + 1) + 1 :
             other[k] = received[off + i + 1 + k - 1]
    BY <1>3, <1>5, <2>1, SubSeqProperties
  <2>3. /\ Len(other) = FrameSize - 2
        /\ \A k \in 1..(FrameSize - 2) : other[k] = received[off + i + k]
    <3>1. /\ off + i + FrameSize - 2 - (off + i + 1) + 1 = FrameSize - 2
          /\ off + i + 1 <= off + i + FrameSize - 2 <=> FrameSize > 2
          /\ \A k \in 1..(FrameSize - 2) : off + i + 1 + k - 1 = off + i + k
      BY <1>3, <1>5
    <3> HIDE DEF other
    <3>2. Len(other) = FrameSize - 2
      BY <1>5, <2>2, <3>1
    <3>3. \A k \in 1..(FrameSize - 2) : other[k] = received[off + i + k]
      BY <2>2, <3>1
    <3> QED
      BY <3>2, <3>3
  <2>4. ASSUME NEW k \in 1..(FrameSize - 2) PROVE payload[k] = other[k]
    <3> DEFINE j == i + k
    <3>1. j \in 1..Len(buf) /\ off + j = off + i + k
      BY <1>3, <1>5
    <3>2. buf[j] = received[off + j]
      BY <1>1, <3>1 DEF BufferIsTail
    <3> HIDE DEF payload, other
    <3> QED
      BY <1>8, <2>3, <3>1, <3>2
  <2>5. payload = other
    <3> HIDE DEF payload, other
    <3> QED
      BY <1>8, <2>2, <2>3, <2>4, SeqEqual
  <2> QED
    BY <2>5 DEF FS!FrameAt
<1>17. off + i >= FS!Free
  BY <1>1, <1>3, <1>5 DEF FreeBehind
<1>18. delivered' = Append(delivered, FS!FrameAt(received, off + i))
  BY <1>4, <1>16
<1> QED
  BY <1>7, <1>13, <1>14, <1>15, <1>17, <1>18 DEF FS!Deliver

\* The other rounds of the loop erase bytes that begin no frame.
LEMMA EraseStep ==
  ASSUME IInv, NoStart \/ Incomplete \/ Reject
  PROVE  IInv' /\ UNCHANGED <<received, delivered>>
<1>1. Typed
  BY DEF IInv
<1>2. Len(buf) \in Nat /\ DOMAIN buf = 1..Len(buf)
  BY <1>1, LenProperties DEF Typed
<1>3. CASE NoStart
  <2> DEFINE n == IF Len(buf) > 1 THEN Len(buf) ELSE 1
  <2>1. n \in 1..(Len(buf) + 1)
    BY <1>2
  <2>2. buf' = From(n)
    <3>1. CASE Len(buf) > 1
      <4>1. buf[Len(buf)] \in Byte
        BY <1>1, <1>2, <3>1, ElementOfSeq DEF Typed
      <4>2. /\ From(Len(buf)) \in Seq(Byte) /\ Len(From(Len(buf))) = 1
            /\ From(Len(buf))[1] = buf[Len(buf)]
        <5> DEFINE last == Len(buf)
        <5>1. last \in 1..(Len(buf) + 1) /\ Len(buf) - last + 1 = 1 /\ last + 1 - 1 = last
          BY <1>2, <3>1
        <5> HIDE DEF last
        <5>2. /\ From(last) \in Seq(Byte) /\ Len(From(last)) = 1
              /\ \A k \in 1..Len(From(last)) : From(last)[k] = buf[last + k - 1]
          BY <1>1, <5>1, ErasedBuffer
        <5>3. 1 \in 1..Len(From(last))
          BY <5>2
        <5>4. From(last)[1] = buf[last]
          BY <5>1, <5>2, <5>3
        <5> QED
          BY <5>2, <5>4 DEF last
      <4>3. From(Len(buf)) = <<buf[Len(buf)]>>
        BY <4>1, <4>2, SeqEqual
      <4> QED
        BY <1>3, <3>1, <4>3 DEF NoStart
    <3>2. CASE ~(Len(buf) > 1)
      BY <1>1, <1>3, <3>2, SubSeqFull DEF NoStart, From, Typed
    <3> QED
      BY <3>1, <3>2
  <2>3. \A k \in 1..(n - 1) : buf[k] # SOF
    BY <1>2, <1>3 DEF NoStart
  <2> HIDE DEF n
  <2> QED
    BY <1>3, <2>1, <2>2, <2>3, EraseKeepsInvariant DEF NoStart
<1>4. CASE Incomplete
  <2>1. PICK i \in DOMAIN buf : FirstStart(i) /\ buf' = From(i)
    BY <1>4 DEF Incomplete
  <2>2. i \in 1..(Len(buf) + 1) /\ \A k \in 1..(i - 1) : buf[k] # SOF
    BY <1>2, <2>1 DEF FirstStart
  <2> QED
    BY <1>4, <2>1, <2>2, EraseKeepsInvariant DEF Incomplete
<1>5. CASE Reject
  <2>1. PICK i \in DOMAIN buf : Whole(i) /\ ~Ends(i) /\ buf' = From(i + 1)
    BY <1>5 DEF Reject
  <2>2. i + 1 \in 1..(Len(buf) + 1)
    BY <1>2
  <2>3. ASSUME NEW k \in 1..(i + 1 - 1)
        PROVE  \/ buf[k] # SOF
               \/ k + FrameSize - 1 <= Len(buf) /\ buf[k + FrameSize - 1] # EOF
    <3>1. CASE k = i
      BY <1>2, <2>1, <3>1 DEF Whole, Ends
    <3>2. CASE k # i
      BY <1>2, <2>1, <3>2 DEF Whole, FirstStart
    <3> QED
      BY <3>1, <3>2
  <2> QED
    BY <1>1, <1>5, <2>1, <2>2, <2>3, EraseKeepsInvariant DEF Reject, Typed
<1> QED
  BY <1>3, <1>4, <1>5 DEF NoStart, Incomplete, Reject

\* Nothing is received, nothing buffered.
LEMMA InitIInv == Init => IInv
<1> SUFFICES ASSUME Init PROVE IInv
  OBVIOUS
<1>1. /\ buf \in Seq(Byte) /\ received \in Seq(Byte) /\ delivered \in Seq(Frames)
      /\ Len(buf) = 0 /\ Len(received) = 0 /\ delivered = <<>> /\ pc = "read"
  BY EmptySeq DEF Init
<1>2. FS!Free = 1 /\ off = 0
  BY <1>1 DEF FS!Free, off
<1> QED
  BY <1>1, <1>2 DEF IInv, Typed, BufferIsTail, FreeBehind, NoFrameDropped, Dropped, off

\* Every step keeps the invariant, and is a step of FrameStream or leaves it alone.
LEMMA StepRefines ==
  IInv /\ [Next]_vars => IInv' /\ [FS!Next]_(FS!vars)
<1> SUFFICES ASSUME IInv, [Next]_vars PROVE IInv' /\ [FS!Next]_(FS!vars)
  OBVIOUS
<1>1. ASSUME NEW chunk \in Chunks, Read(chunk) PROVE IInv' /\ FS!Next
  BY <1>1, ReadStep DEF FS!Next
<1>2. CASE Deliver
  BY <1>2, DeliverStep DEF FS!Next
<1>3. CASE NoStart \/ Incomplete \/ Reject
  BY <1>3, EraseStep DEF FS!vars
<1>4. CASE Sleep \/ UNCHANGED vars
  <2>1. UNCHANGED vars
    BY <1>4 DEF Sleep
  <2>2. UNCHANGED FS!vars /\ FS!Free' = FS!Free
    BY <2>1 DEF vars, FS!vars, FS!Free
  <2> QED
    BY <2>1, <2>2
    DEF vars, IInv, Typed, BufferIsTail, FreeBehind, NoFrameDropped, Dropped, off
<1> QED
  BY <1>1, <1>2, <1>3, <1>4 DEF Next, Scan

\* The inductive invariant of the receive thread.
THEOREM Invariance == Spec => []IInv
BY InitIInv, StepRefines, PTL DEF Spec

\* No byte is dropped that could have begun a frame.
THEOREM NothingDropped == Spec => []NoFrameDropped
<1>1. IInv => NoFrameDropped
  BY DEF IInv
<1> QED
  BY <1>1, Invariance, PTL

\* The frames published are the leftmost ones of the line, with their payloads, in order,
\* however the reads cut the line: the safety half of ImplementsFrameStream.
THEOREM ImplementsSafety == Spec => FS!SafetySpec
<1>1. Init => FS!Init
  BY DEF Init, FS!Init
<1> QED
  BY <1>1, InitIInv, StepRefines, PTL DEF Spec, FS!SafetySpec
===============================================================================
