------------------------------- MODULE FrameQueue -------------------------------
(***************************************************************************)
(* What the storage queue of a lidar promises: frames are taken whole, once *)
(* and in the order they were put, and at most Capacity wait.              *)
(***************************************************************************)
EXTENDS Sequences, Naturals

CONSTANTS Sources, Capacity, Frames

VARIABLES
  waiting,    \* the frames put and not yet taken, of each source
  taken       \* the frame taken last, of each source

Init ==
  /\ waiting = [l \in Sources |-> <<>>]
  /\ taken = [l \in Sources |-> 0]

Put(l, f) ==
  /\ Len(waiting[l]) < Capacity
  /\ waiting' = [waiting EXCEPT ![l] = Append(@, f)]
  /\ UNCHANGED taken

Take(l) ==
  /\ waiting[l] # <<>>
  /\ taken' = [taken EXCEPT ![l] = Head(waiting[l])]
  /\ waiting' = [waiting EXCEPT ![l] = Tail(@)]

Next == \E l \in Sources : Take(l) \/ \E f \in Frames : Put(l, f)

Spec == Init /\ [][Next]_<<waiting, taken>>
===============================================================================
