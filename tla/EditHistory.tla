------------------------------ MODULE EditHistory ------------------------------
(***************************************************************************)
(* What an editor with Undo and Redo promises: a document with the         *)
(* versions before it and the undone ones after it.  An edit forgets the   *)
(* undone versions, Undo and Redo are each other's inverse, and nothing    *)
(* else changes the document.                                              *)
(***************************************************************************)
EXTENDS Sequences, SequencesExt

VARIABLES past, present, future

vars == <<past, present, future>>

Init == past = <<>> /\ present = <<>> /\ future = <<>>

\* An edit may leave the document as it was.
Edit == past' = Append(past, present) /\ future' = <<>>

Undo ==
  /\ past # <<>>
  /\ past' = Front(past) /\ present' = Last(past) /\ future' = <<present>> \o future

Redo ==
  /\ future # <<>>
  /\ past' = Append(past, present) /\ present' = Head(future) /\ future' = Tail(future)

\* Clearing the document clears its history.
Clear == past' = <<>> /\ present' = <<>> /\ future' = <<>>

Spec == Init /\ [][Edit \/ Undo \/ Redo \/ Clear]_vars
===============================================================================
