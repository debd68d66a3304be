---------------------------- MODULE MCRmucTreeB ----------------------------
(* Instances of RmucTreeB for TLC. *)
EXTENDS RmucTreeB

R(hp, ammo, stage, gp) == [hp |-> hp, ammo |-> ammo, stage |-> stage, gp |-> gp]

\* The final phase: hp around 120 and 350, ammo around 20.
FinalReports == {R(hp, ammo, 100, 4) : hp \in {100, 200, 400}, ammo \in {10, 50}}

\* The match: the regular phase, then the final phase with its first trip to the
\* supply point, and game_progress leaving 4 at any time.
MatchReports == {R(400, 100, 300, 4), R(400, 100, 120, 4), R(400, 100, 120, 5)}

\* The final phase alone, which the end of the match cuts short.
LateReports == {R(400, 100, 120, 4), R(400, 100, 120, 5)}

\* The regular phase alone: ammo 0 and around 100, hp around 120.
RegularReports == {R(hp, ammo, 300, 4) : hp \in {119, 120}, ammo \in {0, 99, 100}}
============================================================================
