----------------------------- MODULE MCRmucTreeA -----------------------------
(* Instances of RmucTreeA for TLC. *)
EXTENDS RmucTreeA

R(hp, ammo, gp) == [hp |-> hp, ammo |-> ammo, stage |-> 300, gp |-> gp]

\* Both sides of every threshold of the tree: hp 100 and 350, ammo 20, gp 4.
AllReports == {R(hp, ammo, gp) : hp \in {99, 100, 350, 351}, ammo \in {19, 20}, gp \in {3, 4}}
FewReports == {R(50, 50, 4), R(200, 50, 4), R(400, 50, 4), R(400, 50, 3)}
===============================================================================
