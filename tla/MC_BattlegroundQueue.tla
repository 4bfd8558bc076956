------------------------ MODULE MC_BattlegroundQueue ------------------------
(* Model-checking instance of BattlegroundQueue: a group of two players of *)
(* level 80+ (p1 leads) and a low-level player p3 without a group.          *)
EXTENDS BattlegroundQueue

CONSTANTS p1, p2, p3

MC_Group == {p1, p2}
MC_High == {p1, p2}
=============================================================================
