----------------------------- MODULE MC_Shannox -----------------------------
(* Shannox in normal difficulty, up to two spears on the ground, a spear   *)
(* fetched on Riplimb's second update after the drop, a prison dying after *)
(* three self-damage ticks.                                                 *)
EXTENDS Shannox

MC_Heroic == FALSE
MC_MaxSpears == 2
MC_SpearDelayTicks == 1
MC_PrisonHits == 3

=============================================================================
