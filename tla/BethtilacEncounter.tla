-------------------------- MODULE BethtilacEncounter --------------------------
(***************************************************************************)
(* What the Beth'tilac encounter promises the raid, without timers, energy *)
(* or movement: a pull takes the boss up to its web, where it casts        *)
(* Smoldering Devastation; after the third cast it descends and fights on  *)
(* the ground.  The raid is locked in (the door is closed) from the pull   *)
(* until the boss dies or the raid wipes; a wipe puts the boss back at the *)
(* start, and the boss never evades while climbing or descending.          *)
(***************************************************************************)
EXTENDS Naturals

VARIABLES stage, casts, door

Stages == {"idle", "climb", "web", "descend", "ground", "dead"}
Fighting == {"climb", "web", "descend", "ground"}

Init == stage = "idle" /\ casts = 0 /\ door = "open"

Pull ==
    /\ stage = "idle"
    /\ stage' = "climb" /\ casts' = 0 /\ door' = "closed"

ReachWeb ==
    /\ stage = "climb"
    /\ stage' = "web" /\ UNCHANGED <<casts, door>>

Devastate ==
    /\ stage = "web" /\ casts < 3
    /\ casts' = casts + 1 /\ UNCHANGED <<stage, door>>

Descend ==
    /\ stage = "web" /\ casts = 3
    /\ stage' = "descend" /\ UNCHANGED <<casts, door>>

Land ==
    /\ stage = "descend"
    /\ stage' = "ground" /\ UNCHANGED <<casts, door>>

Wipe ==
    /\ stage \in {"web", "ground"}
    /\ stage' = "idle" /\ door' = "open" /\ UNCHANGED casts

Die ==
    /\ stage \in Fighting
    /\ stage' = "dead" /\ door' = "open" /\ UNCHANGED casts

Next == Pull \/ ReachWeb \/ Devastate \/ Descend \/ Land \/ Wipe \/ Die

Spec == Init /\ [][Next]_<<stage, casts, door>>

=============================================================================
