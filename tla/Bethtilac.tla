------------------------------ MODULE Bethtilac ------------------------------
(***************************************************************************)
(* boss_bethtilacAI (Firelands/boss_bethtilac/boss_bethtilac.cpp): the     *)
(* encounter's phase machine.  Entering combat starts TRANSFER_1 (the boss *)
(* climbs to its web); MovementInform(MOVE_POINT_UP) starts PHASE_1; in    *)
(* PHASE_1 the energy decays every second and at zero Smoldering           *)
(* Devastation is cast; the third one schedules END_OF_PHASE_1, which     *)
(* starts TRANSFER_2 (the boss descends); MovementInform(MOVE_POINT_DOWN)  *)
(* starts PHASE_2.  SetPhase only records the new phase; UpdateAI enters   *)
(* it (EnterPhase) at its end.                                             *)
(*                                                                         *)
(* The timers (AddTimer, ClearTimers, UpdateTimers) belong to SpiderAI,    *)
(* whose header is not in the repository: a timer is one per event, adding *)
(* an event again replaces it, a repeating timer is re-armed with its      *)
(* period, and the events due in one update are handled in any order.     *)
(* Only the events that change the phase machine are kept: casts, summons *)
(* and their timers act on the world alone.  Time is counted in updates   *)
(* of one second; the energy in decay steps of 100.                       *)
(***************************************************************************)
EXTENDS Naturals, Sequences, SequencesExt

CONSTANTS
    PowerSteps,     \* 8200 energy / 100 per POWER_DECAY
    SdEnableTime,   \* SD_ENABLE: 10 s after a devastation
    EndDelay        \* END_OF_PHASE_1: the cast time of the devastation + 0.2 s

MAX_DEVASTATION_COUNT == 3

Phases == {"IDLE", "TRANSFER_1", "PHASE_1", "TRANSFER_2", "PHASE_2"}
Events == {"POWER_DECAY", "TRANSFER1_START", "SD_ENABLE", "END_OF_PHASE_1"}
MaxTimer == SdEnableTime

VARIABLES
    b,          \* the AI's fields, a record (see BossState)
    door,       \* the web door: "open" or "closed"
    instData,   \* instance->GetData(TYPE_BETHTILAC)
    raid,       \* "engaged": a victim; "away": alive, no victim; "wiped"
    alive

vars == <<b, door, instData, raid, alive>>

BossState ==
    [phase : Phases, oldPhase : Phases, power : 0..PowerSteps,
     devastationEnabled : BOOLEAN, devastationCounter : Nat,
     combatCheckEnabled : BOOLEAN, moving : {"none", "up", "down", "home"},
     timers : UNION {[E -> 1..MaxTimer] : E \in SUBSET Events}]

TypeOK ==
    /\ b \in BossState
    /\ door \in {"open", "closed"}
    /\ instData \in {"NOT_STARTED", "IN_PROGRESS", "FAIL", "DONE"}
    /\ raid \in {"engaged", "away", "wiped"}
    /\ alive \in BOOLEAN

-----------------------------------------------------------------------------
(* Timers and the AI's own operations, as functions of its fields.          *)

AddTimer(s, e, t) == [s EXCEPT !.timers = (e :> t) @@ @]

IsInTransfer(s) == s.phase \in {"TRANSFER_1", "TRANSFER_2"}

SetPhase(s, p) == [s EXCEPT !.oldPhase = s.phase, !.phase = p]

\* Reset: energy refilled, timers cleared, phase IDLE, back to the home
\* position; oldPhase is left as it was.
ResetAI(s) ==
    [s EXCEPT !.power = PowerSteps, !.timers = <<>>, !.phase = "IDLE",
              !.moving = "home"]

\* ScheduleEventsForPhase: the energy decays outside IDLE and PHASE_1.
ScheduleEventsForPhase(s, p) ==
    IF p \notin {"IDLE", "PHASE_1"} THEN AddTimer(s, "POWER_DECAY", 1) ELSE s

\* Variant of EnterPhase that clears the timers in every phase.
EnterPhaseClearAll(s, p) ==
    LET t == ScheduleEventsForPhase([s EXCEPT !.timers = <<>>, !.phase = p,
                                              !.oldPhase = p], p)
    IN CASE p = "TRANSFER_1" -> AddTimer(t, "TRANSFER1_START", 1)
         [] p = "TRANSFER_2" -> [t EXCEPT !.moving = "down"]
         [] OTHER            -> t

\* EnterPhase: the timers are cleared unless PHASE_1 starts (its timers run
\* from the start of combat); TRANSFER_1 arms the climb, TRANSFER_2 moves
\* down.  Its PHASE_IDLE case is not reached: no SetPhase(PHASE_IDLE) exists
\* and UpdateAI returns before it in IDLE.
EnterPhase(s, p) ==
    LET t == ScheduleEventsForPhase(
                 [s EXCEPT !.timers = IF p # "PHASE_1" THEN <<>> ELSE @,
                           !.phase = p, !.oldPhase = p], p)
    IN CASE p = "TRANSFER_1" -> AddTimer(t, "TRANSFER1_START", 1)
         [] p = "TRANSFER_2" -> [t EXCEPT !.moving = "down"]
         [] OTHER            -> t

\* Variant of DoSmolderingDevastation that casts without disabling itself.
DoSmolderingDevastationAlways(s) ==
    LET d == AddTimer([s EXCEPT !.devastationCounter = @ + 1],
                      "SD_ENABLE", SdEnableTime)
    IN IF d.devastationCounter = MAX_DEVASTATION_COUNT
       THEN AddTimer(d, "END_OF_PHASE_1", EndDelay)
       ELSE d

\* DoSmolderingDevastation: once per SD_ENABLE period; the third schedules
\* the end of phase 1.
DoSmolderingDevastation(s) ==
    IF ~s.devastationEnabled THEN s
    ELSE LET d == AddTimer([s EXCEPT !.devastationEnabled = FALSE,
                                     !.devastationCounter = @ + 1],
                           "SD_ENABLE", SdEnableTime)
         IN IF d.devastationCounter = MAX_DEVASTATION_COUNT
            THEN AddTimer(d, "END_OF_PHASE_1", EndDelay)
            ELSE d

\* Variant of DepletePower that does not stop at an empty bar.
DepletePowerUnclamped(s) == [s EXCEPT !.power = @ - 1]

\* DepletePower: ModifyPower(-100), which stops at zero.
DepletePower(s) == [s EXCEPT !.power = IF @ > 0 THEN @ - 1 ELSE 0]

\* DoAction for a timer event.
HandleEvent(s, e) ==
    CASE e = "TRANSFER1_START" -> [s EXCEPT !.moving = "up"]
      [] e = "POWER_DECAY" ->
            LET d == DepletePower(s) IN
            IF d.phase = "PHASE_1" /\ d.power = 0 THEN DoSmolderingDevastation(d)
                                                  ELSE d
      [] e = "SD_ENABLE"       -> [s EXCEPT !.devastationEnabled = TRUE]
      [] e = "END_OF_PHASE_1"  -> SetPhase(s, "TRANSFER_2")

\* UpdateTimers for one second: the due events leave (POWER_DECAY is
\* re-armed), the others count down.
CountDown(t) ==
    LET due == {e \in DOMAIN t : t[e] = 1} IN
    [e \in (DOMAIN t \ due) \cup (due \cap {"POWER_DECAY"}) |->
        IF e \in due THEN 1 ELSE t[e] - 1]

Due(s) == {e \in DOMAIN s.timers : s.timers[e] = 1}

\* UpdateVictim: false in IDLE; true in a transfer or with a victim (and
\* then combatCheckEnabled is set); in PHASE_1 also true while in combat
\* with no victim on the web.
VictimFound(s) == IsInTransfer(s) \/ raid = "engaged"

UpdateVictim(s) ==
    /\ s.phase # "IDLE"
    /\ VictimFound(s) \/ (s.phase = "PHASE_1" /\ raid # "wiped")

-----------------------------------------------------------------------------

Init ==
    \* constructor; oldPhase and combatCheckEnabled are not initialised
    /\ \E op \in Phases, cc \in BOOLEAN :
          b = ResetAI([phase |-> "IDLE", oldPhase |-> op, power |-> PowerSteps,
                       devastationEnabled |-> TRUE, devastationCounter |-> 0,
                       combatCheckEnabled |-> cc, moving |-> "none",
                       timers |-> <<>>])
    /\ door = "open" /\ instData = "NOT_STARTED"
    /\ raid = "engaged" /\ alive = TRUE

\* EnterCombat (also called by DamageTaken in IDLE): close the door, start
\* the encounter, restart the devastation count, enter TRANSFER_1.
EnterCombat ==
    /\ alive /\ b.phase = "IDLE" /\ raid = "engaged"
    /\ b' = EnterPhase([b EXCEPT !.devastationEnabled = TRUE,
                                 !.devastationCounter = 0,
                                 !.combatCheckEnabled = TRUE], "TRANSFER_1")
    /\ door' = "closed" /\ instData' = "IN_PROGRESS"
    /\ UNCHANGED <<raid, alive>>

\* Variant of EnterEvadeModeAI whose reset leaves the door closed.
EnterEvadeModeAIDoorStays(s) ==
    IF ~s.combatCheckEnabled \/ raid # "wiped"
    THEN [s |-> s, door |-> door, inst |-> instData]
    ELSE [s |-> ResetAI(s), door |-> door, inst |-> "FAIL"]

\* EnterEvadeMode: nothing while a living player is within 100 yards;
\* otherwise ScriptedAI::EnterEvadeMode (Reset: NOT_STARTED, door opened),
\* then FAIL.
EnterEvadeModeAI(s) ==
    IF ~s.combatCheckEnabled \/ raid # "wiped"
    THEN [s |-> s, door |-> door, inst |-> instData]
    ELSE [s |-> ResetAI(s), door |-> "open", inst |-> "FAIL"]

\* UpdateAI: without a victim, evade; otherwise run the timers due this
\* second, in any order, and enter a phase SetPhase recorded.  In IDLE it
\* does nothing (no victim, not IN_PROGRESS, out of combat); outside IDLE
\* the data is IN_PROGRESS, so its SpiderAI::EnterEvadeMode branch is dead.
UpdateAI ==
    /\ alive /\ b.phase # "IDLE"
    /\ IF ~UpdateVictim(b)
       THEN LET r == EnterEvadeModeAI(b) IN
            /\ b' = r.s /\ door' = r.door /\ instData' = r.inst
       ELSE /\ \E order \in SetToSeqs(Due(b)) :
                 LET s0 == [b EXCEPT !.timers = CountDown(@),
                                     !.combatCheckEnabled = @ \/ VictimFound(b)]
                     s1 == FoldLeft(HandleEvent, s0, order)
                 IN b' = IF s1.phase # s1.oldPhase THEN EnterPhase(s1, s1.phase)
                                                   ELSE s1
            /\ UNCHANGED <<door, instData>>
    /\ UNCHANGED <<raid, alive>>

\* MovementInform: the climb ends in PHASE_1, the descent in PHASE_2.
MovementInform ==
    /\ alive /\ b.moving # "none"
    /\ b' = CASE b.moving = "up"   -> SetPhase([b EXCEPT !.moving = "none"], "PHASE_1")
              [] b.moving = "down" -> SetPhase([b EXCEPT !.moving = "none"], "PHASE_2")
              [] OTHER             -> [b EXCEPT !.moving = "none"]
    /\ UNCHANGED <<door, instData, raid, alive>>

\* JustDied: the encounter is done and the door opens.
JustDied ==
    /\ alive /\ b.phase # "IDLE" /\ raid = "engaged"
    /\ alive' = FALSE
    /\ instData' = "DONE" /\ door' = "open"
    /\ UNCHANGED <<b, raid>>

\* The players: they fight, leave the boss's reach, or die; a wiped raid
\* comes back.
RaidChanges ==
    /\ alive
    /\ \E r \in {"engaged", "away", "wiped"} \ {raid} : raid' = r
    /\ UNCHANGED <<b, door, instData, alive>>

Next == EnterCombat \/ UpdateAI \/ MovementInform \/ JustDied \/ RaidChanges

\* UpdateAI runs on every update of a living creature; a point movement in
\* progress ends.  The players' actions get no fairness.
Spec == Init /\ [][Next]_vars /\ WF_vars(UpdateAI) /\ WF_vars(MovementInform)

-----------------------------------------------------------------------------
(* Properties.                                                              *)

(* The door is closed exactly while the encounter is in progress: closed  *)
(* and IN_PROGRESS from EnterCombat until the evade (Reset) or the death   *)
(* opens it again, whatever phase the boss is in.                          *)
DoorFollowsEncounter ==
    (door = "closed") <=> (instData = "IN_PROGRESS" /\ alive /\ b.phase # "IDLE")

(* A pull does not stall: as long as the boss lives, the climb, phase 1   *)
(* and the descent end, in PHASE_2 or back in IDLE.  In PHASE_1 nothing but *)
(* the POWER_DECAY timer armed in TRANSFER_1 leads to the devastations.    *)
PullProgresses ==
    (alive /\ b.phase \in {"TRANSFER_1", "PHASE_1", "TRANSFER_2"})
        ~> (~alive \/ b.phase \in {"PHASE_2", "IDLE"})

(* The encounter the raid sees (BethtilacEncounter): the phase of the AI   *)
(* is the stage, a dead boss is "dead", the devastation counter is the     *)
(* number of casts.  Every step of Reset, EnterCombat, UpdateAI and its    *)
(* timers, MovementInform and JustDied is a step of the encounter or       *)
(* leaves it unchanged: no evade during a transfer, no descent before the  *)
(* third cast, no fourth cast, the door open exactly after a wipe or death.*)
StageOf ==
    IF ~alive THEN "dead"
    ELSE [IDLE |-> "idle", TRANSFER_1 |-> "climb", PHASE_1 |-> "web",
          TRANSFER_2 |-> "descend", PHASE_2 |-> "ground"][b.phase]

Encounter == INSTANCE BethtilacEncounter
                 WITH stage <- StageOf, casts <- b.devastationCounter, door <- door

ImplementsEncounter == Encounter!Spec

=============================================================================
