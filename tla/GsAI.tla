-------------------------------- MODULE GsAI --------------------------------
(***************************************************************************)
(* GS_ScriptedAI (src/server/scripts/Custom/gsai.cpp): the creature AI     *)
(* that interprets a script loaded from the database.  The map thread     *)
(* updating the creature runs UpdateAI, which executes one command of the  *)
(* current script per call, and the engine hooks Reset, EnterEvadeMode,    *)
(* EnterCombat and MovementInform; the script manager sends DoAction       *)
(* UNHOOK before it reloads the scripts and REHOOK after.  When map        *)
(* updates run on several threads (Concurrent), DoAction can come from     *)
(* another thread while UpdateAI runs: UNHOOK then spins on the plain flag *)
(* is_updating_lock.                                                        *)
(*                                                                         *)
(* A command is a record; its kind is one of the instructions that change *)
(* the interpreter's state.  Say, yell, cast, summon, faction, morph,      *)
(* react, teleport and timer commands change none of it and are "nop"; a   *)
(* cast or kill whose target is GSST_RANDOM is "random", since selecting   *)
(* its target walks the threat list, whose length is at most MaxThreat.    *)
(* The outcome of an IF condition (health, timers, chance) is       *)
(* chosen nondeterministically.                                             *)
(***************************************************************************)
EXTENDS Integers, Sequences

CONSTANTS
    Scripts,        \* Scripts[id]: the command vector sGSMgr->GetScript(id)
    NoId,           \* script id -1: no row in creature_gscript
    Null,           \* nullptr
    InitCombatId,   \* m_combatScriptId loaded by the constructor
    InitOocId,      \* m_outOfCombatScriptId loaded by the constructor
    Diffs,          \* update diffs the map thread passes, in ms units
    Concurrent,     \* DoAction may run on another thread than UpdateAI
    MaxThreat       \* the longest threat list the model considers

ScriptIds == DOMAIN Scripts
Ptrs == ScriptIds \cup {Null}
MaxLen == 9
MaxDelay == 3

VARIABLES
    ai,             \* the interpreter's fields, a record (see AIState)
    combatId,       \* m_combatScriptId
    oocId,          \* m_outOfCombatScriptId
    is_updating_lock,
    upc,            \* map thread: "idle", "fetch" (inside UpdateAI, checks
                    \* passed) or "loop" (UpdateAI never returns)
    cached,         \* <<my_commands, com_counter>> as UpdateAI checked them
    spc,            \* DoAction: "idle" or "clear" (UNHOOK saw the lock free)
    inCombat,       \* me->IsInCombat()
    threat,         \* the threat list is not empty
    motion,         \* the motion master: "idle", "point" (MovePoint 100 under
                    \* way) or "chase" (MoveChase of a victim)
    hooked,         \* no UNHOOK since the last REHOOK (history)
    fault           \* a command was read through null or out of range

vars == <<ai, combatId, oocId, is_updating_lock, upc, cached, spc, inCombat,
          threat, motion, hooked, fault>>

AIState == [ptr : Ptrs, cc : 0..MaxLen, waiting : BOOLEAN, timer : 0..MaxDelay,
            moving : BOOLEAN, locked : BOOLEAN, type : {"none", "combat", "ooc"}]

Kinds == {"nop", "goto", "wait", "if", "walk", "waitfor", "combatstop",
          "lock", "unlock", "random"}

TypeOK ==
    /\ ai \in AIState
    /\ combatId \in ScriptIds \cup {NoId} /\ oocId \in ScriptIds \cup {NoId}
    /\ is_updating_lock \in BOOLEAN
    /\ upc \in {"idle", "fetch", "loop"} /\ spc \in {"idle", "clear"}
    /\ cached \in Ptrs \X (0..MaxLen)
    /\ inCombat \in BOOLEAN /\ threat \in BOOLEAN
    /\ motion \in {"idle", "point", "chase"}
    /\ hooked \in BOOLEAN /\ fault \in BOOLEAN

-----------------------------------------------------------------------------
(* The AI hooks, as functions of the interpreter's fields.                  *)

\* Variant of ResetState that leaves the command counter alone.
ResetStateKeepCounter(s) == [s EXCEPT !.waiting = FALSE, !.moving = FALSE]

\* ResetState: counter, waiting and moving flags cleared (the faction and
\* model restored, which the model leaves out).
ResetState(s) == [s EXCEPT !.cc = 0, !.waiting = FALSE, !.moving = FALSE]

\* The script of one type, or none when its id is -1.
Load(s, id, t) ==
    IF id # NoId THEN [s EXCEPT !.ptr = id, !.type = t]
                 ELSE [s EXCEPT !.ptr = Null, !.type = "none"]

\* Reset: unless the script is locked, switch to the out-of-combat script
\* when another type runs, and to none when the out-of-combat one runs.
Reset(s) ==
    LET r == ResetState(s) IN
    IF r.locked THEN r
    ELSE IF r.type # "ooc" /\ oocId # NoId THEN Load(r, oocId, "ooc")
    ELSE Load(r, NoId, "none")

\* EnterEvadeMode: unless locked, load the out-of-combat script; then
\* CreatureAI::EnterEvadeMode, which ends combat and calls Reset.
EnterEvadeMode(s) ==
    Reset(IF s.locked THEN s ELSE Load(s, oocId, "ooc"))

\* EnterCombat: restart the counter; unless locked, load the combat script.
EnterCombat(s) ==
    LET r == [s EXCEPT !.cc = 0, !.waiting = FALSE, !.moving = FALSE] IN
    IF r.locked THEN r ELSE Load(r, combatId, "combat")

\* GS_LoadMyScript on a reload: a row of creature_gscript overwrites the id
\* of its type; a type without a row keeps its id.
ReloadedIds(id) == {id} \cup ScriptIds

Len0(p) == IF p = Null THEN 0 ELSE Len(Scripts[p])

\* Thread rules: with one map thread, DoAction runs between two UpdateAI
\* calls on the same thread, and neither interrupts the other.
MapThreadFree == Concurrent \/ spc = "idle"
SignalThreadFree == Concurrent \/ upc = "idle"

Init ==
    \* constructor, then InitializeAI's Reset
    /\ combatId = InitCombatId /\ oocId = InitOocId
    /\ ai = Reset([ptr |-> Null, cc |-> 0, waiting |-> FALSE, timer |-> 0,
                   moving |-> FALSE, locked |-> FALSE, type |-> "none"])
    /\ is_updating_lock = FALSE
    /\ upc = "idle" /\ cached = <<Null, 0>> /\ spc = "idle"
    /\ inCombat = FALSE /\ threat = FALSE /\ motion = "idle"
    /\ hooked = TRUE /\ fault = FALSE

-----------------------------------------------------------------------------
(* UpdateAI, in two steps: the checks, and the fetch and execution of one   *)
(* command.  DoAction of another thread can fall between them.             *)

\* UpdateAI up to the fetch: take the lock; in combat, AttackStart the
\* victim SelectVictim picks (a new victim makes the motion master chase
\* it); evade (moving home) when in combat with an empty threat list and no
\* script lock; return (releasing the lock, and the
\* script lock) when a combat script has not started or has ended out of
\* combat, or when there is no script or it has ended.  The first check
\* reads my_commands->size() whenever com_counter is not 0.
UpdateBegin ==
    /\ upc = "idle" /\ MapThreadFree
    /\ LET evade == inCombat /\ ~threat /\ ~ai.locked
           s     == IF evade THEN EnterEvadeMode(ai) ELSE ai
           ic    == inCombat /\ ~evade
           done  == s.type = "combat" /\ ~ic /\ (s.cc = 0 \/ s.cc = Len0(s.ptr))
           stop  == done \/ s.ptr = Null \/ s.cc = Len0(s.ptr)
       IN /\ inCombat' = ic
          /\ threat' = (threat /\ ~evade)
          /\ \E newVictim \in IF ic /\ threat THEN BOOLEAN ELSE {FALSE} :
                motion' = CASE evade     -> "idle"
                            [] newVictim -> "chase"
                            [] OTHER     -> motion
          /\ fault' = (s.type = "combat" /\ ~ic /\ s.cc # 0 /\ s.ptr = Null)
          /\ IF stop
             THEN /\ ai' = [s EXCEPT !.locked = FALSE]
                  /\ UNCHANGED <<upc, cached, is_updating_lock>>
             ELSE /\ ai' = s
                  /\ is_updating_lock' = TRUE
                  /\ upc' = "fetch"
                  /\ cached' = <<s.ptr, s.cc>>
    /\ UNCHANGED <<combatId, oocId, spc, hooked>>

\* Variant of WaitCmd that ends the wait only when the timer is exactly 0.
WaitCmdEndAtZero(s, c, diff) ==
    IF ~s.waiting THEN [s EXCEPT !.waiting = TRUE, !.timer = c.delay]
    ELSE IF s.timer = 0 THEN [s EXCEPT !.waiting = FALSE]
    ELSE [s EXCEPT !.timer = @ - diff]

\* GSCR_WAIT: start waiting, or count the wait down and end it.
WaitCmd(s, c, diff) ==
    IF ~s.waiting THEN [s EXCEPT !.waiting = TRUE, !.timer = c.delay]
    ELSE IF s.timer < diff THEN [s EXCEPT !.waiting = FALSE]
    ELSE [s EXCEPT !.timer = @ - diff]

\* The switch of UpdateAI on the command at counter n; meets is the outcome
\* of GS_Meets for an IF.
Exec(s, c, n, diff, meets) ==
    LET t == [s EXCEPT !.cc = n] IN
    CASE c.kind = "goto"    -> [t EXCEPT !.cc = c.offset]
      [] c.kind = "wait"    -> WaitCmd(t, c, diff)
      [] c.kind = "if"      -> IF meets THEN t ELSE [t EXCEPT !.cc = c.endif]
      [] c.kind = "walk"    -> [t EXCEPT !.moving = TRUE]
      [] c.kind = "waitfor" -> [t EXCEPT !.waiting = t.moving]
      [] c.kind = "lock"    -> [t EXCEPT !.locked = TRUE]
      [] c.kind = "unlock"  -> [t EXCEPT !.locked = FALSE]
      [] OTHER              -> t

\* The lengths the threat list can have: empty exactly when threat is FALSE.
ThreatSizes == IF threat THEN 1..MaxThreat ELSE {0}

\* GS_SelectTarget(GSST_RANDOM) on a threat list of n entries draws
\* rr = urand(0, n - 1).  For an empty list n - 1 wraps to 2^32 - 1 and rr,
\* an int32, may be negative, zero or positive: -1, 0 and 1 stand for them.
RandomRR(n) == IF n = 0 THEN {-1, 0, 1} ELSE 0..(n - 1)

\* The loop `while (rr > 0) itr++` never decrements rr, so it ends only
\* when rr starts at 0 or below; with an empty list it then dereferences
\* end().  "loops", "end" or "target".
SelectRandom(rr, n) ==
    CASE rr > 0  -> "loops"
      [] n = 0   -> "end"
      [] OTHER   -> "target"

\* The rest of UpdateAI: (*my_commands)[com_counter], its execution, the
\* step to the next command unless waiting, and the lock released.  The
\* two fields are plain members another thread writes without
\* synchronisation: the build may use the values it checked or read them
\* again.  A null or out-of-range read, or a random target taken at end()
\* of an empty threat list, ends the process; a random target selection
\* that enters its loop never returns, holding is_updating_lock.
UpdateStep ==
    /\ upc = "fetch"
    /\ \E p \in {cached[1], ai.ptr}, n \in {cached[2], ai.cc},
          diff \in Diffs, meets \in BOOLEAN, size \in ThreatSizes :
       \E rr \in RandomRR(size) :
          IF p = Null \/ n >= Len0(p)
          THEN /\ fault' = TRUE
               /\ UNCHANGED <<ai, upc, is_updating_lock, threat, motion>>
          ELSE LET c   == Scripts[p][n + 1]
                   s   == Exec(ai, c, n, diff, meets)
                   sel == IF c.kind = "random" THEN SelectRandom(rr, size)
                                                ELSE "target"
               IN CASE sel = "end"
                         -> /\ fault' = TRUE
                            /\ UNCHANGED <<ai, upc, is_updating_lock, threat, motion>>
                    [] sel = "loops"
                         -> /\ upc' = "loop"
                            /\ UNCHANGED <<ai, is_updating_lock, threat, motion, fault>>
                    [] OTHER
                         -> /\ ai' = IF s.waiting THEN s ELSE [s EXCEPT !.cc = @ + 1]
                            /\ threat' = (threat /\ c.kind # "combatstop")
                            /\ upc' = "idle"
                            /\ is_updating_lock' = FALSE
                            /\ motion' = IF c.kind = "walk" THEN "point" ELSE motion
                            /\ UNCHANGED fault
    /\ UNCHANGED <<combatId, oocId, cached, spc, inCombat, hooked>>

-----------------------------------------------------------------------------
(* Engine events on the map thread, and DoAction.                           *)

\* The creature is attacked out of combat: EnterCombat, and AttackStart
\* of the attacker, which makes the motion master chase it.
Aggro ==
    /\ ~inCombat /\ upc = "idle" /\ MapThreadFree
    /\ ai' = EnterCombat(ai)
    /\ inCombat' = TRUE /\ threat' = TRUE /\ motion' = "chase"
    /\ UNCHANGED <<combatId, oocId, is_updating_lock, upc, cached, spc,
                   hooked, fault>>

\* Every attacker dies or leaves: the threat list empties.
LoseThreat ==
    /\ inCombat /\ threat /\ upc = "idle" /\ MapThreadFree
    /\ threat' = FALSE
    /\ UNCHANGED <<ai, combatId, oocId, is_updating_lock, upc, cached, spc,
                   inCombat, motion, hooked, fault>>

\* The point movement GSCR_WALK/GSCR_RUN started reaches point 100:
\* MovementInform(type, 100).  A movement another one replaced never
\* arrives.
MovementInform ==
    /\ motion = "point" /\ upc = "idle" /\ MapThreadFree
    /\ ai' = [ai EXCEPT !.moving = FALSE]
    /\ motion' = "idle"
    /\ UNCHANGED <<combatId, oocId, is_updating_lock, upc, cached, spc,
                   inCombat, threat, hooked, fault>>

\* DoAction(UNHOOK): the busy-wait's last read of is_updating_lock.
DoActionUnhook ==
    /\ spc = "idle" /\ SignalThreadFree
    /\ ~is_updating_lock
    /\ spc' = "clear"
    /\ UNCHANGED <<ai, combatId, oocId, is_updating_lock, upc, cached,
                   inCombat, threat, motion, hooked, fault>>

\* DoAction(UNHOOK) after the wait: my_commands and com_counter cleared.
UnhookClear ==
    /\ spc = "clear"
    /\ ai' = [ai EXCEPT !.ptr = Null, !.cc = 0]
    /\ spc' = "idle"
    /\ hooked' = FALSE
    /\ UNCHANGED <<combatId, oocId, is_updating_lock, upc, cached, inCombat,
                   threat, motion, fault>>

\* DoAction(REHOOK): reload the ids, ResetState, and load the script of the
\* current type again (my_commands is left alone when its id is -1).
DoActionRehook ==
    /\ spc = "idle" /\ SignalThreadFree
    /\ \E cid \in ReloadedIds(combatId), oid \in ReloadedIds(oocId) :
          /\ combatId' = cid /\ oocId' = oid
          /\ LET r == ResetState(ai) IN
             ai' = CASE r.type = "combat" /\ cid # NoId -> [r EXCEPT !.ptr = cid]
                     [] r.type = "ooc" /\ oid # NoId    -> [r EXCEPT !.ptr = oid]
                     [] OTHER                           -> r
    /\ hooked' = TRUE
    /\ UNCHANGED <<is_updating_lock, upc, cached, spc, inCombat, threat, motion,
                   fault>>

Next ==
    /\ ~fault
    /\ \/ UpdateBegin \/ UpdateStep
       \/ Aggro \/ LoseThreat \/ MovementInform
       \/ DoActionUnhook \/ UnhookClear \/ DoActionRehook

Spec == Init /\ [][Next]_vars

-----------------------------------------------------------------------------
(* Properties.                                                              *)

(* UpdateAI only reads commands that exist: my_commands[com_counter]       *)
(* and my_commands->size() are never evaluated through a null pointer or   *)
(* past the end, whatever order the hooks, the script's jumps and the       *)
(* UNHOOK/REHOOK signals come in.                                           *)
SafeCommandFetch == ~fault

(* Out of combat, a creature whose script is hooked and not locked runs its *)
(* out-of-combat script when it has one: EnterEvadeMode loads it, as Reset  *)
(* does when the creature is first set up.                                  *)
OutOfCombatScriptLoaded ==
    (hooked /\ ~inCombat /\ ~ai.locked /\ oocId # NoId /\ upc = "idle")
        => ai.ptr = oocId

(* Every UpdateAI call returns: no command of the script, a cast or kill   *)
(* at a random target included, leaves the map thread inside UpdateAI     *)
(* with is_updating_lock held (GS_SelectTarget, GSST_RANDOM).               *)
UpdateAIReturns == upc # "loop"

(* GSCR_WAITFOR(GSET_MOVEMENT) waits until MovementInform(100) clears      *)
(* is_moving, so is_moving may be set only while the MovePoint(100) of a    *)
(* WALK or RUN is under way; otherwise the script waits forever.            *)
WaitsOnLiveMovement == ai.moving => motion = "point"

(* The hooks and the interpreter keep the creature running its own script: *)
(* UpdateAI reads only commands that exist, whatever thread DoAction runs  *)
(* on (SafeCommandFetch), out of combat the out-of-combat script is the    *)
(* one loaded (OutOfCombatScriptLoaded), every UpdateAI call returns       *)
(* (UpdateAIReturns), and a WAITFOR movement waits for a movement that is  *)
(* under way (WaitsOnLiveMovement).                                         *)
RunsItsScript ==
    /\ SafeCommandFetch /\ OutOfCombatScriptLoaded /\ UpdateAIReturns
    /\ WaitsOnLiveMovement

=============================================================================
