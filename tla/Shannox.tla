------------------------------- MODULE Shannox -------------------------------
(***************************************************************************)
(* The Shannox encounter (Firelands/boss_shannox.cpp): Shannox, his dogs   *)
(* Riplimb and Rageface, the crystal trap and the crystal prison it        *)
(* summons.                                                                 *)
(*                                                                          *)
(* Hurl Spear: Shannox throws his spear at Riplimb (UpdateAI); when it      *)
(* lands (SpellHitTarget) a spear object is summoned and Riplimb told       *)
(* (DoAction(1)); after spearDelayTimer Riplimb runs to the closest spear   *)
(* (MovePoint 1) and picks it up (MovementInform 1: the spear despawns,     *)
(* SPELL_SPEAR_VISUAL).  bossWait 1 would send it back to Shannox (MovePoint*)
(* 2), where MovementInform 2 removes the visual; bossWait 2 chases the     *)
(* victim.                                                                  *)
(*                                                                          *)
(* Crystal trap: Shannox summons a trap; it arms after armtrapTimer; the    *)
(* first player, or dog that is neither wary nor carrying the spear, that   *)
(* steps on it is caught: Shannox casts the prison effect on it and the     *)
(* trap summons a crystal prison.  A prison holding a dog damages itself    *)
(* 10% a second; when a prison dies its trap frees the prisoner (a dog      *)
(* turns wary) and despawns.                                                *)
(*                                                                          *)
(* Damage is the environment's: any unit may drop below 30% and then die.  *)
(* Yells, melee, Arcing Slash, Limb Rip, Face Rage, Separation Anxiety and  *)
(* the immolation trap change nothing modelled here and are left out.      *)
(***************************************************************************)
EXTENDS Naturals

CONSTANTS
    Heroic,          \* IsHeroic()
    MaxSpears,       \* spears lying on the ground at once (model bound)
    SpearDelayTicks, \* Riplimb updates spearDelayTimer lasts (3000 ms)
    PrisonHits       \* self-damage ticks that kill a prison (10 x 10%)

Dogs == {"riplimb", "rageface"}
Units == Dogs \cup {"player"}
Moves == {"melee", "toSpear", "toBoss"}   \* Riplimb's active movement
TrapStates == {"none", "arming", "armed", "sprung"}

VARIABLES
    boss,     \* Shannox: alive, in combat, below 30%, Hurl Spear being cast
    rip,      \* npc_riplimbAI's fields, Riplimb's health and auras
    rage,     \* npc_ragefaceAI's fields, Rageface's health and auras
    spears,   \* spear objects (entry 53752) on the ground
    trap,     \* the crystal trap: its state and prisonerGuid
    prison,   \* the crystal prison: standing, health in ticks
    held,     \* units with SPELL_CRYSTAL_PRISON_EFFECT
    wary      \* dogs with SPELL_WARY

vars == <<boss, rip, rage, spears, trap, prison, held, wary>>

TypeOK ==
    /\ boss \in [alive : BOOLEAN, combat : BOOLEAN, low : BOOLEAN, casting : BOOLEAN]
    /\ rip \in [alive : BOOLEAN, combat : BOOLEAN, low : BOOLEAN,
                spearDropped : BOOLEAN, spearDelay : 0..SpearDelayTicks,
                pSpear : BOOLEAN, bossWait : 0..2, move : Moves,
                visual : BOOLEAN, hpFlags : BOOLEAN, devotion : BOOLEAN,
                respawn : BOOLEAN]
    /\ rage \in [alive : BOOLEAN, combat : BOOLEAN, low : BOOLEAN,
                 ragefaceHP : BOOLEAN, devotion : BOOLEAN]
    /\ spears \in 0..MaxSpears
    /\ trap \in [state : TrapStates, prisoner : Units \cup {"none"}]
    /\ prison \in [up : BOOLEAN, hp : 0..PrisonHits]
    /\ held \subseteq Units
    /\ wary \subseteq Dogs

Alive(u) == CASE u = "riplimb"  -> rip.alive
              [] u = "rageface" -> rage.alive
              [] OTHER          -> TRUE

-----------------------------------------------------------------------------
(* Reset of each creature; an evading creature also loses its auras,       *)
(* health and movement.                                                     *)

\* npc_riplimbAI::Reset: shannoxHP and riplimbHP (one flag here: they are
\* always set and cleared together) false, bossWait 0, no spear.
RiplimbReset(r) ==
    [r EXCEPT !.pSpear = FALSE, !.spearDropped = FALSE,
              !.spearDelay = SpearDelayTicks, !.hpFlags = FALSE, !.bossWait = 0]

\* npc_ragefaceAI::Reset.
RagefaceReset(r) == [r EXCEPT !.ragefaceHP = TRUE]

FreshRiplimb ==
    RiplimbReset([alive |-> TRUE, combat |-> FALSE, low |-> FALSE,
                  spearDropped |-> FALSE, spearDelay |-> SpearDelayTicks,
                  pSpear |-> FALSE, bossWait |-> 0, move |-> "melee",
                  visual |-> FALSE, hpFlags |-> FALSE, devotion |-> FALSE,
                  respawn |-> FALSE])

FreshRageface ==
    RagefaceReset([alive |-> TRUE, combat |-> FALSE, low |-> FALSE,
                   ragefaceHP |-> FALSE, devotion |-> FALSE])

Init ==
    /\ boss = [alive |-> TRUE, combat |-> FALSE, low |-> FALSE, casting |-> FALSE]
    /\ rip = FreshRiplimb
    /\ rage = FreshRageface
    /\ spears = 0
    /\ trap = [state |-> "none", prisoner |-> "none"]
    /\ prison = [up |-> FALSE, hp |-> PrisonHits]
    /\ held = {} /\ wary = {}

-----------------------------------------------------------------------------
(* Shannox (boss_shannoxAI).                                                *)

\* EnterCombat: IN_PROGRESS; Riplimb and Rageface attack.
EnterCombat ==
    /\ boss.alive /\ ~boss.combat
    /\ boss' = [boss EXCEPT !.combat = TRUE]
    /\ rip' = [rip EXCEPT !.combat = rip.alive]
    /\ rage' = [rage EXCEPT !.combat = rage.alive]
    /\ UNCHANGED <<spears, trap, prison, held, wary>>

\* UpdateAI, HurlSpearTimer, no spell being cast: Hurl Spear at a living
\* Riplimb (otherwise Magma Rupture in heroic, nothing modelled).
HurlSpear ==
    /\ boss.alive /\ boss.combat /\ ~boss.casting
    /\ rip.alive /\ spears < MaxSpears
    /\ boss' = [boss EXCEPT !.casting = TRUE]
    /\ UNCHANGED <<rip, rage, spears, trap, prison, held, wary>>

\* SpellHitTarget(SPELL_HURL_SPEAR): the spear is summoned at Riplimb and
\* Riplimb's DoAction(1) sets spearDropped.
SpellHitTarget ==
    /\ boss.casting
    /\ boss' = [boss EXCEPT !.casting = FALSE]
    /\ spears' = spears + 1
    /\ rip' = [rip EXCEPT !.spearDropped = TRUE]
    /\ UNCHANGED <<rage, trap, prison, held, wary>>

\* UpdateAI, CrystalTrapTimer: the trap is summoned; its Reset clears
\* armTrap, trapActivated and prisonerGuid.  One trap and one prison at a
\* time (model bound).
PlaceCrystalTrap ==
    /\ boss.alive /\ boss.combat /\ ~boss.casting
    /\ trap.state = "none" /\ ~prison.up
    /\ trap' = [state |-> "arming", prisoner |-> "none"]
    /\ prison' = [up |-> FALSE, hp |-> PrisonHits]
    /\ UNCHANGED <<boss, rip, rage, spears, held, wary>>

-----------------------------------------------------------------------------
(* Riplimb (npc_riplimbAI).                                                 *)

\* MovementInform: point 1 with pSpear set despawns that spear, casts the
\* spear visual and sets bossWait = 2; point 2 sets bossWait = 0 and
\* removes the visual.
RiplimbMovementInform(r, s) ==
    IF r.move = "toSpear"
    THEN IF r.pSpear
         THEN [r |-> [r EXCEPT !.visual = TRUE, !.bossWait = 2, !.move = "melee"],
               spears |-> s - 1]
         ELSE [r |-> [r EXCEPT !.move = "melee"], spears |-> s]
    ELSE [r |-> [r EXCEPT !.bossWait = 0, !.visual = FALSE, !.move = "melee"],
          spears |-> s]

\* A point movement of Riplimb ends; a prisoner cannot move.
RiplimbArrives ==
    /\ rip.alive /\ rip.move \in {"toSpear", "toBoss"}
    /\ "riplimb" \notin held
    /\ LET m == RiplimbMovementInform(rip, spears) IN
       rip' = m.r /\ spears' = m.spears
    /\ UNCHANGED <<boss, rage, trap, prison, held, wary>>

\* bossWait 1: MovePoint(2) to Shannox; bossWait 2: MoveChase the victim.
BossWaitMove(r) ==
    CASE r.bossWait = 1 -> [r EXCEPT !.move = "toBoss"]
      [] r.bossWait = 2 -> [r EXCEPT !.move = "melee"]
      [] OTHER          -> r

\* spearDropped: once spearDelayTimer is out, GetClosestCreatureWithEntry
\* finds a spear: MovePoint(1), spearDropped false, timer reset.
FetchSpear(r, s) ==
    CASE ~r.spearDropped -> r
      [] r.spearDelay > 0 -> [r EXCEPT !.spearDelay = @ - 1]
      [] s > 0 -> [r EXCEPT !.move = "toSpear", !.pSpear = TRUE,
                            !.spearDropped = FALSE, !.spearDelay = SpearDelayTicks]
      [] OTHER -> r

\* Normal difficulty: Frenzied Devotion once Shannox or Riplimb is below 30%.
RiplimbDevotion(r) ==
    IF ~Heroic /\ (boss.low \/ r.low) /\ ~r.hpFlags
    THEN [r EXCEPT !.devotion = TRUE, !.hpFlags = TRUE]
    ELSE r

\* UpdateAI, in its order: bossWait, the spear, Frenzied Devotion.
RiplimbUpdateAI ==
    /\ rip.alive /\ rip.combat
    /\ rip' = RiplimbDevotion(FetchSpear(BossWaitMove(rip), spears))
    /\ UNCHANGED <<boss, rage, spears, trap, prison, held, wary>>

\* JustDied: Shannox's DoAction(1) (Frenzy), and SetRespawnTime(30) when
\* Shannox is alive; Riplimb loses its auras.
RiplimbDies ==
    /\ rip.alive /\ rip.low
    /\ rip' = [rip EXCEPT !.alive = FALSE, !.combat = FALSE, !.visual = FALSE,
                          !.devotion = FALSE, !.move = "melee",
                          !.respawn = boss.alive]
    /\ held' = held \ {"riplimb"}
    /\ wary' = wary \ {"riplimb"}
    /\ UNCHANGED <<boss, rage, spears, trap, prison>>

\* The respawn JustDied set up; JustRespawned puts Riplimb at Shannox;
\* Reset; it joins Shannox's fight, if any.
RiplimbRespawns ==
    /\ ~rip.alive /\ rip.respawn
    /\ rip' = [FreshRiplimb EXCEPT !.combat = boss.combat]
    /\ UNCHANGED <<boss, rage, spears, trap, prison, held, wary>>

-----------------------------------------------------------------------------
(* Rageface (npc_ragefaceAI).                                               *)

\* UpdateAI, normal difficulty: Frenzied Devotion below 30% unless
\* ragefaceHP is set.
RagefaceUpdateAI ==
    /\ rage.alive /\ rage.combat
    /\ rage' = IF ~Heroic /\ ~rage.ragefaceHP /\ rage.low
               THEN [rage EXCEPT !.devotion = TRUE, !.ragefaceHP = TRUE]
               ELSE rage
    /\ UNCHANGED <<boss, rip, spears, trap, prison, held, wary>>

\* JustDied: Shannox's DoAction(2); Rageface loses its auras.
RagefaceDies ==
    /\ rage.alive /\ rage.low
    /\ rage' = [rage EXCEPT !.alive = FALSE, !.combat = FALSE, !.devotion = FALSE]
    /\ held' = held \ {"rageface"}
    /\ wary' = wary \ {"rageface"}
    /\ UNCHANGED <<boss, rip, spears, trap, prison>>

-----------------------------------------------------------------------------
(* The crystal trap (npc_crystal_trapAI) and prison (npc_crystal_prisonAI). *)

\* UpdateAI: armTrap once armtrapTimer is out.
TrapArms ==
    /\ trap.state = "arming"
    /\ trap' = [trap EXCEPT !.state = "armed"]
    /\ UNCHANGED <<boss, rip, rage, spears, prison, held, wary>>

\* MoveInLineOfSight: an armed, unsprung trap catches a player, or a dog
\* that is not wary and does not carry the spear.
CanCatch(u) ==
    /\ Alive(u) /\ u \notin wary
    /\ u = "riplimb" => ~rip.visual

\* ActivateTrap: prisonerGuid, trapActivated; pBoss casts the prison effect
\* (a dead Shannox casts nothing) and the trap summons the prison.
ActivateTrap(u) ==
    /\ trap.state = "armed" /\ CanCatch(u)
    /\ trap' = [state |-> "sprung", prisoner |-> u]
    /\ held' = IF boss.alive THEN held \cup {u} ELSE held
    /\ prison' = [up |-> TRUE, hp |-> PrisonHits]
    /\ UNCHANGED <<boss, rip, rage, spears, wary>>

\* Variant of TrapDoAction that leaves the prison effect on the prisoner.
TrapDoActionKeepsEffect ==
    LET u == trap.prisoner IN
    /\ wary' = IF u \in Dogs /\ Alive(u) THEN wary \cup {u} ELSE wary
    /\ held' = held
    /\ trap' = [state |-> "none", prisoner |-> "none"]

\* DoAction(1): a dog prisoner casts Wary on itself (a dead one casts
\* nothing), the prison effect is removed, the trap despawns.
TrapDoAction ==
    LET u == trap.prisoner IN
    /\ wary' = IF u \in Dogs /\ Alive(u) THEN wary \cup {u} ELSE wary
    /\ held' = held \ {u}
    /\ trap' = [state |-> "none", prisoner |-> "none"]

\* The prison's JustDied: the trap that summoned it, if it is still there,
\* frees its prisoner.
PrisonJustDied ==
    /\ prison' = [prison EXCEPT !.up = FALSE]
    /\ IF trap.state = "sprung" THEN TrapDoAction ELSE UNCHANGED <<trap, held, wary>>

\* Variant of PrisonUpdateAI whose self-damage tests for a player prisoner.
PrisonUpdateAIPlayersOnly ==
    /\ prison.up /\ trap.state = "sprung"
    /\ LET u == trap.prisoner IN
       \/ /\ ~Alive(u)
          /\ PrisonJustDied
       \/ /\ Alive(u) /\ u \notin Dogs
          /\ IF prison.hp > 1
             THEN prison' = [prison EXCEPT !.hp = @ - 1] /\ UNCHANGED <<trap, held, wary>>
             ELSE PrisonJustDied
    /\ UNCHANGED <<boss, rip, rage, spears>>

\* Variant of PrisonUpdateAI whose self-damage never tests for the death.
PrisonUpdateAINoDeathTest ==
    /\ prison.up /\ trap.state = "sprung"
    /\ LET u == trap.prisoner IN
       \/ /\ ~Alive(u)
          /\ PrisonJustDied
       \/ /\ Alive(u) /\ u \in Dogs
          /\ prison' = [prison EXCEPT !.hp = @ - 1] /\ UNCHANGED <<trap, held, wary>>
    /\ UNCHANGED <<boss, rip, rage, spears>>

\* UpdateAI, while its trap is there: a dead prisoner makes the prison kill
\* itself; a dog prisoner makes it lose 10% each selfKillTimer second.
PrisonUpdateAI ==
    /\ prison.up /\ trap.state = "sprung"
    /\ LET u == trap.prisoner IN
       \/ /\ ~Alive(u)
          /\ PrisonJustDied
       \/ /\ Alive(u) /\ u \in Dogs
          /\ IF prison.hp > 1
             THEN prison' = [prison EXCEPT !.hp = @ - 1] /\ UNCHANGED <<trap, held, wary>>
             ELSE PrisonJustDied
    /\ UNCHANGED <<boss, rip, rage, spears>>

\* The raid destroys the prison.
RaidBreaksPrison ==
    /\ prison.up
    /\ PrisonJustDied
    /\ UNCHANGED <<boss, rip, rage, spears>>

\* SPELL_WARY runs out.
WaryFades(d) ==
    /\ d \in wary
    /\ wary' = wary \ {d}
    /\ UNCHANGED <<boss, rip, rage, spears, trap, prison, held>>

-----------------------------------------------------------------------------
(* The raid.                                                                *)

\* Shannox, Riplimb or Rageface drops below 30% health.
Wounded ==
    \/ /\ boss.alive /\ boss.combat /\ ~boss.low
       /\ boss' = [boss EXCEPT !.low = TRUE]
       /\ UNCHANGED <<rip, rage>>
    \/ /\ rip.alive /\ rip.combat /\ ~rip.low
       /\ rip' = [rip EXCEPT !.low = TRUE]
       /\ UNCHANGED <<boss, rage>>
    \/ /\ rage.alive /\ rage.combat /\ ~rage.low
       /\ rage' = [rage EXCEPT !.low = TRUE]
       /\ UNCHANGED <<boss, rip>>

WoundedStep == Wounded /\ UNCHANGED <<spears, trap, prison, held, wary>>

\* Shannox's JustDied: DONE.  His dogs fight on; Riplimb no longer respawns.
ShannoxDies ==
    /\ boss.alive /\ boss.low
    /\ boss' = [boss EXCEPT !.alive = FALSE, !.combat = FALSE, !.casting = FALSE]
    /\ UNCHANGED <<rip, rage, spears, trap, prison, held, wary>>

\* The raid wipes: every living creature of the encounter evades (auras,
\* health and movement reset, then Reset).  Shannox's Reset despawns the
\* traps and spears of summonedTraps; a standing prison is not among them.
Wipe ==
    /\ boss.alive /\ boss.combat
    /\ boss' = [boss EXCEPT !.combat = FALSE, !.low = FALSE, !.casting = FALSE]
    /\ rip' = IF rip.alive THEN FreshRiplimb ELSE rip
    /\ rage' = IF rage.alive THEN FreshRageface ELSE rage
    /\ spears' = 0
    /\ trap' = [state |-> "none", prisoner |-> "none"]
    /\ held' = {} /\ wary' = {}
    /\ UNCHANGED prison

Next ==
    \/ EnterCombat \/ HurlSpear \/ SpellHitTarget \/ PlaceCrystalTrap
    \/ RiplimbArrives \/ RiplimbUpdateAI \/ RiplimbDies \/ RiplimbRespawns
    \/ RagefaceUpdateAI \/ RagefaceDies
    \/ TrapArms \/ \E u \in Units : ActivateTrap(u)
    \/ PrisonUpdateAI \/ RaidBreaksPrison \/ \E d \in Dogs : WaryFades(d)
    \/ WoundedStep \/ ShannoxDies \/ Wipe

\* Every creature's UpdateAI runs on each map update, movements complete,
\* and a spell being cast lands.
Fairness ==
    /\ WF_vars(RiplimbUpdateAI) /\ WF_vars(RagefaceUpdateAI)
    /\ WF_vars(RiplimbArrives) /\ WF_vars(SpellHitTarget)
    /\ WF_vars(TrapArms) /\ WF_vars(PrisonUpdateAI)

Spec == Init /\ [][Next]_vars /\ Fairness

-----------------------------------------------------------------------------
(* Properties.                                                              *)

\* A unit carries the crystal prison effect only while the prison of the
\* trap that caught it stands: the prison's death (self-damage or the
\* raid), through the trap's DoAction(1), always removes the effect, and a
\* wipe or the prisoner's death never leaves it behind.
EffectOnlyWhilePrisoned ==
    \A u \in held :
        prison.up /\ trap.state = "sprung" /\ trap.prisoner = u

\* A dog caught in a crystal trap is freed: the prison's self-damage on
\* every update (npc_crystal_prisonAI::UpdateAI) kills it, and its death
\* frees the dog, without the raid having to break it.
CaughtDogFreed ==
    \A d \in Dogs : d \in held ~> d \notin held

\* Riplimb gives back the spear it picked up: with the spear visual it runs
\* back to Shannox (bossWait 1, MovePoint 2) and MovementInform 2 removes
\* the visual, so it is exposed to crystal traps again.
SpearReturned ==
    rip.visual ~> (~rip.visual \/ ~rip.alive)

\* Rageface, in normal difficulty, casts Frenzied Devotion once below 30%
\* health, as Riplimb does (npc_ragefaceAI::UpdateAI).
RagefaceFrenzies ==
    (~Heroic /\ rage.alive /\ rage.combat /\ rage.low)
        ~> (rage.devotion \/ ~rage.alive \/ ~rage.combat)

\* The dogs do what their scripts are written to do.
DogsPerDesign == SpearReturned /\ RagefaceFrenzies

=============================================================================
