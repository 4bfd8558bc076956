# TLA+ models of the iCe Online Catacore server

This directory holds TLA+ models of five parts of the server in `src/`,
checked with TLC:

- the authentication server (`src/src/server/authserver/Server/AuthSocket.cpp`);
- the battleground queue handlers
  (`src/src/server/game/Server/Protocol/Handlers/BattleGroundHandler.cpp`);
- the `gsai` scripted creature AI (`src/src/server/scripts/Custom/gsai.cpp`);
- the Beth'tilac encounter script
  (`src/src/server/scripts/Kalimdor/Firelands/boss_bethtilac/boss_bethtilac.cpp`);
- the Shannox encounter script
  (`src/src/server/scripts/Kalimdor/Firelands/boss_shannox.cpp`).

The parts do not call one another, so each has its own modules.
`PROJECT.json` lists every component, every run, the mutants, the map from
each definition to the source lines it models, the findings and the hazards.

## The system

### The auth server

One `AuthSocket` object handles one client connection. Its parts:

- **`OnRead`**: the read loop. It peeks the command byte of each buffered
  packet and counts it against two flood guards:
  - the *row guard*: a local counter `challengesInARow`;
  - the *time guard*: `_authPacketTime` and `_authPacketCount`.
  It then calls the handler the `table` selects for the command byte and the
  connection's status (`_authed`).
- **The handlers**:
  - `_HandleLogonChallenge`: sets `_login`, checks IP bans, the account row,
    the IP lock and account bans. It then loads or generates `(v, s)`
    (`_SetVSFields`) and makes `b`, `B`.
  - `_HandleLogonProof`: checks the build and `A != 0`, derives `S` and `K`,
    and compares `M1`. On a match it stores `K` as `account.sessionkey` and
    sets `_authed`. On a mismatch it counts failed logins and may autoban the
    account or the IP.
  - `_HandleReconnectChallenge` and `_HandleReconnectProof`: re-authenticate
    with the stored session key.
  - `_HandleRealmList`: only reachable when `_authed` is set.
  - The `Xfer*` patch handlers.
- **The login database**, which all connections share: verifiers and salts,
  session keys, `failed_logins`, and account and IP bans.

### Battleground handlers

A player joins a queue (`HandleBattlemasterJoin`, `...JoinArena`,
`...JoinRated`) alone or as a group leader, answers an invitation
(`HandleBattleFieldPortOpcode`: enter or leave) and leaves a battleground
(`HandleLeaveBattlefieldOpcode`). Two records must agree: the player's queue
slots (`m_bgBattlegroundQueueID`, `PLAYER_MAX_BATTLEGROUND_QUEUES` entries)
and the entries of the `BattlegroundQueue` objects. The queue update that
invites players, invitations that run out and deserter debuffs that expire
are engine steps, modelled as environment actions.

### The `gsai` interpreter

`GS_ScriptedAI` runs a script loaded from the database, one command per
`UpdateAI`. The engine hooks `Reset`, `EnterEvadeMode`, `EnterCombat` and
`MovementInform` load the combat or out-of-combat script and reset the
interpreter. The script manager sends `DoAction(UNHOOK)` before reloading
the scripts and `DoAction(REHOOK)` after. UNHOOK spins on the plain `bool`
`is_updating_lock` that `UpdateAI` sets. When map updates run on several
threads, DoAction can come from another thread while `UpdateAI` runs.

### Beth'tilac

`boss_bethtilacAI` is a phase machine: IDLE, TRANSFER_1 (climbing to the
web), PHASE_1 (on the web), TRANSFER_2 (descending), PHASE_2. `SetPhase`
only records a phase; `UpdateAI` enters it (`EnterPhase`) after running the
timers due. In PHASE_1 the POWER_DECAY timer, armed at `EnterCombat`, drains
the energy. At zero, `DoSmolderingDevastation` casts, disables itself for
10 s, and the third cast schedules END_OF_PHASE_1. The encounter closes
the door on entering combat; `Reset` (after an evade) and `JustDied` open
it.

### Shannox

Three creature scripts and two summoned helpers interact through pointers,
GUIDs and `DoAction` calls:

- **`boss_shannoxAI`** throws Hurl Spear at Riplimb. When it lands
  (`SpellHitTarget`) a spear object is summoned and Riplimb gets
  `DoAction(1)`. Shannox also summons crystal traps, and its `Reset`
  despawns the traps and spears it summoned.
- **`npc_riplimbAI`** runs to the closest spear once `spearDelayTimer` is
  out (`MovePoint(1)`). On arrival (`MovementInform(1)`) it despawns the
  spear, takes `SPELL_SPEAR_VISUAL` and sets `bossWait`. `bossWait == 1`
  would send it back to Shannox (`MovePoint(2)`), where `MovementInform(2)`
  removes the visual. `bossWait == 2` chases the victim. Riplimb respawns
  30 s after death while Shannox lives.
- **`npc_ragefaceAI`** and Riplimb cast Frenzied Devotion below 30% health
  in normal difficulty.
- **`npc_crystal_trapAI`** arms after a delay. It catches the first player,
  or the first dog that is neither wary nor carrying the spear, that steps
  on it. Shannox then casts the prison effect and the trap summons a
  **`npc_crystal_prisonAI`**. A prison holding a dog damages itself 10% a
  second. When the prison dies, its trap (found through `summonerGuid`)
  frees the prisoner, makes a dog wary, and despawns.

## Modules

| Module | Models | State | Actions |
|---|---|---|---|
| `AuthSession` | the five auth handlers, run by several connections sharing the database | the per-connection members (`open`, `authed`, `login`, `expv`, `srp`, `K`, `rp`), the database rows and the statements queued for the database worker (`dbq`) | `LogonChallenge`, `LogonProof` (with `WrongPassword`), `ReconnectChallenge`, `ReconnectProof`, `RealmList`, `DbWorker`; environment: `Disconnect`, `Accept`, `AccountBanExpires`, `IpBanExpires` |
| `AuthOnRead` | the `OnRead` loop of one connection, the table and both flood guards | the input buffer, the split packet still arriving (`tail`), `challengesInARow`, `_authPacketTime`, `_authPacketCount`, `_authed`, the clock | `ClientSend`, `ClientSendRest`, `BeginRead`, `ReadCommand`, `EndRead`, `Tick` |
| `BattlegroundQueue` | the join, port and leave handlers | `slots` (per player), `qstate` (per queue and player: none, waiting, invited), `inBg`, `deserter`, `crashed` (a null group dereferenced) | `BattlemasterJoin`, `BattlemasterJoinArena`, `BattlemasterJoinRated`, `BattlefieldPort`, `LeaveBattlefield`; environment: `Invite`, `InviteExpires`, `DeserterExpires` |
| `GsAI` | `GS_ScriptedAI` and its hooks | `ai` (the script pointer, `com_counter`, wait and movement state, `is_locked`, the script type), the loaded ids, `is_updating_lock`, the program counters of `UpdateAI` and UNHOOK | `UpdateBegin` and `UpdateStep` (the two halves of `UpdateAI`), `Aggro`, `LoseThreat`, `MovementInform`, `DoActionUnhook`, `UnhookClear`, `DoActionRehook` |
| `BethtilacEncounter` | what the Beth'tilac encounter promises, without timers, energy or movement | `stage` (idle, climb, web, descend, ground, dead), `casts`, `door` | `Pull`, `ReachWeb`, `Devastate`, `Descend`, `Land`, `Wipe`, `Die` |
| `Shannox` | the five Shannox scripts | `boss`, `rip` and `rage` (each creature's script fields, health below 30%, auras), `spears` on the ground, `trap` (state and prisoner), `prison` (standing, health in ticks), the units `held` by the prison effect and the `wary` dogs | `EnterCombat`, `HurlSpear`, `SpellHitTarget`, `PlaceCrystalTrap`, `RiplimbUpdateAI`, `RiplimbArrives`, `RiplimbDies`, `RiplimbRespawns`, `RagefaceUpdateAI`, `RagefaceDies`, `TrapArms`, `ActivateTrap`, `PrisonUpdateAI`, `ShannoxDies`; environment: `RaidBreaksPrison`, `WaryFades`, `WoundedStep`, `Wipe` |
| `Bethtilac` | `boss_bethtilacAI` | `b` (phase, `oldPhase`, energy, devastation flag and counter, `combatCheckEnabled`, the movement in progress, the timers), the door, the instance data, the raid, `alive` | `EnterCombat`, `UpdateAI`, `MovementInform`, `JustDied`; environment: `RaidChanges` |
| `MC_*` | model values and constant definitions for the configs | | |

#### The cryptographic abstraction in `AuthSession`

An SRP state (`srp[c]`) is named by the account whose verifier `b`, `v` and
`B` were made for. `NoSRP` means they are still zero: no challenge has
succeeded on the connection.

The clients know the passwords of the accounts in `KnownPw`. They can send a
matching `M1` exactly when they can compute `S` (`CanComputeS`). That is the
case when any of these holds:

- `A` is a multiple of `N`, so `S = 0`;
- `b` and `v` are zero, so `S = 1`;
- the verifier is that of an account whose password they know.

A key is `"public"` when the clients can compute it and `"secret"` otherwise.

`_expversion` is not initialised by the constructor, so a fresh connection
starts with either value.

#### The database worker in `AuthSession`

`LoginDatabase.Execute` hands a statement to the database worker, and
`LoginDatabase.Query` reads at once. The worker's pool is not in the
repository; the model takes it to have one worker thread (the default),
which applies statements in the order they were issued. With the constant
`AsyncExecute`, the statements of a logon proof wait in the queue `dbq`:
`LOGIN_SET_LOGONPROOF` (session key stored, `failed_logins` reset),
`LOGIN_SET_FAILEDLOGINS` and the two autobans. `DbWorker` applies the oldest
one. While a wrong-password handler runs, the worker may apply any prefix
of the queue before the handler's `LOGIN_GET_FAILEDLOGINS` query reads the
counter (`WorkerApplies` with a chosen `k`). `Store`, `Apply`, `Execute` and
`Commit` treat the written tables and the queue as one value. The other
statements (`_SetVSFields`, the expiry of bans) are applied when they are
issued. Without `AsyncExecute` every statement is applied at once: this is
the spec's contract for the store, "atomic read/update per call".

The worker thread itself belongs to the database library, which is not in
the repository, so `DbWorker` is modelled from this description and marked
`spec_modelled` in the map.

#### `AuthOnRead`

Each handler is abstracted to the set of results it can return
(`HandlerResults`). A result says whether the handler:

- consumes the packet;
- shuts the socket down;
- returns true;
- sets `_authed`.

A handler that returns false ends `OnRead`. A handler that shuts the socket
down but returns true lets the loop continue on the buffered commands. The
clock `now` stands for `time(NULL)` in whole seconds. The history variables
`counted`, `dispatched`, `consec` and `trip` exist only for the properties.

A packet may arrive split (`tail`): `ClientSend(cmd, "short")` delivers
less than the header, and `ClientSend(cmd, "long")` delivers the header
without the body of a challenge. `ClientSendRest` delivers the rest. A
handler that meets a short packet returns false before consuming anything.
A challenge handler that meets a "long" one consumes the header and then
returns false (`PartialRead`). The body left in the buffer is
`"Garbage"`, which the next read takes for a command byte.

`lateCall` is a history variable: a handler was called while the socket was
already shut down.

#### `BattlegroundQueue`

`Player`, `Group`, `BattlegroundQueue` and `BattlegroundMgr` are engine
classes that are not in the repository. What the handlers call of them is
modelled by what those calls do to the slots and the queue entries. Queue
types are a normal battleground, the random battleground, 2v2 arena and the
rated battleground. Level-80 players asking for a normal battleground are
queued for the random one (`JoinQueueType`).

#### `GsAI`

A command is a record whose kind is one of the instructions that change the
interpreter's state. Say, yell, summon, faction, morph, react and timer
commands change none of it and are `nop`, as are casts and kills at a fixed
target. A cast or kill at a random target (`GSST_RANDOM`) is `random`:
`GS_SelectTarget` draws `rr` from the threat list's length, which is up to
the constant `MaxThreat` (2) while `threat` holds and 0 otherwise. For an
empty list `size() - 1` wraps, so `rr` stands for a negative, zero or
positive int32 (`RandomRR`). A positive `rr` makes the loop run forever, and
the map thread stays in `UpdateAI` holding `is_updating_lock` (`upc =
"loop"`). An `rr` of 0 or less on an empty list dereferences `end()`, which
is a fault. Only the `gsai_script` run puts a random cast in the combat
script (`RandomCast`). The outcome of an IF condition (health, timers,
chance) is chosen nondeterministically.
`UpdateAI` is split at the point where it has read `my_commands` and
`com_counter`, so that an UNHOOK on another thread can fall between the read
and the use. That read is a data race, so the use sees either the cached or
the current values. The constant `Concurrent` says whether DoAction and
`UpdateAI` may interleave.

The motion master is reduced to the movement that runs (`motion`): none,
the `MovePoint(100)` of a WALK or RUN command, or a chase. `Aggro` starts a
chase, and so does `UpdateAI` when `SelectVictim` returns a new victim
(line 364) and the creature calls `AttackStart` (line 367). A chase replaces
a point movement, and `MovementInform(100)` comes only for a point movement
that still runs.

`CreatureAI::EnterEvadeMode` is assumed to call `Reset`, as in TrinityCore.
The engine is not in the repository.

#### `Bethtilac`

`SpiderAI` (the timer list: `AddTimer`, `ClearTimers`, `UpdateTimers`)
comes from a header that is not in the repository. The model assumes:

- there is one timer per event, and adding an event again replaces it;
- a repeating timer is re-armed with its period;
- the events due in one update are handled in any order.

The definitions `AddTimer`, `CountDown` and `Due` stand for that code and
have no map entry. Only the timer events that drive the phase machine are
kept; casts and summons act on the world alone. Time counts in one-second
updates, and energy in steps of 100. The raid is an environment variable:

- `engaged`: the boss has a victim;
- `away`: players are alive within 100 yards but not attackable;
- `wiped`.

`oldPhase` and `combatCheckEnabled` are not initialised by the constructor,
so `Init` allows every value. The `PHASE_IDLE` case of `EnterPhase` is dead:
no `SetPhase(PHASE_IDLE)` exists. The `SpiderAI::EnterEvadeMode` branch of
`UpdateAI` is also dead: the instance data is `IN_PROGRESS` whenever the
phase is not IDLE.

`Bethtilac` implements `BethtilacEncounter`. The mapping takes the stage
from the phase (`StageOf`: IDLE is idle, TRANSFER_1 is climb, PHASE_1 is
web, TRANSFER_2 is descend, PHASE_2 is ground, and a dead boss is dead),
the casts from `devastationCounter`, and the door as it is. Every step of
`Bethtilac` is then a step of the abstract encounter or leaves the stage,
casts and door as they were.

#### `Shannox`

Damage is the raid's, so any creature in combat may drop below 30% health
and then die. A wipe resets every living creature of the encounter in one
step, and Shannox's `Reset` despawns the spears and the trap. A standing
prison is not among Shannox's summons and is left standing. Whether Riplimb will respawn is decided
when it dies (`respawn`), from whether Shannox is alive then (lines 808-817).
Riplimb's
`shannoxHP` and `riplimbHP` are always set and cleared together, so one
flag stands for both. Casts that change nothing the scripts read are left
out: Arcing Slash, Limb Rip, Face Rage, Separation Anxiety, Magma Rupture,
melee and the immolation trap. `GetData64(TYPE_SHANNOX)` is assumed to find
Shannox; the instance script that answers it is not in the repository.

## Runs

| Run | Result | What it shows |
|---|---|---|
| `session_single` | pass: `TypeOK` | One connection tries an account whose password is known, an IP-locked account and an unknown name, with every `A`. The statements of a logon proof go through the database worker's queue. Every handler, the worker and the ban expiries fire, and every state is well formed. This run supplies the coverage that the violation run below cannot. |
| `session_shared` | pass: `AutobanWithinLimit` | Two connections from two IPs fail passwords on one account, with the store atomic per call as the spec has it. The account ban comes by the time the limit of wrong passwords has been sent. |
| `account_actions` | violation of `LoginPerSpec` (`AccountStepNeedsPassword`, `AutobanWithinLimit`, `BanStopsLogon`, `ReconnectLoadsLatestKey`) | What spec 4.3, 7 and 8 say of an account fails in four ways. First, a client without the password acts for the account: a verifier with a leading zero byte is stored short and replaced on every challenge; `A = N` passes the `isZero` safeguard; a proof after a refused challenge runs with zero `b` and `v`; and a challenge after authentication rewrites `_login` while `_authed` stays set. Second, the query after `LOGIN_SET_FAILEDLOGINS` need not see the queued increment, so the autoban comes late (line 693). Third, the logon proof never re-checks bans, so a proof after the connection's own wrong passwords banned the account still sets `_authed` (line 680). Fourth, the session key is stored through the queue (line 650) but read back by a synchronous query (line 774), so a reconnect right after a logon loads the old key. Each conjunct is violated on its own. |
| `onread_rate` | pass: `TypeOK`, `DispatchRateBounded` | No `PeriodLimit + 1` handler calls fall within `TestPeriod` seconds, whatever is sent, split and returned. |
| `onread_contract` | violation of `OnReadPerSpec` | The dispatch contract of spec 4.3 and 5 fails in three ways. The time guard trips on packets spread over more than one window, and the row guard miscounts. A challenge that arrives without its body consumes the header, so the next read starts inside the packet. A handler that shuts the socket down and returns true lets `OnRead` call the handlers of the commands still buffered (`TornDownAtOnce`). |
| `bg_slots` | pass: `TypeOK`, `SlotsMatchQueue`, `RandomQueueExclusive` | Joins, invitations, ports, leaves and expiries keep every queue slot in step with a queue entry or the battleground entered, and the random queue exclusive. |
| `bg_rated_slots` | violation of `RatedJoinSound` (`SlotsMatchQueue` and no null group dereferenced) | With rated battlegrounds enabled, a rated join whose check failed still queues the group and gives its members slots; a rated join from a player outside a group dereferences a null group (line 974). Each conjunct is violated on its own. |
| `gsai_update` | pass: `TypeOK`, `SafeCommandFetch` | With one map thread, every order of hooks, script jumps, waits, movements and UNHOOK/REHOOK keeps the command read inside the loaded script. |
| `gsai_script` | violation of `RunsItsScript` | The interpreter does not always run its script. With DoAction on another thread, UNHOOK clears `my_commands` between `UpdateAI`'s check and its read. After an evade, the out-of-combat script is not loaded, because `Reset` undoes what `EnterEvadeMode` loaded. A cast at a random target never returns (`UpdateAIReturns`): `GS_SelectTarget` never decrements `rr` (line 258). A WAITFOR after a WALK waits forever once a new victim's chase (`AttackStart`, line 367) has replaced the point movement (`WaitsOnLiveMovement`). Each conjunct is violated on its own. |
| `bethtilac_pull` | pass: `TypeOK`, `DoorFollowsEncounter`, `PullProgresses`, `ImplementsEncounter` | Pulls with raid wipes, evades, re-pulls and the boss's death implement `BethtilacEncounter`: the climb, three devastations on the web, the descent, and no evade during a transfer. The door is closed exactly while the encounter is in progress, and a pull never stalls before phase 2 while the boss lives. |
| `shannox_traps` | pass: `TypeOK`, `EffectOnlyWhilePrisoned`, `CaughtDogFreed` | Across pulls, wipes, deaths and Riplimb's respawns, a unit keeps the crystal prison effect only while the prison of the trap that caught it stands. A caught dog is always freed by the prison's self-damage. |
| `shannox_dogs` | violation of `DogsPerDesign` | Riplimb never brings the spear back: `MovementInform(1)` sets `bossWait = 2` and nothing sets 1, so it keeps the spear visual and its immunity to traps. Rageface never casts Frenzied Devotion, because its `Reset` sets `ragefaceHP = true`. |

Every property of a passing run has a mutant in `PROJECT.json`: a plausible
bug in the mapped definition that TLC finds. The findings behind the
violation runs are in `PROJECT.json` under `findings`.

Other defects were found while modelling and have no run:

- In `gsai.cpp`, the `GSCR_MORPH` case has no `break` and falls through
  into the summon command. The model abstracts both to `nop`.

## Bounds

- **`AuthSession`.**
  - Two connections with one account: enough for the shared
    `failed_logins` and ban interleavings.
  - One connection with two accounts and an unknown name: enough for every
    refusal reason.
  - `WrongPass.MaxCount = 2` with `MaxFailed = 3`, so a ban and one wrong
    password after it both happen (`session_shared`).
  - `session_single` queues the logon proof's statements with at most 2
    waiting (`MaxPending`) and `MaxFailed = 2`. A wrong password whose own
    increment is not yet applied, and one that reads it applied, both
    happen, as do a success and a wrong password queued behind each other.
    A queue of 3 takes the run past 40 million states.
  - `account_actions` queues them with up to 3 waiting and `MaxFailed = 3`.
  - `MaxSalt = 2`, so a generated verifier can be regenerated once.
- **`AuthOnRead`.**
  - The guard constants are scaled down: 30 s and 10 packets become 2 s and
    2 packets; the row limit stays 3.
  - Up to 6 packets are sent over 6 seconds, with at most 2 buffered: enough
    for a burst, a lapse and a chain.
  - The violation run buffers 4.
- **`BattlegroundQueue`.**
  - Three players, two of them in a group, two of level 80.
  - Two slots per player, so the slot limit is reached.
- **`GsAI`.**
  - A combat script of 8 commands (lock, wait, if/endif, walk, waitfor,
    combatstop, unlock) and an out-of-combat script of 5 commands (ending in
    a goto).
  - Update diffs of 1 and 2 ms against a wait of 2, so a wait ends both
    exactly and overshooting.
- **`Bethtilac`.**
  - 82 energy steps are scaled to 2, SD_ENABLE to 3 updates and
    END_OF_PHASE_1 to 2.
  - This keeps the code's order: the end of phase 1 comes before the
    re-enable.
- **`Shannox`** (normal difficulty).
  - Up to two spears on the ground, so a second spear lands while Riplimb
    fetches or carries the first.
  - Riplimb's spear delay is one update, so an update both before and after
    it happens.
  - A prison dies after 3 self-damage ticks instead of 10, which keeps a
    respawn, a death and a wipe possible while it stands.
  - One trap and one prison at a time: every trap is caught by one unit,
    and the properties are about one trap's prisoner.

A run stops in these cases, and those runs say `CHECK_DEADLOCK FALSE`:

- `AuthOnRead` runs stop when the client stops sending or the socket is shut.
  That is a real end of a connection.
- `Bethtilac` stops after `JustDied`.
- `Shannox` stops once Shannox and both dogs are dead.

`AuthSession`, `BattlegroundQueue` and `GsAI` never stop, and deadlock is
checked.

## Fairness

- **Auth server.** The clients are adversarial, so no fairness is assumed
  and no liveness is stated.
- **`GsAI`.** No fairness and no liveness property. A wait is not bound to
  end: a chase started by `AttackStart` replaces the point movement a
  WAITFOR waits on, and the violation run shows this as a safety property
  (`WaitsOnLiveMovement`).
- **`Bethtilac`.**
  - `UpdateAI` runs on every update of a living creature, and a point
    movement ends. Both get weak fairness.
  - The raid's actions and `EnterCombat` get none.
- **`Shannox`.** Weak fairness goes to every creature's `UpdateAI`
  (Riplimb's, Rageface's, the trap's and the prison's). The map calls it on
  every update of a creature in the world. Riplimb's point movement ending
  and a Hurl Spear in flight landing get weak fairness too. Damage, deaths,
  wipes, Wary running out and the raid breaking a prison get none.

## Not modelled, and the plan

- **`TransportMgr`.** `LoadTransportTemplates` and `GeneratePath` run once
  per transport template at server start, on one thread. What `GeneratePath`
  computes (key-frame distances, acceleration and arrival times) comes from
  Catmull-Rom spline lengths, square roots and float-to-integer
  conversions. A model would replace all of these with integers, so it could
  not check the times. Its two numeric edges are listed as hazards:
  - `keyFrames.back()` on an empty vector when the first node is a teleport;
  - the wrap of `(i + lastStop) % size` when no frame is a stop frame.
- **`MoveSplineInit`.** It builds one spline from a unit's position and
  sends it in a packet. `Launch`, `Stop`, `MoveTo` and `SetFacing` are
  sequential. Their only state change is a movement-flag computation made in
  one call, and the rest is floating-point geometry and packet layout. The
  movement completions the scripts wait for (`MovementInform`) are modelled
  where they are used, in `GsAI` and `Shannox`.
- **Shannox's other parts.**
  - The immolation trap: its effects change nothing the other scripts read.
  - The casts without script state: Arcing Slash, Limb Rip, Face Rage's
    target swap, Separation Anxiety and Magma Rupture.
  - The order in which the three creatures evade. A wipe resets them in one
    step, so the dangling `pSpear` of a Riplimb still in combat after
    Shannox's `Reset` (line 726) is a hazard with a note.
  - A null `pRiplimb` (lines 205, 309, 324) depends on the instance script,
    which is not in the repository.
- **Realm-list framing** and patch-transfer resumption.
- **More than one database worker thread.** Workers could then apply queued
  statements out of order; the model keeps the default single worker. The
  statements of `_SetVSFields` and of ban expiry are applied when issued.
  `_SetVSFields` (line 343) goes through the same asynchronous `Execute`, so
  a second challenge that queries before the worker has applied it
  regenerates the salt and overwrites the pair. A client that computed its
  proof against the first salt then fails. Queuing it too would take
  `session_single` well past its 5 million states.
- **An abstract authentication spec** refined by `AuthSession`.

Out of reach for TLC: big-number modular arithmetic, SHA1 and MD5, patch-file
I/O, and the layout of packets.
