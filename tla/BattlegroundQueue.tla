--------------------------- MODULE BattlegroundQueue --------------------------
(***************************************************************************)
(* The battleground queue handlers of the world server                     *)
(* (BattleGroundHandler.cpp): joining a battleground, arena or rated       *)
(* battleground queue alone or as a group, answering an invitation         *)
(* (CMSG_BATTLEFIELD_PORT: enter or leave the queue), and leaving a        *)
(* battleground.                                                            *)
(*                                                                          *)
(* Two records must agree: the player's queue slots (Player::              *)
(* m_bgBattlegroundQueueID, PLAYER_MAX_BATTLEGROUND_QUEUES entries, each    *)
(* holding a queue type or none) and the entries of the BattlegroundQueue   *)
(* objects (GroupQueueInfo, waiting or invited).  A slot is also kept while *)
(* the player is inside the battleground of that queue type; the status     *)
(* handler relies on it.                                                    *)
(*                                                                          *)
(* Player, Group, BattlegroundQueue and BattlegroundMgr are engine classes  *)
(* that are not part of this repository.  What the handlers call of them is *)
(* modelled by what those calls do to the two records; the engine's own     *)
(* steps (the queue update inviting players, invitations running out,       *)
(* deserter debuffs running out) are environment actions.                   *)
(***************************************************************************)
EXTENDS Naturals, FiniteSets

CONSTANTS
    Players,        \* the players of the model
    Group,          \* members of the one group (no group: not a member)
    Leader,         \* its leader
    High,           \* players of level 80 or more
    MaxQueues,      \* PLAYER_MAX_BATTLEGROUND_QUEUES
    RatedEnabled,   \* CONFIG_RATED_BATTLEGROUND_ENABLED
    HasArenaTeam    \* the leader has an arena team for the 2v2 slot

\* Queue types: a normal battleground (e.g. Warsong Gulch), the random
\* battleground queue, the 2v2 arena queue and the rated battleground queue.
QTypes == {"ws", "rb", "arena", "rated"}
Slots == 0..(MaxQueues - 1)

ASSUME /\ Group \subseteq Players /\ Leader \in Group
       /\ High \subseteq Players
       /\ MaxQueues \in Nat \ {0}
       /\ RatedEnabled \in BOOLEAN /\ HasArenaTeam \in BOOLEAN

VARIABLES
    slots,      \* slots[p][i]: queue type of p's queue slot i, or "none"
    qstate,     \* qstate[q][p]: p's entry in queue q: "none", "wait", "invited"
    inBg,       \* queue type of the battleground p is in (bgId set), or "none"
    deserter,   \* players with the deserter debuff
    crashed     \* the world server dereferenced a null pointer

vars == <<slots, qstate, inBg, deserter, crashed>>

TypeOK ==
    /\ slots \in [Players -> [Slots -> QTypes \cup {"none"}]]
    /\ qstate \in [QTypes -> [Players -> {"none", "wait", "invited"}]]
    /\ inBg \in [Players -> QTypes \cup {"none"}]
    /\ deserter \subseteq Players
    /\ crashed \in BOOLEAN

Init ==
    /\ slots = [p \in Players |-> [i \in Slots |-> "none"]]
    /\ qstate = [q \in QTypes |-> [p \in Players |-> "none"]]
    /\ inBg = [p \in Players |-> "none"]
    /\ deserter = {}
    /\ crashed = FALSE

-----------------------------------------------------------------------------
(* Player queue-slot bookkeeping (engine).                                  *)

\* The queue types p holds a slot for (InBattlegroundQueue is SlotTypes # {}).
SlotTypes(p) == {slots[p][i] : i \in Slots} \ {"none"}

HasFreeSlot(p) == \E i \in Slots : slots[p][i] = "none"

\* AddBattlegroundQueueId: the first free slot takes q; none free, no change.
AddSlot(s, q) ==
    IF \E i \in Slots : s[i] = "none"
    THEN LET i == CHOOSE i \in Slots : s[i] = "none" /\ \A j \in Slots : s[j] = "none" => i <= j
         IN [s EXCEPT ![i] = q]
    ELSE s

\* Variant of RemoveSlot that clears the slot to a number, not the none marker.
RemoveSlotBlank(s, q) == [i \in Slots |-> IF s[i] = q THEN "" ELSE s[i]]

\* RemoveBattlegroundQueueId.
RemoveSlot(s, q) == [i \in Slots |-> IF s[i] = q THEN "none" ELSE s[i]]

\* Slots for q added to every player of ps, queue entries unchanged.
AddSlots(ps, q) ==
    slots' = [p \in Players |-> IF p \in ps THEN AddSlot(slots[p], q) ELSE slots[p]]

\* BattlegroundQueue::AddGroup: every player of ps waits in queue q.
AddGroup(ps, q) ==
    qstate' = [qstate EXCEPT ![q] = [p \in Players |-> IF p \in ps THEN "wait" ELSE @[p]]]

\* Group::CanJoinBattlegroundQueue returns ERR_BATTLEGROUND_NONE: every
\* member is in the leader's level bracket, not queued for q, not in the
\* random queue, not queued at all when q is the random queue, free of the
\* deserter debuff unless q is an arena, and has a free queue slot.
GroupCanJoin(q) ==
    \A m \in Group :
        /\ (m \in High) = (Leader \in High)
        /\ q \notin SlotTypes(m)
        /\ "rb" \notin SlotTypes(m)
        /\ q = "rb" => SlotTypes(m) = {}
        /\ q # "arena" => m \notin deserter
        /\ HasFreeSlot(m)

-----------------------------------------------------------------------------
(* The handlers.                                                            *)

\* Players of level 80 or more asking for a normal battleground are queued
\* for the random battleground instead.
JoinQueueType(p, t) == IF p \in High /\ t = "ws" THEN "rb" ELSE t

\* Variant of SoloRefusal whose ERR_IN_NON_RANDOM_BG check only looks at
\* the player's level.
SoloRefusalLevelOnly(p, q) ==
    CASE p \in deserter                           -> "deserters"
      [] "rb" \in SlotTypes(p)                    -> "in_random_bg"
      [] p \notin High /\ q = "rb"                -> "in_non_random_bg"
      [] q \in SlotTypes(p)                       -> "already_queued"
      [] ~HasFreeSlot(p)                          -> "too_many_queues"
      [] OTHER                                    -> "none"

\* Why a solo join of queue q is refused, in the order the handler checks.
SoloRefusal(p, q) ==
    CASE p \in deserter                           -> "deserters"
      [] "rb" \in SlotTypes(p)                    -> "in_random_bg"
      [] (SlotTypes(p) # {} \/ p \notin High) /\ q = "rb" -> "in_non_random_bg"
      [] q \in SlotTypes(p)                       -> "already_queued"
      [] ~HasFreeSlot(p)                          -> "too_many_queues"
      [] OTHER                                    -> "none"

\* CMSG_BATTLEMASTER_JOIN for battleground type t, alone or as a group.
\* Ignored while the player is in a battleground; a group join needs the
\* leader and is refused as a whole when any member cannot join.
BattlemasterJoin(p, t, asGroup) ==
    LET q == JoinQueueType(p, t) IN
    /\ inBg[p] = "none"
    /\ IF ~asGroup
       THEN /\ SoloRefusal(p, q) = "none"
            /\ AddGroup({p}, q)
            /\ AddSlots({p}, q)
       ELSE /\ p \in Group /\ p = Leader
            /\ GroupCanJoin(q)
            /\ AddGroup(Group, q)
            /\ AddSlots(Group, q)
    /\ UNCHANGED <<inBg, deserter, crashed>>

\* CMSG_BATTLEMASTER_JOIN_ARENA (always rated and as a group): the leader
\* queues the group for the 2v2 arena if it may join and has an arena team.
BattlemasterJoinArena(p) ==
    /\ inBg[p] = "none"
    /\ p \in Group /\ p = Leader
    /\ GroupCanJoin("arena")
    /\ HasArenaTeam
    /\ AddGroup(Group, "arena")
    /\ AddSlots(Group, "arena")
    /\ UNCHANGED <<inBg, deserter, crashed>>

\* CMSG_BATTLEMASTER_JOIN_RATED: any player, grouped or not.  With no group
\* the handler calls CanJoinBattlegroundQueue on a null Group.  The queue
\* entry is added when CanJoinBattlegroundQueue fails; the members' slots
\* when it succeeds.
BattlemasterJoinRated(p) ==
    /\ RatedEnabled
    /\ IF p \notin Group
       THEN crashed' = TRUE /\ UNCHANGED <<slots, qstate>>
       ELSE /\ IF ~GroupCanJoin("rated")
               THEN AddGroup(Group, "rated") /\ UNCHANGED slots
               ELSE AddSlots(Group, "rated") /\ UNCHANGED qstate
            /\ UNCHANGED crashed
    /\ UNCHANGED <<inBg, deserter>>

\* Variant of LeaveQueue that leaves the player's slot to RemovePlayer.
LeaveQueueKeepSlot(p, q) ==
    /\ qstate' = [qstate EXCEPT ![q][p] = "none"]
    /\ UNCHANGED slots

\* The port handler's leave-queue step: the slot is released
\* (RemoveBattlegroundQueueId) and the queue entry removed (RemovePlayer).
LeaveQueue(p, q) ==
    /\ slots' = [slots EXCEPT ![p] = RemoveSlot(@, q)]
    /\ qstate' = [qstate EXCEPT ![q][p] = "none"]

\* The action the port handler carries out: a battleground (not arena) is
\* not entered with the deserter debuff; the player leaves the queue.
PortAction(p, q, action) ==
    IF action = 1 /\ q \in {"ws", "rb"} /\ p \in deserter THEN 0 ELSE action

\* CMSG_BATTLEFIELD_PORT for queue slot i: enter (1) or leave the queue (0).
\* Entering needs an invitation; it removes the queue entry, takes the
\* player out of the battleground it is in (RemovePlayerAtLeave releases
\* that slot) and sets the new battleground.  Leaving an arena queue is
\* refused once the arena instance exists (the player is invited).
BattlefieldPort(p, i, action) ==
    LET q == slots[p][i] IN
    /\ q # "none"
    /\ qstate[q][p] # "none"
    /\ action = 1 => qstate[q][p] = "invited"
    /\ IF PortAction(p, q, action) = 1
       THEN /\ qstate' = [qstate EXCEPT ![q][p] = "none"]
            /\ slots' = IF inBg[p] # "none"
                        THEN [slots EXCEPT ![p] = RemoveSlot(@, inBg[p])]
                        ELSE slots
            /\ inBg' = [inBg EXCEPT ![p] = q]
       ELSE /\ ~(q = "arena" /\ qstate[q][p] = "invited")
            /\ LeaveQueue(p, q)
            /\ UNCHANGED inBg
    /\ UNCHANGED <<deserter, crashed>>

\* CMSG_LEAVE_BATTLEFIELD: Player::LeaveBattleground removes the player
\* (RemovePlayerAtLeave releases the slot) and, leaving a battleground that
\* is in progress, casts the deserter debuff.  Refused in combat before the
\* battleground ends; that case changes nothing.
LeaveBattlefield(p) ==
    /\ inBg[p] # "none"
    /\ slots' = [slots EXCEPT ![p] = RemoveSlot(@, inBg[p])]
    /\ inBg' = [inBg EXCEPT ![p] = "none"]
    /\ \E inProgress \in BOOLEAN :
          deserter' = IF inProgress /\ inBg[p] # "arena" THEN deserter \cup {p}
                                                         ELSE deserter
    /\ UNCHANGED <<qstate, crashed>>

-----------------------------------------------------------------------------
(* The engine.                                                              *)

\* BattlegroundQueue::Update invites a waiting player.
Invite(q, p) ==
    /\ qstate[q][p] = "wait"
    /\ qstate' = [qstate EXCEPT ![q][p] = "invited"]
    /\ UNCHANGED <<slots, inBg, deserter, crashed>>

\* BGQueueRemoveEvent: an unanswered invitation runs out; the player is
\* removed from the queue and its slot released.
InviteExpires(q, p) ==
    /\ qstate[q][p] = "invited"
    /\ LeaveQueue(p, q)
    /\ UNCHANGED <<inBg, deserter, crashed>>

DeserterExpires(p) ==
    /\ p \in deserter
    /\ deserter' = deserter \ {p}
    /\ UNCHANGED <<slots, qstate, inBg, crashed>>

Next ==
    /\ ~crashed
    /\ \/ \E p \in Players :
            \/ \E t \in {"ws", "rb"}, g \in BOOLEAN : BattlemasterJoin(p, t, g)
            \/ BattlemasterJoinArena(p)
            \/ BattlemasterJoinRated(p)
            \/ \E i \in Slots, a \in {0, 1} : BattlefieldPort(p, i, a)
            \/ LeaveBattlefield(p)
            \/ DeserterExpires(p)
       \/ \E q \in QTypes, p \in Players : Invite(q, p) \/ InviteExpires(q, p)

Spec == Init /\ [][Next]_vars

-----------------------------------------------------------------------------
(* Properties.                                                              *)

(* A player holds a queue slot for q exactly when it has an entry in queue *)
(* q or is inside the battleground of q: every handler that adds or removes *)
(* one of the two also does the other (the port handler's comment on       *)
(* RemoveBattlegroundQueueId), and the status handler reports queue and    *)
(* battleground state from the slots.                                       *)
SlotsMatchQueue ==
    \A p \in Players, q \in QTypes :
        q \in SlotTypes(p) <=> (qstate[q][p] # "none" \/ inBg[p] = q)

(* A player in the random battleground queue (waiting, invited or inside)  *)
(* holds no other queue, whether it joined alone or with its group:         *)
(* ERR_IN_RANDOM_BG and ERR_IN_NON_RANDOM_BG of the join handler.           *)
RandomQueueExclusive ==
    \A p \in Players : "rb" \in SlotTypes(p) => SlotTypes(p) = {"rb"}


(* A rated join leaves the world server running and every slot matching   *)
(* its queue entry. HandleBattlemasterJoinRated takes _player->GetGroup()  *)
(* and calls group->CanJoinBattlegroundQueue with no null check, so a      *)
(* player outside a group must be refused, not dereferenced.               *)
RatedJoinSound == SlotsMatchQueue /\ ~crashed

=============================================================================
