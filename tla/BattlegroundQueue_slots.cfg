\* Two queue slots per player (PLAYER_MAX_BATTLEGROUND_QUEUES), rated
\* battlegrounds disabled in the configuration, the leader has an arena team.
CONSTANTS
    p1 = p1  p2 = p2  p3 = p3
    Players = {p1, p2, p3}
    Group <- MC_Group
    Leader = p1
    High <- MC_High
    MaxQueues = 2
    RatedEnabled = FALSE
    HasArenaTeam = TRUE
SPECIFICATION Spec
INVARIANT TypeOK
INVARIANT SlotsMatchQueue
INVARIANT RandomQueueExclusive
