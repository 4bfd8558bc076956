\* Rated battlegrounds enabled; p3 has no group.
CONSTANTS
    p1 = p1  p2 = p2  p3 = p3
    Players = {p1, p2, p3}
    Group <- MC_Group
    Leader = p1
    High <- MC_High
    MaxQueues = 2
    RatedEnabled = TRUE
    HasArenaTeam = TRUE
SPECIFICATION Spec
INVARIANT RatedJoinSound
