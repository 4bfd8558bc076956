CONSTANTS
    PowerSteps <- MC_PowerSteps
    SdEnableTime <- MC_SdEnableTime
    EndDelay <- MC_EndDelay
SPECIFICATION Spec
INVARIANTS
    TypeOK
    DoorFollowsEncounter
PROPERTIES
    PullProgresses
    ImplementsEncounter
\* the boss's death ends the encounter: nothing acts after JustDied
CHECK_DEADLOCK FALSE
