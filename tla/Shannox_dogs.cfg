\* Riplimb returning the spear and Rageface's Frenzied Devotion, under the
\* fairness of creature updates and movements.
CONSTANTS
    Heroic <- MC_Heroic
    MaxSpears <- MC_MaxSpears
    SpearDelayTicks <- MC_SpearDelayTicks
    PrisonHits <- MC_PrisonHits
SPECIFICATION Spec
PROPERTIES DogsPerDesign
CHECK_DEADLOCK FALSE
