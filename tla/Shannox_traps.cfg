\* The crystal trap and prison, the spear fetch and the dogs' deaths and
\* respawns.  The encounter stops once Shannox and his dogs are dead.
CONSTANTS
    Heroic <- MC_Heroic
    MaxSpears <- MC_MaxSpears
    SpearDelayTicks <- MC_SpearDelayTicks
    PrisonHits <- MC_PrisonHits
SPECIFICATION Spec
INVARIANTS TypeOK EffectOnlyWhilePrisoned
PROPERTIES CaughtDogFreed
CHECK_DEADLOCK FALSE
