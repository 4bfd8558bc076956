\* Several map threads: the script manager's DoAction runs on another
\* thread than the creature's UpdateAI.  Update diffs of 1 and 2 against
\* waits of 1 and 2; reloads may swap the script ids.  The creature
\* fights and evades.
CONSTANTS
    sc = sc  so = so  noId = noId  null = null
    Scripts <- MC_Scripts
    NoId <- noId
    Null <- null
    InitCombatId <- sc
    InitOocId <- so
    Diffs = {1, 2}
    RandomCast = TRUE
    MaxThreat = 2
    Concurrent = TRUE
SPECIFICATION Spec
INVARIANT RunsItsScript
