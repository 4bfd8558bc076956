\* One map thread: DoAction runs between two UpdateAI calls.  Update diffs
\* of 1 and 2 against waits of 1 and 2; reloads may swap the script ids.
CONSTANTS
    sc = sc  so = so  noId = noId  null = null
    Scripts <- MC_Scripts
    NoId <- noId
    Null <- null
    InitCombatId <- sc
    InitOocId <- so
    Diffs = {1, 2}
    RandomCast = FALSE
    MaxThreat = 2
    Concurrent = FALSE
SPECIFICATION Spec
INVARIANT TypeOK
INVARIANT SafeCommandFetch
