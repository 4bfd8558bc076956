\* Every command byte, including unknown ones; the client sends up to 6
\* packets over 6 seconds, at most 2 buffered at a time.  The connection
\* legitimately stops: once the client stops writing or the socket is shut,
\* nothing else happens, so deadlock is not an error here.
CONSTANTS
    MaxChallengesInARow = 3
    TestPeriod = 2
    PeriodLimit = 2
    Cmds <- MC_AllCmds
    MaxTime = 6
    MaxBuffered = 2
    MaxSent = 6
SPECIFICATION Spec
INVARIANT TypeOK
INVARIANT DispatchRateBounded
CHECK_DEADLOCK FALSE
