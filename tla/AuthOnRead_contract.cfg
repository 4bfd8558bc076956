\* Violation run: one property, with the guard constants scaled as in the
\* rate run; the client sends logon challenges, logon proofs and reconnect
\* challenges, up to 4 buffered at a time; a packet may arrive in two
\* segments.
CONSTANTS
    MaxChallengesInARow = 3
    TestPeriod = 2
    PeriodLimit = 2
    Cmds = {"LogonChallenge","LogonProof","ReconnectChallenge"}
    MaxTime = 6
    MaxBuffered = 4
    MaxSent = 5
SPECIFICATION Spec
INVARIANT OnReadPerSpec
CHECK_DEADLOCK FALSE
