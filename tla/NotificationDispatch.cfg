\* Two sessions, one key in use and one of a disabled channel, one retry, three sends.
CONSTANTS
    Sender = {s1, s2}
    Key = {k1, off}
    Disabled = {off}
    MaxRetries = 1
    MaxStarts = 3
    None = None
SPECIFICATION FairSpec
INVARIANTS TypeOK DuplicatesNeedDoubt OrphanClaimsNeedLoss AuditConsistent
PROPERTY EverySendEnds
\* All starts used and every session ended is a normal end.
CHECK_DEADLOCK FALSE
