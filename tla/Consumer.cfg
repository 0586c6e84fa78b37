\* Two processes, batches of two for a semaphore of one.
CONSTANTS
    Process = {p1, p2}
    Message = {m1, m2}
    MaxMessages = 2
    MaxConcurrency = 1
    MaxStops = 2
    MaxFaults = 2
SPECIFICATION FairSpec
INVARIANTS DeletedIsDone NothingAfterClose
PROPERTIES NoOverlap EventuallyDeleted
\* All messages deleted and every process shut down for good would be a normal end.
CHECK_DEADLOCK FALSE
