\* Two sessions under one key: is a suppressed notification one that was sent?
CONSTANTS
    Sender = {s1, s2}
    Key = {k1}
    Disabled = {}
    MaxRetries = 0
    MaxStarts = 2
    None = None
SPECIFICATION Spec
INVARIANT ToldIsSent
CHECK_DEADLOCK FALSE
