\* One session after the other: is a sent notification recorded?
CONSTANTS
    Sender = {s1}
    Key = {k1}
    Disabled = {}
    MaxRetries = 0
    MaxStarts = 2
    None = None
SPECIFICATION Spec
INVARIANT SentIsRecorded
CHECK_DEADLOCK FALSE
