\* Callbacks of Meta against the promise of the webhook's tests.
CONSTANTS
    Sent = {w1, w2}
    Received = {w3}
    Requests = {r1, r2}
    MaxPosts = 3
SPECIFICATION Spec
INVARIANT AcknowledgedKept
\* Meta and the worker may have nothing left to say.
CHECK_DEADLOCK FALSE
