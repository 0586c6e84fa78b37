\* One delivery at a time, one fault: is a handler executed at most once?
CONSTANTS
    m1 = m1
    m2 = m2
    m3 = m3
    e1 = e1
    e2 = e2
    None = None
    Worker = {w1}
    Message = {m1, m2}
    Event = {e1}
    EventOf <- SameEvent
    Routable = {m1, m2}
    Unknown = {}
    Rejected = {}
    NHandlers = 1
    MaxFaults = 1
SPECIFICATION Spec
INVARIANT AtMostOncePerHandler
CHECK_DEADLOCK FALSE
