\* A routable, an unregistered and a rejected message share two slots; two faults.
CONSTANTS
    m1 = m1
    m2 = m2
    m3 = m3
    e1 = e1
    e2 = e2
    None = None
    Worker = {w1, w2}
    Message = {m1, m2, m3}
    Event = {e1, e2}
    EventOf <- MixedEvents
    Routable = {m1}
    Unknown = {m2}
    Rejected = {m3}
    NHandlers = 1
    MaxFaults = 2
SPECIFICATION FairSpec
PROPERTY EventuallyAcked
