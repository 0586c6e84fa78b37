\* Two handlers, three slots that race for two copies of one event, two faults.
CONSTANTS
    m1 = m1
    m2 = m2
    m3 = m3
    e1 = e1
    e2 = e2
    None = None
    Worker = {w1, w2, w3}
    Message = {m1, m2}
    Event = {e1}
    EventOf <- SameEvent
    Routable = {m1, m2}
    Unknown = {}
    Rejected = {}
    NHandlers = 2
    MaxFaults = 2
SPECIFICATION Spec
SYMMETRY WorkerSymmetry
INVARIANTS TypeOK HandlerExclusion AckedIsDone AllOrNothing RerunsNeedFaults NoWaitCycle
PROPERTIES CompletedNeverReruns ImplementsLedger
\* All messages deleted and every slot idle is a normal end.
CHECK_DEADLOCK FALSE
