\* Two deliveries at once of up to three events about one document, and one fault.
CONSTANTS
    s1 = s1
    s2 = s2
    Slot = {s1, s2}
    MaxEvents = 3
    MaxFaults = 1
    Documents <- MCDocuments
SPECIFICATION Spec
SYMMETRY Interchangeable
INVARIANTS
    TypeOK
    NothingBeforePayment
    EachByItsTest
    CountsExplained
    RecordsInvoiced
    CalendarAgrees
    LinkClosed
    PointsBalanced
    OneConfirmation
    RefundsSettle
    NoSpoiler
    ToldOnce
    Reached
\* The bounded environment runs out of events.
CHECK_DEADLOCK FALSE
