\* Every client is served once: CHECK_DEADLOCK FALSE.
CONSTANTS
    d1 = d1
    d2 = d2
    d3 = d3
    Downloads = {d1, d2, d3}
    TermOf <- MCTermOf
    Permits = 1
    Threads = 2
    Capacity = 1
SPECIFICATION Spec
INVARIANTS
    IInv
PROPERTIES
    ImplementsDelivery
    IndexAnswers
    HangUpFrees
    ReadersEnd
CHECK_DEADLOCK FALSE
