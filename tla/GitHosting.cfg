\* Every request is served once: CHECK_DEADLOCK FALSE.
CONSTANTS
    Requests = {q1, q2, q3}
    Repos = {r1}
    Absent = Absent
    Empty = Empty
    Foreign = Foreign
    None = None
SPECIFICATION Spec
INVARIANTS
    IInv
    NoInheritedFailure
PROPERTIES
    ImplementsHosting
    FirstTouchEnds
CHECK_DEADLOCK FALSE
