\* The exchange is over some time: CHECK_DEADLOCK FALSE.
CONSTANTS
    Scripts <- MCScripts
    BodySize = 3
    Scratch = 3
    StdinRoom = 1
    StdoutRoom = 3
    StderrRoom = 1
    Window = 1
SPECIFICATION Spec
INVARIANTS
    IInv
    ResponseExact
PROPERTIES
    ExchangeEnds
    NoChildLeft
CHECK_DEADLOCK FALSE
