\* Nothing happens after a client has what it wanted: CHECK_DEADLOCK FALSE.
CONSTANTS
    a = a
    b = b
    Xorbs = {a, b}
    Unpacked <- MCUnpacked
    Boundary <- MCBoundary
    Files <- MCFiles
    TermsOf <- MCTermsOf
    LengthOf <- MCLengthOf
    StartOf <- MCStartOf
    Once <- MCOnce
    Blocks = {1, 2, 3, 12}
    U64Max = 12
    Unknown = Unknown
    Empty = Empty
    None = None
SPECIFICATION Spec
INVARIANTS
    IInv
    WalkExact
    OnceExact
    AnswerExact
PROPERTIES
    WalkEnds
CHECK_DEADLOCK FALSE
