\* Every upload ends, so the system stops.
SPECIFICATION Spec
SYMMETRY Symmetry
CONSTANTS
    Uploads = {u1, u2, u3}
    Hashes = {h1, h2}
    h1 = h1
    Layouts = {plain, packed}
    plain = plain
    Chunks = {c1, c2}
    c1 = c1
    c2 = c2
    ChunksOf <- MCChunksOf
    Size <- MCSize
    Forged = Forged
    Permits = 2
    None = None
CHECK_DEADLOCK FALSE
INVARIANTS
    IInv
    UncutObjectMatchesRecord
    AckIsTrue
    DedupMatchesIndex
    StoredBytesAgree
PROPERTIES
    FirstWriterWins
    ImplementsStoredXorbs
