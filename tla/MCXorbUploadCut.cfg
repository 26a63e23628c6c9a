SPECIFICATION Spec
CONSTANTS
    Uploads = {u1, u2}
    Hashes = {h1}
    h1 = h1
    Layouts = {plain, packed}
    plain = plain
    Chunks = {c1}
    c1 = c1
    c2 = c2
    ChunksOf <- MCChunksOf
    Size <- MCSize
    Forged = Forged
    Permits = 2
    None = None
CHECK_DEADLOCK FALSE
INVARIANT
    ObjectMatchesRecord
