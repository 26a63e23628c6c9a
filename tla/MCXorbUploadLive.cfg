\* Three uploads of one xorb, for two permits and one lock.
SPECIFICATION FairSpec
CONSTANTS
    Uploads = {u1, u2, u3}
    Hashes = {h1}
    h1 = h1
    Layouts = {plain}
    plain = plain
    Chunks = {c1}
    c1 = c1
    c2 = c2
    ChunksOf <- MCChunksOf
    Size <- MCSize
    Forged = Forged
    Permits = 2
    None = None
CHECK_DEADLOCK FALSE
PROPERTY
    UploadsEnd
