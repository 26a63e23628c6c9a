SPECIFICATION Spec
SYMMETRY Symmetry
CHECK_DEADLOCK FALSE
CONSTANTS
    Requests = {q1, q2}
    Shards <- MCShards
    Xorbs = {x1, x2}
    x1 = x1
    x2 = x2
    Chunks = {c1, c2}
    c1 = c1
    c2 = c2
    Files = {f1, f2, f3}
    f1 = f1
    f2 = f2
    f3 = f3
    Recipes = {r1, r1b, r2, r3}
    r1 = r1
    r1b = r1b
    r2 = r2
    r3 = r3
    Oids = {o1, o3}
    o1 = o1
    o3 = o3
    ChunksIn <- MCChunksIn
    Eligible <- MCEligible
    FileOf <- MCFileOf
    XorbsOf <- MCXorbsOf
    FirstRow <- MCFirstRow
    OidOf <- MCOidOf
    None = None
INVARIANT
    AcknowledgedOidResolves
