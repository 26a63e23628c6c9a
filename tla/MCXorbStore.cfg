SPECIFICATION Spec
SYMMETRY Symmetry
CONSTANTS
    Writers = {w1, w2}
    Objects = {h1, h2, h3}
    h1 = h1
    h2 = h2
    h3 = h3
    Tops = {top}
    top = top
    Leaves = {leafA, leafB}
    leafA = leafA
    leafB = leafB
    TopOf <- MCTopOf
    LeafOf <- MCLeafOf
    None = None
INVARIANTS
    IInv
    WatchedSurvives
PROPERTIES
    NothingDurableIsLost
    ImplementsStoredXorbs
