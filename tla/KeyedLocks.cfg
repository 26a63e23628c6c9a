\* Three tasks are what it takes for one to drop its guard while a second waits
\* and a third arrives.
SPECIFICATION FairSpec
CONSTANTS
    Tasks = {t1, t2, t3}
    Keys = {k1, k2}
    Mutexes = {m1, m2, m3}
    NoMutex = NoMutex
    NoKey = NoKey
    NoTask = NoTask
INVARIANTS
    IInv
PROPERTIES
    ImplementsKeyedMutex
    WaiterServed
