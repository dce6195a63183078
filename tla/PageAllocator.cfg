SPECIFICATION Spec
CONSTANTS
    t1 = t1
    t2 = t2
    t3 = t3
    Threads <- TwoThreads
    MaxPages = 3
    MaxHeld = 2
SYMMETRY Symmetry
INVARIANTS ExclusiveUnlessStale AllPagesComplete NoPageLost
