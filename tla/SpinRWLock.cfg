SPECIFICATION LockLiveSpec
CONSTANTS
    t1 = t1
    t2 = t2
    t3 = t3
    Threads <- MCThreads
    WriterMask = 4
INVARIANTS LockWord
PROPERTIES RefinesRWLock SomeoneEnters
