\* Two processes of two threads, nesting twice, two purges of the home.
SPECIFICATION FairSpec
CONSTANTS
    t1 = t1
    t2 = t2
    t3 = t3
    t4 = t4
    p1 = p1
    p2 = p2
    Threads = {t1, t2, t3, t4}
    Procs = {p1, p2}
    Home <- MCHome
    MaxBlocks = 2
    MaxPurge = 2
    NoThread = NoThread
    NoProc = NoProc
INVARIANTS
    TypeOK
    MutualExclusion
    BlocksHeld
    NothingLeaks
PROPERTIES
    ImplementsMutex
    EntryEnds
