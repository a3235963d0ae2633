\* A recursive mutex, three threads: safety, refinement and progress.
CONSTANTS
    t1 = t1  t2 = t2  t3 = t3
    Threads = {t1, t2, t3}
    NoThread = NoThread
    Recursive = TRUE
    MaxDepth = 2
SPECIFICATION FairSpec
INVARIANTS OwnerAccount WaitQueueOwnedOnce
PROPERTIES RefinesLock DestroyReleasesWaiters LockProgress
