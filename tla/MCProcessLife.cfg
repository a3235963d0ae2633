\* Four processes in three slots; the children may have two threads
CONSTANTS
    Slots = {1, 2, 3}
    Tids = {1, 2}
    MaxPid = 4
    Codes <- CodeOfThread
    Kinds <- Makes
    Kernel = Kernel
    Malloc <- LowestFree
    Threaded = {2, 3}
SPECIFICATION Spec
INVARIANTS ChildrenExact TablesAccounted BorrowedSpaceAlive
PROPERTIES KeepsContract WaitEnds VforkReturns
CHECK_DEADLOCK FALSE
