--------------------------- MODULE ReentrantLock ---------------------------
(***************************************************************************)
(* What a mutex of this kernel promises its clients: at most one thread    *)
(* holds it, a recursive one counts the nested acquisitions of its holder, *)
(* it is retired only while nobody holds it and stays retired.  YieldMutex *)
(* (kernel/task/mutex.cpp) is shown to implement this specification.       *)
(***************************************************************************)
EXTENDS Naturals

CONSTANTS
    Threads,    \* the tasks that may call the lock
    NoThread,   \* the NULL owner
    Recursive   \* mutex_create's "recursive" argument

VARIABLES
    holder,     \* the thread inside, or NoThread
    count,      \* how many acquisitions the holder has not yet undone
    retired     \* mutex_destroy has succeeded

lockVars == <<holder, count, retired>>

LockInit ==
    /\ holder = NoThread
    /\ count = 0
    /\ retired = FALSE

Acquire(t) ==
    /\ ~retired
    /\ holder = NoThread
    /\ holder' = t
    /\ count' = 1
    /\ UNCHANGED retired

Reenter(t) ==
    /\ Recursive
    /\ holder = t
    /\ count' = count + 1
    /\ UNCHANGED <<holder, retired>>

Release(t) ==
    /\ holder = t
    /\ count > 0
    /\ count' = count - 1
    /\ holder' = IF count' = 0 THEN NoThread ELSE t
    /\ UNCHANGED retired

Retire ==
    /\ holder = NoThread
    /\ ~retired
    /\ retired' = TRUE
    /\ UNCHANGED <<holder, count>>

LockNext == Retire \/ \E t \in Threads : Acquire(t) \/ Reenter(t) \/ Release(t)

LockSpec == LockInit /\ [][LockNext]_lockVars
=============================================================================
