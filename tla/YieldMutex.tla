----------------------------- MODULE YieldMutex -----------------------------
(***************************************************************************)
(* The yield-type mutex of kernel/task/mutex.cpp.  Its fields are guarded  *)
(* by a spinlock taken with interrupts off; a thread that finds the mutex  *)
(* taken releases the spinlock, gives up its time slice and tries again:   *)
(* it is never put to sleep, so there is no wake-up to lose, but nothing   *)
(* orders the contenders either.                                           *)
(*                                                                         *)
(* An API call is three steps: Call (the caller has entered the function), *)
(* SpinLock (it holds mutex->lock) and one of the bodies below, which does *)
(* everything between spin_lock and spin_unlock and releases the spinlock. *)
(* scheduler_yield changes nothing here: a yielding thread is one whose    *)
(* call is still "lock" and which does not hold the spinlock.              *)
(***************************************************************************)
EXTENDS Naturals, FiniteSets

CONSTANTS
    Threads,    \* tasks with a TCB; get_current_task() is never NULL for them
    NoThread,   \* the NULL owner
    Recursive,  \* mutex->rec
    MaxDepth    \* bound: no thread nests more than MaxDepth acquisitions

ASSUME MutexAssumption ==
    /\ NoThread \notin Threads
    /\ Recursive \in BOOLEAN
    /\ MaxDepth \in Nat \ {0}

VARIABLES
    spin,       \* mutex->lock: the thread inside the critical section
    state,      \* mutex->state
    owner,      \* mutex->owner
    rcc,        \* mutex->rcc, the recursion count
    waitQueue,  \* mutex->wait_queue is not NULL
    call,       \* call[t]: the mutex function t is executing, or "none"
    depth,      \* depth[t]: lock calls that returned 0 minus such unlock calls
    frees       \* how many times queue_destroy was given the wait queue

mutexVars == <<state, owner, rcc, waitQueue>>
vars == <<spin, state, owner, rcc, waitQueue, call, depth, frees>>

Functions == {"lock", "trylock", "unlock", "destroy"}

TypeOK ==
    /\ spin \in Threads \cup {NoThread}
    /\ state \in {"UNLOCKED", "LOCKED", "DESTROYED"}
    /\ owner \in Threads \cup {NoThread}
    /\ rcc \in Nat
    /\ waitQueue \in BOOLEAN
    /\ call \in [Threads -> Functions \cup {"none", "free"}]
    /\ depth \in [Threads -> Nat]
    /\ frees \in Nat

\* mutex_create; queue_init found memory (a NULL wait queue changes nothing else)
Init ==
    /\ spin = NoThread
    /\ state = "UNLOCKED"
    /\ owner = NoThread
    /\ rcc = 0
    /\ waitQueue = TRUE
    /\ call = [t \in Threads |-> "none"]
    /\ depth = [t \in Threads |-> 0]
    /\ frees = 0

Call(t, f) ==
    /\ call[t] = "none"
    /\ f \in {"lock", "trylock"} => depth[t] < MaxDepth
    /\ call' = [call EXCEPT ![t] = f]
    /\ UNCHANGED <<spin, mutexVars, depth, frees>>

\* spin_lock: one `lock btsq` that found the bit clear
SpinLock(t) ==
    /\ call[t] \in Functions
    /\ spin = NoThread
    /\ spin' = t
    /\ UNCHANGED <<mutexVars, call, depth, frees>>

Locking(t) == spin = t /\ call[t] \in {"lock", "trylock"}

\* Mutant: mutex_lock does not look for MUTEX_DESTROYED.
DeadIgnored == FALSE

Dead == state = "DESTROYED"

\* spin_unlock and return: an error code leaves the caller's depth alone
Return(t) ==
    /\ spin' = NoThread
    /\ call' = [call EXCEPT ![t] = "none"]

Refused(t) == Return(t) /\ UNCHANGED <<mutexVars, depth, frees>>

\* -EINVAL
LockDestroyed(t) ==
    /\ Locking(t)
    /\ Dead
    /\ Refused(t)

\* The owner is back: one more level, or -EDEADLK if the mutex is not recursive
LockOwned(t) ==
    /\ Locking(t)
    /\ ~Dead
    /\ owner = t
    /\ IF Recursive
         THEN /\ rcc' = rcc + 1
              /\ depth' = [depth EXCEPT ![t] = @ + 1]
              /\ Return(t)
              /\ UNCHANGED <<state, owner, waitQueue, frees>>
         ELSE Refused(t)

\* Mutant: a taken mutex is taken again.
AvailableUnchecked(t) == owner # t /\ state # "DESTROYED"

Available(t) == owner # t /\ state = "UNLOCKED"

LockTake(t) ==
    /\ Locking(t)
    /\ Available(t)
    /\ state' = "LOCKED"
    /\ owner' = t
    /\ rcc' = 1
    /\ depth' = [depth EXCEPT ![t] = @ + 1]
    /\ Return(t)
    /\ UNCHANGED <<waitQueue, frees>>

\* Taken by another thread: mutex_lock yields and retries, trylock says -EBUSY
LockBusy(t) ==
    /\ Locking(t)
    /\ ~Dead
    /\ owner # t
    /\ state # "UNLOCKED"
    /\ spin' = NoThread
    /\ call' = [call EXCEPT ![t] = IF @ = "trylock" THEN "none" ELSE @]
    /\ UNCHANGED <<mutexVars, depth, frees>>

MayUnlock(t) == ~Dead /\ owner = t /\ state = "LOCKED" /\ rcc # 0

\* Mutant: the first unlock of a nested acquisition gives the mutex up.
RccAfterUnlockFlat == 0

RccAfterUnlock == rcc - 1

\* Mutant: the last unlock clears the owner but forgets the state.
StateAfterUnlockForgotten(n) == state

StateAfterUnlock(n) == IF n = 0 THEN "UNLOCKED" ELSE state

Unlock(t) ==
    /\ spin = t
    /\ call[t] = "unlock"
    /\ MayUnlock(t)
    /\ rcc' = RccAfterUnlock
    /\ owner' = IF RccAfterUnlock = 0 THEN NoThread ELSE owner
    /\ state' = StateAfterUnlock(RccAfterUnlock)
    /\ depth' = [depth EXCEPT ![t] = @ - 1]
    /\ Return(t)
    /\ UNCHANGED <<waitQueue, frees>>

\* -EINVAL after destroy, -EPERM for anybody but the owner
UnlockRefused(t) ==
    /\ spin = t
    /\ call[t] = "unlock"
    /\ ~MayUnlock(t)
    /\ Refused(t)

\* Mutant: mutex_destroy does not look for MUTEX_LOCKED.
MayDestroyAlways == TRUE

MayDestroy == state # "LOCKED"

\* -EBUSY
DestroyBusy(t) ==
    /\ spin = t
    /\ call[t] = "destroy"
    /\ ~MayDestroy
    /\ Refused(t)

\* Mutant: mutex_destroy frees the wait queue without asking whether it is there.
QueueToFreeUnchecked == TRUE

QueueToFree == waitQueue

\* The caller leaves with the wait queue, if it was still there, to free it
Destroy(t) ==
    /\ spin = t
    /\ call[t] = "destroy"
    /\ MayDestroy
    /\ state' = "DESTROYED"
    /\ owner' = NoThread
    /\ rcc' = 0
    /\ waitQueue' = FALSE
    /\ spin' = NoThread
    /\ call' = [call EXCEPT ![t] = IF QueueToFree THEN "free" ELSE "none"]
    /\ UNCHANGED <<depth, frees>>

\* queue_destroy, after the spinlock was released
FreeQueue(t) ==
    /\ call[t] = "free"
    /\ frees' = frees + 1
    /\ call' = [call EXCEPT ![t] = "none"]
    /\ UNCHANGED <<spin, mutexVars, depth>>

Body(t) ==
    \/ LockDestroyed(t) \/ LockOwned(t) \/ LockTake(t) \/ LockBusy(t)
    \/ Unlock(t) \/ UnlockRefused(t)
    \/ DestroyBusy(t) \/ Destroy(t) \/ FreeQueue(t)

Next == \E t \in Threads :
            \/ \E f \in Functions : Call(t, f)
            \/ SpinLock(t)
            \/ Body(t)

Spec == Init /\ [][Next]_vars

(***************************************************************************)
(* Fairness.  A thread inside a critical section has interrupts off and    *)
(* runs on (weak fairness).  A thread spinning on the bit retries without  *)
(* pause and the others hold it for a few instructions, so it does not     *)
(* lose the race for ever (strong fairness).  No fairness on Call, except  *)
(* that a holder comes back to unlock.                                     *)
(***************************************************************************)
Fairness == \A t \in Threads :
    /\ WF_vars(Body(t))
    /\ SF_vars(SpinLock(t))
    /\ WF_vars(depth[t] > 0 /\ Call(t, "unlock"))

FairSpec == Spec /\ Fairness

-----------------------------------------------------------------------------
(* Two threads whose lock calls both returned 0 and were not undone do not *)
(* exist: the critical sections clients build on mutex_lock exclude each   *)
(* other.                                                                  *)
MutualExclusion == \A s, t \in Threads : depth[s] > 0 /\ depth[t] > 0 => s = t

(* The mutex's own account of its holder agrees with what the clients were *)
(* told: owner is the one thread with open acquisitions, rcc is their      *)
(* number, and the state says LOCKED for exactly as long as there are any. *)
OwnerAccount ==
    /\ state = "LOCKED" <=> owner # NoThread
    /\ \A t \in Threads : depth[t] = IF owner = t THEN rcc ELSE 0
    /\ owner # NoThread <=> rcc > 0

(* mutex_destroy never takes the lock from under a holder, whatever was    *)
(* interleaved with it.                                                    *)
NeverDestroyedHeld == state = "DESTROYED" => \A t \in Threads : depth[t] = 0

(* The wait queue has one owner at any time: the mutex, a destroyer about  *)
(* to free it, or nobody after it was freed once.  Concurrent destroyers   *)
(* neither free it twice nor leak it.                                      *)
WaitQueueOwnedOnce ==
    (IF waitQueue THEN 1 ELSE 0)
        + Cardinality({t \in Threads : call[t] = "free"}) + frees = 1

(* A thread spinning in mutex_lock does not outlive the mutex: once it was *)
(* destroyed, every pending mutex_lock returns (with -EINVAL).             *)
DestroyReleasesWaiters ==
    \A t \in Threads : (state = "DESTROYED" /\ call[t] = "lock") ~> call[t] # "lock"

(* Deadlock freedom: while somebody is in mutex_lock, the mutex goes to    *)
(* somebody, unless it is destroyed or the contenders give up.  (Which of  *)
(* them gets it is up to the scheduler: see ConsoleLock.)                  *)
LockProgress ==
    (\E t \in Threads : call[t] = "lock")
        ~> \/ \E t \in Threads : depth[t] > 0
           \/ state = "DESTROYED"
           \/ \A t \in Threads : call[t] # "lock"

(* The mutex implements the reentrant lock its clients rely on.            *)
Abstract == INSTANCE ReentrantLock WITH
    holder  <- owner,
    count   <- rcc,
    retired <- state = "DESTROYED"

RefinesLock == Abstract!LockSpec
=============================================================================
