-------------------------- MODULE YieldMutexProofs --------------------------
(***************************************************************************)
(* The mutex of kernel/task/mutex.cpp, for any number of threads and any   *)
(* nesting: type correctness, mutual exclusion, the agreement between the  *)
(* owner field and the clients, and the refinement of ReentrantLock.       *)
(*                                                                         *)
(* OwnerAccount is inductive together with TypeOK: mutual exclusion and    *)
(* "never destroyed while held" say nothing of owner and rcc, which decide *)
(* who may unlock, so neither is inductive by itself.                      *)
(***************************************************************************)
EXTENDS YieldMutex, FiniteSetTheorems, TLAPS

IInv == TypeOK /\ OwnerAccount

(* A mutex that is not locked has no owner, hence no open acquisition.     *)
LEMMA FreeMeansNoDepth ==
    ASSUME IInv, state # "LOCKED"
    PROVE  owner = NoThread /\ \A t \in Threads : depth[t] = 0
  BY MutexAssumption DEF IInv, TypeOK, OwnerAccount

(* Calling, spinning and every refusal leave the mutex and the depths be.  *)
LEMMA QuietStep ==
    ASSUME IInv, UNCHANGED <<state, owner, rcc, waitQueue, depth, frees>>,
           spin' \in Threads \cup {NoThread},
           NEW t \in Threads, NEW f \in Functions \cup {"none", "free"},
           call' = [call EXCEPT ![t] = f]
    PROVE  IInv'
  BY DEF IInv, TypeOK, OwnerAccount

LEMMA TakeStep ==
    ASSUME IInv, NEW t \in Threads, LockTake(t)
    PROVE  IInv'
<1>1. owner = NoThread /\ \A u \in Threads : depth[u] = 0
  BY FreeMeansNoDepth DEF LockTake, Available
<1>2. TypeOK'
  BY <1>1 DEF IInv, TypeOK, LockTake, Return, Functions
<1>3. OwnerAccount'
  BY <1>1, MutexAssumption DEF IInv, TypeOK, OwnerAccount, LockTake, Return
<1>. QED  BY <1>2, <1>3 DEF IInv

LEMMA OwnedStep ==
    ASSUME IInv, NEW t \in Threads, LockOwned(t)
    PROVE  IInv'
<1>1. CASE Recursive
  <2>1. /\ owner = t /\ t # NoThread /\ rcc \in Nat /\ rcc > 0
        /\ rcc' = rcc + 1 /\ depth' = [depth EXCEPT ![t] = rcc + 1]
        /\ UNCHANGED <<state, owner, waitQueue, frees>> /\ Return(t)
    BY <1>1, MutexAssumption DEF IInv, TypeOK, OwnerAccount, LockOwned
  <2>2. TypeOK'
    BY <2>1 DEF IInv, TypeOK, Return
  <2>3. OwnerAccount'
    BY <2>1 DEF IInv, TypeOK, OwnerAccount
  <2>. QED  BY <2>2, <2>3 DEF IInv
<1>2. CASE ~Recursive
  <2>1. Refused(t)
    BY <1>2 DEF LockOwned
  <2>. QED  BY <2>1, QuietStep DEF Refused, Return, mutexVars
<1>. QED  BY <1>1, <1>2

LEMMA UnlockStep ==
    ASSUME IInv, NEW t \in Threads, Unlock(t)
    PROVE  IInv'
<1>1. owner = t /\ state = "LOCKED" /\ rcc \in Nat /\ rcc > 0 /\ depth[t] = rcc
  BY DEF IInv, TypeOK, OwnerAccount, Unlock, MayUnlock
<1>2. TypeOK'
  BY <1>1 DEF IInv, TypeOK, Unlock, Return, Functions, RccAfterUnlock, StateAfterUnlock
<1>3. OwnerAccount'
  BY <1>1, MutexAssumption
  DEF IInv, TypeOK, OwnerAccount, Unlock, Return, RccAfterUnlock, StateAfterUnlock
<1>. QED  BY <1>2, <1>3 DEF IInv

LEMMA DestroyStep ==
    ASSUME IInv, NEW t \in Threads, Destroy(t)
    PROVE  IInv'
<1>1. owner = NoThread /\ \A u \in Threads : depth[u] = 0
  BY FreeMeansNoDepth DEF Destroy, MayDestroy
<1>2. TypeOK'
  BY <1>1 DEF IInv, TypeOK, Destroy, Functions
<1>3. OwnerAccount'
  BY <1>1, MutexAssumption DEF IInv, TypeOK, OwnerAccount, Destroy
<1>. QED  BY <1>2, <1>3 DEF IInv

LEMMA Inductive ==
    ASSUME IInv, [Next]_vars
    PROVE  IInv'
<1>1. CASE UNCHANGED vars
  BY <1>1 DEF vars, IInv, TypeOK, OwnerAccount
<1>2. ASSUME NEW t \in Threads, NEW f \in Functions, Call(t, f)
      PROVE  IInv'
  BY <1>2, QuietStep DEF Call, IInv, TypeOK, mutexVars
<1>3. ASSUME NEW t \in Threads, SpinLock(t)
      PROVE  IInv'
  BY <1>3 DEF SpinLock, IInv, TypeOK, OwnerAccount, mutexVars
<1>4. ASSUME NEW t \in Threads, Body(t)
      PROVE  IInv'
  <2>1. CASE LockDestroyed(t) \/ UnlockRefused(t) \/ DestroyBusy(t)
    <3>1. Refused(t)
      BY <2>1 DEF LockDestroyed, UnlockRefused, DestroyBusy
    <3>. QED  BY <3>1, QuietStep DEF Refused, Return, mutexVars
  <2>2. CASE LockBusy(t)
    <3>1. call[t] \in Functions \cup {"none", "free"}
      BY DEF IInv, TypeOK
    <3>. QED  BY <2>2, <3>1, QuietStep DEF LockBusy, mutexVars
  <2>3. CASE FreeQueue(t)
    BY <2>3 DEF FreeQueue, IInv, TypeOK, OwnerAccount, mutexVars
  <2>. QED  BY <1>4, <2>1, <2>2, <2>3, OwnedStep, TakeStep, UnlockStep, DestroyStep DEF Body
<1>. QED  BY <1>1, <1>2, <1>3, <1>4 DEF Next

LEMMA InitInv == Init => IInv
  BY MutexAssumption DEF Init, IInv, TypeOK, OwnerAccount, Functions

(* The inductive invariant holds in every reachable state.                 *)
THEOREM InvariantThm == Spec => []IInv
  BY InitInv, Inductive, PTL DEF Spec

(* Every variable of the mutex keeps its type; in particular no client's   *)
(* nesting depth ever goes negative.                                       *)
THEOREM TypeThm == Spec => []TypeOK
  BY InvariantThm, PTL DEF IInv

(* owner, rcc and state agree with what mutex_lock and mutex_unlock        *)
(* returned to their callers.                                              *)
THEOREM OwnerAccountThm == Spec => []OwnerAccount
  BY InvariantThm, PTL DEF IInv

(* No two threads are between a successful mutex_lock and its mutex_unlock.*)
THEOREM MutualExclusionThm == Spec => []MutualExclusion
<1>1. IInv => MutualExclusion
  BY DEF IInv, TypeOK, OwnerAccount, MutualExclusion
<1>. QED  BY <1>1, InvariantThm, PTL

(* mutex_destroy never succeeds between a lock and its unlock.             *)
THEOREM NeverDestroyedHeldThm == Spec => []NeverDestroyedHeld
<1>1. IInv => NeverDestroyedHeld
  BY FreeMeansNoDepth DEF NeverDestroyedHeld
<1>. QED  BY <1>1, InvariantThm, PTL

(* The destroyers that have taken the wait queue with them; finitely many, *)
(* so that counting them is adding and subtracting one.                    *)
Destroyers == {t \in Threads : call[t] = "free"}

QueueInv == IsFiniteSet(Destroyers) /\ WaitQueueOwnedOnce

LEMMA QueueStep ==
    ASSUME IInv, QueueInv, [Next]_vars
    PROVE  QueueInv'
<1>1. Cardinality(Destroyers) \in Nat
  BY FS_CardinalityType DEF QueueInv
<1>2. ASSUME Destroyers' = Destroyers, waitQueue' = waitQueue, frees' = frees
      PROVE  QueueInv'
  BY <1>2 DEF QueueInv, WaitQueueOwnedOnce, Destroyers
<1>3. ASSUME NEW t \in Threads, NEW f \in Functions \cup {"none"}, call[t] # "free",
             call' = [call EXCEPT ![t] = f], waitQueue' = waitQueue, frees' = frees
      PROVE  QueueInv'
  BY <1>2, <1>3 DEF IInv, TypeOK, Destroyers, Functions
<1>4. CASE UNCHANGED vars
  BY <1>2, <1>4 DEF vars, mutexVars, Destroyers
<1>5. ASSUME NEW t \in Threads, \/ \E f \in Functions : Call(t, f)
                               \/ SpinLock(t)
      PROVE  QueueInv'
  BY <1>2, <1>3, <1>5 DEF Call, SpinLock, mutexVars, Destroyers
<1>6. ASSUME NEW t \in Threads, \/ LockDestroyed(t) \/ LockOwned(t) \/ LockTake(t) \/ LockBusy(t)
                               \/ Unlock(t) \/ UnlockRefused(t) \/ DestroyBusy(t)
      PROVE  QueueInv'
  <2>1. call[t] \in Functions /\ waitQueue' = waitQueue /\ frees' = frees
    BY <1>6 DEF LockDestroyed, LockOwned, LockTake, LockBusy, Unlock, UnlockRefused,
                DestroyBusy, Refused, Locking, mutexVars, Functions
  <2>2. \E f \in Functions \cup {"none"} : call' = [call EXCEPT ![t] = f]
    BY <1>6, <2>1 DEF LockDestroyed, LockOwned, LockTake, LockBusy, Unlock, UnlockRefused,
                      DestroyBusy, Refused, Return, IInv, TypeOK
  <2>. QED  BY <1>3, <2>1, <2>2 DEF Functions
<1>7. ASSUME NEW t \in Threads, Destroy(t)
      PROVE  QueueInv'
  <2>1. CASE waitQueue
    <3>1. Destroyers' = Destroyers \cup {t} /\ t \notin Destroyers
      BY <1>7, <2>1 DEF Destroy, QueueToFree, Destroyers, IInv, TypeOK
    <3>2. IsFiniteSet(Destroyers') /\ Cardinality(Destroyers') = Cardinality(Destroyers) + 1
      BY <3>1, FS_AddElement DEF QueueInv
    <3>. QED  BY <1>1, <1>7, <2>1, <3>2
              DEF Destroy, QueueInv, WaitQueueOwnedOnce, Destroyers, IInv, TypeOK
  <2>2. CASE ~waitQueue
    <3>1. call' = [call EXCEPT ![t] = "none"] /\ waitQueue' = waitQueue /\ frees' = frees
      BY <1>7, <2>2 DEF Destroy, QueueToFree, IInv, TypeOK
    <3>. QED  BY <1>3, <1>7, <3>1 DEF Destroy
  <2>. QED  BY <2>1, <2>2
<1>8. ASSUME NEW t \in Threads, FreeQueue(t)
      PROVE  QueueInv'
  <2>1. Destroyers' = Destroyers \ {t} /\ t \in Destroyers
    BY <1>8 DEF FreeQueue, Destroyers, IInv, TypeOK
  <2>2. IsFiniteSet(Destroyers') /\ Cardinality(Destroyers') = Cardinality(Destroyers) - 1
    BY <2>1, FS_RemoveElement DEF QueueInv
  <2>. QED  BY <1>1, <1>8, <2>2
            DEF FreeQueue, mutexVars, QueueInv, WaitQueueOwnedOnce, Destroyers, IInv, TypeOK
<1>. QED  BY <1>4, <1>5, <1>6, <1>7, <1>8 DEF Next, Body

(* mutex_destroy by any number of threads at once: the wait queue is never *)
(* freed twice and never leaked.                                           *)
THEOREM WaitQueueOwnedOnceThm == Spec => []WaitQueueOwnedOnce
<1>1. Init => QueueInv
  <2>1. Init => Destroyers = {}
    BY DEF Init, Destroyers
  <2>. QED  BY <2>1, FS_EmptySet DEF Init, QueueInv, WaitQueueOwnedOnce, Destroyers
<1>2. QueueInv => WaitQueueOwnedOnce
  BY DEF QueueInv
<1>. QED  BY <1>1, <1>2, QueueStep, InvariantThm, PTL DEF Spec

(* Every step of the mutex is a step of the reentrant lock or a stutter.   *)
LEMMA StepRefines ==
    ASSUME IInv, [Next]_vars
    PROVE  [Abstract!LockNext]_(Abstract!lockVars)
<1>1. CASE UNCHANGED <<state, owner, rcc>>
  BY <1>1 DEF Abstract!lockVars
<1>2. ASSUME NEW t \in Threads, LockTake(t)
      PROVE  Abstract!Acquire(t)
  <2>1. owner = NoThread
    BY <1>2, FreeMeansNoDepth DEF LockTake, Available
  <2>. QED  BY <1>2, <2>1 DEF LockTake, Available, Abstract!Acquire
<1>3. ASSUME NEW t \in Threads, LockOwned(t), Recursive
      PROVE  Abstract!Reenter(t)
  BY <1>3 DEF LockOwned, Dead, Abstract!Reenter
<1>4. ASSUME NEW t \in Threads, Unlock(t)
      PROVE  Abstract!Release(t)
  BY <1>4 DEF Unlock, MayUnlock, Dead, RccAfterUnlock, StateAfterUnlock,
              IInv, TypeOK, Abstract!Release
<1>5. ASSUME NEW t \in Threads, Destroy(t)
      PROVE  [Abstract!Retire]_(Abstract!lockVars)
  <2>1. owner = NoThread /\ rcc = 0
    BY <1>5, FreeMeansNoDepth DEF Destroy, MayDestroy, IInv, TypeOK, OwnerAccount
  <2>2. state' = "DESTROYED" /\ owner' = owner /\ rcc' = rcc
    BY <1>5, <2>1 DEF Destroy
  <2>. QED  BY <2>1, <2>2 DEF Abstract!Retire, Abstract!lockVars
<1>6. ASSUME NEW t \in Threads, Body(t)
      PROVE  \/ UNCHANGED <<state, owner, rcc>>
             \/ LockTake(t) \/ Unlock(t) \/ Destroy(t)
             \/ LockOwned(t) /\ Recursive
  BY <1>6 DEF Body, LockDestroyed, LockOwned, LockBusy, UnlockRefused,
              DestroyBusy, FreeQueue, Refused, mutexVars
<1>7. CASE Next
  <2>1. ASSUME NEW t \in Threads
        PROVE  /\ \A f \in Functions : Call(t, f) => UNCHANGED <<state, owner, rcc>>
               /\ SpinLock(t) => UNCHANGED <<state, owner, rcc>>
    BY DEF Call, SpinLock, mutexVars
  <2>. QED  BY <1>1, <1>2, <1>3, <1>4, <1>5, <1>6, <1>7, <2>1 DEF Next, Abstract!LockNext
<1>. QED  BY <1>1, <1>7 DEF vars

(* The mutex of kernel/task/mutex.cpp implements the reentrant lock.       *)
THEOREM RefinementThm == Spec => RefinesLock
<1>1. Init => Abstract!LockInit
  BY DEF Init, Abstract!LockInit
<1>. QED  BY <1>1, StepRefines, InvariantThm, PTL DEF Spec, RefinesLock, Abstract!LockSpec
=============================================================================
