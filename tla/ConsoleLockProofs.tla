-------------------------- MODULE ConsoleLockProofs --------------------------
(***************************************************************************)
(* Proofs about ConsoleLock, for any number of cores and printing threads: *)
(* type correctness and the exclusion of the regions.                      *)
(*                                                                         *)
(* RegionsExclusive says what owner and rcc are for a task with open       *)
(* regions.  It takes the places (a task that waits has room for one more  *)
(* region, a thread woken to retry is a waiting one) and the switch (it is *)
(* off until kmain has passed its first test) to make it inductive.        *)
(***************************************************************************)
EXTENDS ConsoleLock, TLAPS

PlacesAgree ==
    /\ \A t \in Tasks : Waiting(t) => opens[t] < MaxNest
    /\ \A t \in retrying : Waiting(t)

Switch ==
    /\ Production => ~legacy
    /\ owner # NoTask <=> rcc > 0

IInv == TypeOK /\ PlacesAgree /\ Switch /\ RegionsExclusive

LEMMA NoTaskIsNoTask == NoTask \notin Tasks
BY ConsoleAssumption DEF Tasks

LEMMA ChoiceIsTask ==
    ASSUME TypeOK, NEW c \in Cpus, NEW sleepers \in SUBSET Threads
    PROVE  Choice(c, sleepers) \subseteq Tasks \cup {NoTask}
BY DEF Choice, IdleOf, Tasks, TypeOK

(* Scheduling moves no mutex, region or switch.                            *)
LEMMA SwitchingKeeps ==
    ASSUME IInv, TypeOK', PlacesAgree', UNCHANGED <<lockVars, legacy, opens, phase>>
    PROVE  IInv'
BY DEF IInv, Switch, RegionsExclusive, Production, lockVars

LEMMA InitIInv == Init => IInv
<1> SUFFICES ASSUME Init PROVE IInv
    OBVIOUS
<1> USE ConsoleAssumption
<1>1. TypeOK
    <2>1. cur \in [Cpus -> Tasks \cup {NoTask}]
        BY DEF Init, IdleOf, Tasks
    <2>2. opens \in [Tasks -> 0..MaxNest] /\ pc \in [Tasks -> Places]
        BY DEF Init, Places
    <2> QED BY <2>1, <2>2 DEF Init, TypeOK, Phases
<1>2. PlacesAgree /\ Switch
    BY DEF Init, PlacesAgree, Waiting, Switch
<1>3. RegionsExclusive
    BY DEF Init, RegionsExclusive
<1> QED BY <1>1, <1>2, <1>3 DEF IInv

LEMMA StepIInv == IInv /\ [Next]_vars => IInv'
<1> SUFFICES ASSUME IInv, [Next]_vars PROVE IInv'
    OBVIOUS
<1> USE ConsoleAssumption, NoTaskIsNoTask
<1>1. ASSUME NEW c \in Cpus, NEW woken \in SUBSET asleep, Tick(c, woken) PROVE IInv'
    <2>1. asleep' \subseteq Threads
        BY <1>1 DEF Tick, IInv, TypeOK
    <2>2. Choice(c, asleep') \subseteq Tasks \cup {NoTask}
        BY <2>1, ChoiceIsTask DEF IInv
    <2>3. TypeOK'
        BY <1>1, <2>1, <2>2 DEF Tick, IInv, TypeOK, lockVars
    <2>4. PlacesAgree'
        BY <1>1 DEF Tick, IInv, TypeOK, PlacesAgree, Waiting
    <2> QED BY <1>1, <2>3, <2>4, SwitchingKeeps DEF Tick
<1>2. ASSUME NEW t \in Tasks, Begin(t) PROVE IInv'
    <2>1. /\ pc[t] = "out" /\ opens[t] < MaxNest
          /\ UNCHANGED <<lockVars, legacy, cur, asleep, retrying, phase>>
        BY <1>2 DEF Begin, At, schedVars
    <2>2. CASE legacy
        <3>1. /\ off' = off + 1 /\ opens' = [opens EXCEPT ![t] = @ + 1]
              /\ pc' = pc
            BY <1>2, <2>2 DEF Begin
        <3>2. TypeOK' /\ PlacesAgree'
            BY <2>1, <3>1 DEF IInv, TypeOK, PlacesAgree, Waiting, lockVars
        <3> QED
            BY <2>1, <2>2, <3>2 DEF IInv, Switch, RegionsExclusive, Production, lockVars
    <2>3. CASE ~legacy
        <3>1. pc' = [pc EXCEPT ![t] = "lock"] /\ UNCHANGED <<off, opens>>
            BY <1>2, <2>3 DEF Begin
        <3>2. TypeOK' /\ PlacesAgree'
            BY <2>1, <3>1 DEF IInv, TypeOK, PlacesAgree, Waiting, Places, lockVars
        <3> QED BY <2>1, <3>1, <3>2, SwitchingKeeps
    <2> QED BY <2>2, <2>3
<1>3. ASSUME NEW t \in Tasks, Acquire(t) PROVE IInv'
    <2>1. TypeOK'
        BY <1>3 DEF Acquire, At, IInv, TypeOK, Places, PlacesAgree, Waiting
    <2>2. PlacesAgree'
        BY <1>3 DEF Acquire, At, IInv, TypeOK, PlacesAgree, Waiting
    <2>3. Switch'
        BY <1>3 DEF Acquire, Free, Locked, IInv, TypeOK, Switch, Production
    <2>4. RegionsExclusive'
        BY <1>3
        DEF Acquire, Free, Locked, IInv, TypeOK, Switch, RegionsExclusive, Production
    <2> QED BY <2>1, <2>2, <2>3, <2>4 DEF IInv
<1>4. ASSUME NEW t \in Tasks, Busy(t) PROVE IInv'
    <2>1. TypeOK'
        BY <1>4 DEF Busy, IInv, TypeOK, Places, lockVars, schedVars
    <2>2. PlacesAgree'
        BY <1>4 DEF Busy, At, IInv, TypeOK, PlacesAgree, Waiting, schedVars
    <2> QED BY <1>4, <2>1, <2>2, SwitchingKeeps DEF Busy
<1>5. ASSUME NEW t \in Tasks, HookYield(t) PROVE IInv'
    <2>1. HomeOf(t) \in Cpus /\ (t # Kmain => t \in Threads /\ HomeOf(t) = Home[t])
        BY DEF HomeOf, Tasks
    <2>2. asleep' \subseteq Threads /\ retrying' \subseteq Threads \ asleep'
        BY <1>5, <2>1 DEF HookYield, Sleeps, Suspend, IInv, TypeOK
    <2>3. Choice(HomeOf(t), asleep') \subseteq Tasks \cup {NoTask}
        BY <2>1, <2>2, ChoiceIsTask DEF IInv
    <2>4. cur' \in [Cpus -> Tasks \cup {NoTask}]
        BY <1>5, <2>1, <2>3 DEF HookYield, Sleeps, Suspend, IInv, TypeOK
    <2>5. TypeOK'
        BY <1>5, <2>2, <2>4 DEF HookYield, IInv, TypeOK, Places, lockVars
    <2>6. PlacesAgree'
        BY <1>5 DEF HookYield, At, IInv, TypeOK, PlacesAgree, Waiting
    <2> QED BY <1>5, <2>5, <2>6, SwitchingKeeps DEF HookYield
<1>6. ASSUME NEW t \in Tasks, End(t) PROVE IInv'
    <2>1. rcc' \in Nat /\ off' \in Nat /\ owner' \in Tasks \cup {NoTask}
        BY <1>6 DEF End, Locked, RccAfterUnlock, OffAfterEnable, IInv, TypeOK, lockVars
    <2>2. TypeOK'
        BY <1>6, <2>1 DEF End, IInv, TypeOK, Places, schedVars
    <2>3. Switch'
        BY <1>6 DEF End, Locked, RccAfterUnlock, IInv, TypeOK, Switch, Production, lockVars
    <2>4. RegionsExclusive'
        BY <1>6
        DEF End, Locked, RccAfterUnlock, IInv, TypeOK, Switch, RegionsExclusive, Production, lockVars
    <2>5. PlacesAgree'
        BY <1>6 DEF End, At, IInv, TypeOK, PlacesAgree, Waiting, schedVars
    <2> QED BY <2>2, <2>3, <2>4, <2>5 DEF IInv
<1>7. ASSUME NEW t \in Tasks, Rest(t) PROVE IInv'
    <2>1. t \in Threads /\ Home[t] \in Cpus /\ cur[Home[t]] = t /\ t \notin asleep /\ pc[t] = "out"
        BY <1>7 DEF Rest, At, HomeOf, Tasks
    <2>2. asleep' \subseteq Threads
        BY <1>7, <2>1 DEF Rest, Suspend, IInv, TypeOK
    <2>3. Choice(Home[t], asleep') \subseteq Tasks \cup {NoTask}
        BY <2>1, <2>2, ChoiceIsTask DEF IInv
    <2>4. TypeOK'
        BY <1>7, <2>1, <2>2, <2>3
        DEF Rest, Suspend, IInv, TypeOK, PlacesAgree, Waiting, Tasks, lockVars
    <2>5. PlacesAgree'
        BY <1>7 DEF Rest, IInv, PlacesAgree, Waiting
    <2> QED BY <1>7, <2>4, <2>5, SwitchingKeeps DEF Rest
<1>8. ASSUME NEW on \in BOOLEAN, SwitchTest(on) PROVE IInv'
    <2>1. TypeOK'
        BY <1>8 DEF SwitchTest, IInv, TypeOK, Phases, lockVars, schedVars
    <2>2. PlacesAgree'
        BY <1>8 DEF SwitchTest, IInv, PlacesAgree, Waiting, schedVars
    <2> QED
        BY <1>8, <2>1, <2>2 DEF SwitchTest, IInv, Switch, RegionsExclusive, Production, lockVars
<1>9. CASE SwitchWrite
    <2>1. TypeOK'
        BY <1>9 DEF SwitchWrite, IInv, TypeOK, Phases, lockVars, schedVars
    <2>2. PlacesAgree'
        BY <1>9 DEF SwitchWrite, IInv, PlacesAgree, Waiting, schedVars
    <2> QED
        BY <1>9, <2>1, <2>2 DEF SwitchWrite, IInv, Switch, RegionsExclusive, Production, lockVars
<1>10. CASE UNCHANGED vars
    BY <1>10 DEF vars, IInv, TypeOK, PlacesAgree, Waiting, Switch, RegionsExclusive, Production
<1> QED
    BY <1>1, <1>2, <1>3, <1>4, <1>5, <1>6, <1>7, <1>8, <1>9, <1>10 DEF Next, Advance

(* g_console_mutex and the tasks' places keep their types.                 *)
THEOREM TypeThm == Spec => []TypeOK
<1>1. IInv => TypeOK
  BY DEF IInv
<1>. QED  BY <1>1, InitIInv, StepIInv, PTL DEF Spec

(* The regions of console_excl_begin and console_excl_end exclude each     *)
(* other, nested ones included, until kmain exchanges the mutex.           *)
THEOREM RegionsExclusiveThm == Spec => []RegionsExclusive
<1>1. IInv => RegionsExclusive
  BY DEF IInv
<1>. QED  BY <1>1, InitIInv, StepIInv, PTL DEF Spec
=============================================================================
