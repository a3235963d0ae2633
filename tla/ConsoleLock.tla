----------------------------- MODULE ConsoleLock -----------------------------
(***************************************************************************)
(* Exclusive output on the serial port of the Zynq port: the regions       *)
(* between console_excl_begin and console_excl_end (arch/arm32             *)
(* console.c), guarded by the mutex of mutex.c through the hooks of        *)
(* mutex_kern.c, and kmain's comparison of that mutex with the former way, *)
(* switching the scheduler off.                                            *)
(*                                                                         *)
(* kmain is the idle task of its core: it runs only while no thread of     *)
(* that core can.  A thread that finds the mutex taken therefore sleeps    *)
(* for a tick before it tries again; a plain yield would leave it ready,   *)
(* and a kmain that holds the mutex would never run again.  The spinlocked *)
(* sections of the mutex are one step each (YieldMutex looks inside them), *)
(* and the scheduler is reduced to what ArmSched shows of it: it picks     *)
(* another thread that is ready, else the current task if it can go on,    *)
(* else the idle task.                                                     *)
(***************************************************************************)
EXTENDS Naturals, FiniteSets

CONSTANTS
    Cpus,       \* the cores
    Threads,    \* the kernel threads that print
    Home,       \* Home[t]: the core of thread t
    BootCpu,    \* the core whose idle task is kmain
    Kmain,      \* kmain
    NoTask,     \* NULL; as a current task, the idle task of another core
    MaxNest     \* bound: how deep a region nests, and how many unpaired levels stay

ASSUME ConsoleAssumption ==
    /\ BootCpu \in Cpus
    /\ Home \in [Threads -> Cpus]
    /\ Kmain \notin Threads
    /\ NoTask \notin Threads \cup {Kmain}
    /\ MaxNest \in Nat \ {0}

Tasks == Threads \cup {Kmain}
HomeOf(t) == IF t = Kmain THEN BootCpu ELSE Home[t]
IdleOf(c) == IF c = BootCpu THEN Kmain ELSE NoTask

VARIABLES
    owner,      \* g_console_mutex.owner
    rcc,        \* g_console_mutex.rcc; its state is LOCKED while rcc > 0
    legacy,     \* g_legacy
    off,        \* g_sched_off_depth; g_sched_enabled is off = 0
    cur,        \* the current task of each core
    asleep,     \* the threads in WAIT
    retrying,   \* the threads woken from hook_yield that have not tried again yet
    pc,         \* where the task is: see Places
    opens,      \* opens[t]: regions t has begun and not ended
    phase       \* how far kmain's comparison has got

lockVars == <<owner, rcc>>
schedVars == <<cur, asleep, retrying>>
vars == <<owner, rcc, legacy, off, cur, asleep, retrying, pc, opens, phase>>

\* out: not in a function below; lock: in mutex_lock, about to look at the
\* mutex; yield: it was taken; ending: leaving its regions one after another
Places == {"out", "lock", "yield", "ending"}

\* kmain's comparison: before it; past the test of console_mutex_set_legacy(1);
\* the legacy half; past the test of console_mutex_set_legacy(0); over
Phases == {"before", "switching", "legacy", "restoring", "over"}

TypeOK ==
    /\ owner \in Tasks \cup {NoTask}
    /\ rcc \in Nat
    /\ legacy \in BOOLEAN
    /\ off \in Nat
    /\ cur \in [Cpus -> Tasks \cup {NoTask}]
    /\ asleep \subseteq Threads
    /\ retrying \subseteq Threads \ asleep
    /\ pc \in [Tasks -> Places]
    /\ opens \in [Tasks -> 0..MaxNest]
    /\ phase \in Phases

Init ==
    /\ owner = NoTask
    /\ rcc = 0
    /\ legacy = FALSE
    /\ off = 0
    /\ cur = [c \in Cpus |-> IdleOf(c)]
    /\ asleep = Threads
    /\ retrying = {}
    /\ pc = [t \in Tasks |-> "out"]
    /\ opens = [t \in Tasks |-> 0]
    /\ phase = "before"

Locked == rcc > 0
Waiting(t) == pc[t] \in {"lock", "yield"}
At(t, place) == cur[HomeOf(t)] = t /\ t \notin asleep /\ pc[t] = place

-----------------------------------------------------------------------------
(* The scheduler.                                                          *)

\* Whom core c may run next if the threads of "sleepers" sleep
Choice(c, sleepers) ==
    LET ready == {t \in Threads \ sleepers : Home[t] = c}
    IN  IF ready \ {cur[c]} # {} THEN ready \ {cur[c]}
        ELSE IF cur[c] \in ready THEN {cur[c]} ELSE {IdleOf(c)}

\* A tick that takes a decision wakes the threads whose time has come.  A woken
\* thread's next try, a few hundred instructions, fits in a tick.
Tick(c, woken) ==
    /\ off = 0
    /\ cur[c] \notin retrying
    /\ woken \subseteq {t \in asleep : Home[t] = c}
    /\ asleep' = asleep \ woken
    /\ retrying' = retrying \cup {t \in woken : Waiting(t)}
    /\ \E n \in Choice(c, asleep') : cur' = [cur EXCEPT ![c] = n]
    /\ UNCHANGED <<lockVars, legacy, off, pc, opens, phase>>

\* sched_sleep_ns of a thread, up to the switch
Suspend(t) ==
    /\ asleep' = asleep \cup {t}
    /\ \E n \in Choice(Home[t], asleep') : cur' = [cur EXCEPT ![Home[t]] = n]

-----------------------------------------------------------------------------
(* Regions.                                                                *)

\* console_excl_acquire: sched_disable, or into mutex_lock
Begin(t) ==
    /\ At(t, "out")
    /\ opens[t] < MaxNest
    /\ IF legacy
         THEN /\ off < MaxNest
              /\ off' = off + 1
              /\ opens' = [opens EXCEPT ![t] = @ + 1]
              /\ UNCHANGED pc
         ELSE /\ pc' = [pc EXCEPT ![t] = "lock"]
              /\ UNCHANGED <<off, opens>>
    /\ UNCHANGED <<lockVars, legacy, schedVars, phase>>

Free == ~Locked

\* mutex_lock returns 0: the mutex is the caller's already, or free
Acquire(t) ==
    /\ At(t, "lock")
    /\ owner = t \/ Free
    /\ owner' = t
    /\ rcc' = IF owner = t THEN rcc + 1 ELSE 1
    /\ pc' = [pc EXCEPT ![t] = "out"]
    /\ opens' = [opens EXCEPT ![t] = @ + 1]
    /\ retrying' = retrying \ {t}
    /\ UNCHANGED <<legacy, off, cur, asleep, phase>>

Busy(t) ==
    /\ At(t, "lock")
    /\ owner # t
    /\ ~Free
    /\ pc' = [pc EXCEPT ![t] = "yield"]
    /\ UNCHANGED <<lockVars, legacy, off, schedVars, opens, phase>>

\* Mutant: hook_yield only yields, as the mutex of the x86 kernel does.
SleepsNever(t) == FALSE

\* sched_sleep_ns only yields for an idle task and while scheduling is off
Sleeps(t) == t # Kmain /\ off = 0

\* hook_yield.  A plain yield decides nothing while scheduling is off.  (A
\* thread that has become WAIT when another core switches scheduling off waits
\* in the loop of sched_sleep_ns on its core: for the others it sleeps.)
HookYield(t) ==
    /\ At(t, "yield")
    /\ pc' = [pc EXCEPT ![t] = "lock"]
    /\ retrying' = retrying \ {t}
    /\ IF Sleeps(t) THEN Suspend(t)
       ELSE /\ UNCHANGED asleep
            /\ IF off = 0
                 THEN \E n \in Choice(HomeOf(t), asleep) : cur' = [cur EXCEPT ![HomeOf(t)] = n]
                 ELSE UNCHANGED cur
    /\ UNCHANGED <<lockVars, legacy, off, opens, phase>>

OffAfterEnable == IF off = 0 THEN 0 ELSE off - 1

\* Mutant: the first end of a nest gives the mutex up.
RccAfterUnlockFlat == 0

RccAfterUnlock == rcc - 1

\* console_excl_release: sched_enable, or mutex_unlock, which refuses whoever
\* is not the owner
End(t) ==
    /\ \E place \in {"out", "ending"} : At(t, place)
    /\ opens[t] > 0
    /\ IF legacy
         THEN off' = OffAfterEnable /\ UNCHANGED lockVars
         ELSE /\ IF owner = t /\ Locked
                   THEN /\ rcc' = RccAfterUnlock
                        /\ owner' = IF RccAfterUnlock = 0 THEN NoTask ELSE owner
                   ELSE UNCHANGED lockVars
              /\ UNCHANGED off
    /\ opens' = [opens EXCEPT ![t] = @ - 1]
    /\ pc' = [pc EXCEPT ![t] = IF opens[t] = 1 THEN "out" ELSE "ending"]
    /\ UNCHANGED <<legacy, schedVars, phase>>

\* The thread sleeps until it has something to print again
Rest(t) ==
    /\ t # Kmain
    /\ At(t, "out")
    /\ opens[t] = 0
    /\ off = 0
    /\ Suspend(t)
    /\ UNCHANGED <<lockVars, legacy, off, retrying, pc, opens, phase>>

-----------------------------------------------------------------------------
(* kmain's comparison, kmain.c:4592-4618.                                  *)

\* console_mutex_set_legacy: the test ("on" is its argument) ...
SwitchTest(on) ==
    /\ At(Kmain, "out")
    /\ opens[Kmain] = 0
    /\ phase = (IF on THEN "before" ELSE "legacy")
    /\ LET refused == Locked \/ off > 0
       IN  phase' = IF on THEN (IF refused THEN "legacy" ELSE "switching")
                    ELSE (IF refused THEN "over" ELSE "restoring")
    /\ UNCHANGED <<lockVars, legacy, off, schedVars, pc, opens>>

\* ... and the assignment
SwitchWrite ==
    /\ At(Kmain, "out")
    /\ phase \in {"switching", "restoring"}
    /\ legacy' = (phase = "switching")
    /\ phase' = IF phase = "switching" THEN "legacy" ELSE "over"
    /\ UNCHANGED <<lockVars, off, schedVars, pc, opens>>

-----------------------------------------------------------------------------
\* kmain is not in console_mutex_set_legacy
NotSwitching(t) == t = Kmain => phase \notin {"switching", "restoring"}

\* What a task on its way into or out of a region does
Advance(t) == Acquire(t) \/ Busy(t) \/ HookYield(t) \/ (NotSwitching(t) /\ End(t))

Next ==
    \/ \E c \in Cpus, woken \in SUBSET asleep : Tick(c, woken)
    \/ \E t \in Tasks :
           Advance(t) \/ (NotSwitching(t) /\ Begin(t)) \/ Rest(t)
    \/ \E on \in BOOLEAN : SwitchTest(on)
    \/ SwitchWrite

Spec == Init /\ [][Next]_vars

(***************************************************************************)
(* Fairness.  The timer ticks.  A task that keeps getting its core         *)
(* executes its instructions there, however often it is interrupted, and   *)
(* comes to the end of its regions.                                        *)
(***************************************************************************)
Fairness ==
    /\ \A c \in Cpus : WF_vars(\E woken \in SUBSET asleep : Tick(c, woken))
    /\ \A t \in Tasks : SF_vars(Advance(t))

FairSpec == Spec /\ Fairness

-----------------------------------------------------------------------------
Production == phase = "before"

(* Until kmain plays with the switch, the regions exclude each other on    *)
(* all cores, nested ones included: the mutex is held by the one task with *)
(* open regions, once for each of them, so that no inner                   *)
(* console_excl_end opens the outer region to others.                      *)
RegionsExclusive ==
    Production => \A t \in Tasks : opens[t] = IF owner = t THEN rcc ELSE 0

(* What mutex_kern.c:91-140 argues: a holder is not kept from running by   *)
(* the threads that wait for it, not even kmain by threads of its own      *)
(* core.  The rest of the load must leave the core free for a moment again *)
(* and again: a moment at which all its threads sleep, or wait for the     *)
(* mutex, or hold it.                                                      *)
LoadLeavesRoom ==
    \A c \in Cpus :
        []<>(\A t \in Threads : Home[t] = c => t \in asleep \/ Waiting(t) \/ owner = t)

HolderReleases ==
    LoadLeavesRoom /\ []Production => \A t \in Tasks : owner = t ~> owner # t

(* The promise of mutex_kern.c:193-197 and 239-243: legacy mode is entered *)
(* and left only while no window is open, because otherwise the release    *)
(* would go to sched_enable and the mutex would stay taken for ever.       *)
LockNotAbandoned == \A t \in Tasks : owner = t => opens[t] > 0
=============================================================================
