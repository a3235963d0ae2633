------------------------------ MODULE ArmSched ------------------------------
(***************************************************************************)
(* The kernel threads of the Zynq port and the tick-driven scheduler that  *)
(* runs them (arch/arm32/src/sched_kern.c, deciding with sched.c), from    *)
(* the boot of the second core (smp.c) on.                                 *)
(*                                                                         *)
(* Each core has a run queue, a current task and an idle task; idle tasks  *)
(* are named by their core, and core 0's is the boot context that runs     *)
(* kmain.  A task is at a step of the scheduler function it is in (pc); it *)
(* moves only while it is current and its core is not in a handler (irq).  *)
(* The handler is sched_tick, entered by the timer or by the svc of        *)
(* sched_yield, in three steps: Enter (accounting and early returns),      *)
(* Select (under the queue's lock) and Switch.                             *)
(*                                                                         *)
(* kernel threads never leave a queue (sched_queue_remove has no caller)   *)
(* and never change core.  The run-queue lock is taken to do its work; the *)
(* spinlock itself is modelled in SpinLock.                                *)
(***************************************************************************)
EXTENDS EevdfPolicy, Integers

CONSTANTS
    NCpu,       \* PERCPU_MAX_CPUS
    Threads,    \* the kernel threads that may be created
    AppThreads, \* those of TASK_APPLICATION_LEVEL
    Created,    \* those that exist when the second core boots
    NoTask,     \* NULL
    Does,       \* Does[t]: which of Abilities task t's program makes use of
    Durations,  \* bound: the sleeps, in ticks, that programs ask for
    VrCap       \* bound: vruntimes stop growing here

Cpus == 0..(NCpu - 1)
Tasks == Threads \cup Cpus
Abilities == {"yield", "sleep", "exit", "create", "disable"}
MaxOff == 2     \* bound: nesting of sched_disable

ASSUME SchedAssumption ==
    /\ NCpu \in Nat \ {0}
    /\ Slice \in Nat \ {0}
    /\ IsFiniteSet(Threads)
    /\ Threads \cap Cpus = {}
    /\ NoTask \notin Tasks
    /\ AppThreads \subseteq Threads
    /\ Created \subseteq Threads
    /\ Does \in [Tasks -> SUBSET Abilities]
    /\ Durations \subseteq Nat \ {0}
    /\ VrCap \in Nat

VARIABLES
    status,     \* tcb->status, or "NONE" before the TCB exists
    wakeup,     \* ticks until tcb->wakeup_time; NotTimed is the 0 of the code
    vr,         \* tcb->eevdf_vruntime
    home,       \* tcb->cpu_id
    ctxOk,      \* sched_ctx_switchable(tcb)
    pc,         \* where the task is: see Steps
    why,        \* the caller of sched_yield: "yield", "sleep" or "exit"
    placing,    \* placing[u]: the thread u is creating, or NoTask
    runq,       \* g_runq[c].q, in order
    current,    \* percpu_t.current_task
    ticks,      \* percpu_t.scheduler_ticks
    pend,       \* the timer interrupt of core c is pending
    irq,        \* the step of sched_tick core c is in, or "none"
    next,       \* the local variable next of sched_tick
    refused,    \* percpu_t.invalid_ctx counted something
    online,     \* percpu_t.online
    enabled,    \* g_sched_enabled
    depth,      \* g_sched_off_depth
    asked       \* ghost: ticks left of the sleep the task asked for

taskVars == <<status, wakeup, vr, home, ctxOk>>
codeVars == <<pc, why, placing, asked>>
cpuVars == <<current, ticks, irq, next, refused>>
switchVars == <<enabled, depth>>
vars == <<taskVars, codeVars, runq, cpuVars, pend, online, switchVars>>

NotTimed == -1
Idle(t) == t \in Cpus
Queued(c) == {runq[c][i] : i \in DOMAIN runq[c]}

(***************************************************************************)
(* none: not created; boot, cur, queued: an AP before it is online;        *)
(* run: any code outside the scheduler; off: in sched_disable, depth       *)
(* counted; create: between the choice of a core and the append; arm:      *)
(* wakeup_time is set, WAIT is not; trap, svc: in sched_yield; chk, wake:  *)
(* the two tests after it in sched_sleep_ns; wfi: past sched_thread_exit.  *)
(***************************************************************************)
Steps == {"none", "boot", "cur", "queued", "run", "off", "create", "arm",
          "trap", "svc", "chk", "wake", "wfi"}

TypeOK ==
    /\ status \in [Tasks -> {"NONE", "START", "RUNNING", "WAIT", "DEATH"}]
    /\ wakeup \in [Tasks -> Nat \cup {NotTimed}]
    /\ home \in [Tasks -> Cpus]
    /\ ctxOk \in [Tasks -> BOOLEAN]
    /\ pc \in [Tasks -> Steps]
    /\ why \in [Tasks -> {"yield", "sleep", "exit"}]
    /\ placing \in [Tasks -> Threads \cup {NoTask}]
    /\ runq \in [Cpus -> Seq(Tasks)]
    /\ current \in [Cpus -> Tasks \cup {NoTask}]
    /\ ticks \in [Cpus -> 0..(Slice + 1)]
    /\ pend \in [Cpus -> BOOLEAN]
    /\ irq \in [Cpus -> {"none", "select", "switch"}]
    /\ next \in [Cpus -> Tasks \cup {NoTask}]
    /\ refused \in [Cpus -> BOOLEAN]
    /\ online \in [Cpus -> BOOLEAN]
    /\ enabled \in BOOLEAN
    /\ depth \in 0..MaxOff
    /\ asked \in [Tasks -> Nat]
-----------------------------------------------------------------------------
(* kmain has registered its idle on core 0 and created the first threads,  *)
(* with sched_disable around it; the other cores enter cpu1_main.          *)
Init ==
    LET first == CHOOSE s \in [1..Cardinality(Created) -> Created] :
                     \A i, j \in DOMAIN s : s[i] = s[j] => i = j
    IN
    /\ status = [t \in Tasks |-> IF Idle(t) THEN "RUNNING"
                                 ELSE IF t \in Created THEN "START" ELSE "NONE"]
    /\ wakeup = [t \in Tasks |-> NotTimed]
    /\ vr = [t \in Tasks |-> 0]
    /\ home = [t \in Tasks |-> IF Idle(t) THEN t ELSE 0]
    /\ ctxOk = [t \in Tasks |-> ~Idle(t)]
    /\ pc = [t \in Tasks |-> IF t = 0 \/ t \in Created THEN "run"
                             ELSE IF Idle(t) THEN "boot" ELSE "none"]
    /\ why = [t \in Tasks |-> "yield"]
    /\ placing = [t \in Tasks |-> NoTask]
    /\ runq = [c \in Cpus |-> IF c = 0 THEN <<0>> \o first ELSE <<>>]
    /\ current = [c \in Cpus |-> IF c = 0 THEN 0 ELSE NoTask]
    /\ ticks = [c \in Cpus |-> 0]
    /\ pend = [c \in Cpus |-> FALSE]
    /\ irq = [c \in Cpus |-> "none"]
    /\ next = [c \in Cpus |-> NoTask]
    /\ refused = [c \in Cpus |-> FALSE]
    /\ online = [c \in Cpus |-> c = 0]
    /\ enabled = TRUE
    /\ depth = 0
    /\ asked = [t \in Tasks |-> 0]

-----------------------------------------------------------------------------
(* The handler, sched_tick.                                                *)

\* The time slice is not used up yet
Continues(c) ==
    /\ status[current[c]] = "RUNNING"
    /\ ~Idle(current[c])
    /\ ticks[c] + 1 < Slice

\* sched_tick up to the queue's lock; when it does not return early, the
\* running thread is charged a tick.  The timer's tick on an AP that has no
\* current task yet returns at once.
Enter(c) ==
    IF ~enabled \/ current[c] = NoTask
      THEN UNCHANGED <<vr, cpuVars>>
      ELSE LET cur == current[c]
               charged == status[cur] = "RUNNING" /\ ~Idle(cur)
           IN  /\ vr' = [vr EXCEPT ![cur] = IF charged /\ @ < VrCap THEN @ + 1 ELSE @]
               /\ ticks' = [ticks EXCEPT ![c] = IF charged THEN @ + 1 ELSE 0]
               /\ irq' = [irq EXCEPT ![c] = IF Continues(c) THEN "none" ELSE "select"]
               /\ UNCHANGED <<current, next, refused>>

TimerIrq(c) ==
    /\ pend[c]
    /\ irq[c] = "none"
    /\ pend' = [pend EXCEPT ![c] = FALSE]
    /\ Enter(c)
    /\ UNCHANGED <<status, wakeup, home, ctxOk, codeVars, runq, online, switchVars>>

\* Mutant: a sleeper is woken without asking whether its time has come.
DueAtOnce(t) == status[t] = "WAIT" /\ wakeup[t] # NotTimed

\* sched_wake_if_due
Due(t) == status[t] = "WAIT" /\ wakeup[t] = 0

\* Mutant: a DEATH thread is still a candidate.
RunnableEvenDead(st) == st \in {"RUNNING", "START", "DEATH"}

\* sched_status_runnable (CREATE, its third case, is a status nobody sets)
Runnable(st) == st \in {"RUNNING", "START"}

\* Mutant: the wake-up scan looks at the current task only.
WokenOwnOnly(c) == {t \in {current[c]} : Due(t)}

\* The sleepers the scan of a queue finds due
Woken(c) == {t \in Queued(c) \cup {current[c]} : Due(t)}

\* The vruntimes after the scan: current is placed against itself first, the
\* others against current
AfterScan(c) ==
    LET cur == current[c]
        woken == Woken(c)
        own == IF cur \in woken THEN Placed(vr[cur], vr[cur]) ELSE vr[cur]
    IN  [t \in Tasks |-> IF t = cur THEN own
                         ELSE IF t \in woken THEN Placed(vr[t], own) ELSE vr[t]]

StatusAfterScan(c) == [t \in Tasks |-> IF t \in Woken(c) THEN "START" ELSE status[t]]

\* sched_task_schedulable
Waiting(c, st) ==
    {t \in Queued(c) : t # current[c] /\ Runnable(st[t]) /\ ~Idle(t)}

\* What sched_select_next may return: another thread if there is one, else the
\* current task if it can go on, else the idle task of the queue, else NULL
Choice(c, st, v) ==
    LET cur == current[c]
        waiting == Waiting(c, st)
        counted == waiting \cup {t \in {cur} \cap Queued(c) : Runnable(st[t])}
    IN  IF waiting # {} THEN Turn(runq[c], v, waiting, AvgVruntime(v, counted))
        ELSE IF Runnable(st[cur]) THEN {cur}
        ELSE IF c \in Queued(c) \ {cur} THEN {c}
        ELSE {NoTask}

\* An empty queue (an AP that has not appended its idle): current goes on
Select(c) ==
    /\ irq[c] = "select"
    /\ IF runq[c] = <<>>
         THEN /\ next' = [next EXCEPT ![c] = current[c]]
              /\ UNCHANGED <<status, wakeup, vr>>
         ELSE /\ status' = StatusAfterScan(c)
              /\ wakeup' = [t \in Tasks |-> IF t \in Woken(c) THEN NotTimed ELSE wakeup[t]]
              /\ vr' = AfterScan(c)
              /\ \E n \in Choice(c, StatusAfterScan(c), AfterScan(c)) :
                     next' = [next EXCEPT ![c] = n]
    /\ irq' = [irq EXCEPT ![c] = "switch"]
    /\ UNCHANGED <<home, ctxOk, codeVars, runq, current, ticks, refused, pend, online, switchVars>>

FreshTicks(c) == 0

Leave(c) ==
    /\ ticks' = [ticks EXCEPT ![c] = FreshTicks(c)]
    /\ irq' = [irq EXCEPT ![c] = "none"]
    /\ next' = [next EXCEPT ![c] = NoTask]

\* next is NULL or current
Stay(c) ==
    /\ irq[c] = "switch"
    /\ next[c] \in {NoTask, current[c]}
    /\ Leave(c)
    /\ UNCHANGED <<taskVars, codeVars, runq, current, refused, pend, online, switchVars>>

\* Mutant: the context of the outgoing task is not captured.
CtxCapturedNot(cur, n) == ctxOk

CtxCaptured(cur, n) == [ctxOk EXCEPT ![cur] = TRUE]

\* Mutant: the outgoing thread stays RUNNING.
StatusSwitchedHalf(cur, n) ==
    [status EXCEPT ![n] = IF @ = "START" THEN "RUNNING" ELSE @]

StatusSwitched(cur, n) ==
    [status EXCEPT ![cur] = IF @ = "RUNNING" THEN "START" ELSE @,
                   ![n] = IF @ = "START" THEN "RUNNING" ELSE @]

Switch(c) ==
    /\ irq[c] = "switch"
    /\ next[c] \notin {NoTask, current[c]}
    /\ Leave(c)
    /\ IF ctxOk[next[c]]
         THEN /\ status' = StatusSwitched(current[c], next[c])
              /\ ctxOk' = CtxCaptured(current[c], next[c])
              /\ current' = [current EXCEPT ![c] = next[c]]
              /\ UNCHANGED refused
         ELSE /\ refused' = [refused EXCEPT ![c] = TRUE]
              /\ UNCHANGED <<status, ctxOk, current>>
    /\ UNCHANGED <<wakeup, vr, home, codeVars, runq, pend, online, switchVars>>

\* One millisecond passes on all cores; each has served its last tick
Clock ==
    /\ \A c \in Cpus : ~pend[c]
    /\ pend' = [c \in Cpus |-> TRUE]
    /\ wakeup' = [t \in Tasks |-> IF wakeup[t] > 0 THEN wakeup[t] - 1 ELSE wakeup[t]]
    /\ asked' = [t \in Tasks |-> IF asked[t] > 0 THEN asked[t] - 1 ELSE 0]
    /\ UNCHANGED <<status, vr, home, ctxOk, pc, why, placing, runq, cpuVars, online, switchVars>>
-----------------------------------------------------------------------------
(* The tasks' own steps.                                                   *)

OnCpu(t) == current[home[t]] = t /\ irq[home[t]] = "none"

At(t, s) == OnCpu(t) /\ pc[t] = s

\* sched_yield from outside, and sched_sleep_ns where it only yields: called by
\* an idle task, for no time at all, or while scheduling is off
Yield(t) ==
    /\ At(t, "run")
    /\ "yield" \in Does[t] \/ ("sleep" \in Does[t] /\ (~enabled \/ Idle(t)))
    /\ pc' = [pc EXCEPT ![t] = "trap"]
    /\ why' = [why EXCEPT ![t] = "yield"]
    /\ UNCHANGED <<taskVars, placing, asked, runq, cpuVars, pend, online, switchVars>>

\* sched_sleep_ns sets the time first ...
Sleep(t, d) ==
    /\ At(t, "run")
    /\ "sleep" \in Does[t]
    /\ enabled
    /\ ~Idle(t)
    /\ wakeup' = [wakeup EXCEPT ![t] = d]
    /\ asked' = [asked EXCEPT ![t] = d]
    /\ pc' = [pc EXCEPT ![t] = "arm"]
    /\ UNCHANGED <<status, vr, home, ctxOk, why, placing, runq, cpuVars, pend, online, switchVars>>

\* ... and the status second
Suspend(t) ==
    /\ At(t, "arm")
    /\ status' = [status EXCEPT ![t] = "WAIT"]
    /\ pc' = [pc EXCEPT ![t] = "trap"]
    /\ why' = [why EXCEPT ![t] = "sleep"]
    /\ UNCHANGED <<wakeup, vr, home, ctxOk, placing, asked, runq, cpuVars, pend, online, switchVars>>

\* sched_thread_exit; an idle task is refused and goes on
Exit(t) ==
    /\ At(t, "run")
    /\ "exit" \in Does[t]
    /\ ~Idle(t)
    /\ status' = [status EXCEPT ![t] = "DEATH"]
    /\ pc' = [pc EXCEPT ![t] = "trap"]
    /\ why' = [why EXCEPT ![t] = "exit"]
    /\ UNCHANGED <<wakeup, vr, home, ctxOk, placing, asked, runq, cpuVars, pend, online, switchVars>>

\* sched_yield: the slice counts as used up ...
UseUpSlice(t) ==
    /\ At(t, "trap")
    /\ ticks' = [ticks EXCEPT ![home[t]] = Slice]
    /\ pc' = [pc EXCEPT ![t] = "svc"]
    /\ UNCHANGED <<taskVars, why, placing, asked, runq, current, irq, next, refused, pend, online, switchVars>>

\* ... and the trap enters the handler
Svc(t) ==
    /\ At(t, "svc")
    /\ pc' = [pc EXCEPT ![t] = CASE why[t] = "yield" -> "run"
                                 [] why[t] = "sleep" -> "chk"
                                 [] why[t] = "exit" -> "wfi"]
    /\ Enter(home[t])
    /\ UNCHANGED <<status, wakeup, home, ctxOk, why, placing, asked, runq, pend, online, switchVars>>

\* Mutant: the test of the do-while loop is lost.
StillAsleepNever(t) == FALSE

StillAsleep(t) == status[t] = "WAIT"

\* do { yield } while (status == WAIT)
CheckSleep(t) ==
    /\ At(t, "chk")
    /\ pc' = [pc EXCEPT ![t] = IF StillAsleep(t) THEN "trap" ELSE "wake"]
    /\ UNCHANGED <<taskVars, why, placing, asked, runq, cpuVars, pend, online, switchVars>>

\* if (status == START) status = RUNNING; a switch between the two ends the same
WakeUp(t) ==
    /\ At(t, "wake")
    /\ status' = [status EXCEPT ![t] = IF @ = "START" THEN "RUNNING" ELSE @]
    /\ pc' = [pc EXCEPT ![t] = "run"]
    /\ UNCHANGED <<wakeup, vr, home, ctxOk, why, placing, asked, runq, cpuVars, pend, online, switchVars>>

\* Mutant: cores that are not online yet are ready too.
ReadyCpusAll == Cpus

\* pick_runq: core 0 is ready by definition
ReadyCpus == {c \in Cpus : online[c] \/ c = 0}

\* sched_kthread_create up to the choice of a core, from queue lengths read
\* without the locks; failing to get memory or a stack changes nothing
StartCreate(u, t) ==
    /\ At(u, "run")
    /\ "create" \in Does[u]
    /\ pc[t] = "none"
    /\ \A v \in Tasks : placing[v] # t
    /\ placing' = [placing EXCEPT ![u] = t]
    /\ \E c \in PickCpu(t \in AppThreads, [d \in Cpus |-> Len(runq[d])], ReadyCpus) :
           home' = [home EXCEPT ![t] = c]
    /\ pc' = [pc EXCEPT ![u] = "create"]
    /\ UNCHANGED <<status, wakeup, vr, ctxOk, why, asked, runq, cpuVars, pend, online, switchVars>>

\* Mutant: the thread is appended to its creator's queue.
TargetOfCreator(u) == home[u]

Target(u) == home[placing[u]]

\* sched_entity_init and the append, under the lock of the chosen queue
FinishCreate(u) ==
    LET t == placing[u]
        c == Target(u)
    IN
    /\ At(u, "create")
    /\ vr' = [vr EXCEPT ![t] = Credited(AvgVruntime(vr, Queued(c)))]
    /\ status' = [status EXCEPT ![t] = "START"]
    /\ runq' = [runq EXCEPT ![c] = Append(@, t)]
    /\ placing' = [placing EXCEPT ![u] = NoTask]
    /\ pc' = [pc EXCEPT ![u] = "run", ![t] = "run"]
    /\ UNCHANGED <<wakeup, home, ctxOk, why, asked, cpuVars, pend, online, switchVars>>

\* sched_disable: the depth first ...
Disable(t) ==
    /\ At(t, "run")
    /\ "disable" \in Does[t]
    /\ depth < MaxOff
    /\ depth' = depth + 1
    /\ pc' = [pc EXCEPT ![t] = "off"]
    /\ UNCHANGED <<taskVars, why, placing, asked, runq, cpuVars, pend, online, enabled>>

\* ... then the switch
DisableNow(t) ==
    /\ At(t, "off")
    /\ enabled' = FALSE
    /\ pc' = [pc EXCEPT ![t] = "run"]
    /\ UNCHANGED <<taskVars, why, placing, asked, runq, cpuVars, pend, online, depth>>

\* Mutant: the inner sched_enable of a nest switches scheduling on.
EnabledAfterFlat(d) == TRUE

EnabledAfter(d) == d = 0

\* sched_enable, called only in pairs with sched_disable
Enable(t) ==
    /\ At(t, "run")
    /\ "disable" \in Does[t]
    /\ depth > 0
    /\ depth' = depth - 1
    /\ enabled' = EnabledAfter(depth - 1)
    /\ UNCHANGED <<taskVars, codeVars, runq, cpuVars, pend, online>>
-----------------------------------------------------------------------------
(* The boot of another core, cpu1_main: interrupts are on already.         *)

\* percpu_t of c is ready and its timer runs; sched_register_ap_idle sets
\* current_task before it appends the idle task
BootCurrent(c) ==
    /\ pc[c] = "boot"
    /\ irq[c] = "none"
    /\ current' = [current EXCEPT ![c] = c]
    /\ pc' = [pc EXCEPT ![c] = "cur"]
    /\ UNCHANGED <<taskVars, why, placing, asked, runq, ticks, irq, next, refused, pend, online, switchVars>>

BootAppend(c) ==
    /\ At(c, "cur")
    /\ runq' = [runq EXCEPT ![c] = Append(@, c)]
    /\ pc' = [pc EXCEPT ![c] = "queued"]
    /\ UNCHANGED <<taskVars, why, placing, asked, cpuVars, pend, online, switchVars>>

\* percpu_publish_self
BootOnline(c) ==
    /\ At(c, "queued")
    /\ online' = [online EXCEPT ![c] = TRUE]
    /\ pc' = [pc EXCEPT ![c] = "run"]
    /\ UNCHANGED <<taskVars, why, placing, asked, runq, cpuVars, pend, switchVars>>
-----------------------------------------------------------------------------
Tick(c) == TimerIrq(c) \/ Select(c) \/ Stay(c) \/ Switch(c)

Boot(c) == BootCurrent(c) \/ BootAppend(c) \/ BootOnline(c)

\* What a task in the middle of a scheduler function does next
Continue(t) ==
    \/ Suspend(t) \/ UseUpSlice(t) \/ Svc(t) \/ CheckSleep(t) \/ WakeUp(t)
    \/ FinishCreate(t) \/ DisableNow(t)

\* What a task outside of it may decide to do
Decide(t) ==
    \/ Yield(t) \/ Exit(t) \/ Disable(t) \/ Enable(t)
    \/ \E d \in Durations : Sleep(t, d)
    \/ \E u \in Threads : StartCreate(t, u)

Next ==
    \/ Clock
    \/ \E c \in Cpus : Tick(c) \/ Boot(c)
    \/ \E t \in Tasks : Continue(t) \/ Decide(t)

Spec == Init /\ [][Next]_vars

(***************************************************************************)
(* Fairness.  The timers run and handlers end (weak fairness).  A thread   *)
(* that keeps getting its core executes instructions there, however often  *)
(* it is interrupted (strong fairness).  Programs decide freely, but a     *)
(* sched_disable is followed by its sched_enable.                          *)
(***************************************************************************)
Fairness ==
    /\ WF_vars(Clock)
    /\ \A c \in Cpus : WF_vars(Tick(c)) /\ SF_vars(Boot(c))
    /\ \A t \in Tasks : SF_vars(Continue(t)) /\ SF_vars(Enable(t))

FairSpec == Spec /\ Fairness
-----------------------------------------------------------------------------
(* One task, one core: a RUNNING task is the current task of its own core, *)
(* so no two cores ever run the same one and a core has one at most; the   *)
(* current task of a core is one of its own.                               *)
RunningIsCurrent ==
    /\ \A t \in Tasks : status[t] = "RUNNING" /\ pc[t] # "boot" => current[home[t]] = t
    /\ \A c \in Cpus : current[c] # NoTask => home[current[c]] = c

(* No thread is lost or doubled: from its creation on a task is in exactly *)
(* one run queue, that of its core, and there once; a task being created   *)
(* is in none.                                                             *)
RosterExact ==
    \A t \in Tasks :
        LET places == {p \in Cpus \X (1..Cardinality(Tasks)) :
                           p[2] \in DOMAIN runq[p[1]] /\ runq[p[1]][p[2]] = t}
        IN  IF pc[t] \in {"none", "boot", "cur"}
              THEN places = {}
              ELSE \E i \in 1..Cardinality(Tasks) : places = {<<home[t], i>>}

(* An exited thread never gets a core again and nothing revives it: its    *)
(* TCB and stack are still there, in WFI, but no handler goes back to it.  *)
DeathIsFinal ==
    [][\A t \in Tasks : status[t] = "DEATH" =>
           /\ status'[t] = "DEATH"
           /\ \A c \in Cpus : current'[c] = t => current[c] = t]_vars

(* The task that sched_select_next picks always has a context to switch    *)
(* to; idle tasks start without one and must not be picked before they     *)
(* were preempted once.  A refused switch would leave the core with a task *)
(* that may be asleep or dead.                                             *)
NoRefusedSwitch == \A c \in Cpus : ~refused[c]

(* A core goes idle only if its queue has no thread that could run, one    *)
(* whose sleep is over at this moment included.                            *)
IdleOnlyWithoutWork ==
    [][\A c \in Cpus, t \in Threads :
           irq[c] = "select" /\ irq'[c] = "switch" /\ next'[c] = c /\ home[t] = c
               => /\ status[t] \notin {"START", "RUNNING"}
                  /\ ~(status[t] = "WAIT" /\ wakeup[t] = 0)]_vars

(* sched_sleep_ns does not return before the time it was asked for (unless *)
(* scheduling was off when it was called).                                 *)
SleepNotCutShort == \A t \in Tasks : pc[t] = "wake" => asked[t] = 0

(* What smp.c:212 makes of the online flag: an online core has a queue, an *)
(* idle task in it and a current task; and threads are put nowhere else,   *)
(* where they would lie unscanned.                                         *)
OnlineMeansReady ==
    \A c \in Cpus :
        online[c] \/ Queued(c) \cap Threads # {} => c \in Queued(c) /\ current[c] # NoTask

(* Between sched_disable and the matching sched_enable, nested or not, the *)
(* boot context keeps core 0: no handler takes it away in the middle of a  *)
(* creation.                                                               *)
WindowHolds ==
    depth > 0 /\ pc[0] # "off" => ~enabled /\ current[0] = 0 /\ irq[0] = "none"

(* The share of the core: of the threads that never give it up, as the     *)
(* load of the starvation monitor does (kmain.c:804-860), none gets more   *)
(* than one slice ahead of another one of its core, however many others    *)
(* sleep, yield, exit or are created next to them.  (Below the bound on    *)
(* vruntimes; and not of a thread created later, which gets a credit.)     *)
LagBounded ==
    \A t, u \in {v \in Created : Does[v] \cap {"sleep", "yield"} = {}} :
        /\ home[t] = home[u]
        /\ Runnable(status[t]) /\ Runnable(status[u])
        /\ vr[t] < VrCap
        => vr[t] <= vr[u] + Slice

(* Whoever sleeps is woken.                                                *)
SleeperWakes == \A t \in Threads : status[t] = "WAIT" ~> status[t] # "WAIT"

(* What the resident monitor checks and kmain.c:809 states: a runnable     *)
(* thread is never passed over for ever.  (Of runs that stay below the     *)
(* bound on vruntimes, where the model's arithmetic is the code's.)        *)
NoStarvation ==
    \/ \A t \in Threads : status[t] = "START" ~> status[t] # "START"
    \/ <>(\E t \in Threads : vr[t] = VrCap)
=============================================================================
