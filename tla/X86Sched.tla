------------------------------ MODULE X86Sched ------------------------------
(***************************************************************************)
(* The scheduler of the x86 kernel (kernel/task/scheduler.cpp): a queue    *)
(* and a current thread per processor, and one global switch is_scheduler. *)
(* The switch is off while a processor exchanges its thread, while a       *)
(* thread or process is created and while a page fault is handled;         *)
(* creators remember what it was and restore that. add_task wakes due      *)
(* sleepers of the queue it looks at, which may be another processor's,    *)
(* without that queue's lock. What the select functions prefer is left     *)
(* open (any thread that is schedulable), and so is how long a slice and a *)
(* sleep last. Waiting without a time is the pipe's affair (Pipe).         *)
(***************************************************************************)
EXTENDS FiniteSets

CONSTANTS
  Cpus,      \* processors
  Boot,      \* the thread each starts with: KernelMain on the first, apu_idle on the others
  Reaper,    \* the thread that, like KernelMain, switches the scheduler on in a loop
  Kernel,    \* other kernel threads
  Apps,      \* threads of applications
  Unborn,    \* those of Kernel and Apps that a creator has yet to make
  Home,      \* the processor in whose queue each thread is, or will be put
  First,     \* the first processor, where add_task puts applications
  None       \* no thread

Threads == {Boot[c] : c \in Cpus} \cup {Reaper} \cup Kernel \cup Apps
Idles   == {Boot[c] : c \in Cpus \ {First}}              \* TASK_IDLE_LEVEL
Loopers == {Boot[First], Reaper}

\* Every processor starts with a thread, every thread has a processor
ASSUME MachineAssumption ==
  /\ Boot = [c \in Cpus |-> Boot[c]] /\ First \in Cpus
  /\ Home \in [Threads -> Cpus] /\ \A c \in Cpus : Home[Boot[c]] = c
  /\ None \notin Threads

VARIABLES
  on,        \* is_scheduler
  current,   \* per processor
  tick,      \* per processor, where timer_handle is: "out", "in", "picked" or "off"
  best,      \* per processor: the thread picked
  context,   \* context0.rip # 0: there is something to switch to
  status,    \* tcb_t.status; "none" before a thread is made
  timed,     \* wakeup_time # 0
  at,        \* where each thread is
  was,       \* was_scheduler_enabled of each creator
  creating,  \* create_thread_lock: None or the creator that holds it
  newborn,   \* the thread that is being added
  found,     \* the due sleeper that add_task's walk is waking
  stranded,  \* ghost: the switch is off, and who turned it off will not turn it on
  overrun    \* ghost: sleepers woken while add_task's walk was about to wake them

switch  == <<on, stranded>>
cpuVars == <<current, tick, best, context>>
sleep   == <<status, timed, overrun>>
making  == <<was, creating, newborn, found>>
vars    == <<switch, cpuVars, sleep, making, at>>

Init ==
  /\ on = TRUE /\ stranded = FALSE /\ overrun = {}
  /\ current = Boot /\ tick = [c \in Cpus |-> "out"] /\ best = [c \in Cpus |-> None]
  /\ status = [t \in Threads |-> IF t \in Unborn THEN "none"
                                 ELSE IF t = Boot[Home[t]] THEN "RUNNING" ELSE "START"]
  /\ context = [t \in Threads |-> \A c \in Cpus : t # Boot[c]]   \* theirs is saved at their first switch
  /\ timed = [t \in Threads |-> FALSE] /\ at = [t \in Threads |-> "body"]
  /\ was = [t \in Threads |-> FALSE]
  /\ creating = None /\ newborn = None /\ found = None

TurnOn == on' = TRUE /\ stranded' = FALSE

Runs(t) == current[Home[t]] = t /\ tick[Home[t]] = "out" /\ status[t] # "none"

\* Interrupts are off in the system calls of applications, and in a creator from the lock on
Masked(t) == \/ t \in Apps /\ at[t] \notin {"body", "dead"}
             \/ at[t] \in {"locked", "off", "adding", "found", "cleared", "added"}

(***************************************************************************)
(* timer_handle. A tick that comes while the switch is off, and one inside *)
(* a slice, return at once and are left out. A thread that waits in        *)
(* scheduler_sleep_ns enters by itself (int 32), masked or not.            *)
(***************************************************************************)
Schedulable(st, t) == st[t] \in {"RUNNING", "START"} /\ t \notin Idles

Enter(c) ==
  /\ tick[c] = "out" /\ on
  /\ ~Masked(current[c]) \/ at[current[c]] = "asleep"
  /\ tick' = [tick EXCEPT ![c] = "in"]
  /\ UNCHANGED <<switch, current, best, context, sleep, at, making>>

\* The selection, under the queue's lock; the switch is not looked at again
Select(c) ==
  LET here == {t \in Threads : Home[t] = c}
      t0   == current[c]
  IN /\ tick[c] = "in"
     /\ \E due \in SUBSET {t \in here : status[t] = "WAIT" /\ timed[t]} :
          LET st    == [t \in Threads |-> IF t \in due THEN "START" ELSE status[t]]
              ready == {t \in here \ {t0} : Schedulable(st, t)}
              picks == IF ready # {} THEN ready
                       ELSE IF st[t0] \in {"RUNNING", "START"} THEN {t0}
                       ELSE (here \cap Idles) \ {t0}
          IN /\ status' = st
             /\ timed' = [t \in Threads |-> timed[t] /\ t \notin due]
             /\ overrun' = overrun \cup (due \cap {found})
             /\ IF picks \ {t0} = {} THEN tick' = [tick EXCEPT ![c] = "out"] /\ UNCHANGED best
                ELSE \E t \in picks : /\ tick' = [tick EXCEPT ![c] = "picked"]
                                      /\ best' = [best EXCEPT ![c] = t]
  /\ UNCHANGED <<switch, current, context, at, making>>

\* The switch goes off, then the threads are exchanged; not if there is no context to switch to
Switch(c) ==
  /\ tick[c] = "picked"
  /\ tick' = [tick EXCEPT ![c] = "off"] /\ on' = FALSE
  /\ LET st == [t \in Threads |->
                  IF t = current[c] /\ status[t] = "RUNNING" THEN "START"
                  ELSE IF t = best[c] /\ status[t] = "START" THEN "RUNNING" ELSE status[t]]
     IN IF context[best[c]]
          THEN /\ status' = st /\ current' = [current EXCEPT ![c] = best[c]]
               /\ context' = [context EXCEPT ![current[c]] = TRUE]
          ELSE /\ status' = [st EXCEPT ![current[c]] = "RUNNING"]
               /\ UNCHANGED <<current, context>>
  /\ UNCHANGED <<stranded, best, timed, overrun, at, making>>

SwitchOn(c) ==
  /\ tick[c] = "off"
  /\ tick' = [tick EXCEPT ![c] = "out"] /\ best' = [best EXCEPT ![c] = None] /\ TurnOn
  /\ UNCHANGED <<current, context, sleep, at, making>>

(***************************************************************************)
(* scheduler_sleep_ns: the time, then the status, then yields until a tick *)
(* or add_task's walk has changed the status.                              *)
(***************************************************************************)
Sleeps(t) == Runs(t) /\ t \notin Idles \cup Loopers

\* Mutant: the status is stored first, and what timer_handle finds has no time yet
SleepTimeLate(t) ==
  /\ Sleeps(t) /\ at[t] = "body" /\ on
  /\ status' = [status EXCEPT ![t] = "WAIT"] /\ at' = [at EXCEPT ![t] = "asleep"]
  /\ overrun' = overrun \ ({t} \ {found})
  /\ UNCHANGED <<switch, cpuVars, timed, making>>

SleepTime(t) ==
  /\ Sleeps(t) /\ at[t] = "body" /\ on
  /\ timed' = [timed EXCEPT ![t] = TRUE] /\ at' = [at EXCEPT ![t] = "timed"]
  /\ overrun' = overrun \ ({t} \ {found})
  /\ UNCHANGED <<switch, cpuVars, status, making>>

SleepWait(t) ==
  /\ Runs(t) /\ at[t] = "timed"
  /\ status' = [status EXCEPT ![t] = "WAIT"] /\ at' = [at EXCEPT ![t] = "asleep"]
  /\ UNCHANGED <<switch, cpuVars, timed, overrun, making>>

SleepEnds(t) ==
  /\ Runs(t) /\ at[t] = "asleep" /\ status[t] # "WAIT"
  /\ status' = [status EXCEPT ![t] = IF @ = "START" THEN "RUNNING" ELSE @]
  /\ at' = [at EXCEPT ![t] = "body"]
  /\ UNCHANGED <<switch, cpuVars, timed, overrun, making>>

\* process_exit: kill_thread, then hlt
Exit(t) ==
  /\ Runs(t) /\ t \in Kernel /\ at[t] = "body"
  /\ status' = [status EXCEPT ![t] = "DEATH"] /\ at' = [at EXCEPT ![t] = "dead"]
  /\ UNCHANGED <<switch, cpuVars, timed, overrun, making>>

\* One round of KernelMain's last loop and of reaper_thread's
Enable(t) ==
  /\ Runs(t) /\ t \in Loopers /\ ~on /\ TurnOn
  /\ UNCHANGED <<cpuVars, sleep, at, making>>

\* handle_page_fault of an application: off and, whatever it was before, on. A fault in the
\* kernel stops the processor for good and is left out.
Fault(t) ==
  /\ Runs(t) /\ t \in Apps /\ at[t] = "body"
  /\ at' = [at EXCEPT ![t] = "fault"] /\ on' = FALSE
  /\ UNCHANGED <<stranded, cpuVars, sleep, making>>

FaultDone(t) ==
  /\ at[t] = "fault"
  /\ at' = [at EXCEPT ![t] = "body"] /\ TurnOn
  /\ UNCHANGED <<cpuVars, sleep, making>>

\* A fault that cannot be satisfied: kill_proc, of a process with this one thread ...
FaultKills(t) ==
  /\ at[t] = "fault"
  /\ status' = [status EXCEPT ![t] = "DEATH"] /\ at' = [at EXCEPT ![t] = "killed"]
  /\ UNCHANGED <<switch, cpuVars, timed, overrun, making>>

\* ... then the switch and the interrupts, a yield and hlt
FaultEnds(t) ==
  /\ at[t] = "killed"
  /\ at' = [at EXCEPT ![t] = "dead"] /\ TurnOn
  /\ UNCHANGED <<cpuVars, sleep, making>>

(***************************************************************************)
(* create_kernel_thread, by kernel threads, takes the lock first and masks *)
(* then; process_fork and its like, by applications, the other way round.  *)
(***************************************************************************)
Save(t) ==
  /\ Runs(t) /\ t \in Kernel \cup Apps /\ at[t] = "body"
  /\ was' = [was EXCEPT ![t] = on] /\ at' = [at EXCEPT ![t] = "saved"]
  /\ UNCHANGED <<switch, cpuVars, sleep, creating, newborn, found>>

Off(t) ==
  /\ Runs(t) /\ at[t] = (IF t \in Apps THEN "saved" ELSE "locked")
  /\ on' = FALSE
  /\ stranded' = ((stranded \/ on) /\ ~was[t])           \* it was turned on since Save
  /\ at' = [at EXCEPT ![t] = IF t \in Apps THEN "off" ELSE "adding"]
  /\ UNCHANGED <<cpuVars, sleep, making>>

Lock(t) ==
  /\ Runs(t) /\ at[t] = (IF t \in Apps THEN "off" ELSE "saved") /\ creating = None
  /\ creating' = t
  /\ at' = [at EXCEPT ![t] = IF t \in Apps THEN "adding" ELSE "locked"]
  /\ UNCHANGED <<switch, cpuVars, sleep, was, newborn, found>>

\* The thread to be is set up, or something cannot be allocated
Prepare(t) ==
  /\ at[t] = "adding" /\ newborn = None
  /\ \/ /\ \E n \in Unborn \cap (IF t \in Apps THEN Apps ELSE Kernel) :
             status[n] = "none" /\ newborn' = n
        /\ UNCHANGED at
     \/ at' = [at EXCEPT ![t] = "added"] /\ UNCHANGED newborn
  /\ UNCHANGED <<switch, cpuVars, sleep, was, creating, found>>

\* add_task: queue_average_vruntime over the queue, which wakes its due sleepers, then the append
WalkFinds(t) ==
  /\ at[t] = "adding" /\ newborn # None
  /\ \E u \in Threads : /\ Home[u] = Home[newborn] /\ status[u] = "WAIT" /\ timed[u]
                        /\ found' = u
  /\ at' = [at EXCEPT ![t] = "found"]
  /\ UNCHANGED <<switch, cpuVars, sleep, was, creating, newborn>>

WalkClears(t) ==
  /\ at[t] = "found"
  /\ timed' = [timed EXCEPT ![found] = FALSE] /\ at' = [at EXCEPT ![t] = "cleared"]
  /\ UNCHANGED <<switch, cpuVars, status, overrun, making>>

WalkStarts(t) ==
  /\ at[t] = "cleared"
  /\ status' = [status EXCEPT ![found] = "START"] /\ at' = [at EXCEPT ![t] = "adding"]
  /\ found' = None
  /\ UNCHANGED <<switch, cpuVars, timed, overrun, was, creating, newborn>>

Enqueue(t) ==
  /\ at[t] = "adding" /\ newborn # None
  /\ status' = [status EXCEPT ![newborn] = "START"] /\ newborn' = None
  /\ at' = [at EXCEPT ![t] = "added"]
  /\ UNCHANGED <<switch, cpuVars, timed, overrun, was, creating, found>>

\* The lock's saved state: a kernel thread has its interrupts back before it restores the switch
Unlock(t) ==
  /\ at[t] = "added"
  /\ creating' = None /\ at' = [at EXCEPT ![t] = "unlocked"]
  /\ UNCHANGED <<switch, cpuVars, sleep, was, newborn, found>>

\* restore_runtime_state returns, and with it ends was_scheduler_enabled
Restored(t) ==
  /\ at' = [at EXCEPT ![t] = "body"] /\ was' = [was EXCEPT ![t] = FALSE]
  /\ UNCHANGED <<cpuVars, sleep, creating, newborn, found>>

\* Mutant: a way out that leaves the switch as it is
RestoreForgotten(t) ==
  /\ Runs(t) /\ at[t] = "unlocked"
  /\ UNCHANGED switch
  /\ Restored(t)

Restore(t) ==
  /\ Runs(t) /\ at[t] = "unlocked"
  /\ IF was[t] THEN TurnOn ELSE UNCHANGED switch
  /\ Restored(t)

Next ==
  \/ \E c \in Cpus : Enter(c) \/ Select(c) \/ Switch(c) \/ SwitchOn(c)
  \/ \E t \in Threads :
       \/ SleepTime(t) \/ SleepWait(t) \/ SleepEnds(t) \/ Exit(t) \/ Enable(t)
       \/ Fault(t) \/ FaultDone(t) \/ FaultKills(t) \/ FaultEnds(t)
       \/ Save(t) \/ Off(t) \/ Lock(t) \/ Prepare(t) \/ Unlock(t) \/ Restore(t)
       \/ WalkFinds(t) \/ WalkClears(t) \/ WalkStarts(t) \/ Enqueue(t)

Spec == Init /\ [][Next]_vars
-----------------------------------------------------------------------------
(***************************************************************************)
(* Properties                                                              *)
(***************************************************************************)

(***************************************************************************)
(* While the switch is off no processor can change its thread any more, so *)
(* there must be a thread or a handler that runs now and turns it on when  *)
(* it gets further: a switch under way, a creator that found it on, a page *)
(* fault, KernelMain or the reaper. The exception is the state a creator   *)
(* leaves that looked while another processor had the switch off for a     *)
(* moment, and turned it off after that (scheduler.cpp:433, pcb.cpp:1912). *)
(***************************************************************************)
SchedulingComesBack ==
  ~on => \/ \E c \in Cpus : tick[c] = "off"
         \/ \E c \in Cpus :
              LET t == current[c]
              IN \/ t \in Loopers \/ at[t] \in {"fault", "killed"}
                 \/ was[t] /\ at[t] \in {"off", "adding", "found", "cleared", "added", "unlocked"}
         \/ stranded

(***************************************************************************)
(* A thread that sleeps has the time it is to be woken at, or no tick will *)
(* ever wake it, and an exited one stays dead, also while another          *)
(* processor's add_task walks the queue without its lock                   *)
(* (scheduler.cpp:552); the exception are threads that their own processor *)
(* woke between that walk's look at them and its stores.                   *)
(***************************************************************************)
SleepersKeepTheirTime ==
  \A t \in Threads \ (overrun \cup {found}) :
    /\ at[t] = "asleep" /\ status[t] = "WAIT" => timed[t]
    /\ at[t] \in {"killed", "dead"} => status[t] = "DEATH"
=============================================================================
