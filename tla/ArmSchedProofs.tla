--------------------------- MODULE ArmSchedProofs ---------------------------
(***************************************************************************)
(* Proofs about ArmSched, for any number of cores and threads, any         *)
(* programs and any bounds.                                                *)
(*                                                                         *)
(* Few of the properties are inductive.  Whom a handler switches to was    *)
(* chosen a step earlier (next), from a queue whose entries were made by   *)
(* others; so IInv says what a queue contains, what next may be, what is   *)
(* known of a thread that is still being created and of a dead one.        *)
(* PlaceInv adds that a queue has exactly the tasks of its core, what a    *)
(* published core has, and who has a context; SleepInv ties the times of   *)
(* a sleeper together.                                                     *)
(*                                                                         *)
(* All this holds whatever the policy prefers, as long as it chooses among *)
(* the waiting.  Only the last theorem, on the share of the core, is about *)
(* vruntimes; it needs to know that the average of a queue is a number.    *)
(***************************************************************************)
EXTENDS ArmSched, FiniteSetTheorems, WellFoundedInduction, TLAPS

\* A queue holds tasks of its own core that exist
QueuesOwnTasks ==
    \A c \in Cpus : \A t \in Queued(c) : t \in Tasks /\ home[t] = c /\ pc[t] # "none"

\* A handler runs on a core that has a current task, which exists
CurrentExists ==
    /\ \A c \in Cpus : irq[c] # "none" => current[c] # NoTask
    /\ \A c \in Cpus : current[c] # NoTask => pc[current[c]] # "none"

\* The pick of sched_select_next: nobody, current, or one of the queue's
NextKnown ==
    \A c \in Cpus : next[c] \in {NoTask, current[c]} \cup Queued(c)

\* A core in cpu1_main has no task yet; an idle task stays on its core
IdleTasks ==
    \A c \in Cpus :
        /\ home[c] = c
        /\ status[c] # "DEATH"
        /\ pc[c] = "boot" => current[c] = NoTask

\* A thread being created is nobody else's and not there yet
Creations ==
    /\ \A t \in Tasks : pc[t] = "none" => status[t] = "NONE"
    /\ \A u \in Tasks : pc[u] = "create" <=> placing[u] # NoTask
    /\ \A u \in Tasks : placing[u] # NoTask => pc[placing[u]] = "none"
    /\ \A u, v \in Tasks : placing[u] = placing[v] /\ placing[u] # NoTask => u = v

\* A dead thread is on its way to WFI, or there; the pick is not dead
TheDead ==
    /\ \A t \in Tasks : status[t] = "DEATH" =>
           \/ pc[t] \in {"trap", "svc"} /\ why[t] = "exit"
           \/ pc[t] = "wfi"
    /\ \A c \in Cpus : next[c] \in Tasks /\ next[c] # current[c] => status[next[c]] # "DEATH"

\* The slice counter outside of a handler
TicksOutside == \A c \in Cpus : irq[c] = "none" => ticks[c] \in 0..Slice

IInv ==
    /\ TypeOK
    /\ TicksOutside
    /\ QueuesOwnTasks
    /\ CurrentExists
    /\ NextKnown
    /\ IdleTasks
    /\ Creations
    /\ TheDead
    /\ RunningIsCurrent

-----------------------------------------------------------------------------
(* What most steps leave alone.                                            *)

\* A queue's entries stay good as long as nobody is un-created
LEMMA QueuesKept ==
    ASSUME QueuesOwnTasks, runq' = runq, home' = home,
           \A t \in Tasks : pc[t] # "none" => pc'[t] # "none"
    PROVE  QueuesOwnTasks'
  BY DEF QueuesOwnTasks, Queued

\* The same of the current tasks
LEMMA CurrentKept ==
    ASSUME TypeOK, CurrentExists, irq' = irq, current' = current,
           \A t \in Tasks : pc[t] # "none" => pc'[t] # "none"
    PROVE  CurrentExists'
  BY DEF TypeOK, CurrentExists

\* And of the picks
LEMMA NextKept ==
    ASSUME NextKnown, next' = next, current' = current, runq' = runq
    PROVE  NextKnown'
  BY DEF NextKnown, Queued

\* Appending a task to one queue adds it to that queue's tasks
LEMMA AppendQueued ==
    ASSUME TypeOK, NEW c \in Cpus, NEW t \in Tasks,
           runq' = [runq EXCEPT ![c] = Append(@, t)], NEW d \in Cpus
    PROVE  /\ runq' \in [Cpus -> Seq(Tasks)]
           /\ Queued(d)' = IF d = c THEN Queued(d) \cup {t} ELSE Queued(d)
  <1>1. runq[c] \in Seq(Tasks)
    BY DEF TypeOK
  <1>2. runq' \in [Cpus -> Seq(Tasks)]
    <2>1. Append(runq[c], t) \in Seq(Tasks)
      BY <1>1
    <2> QED
      BY <2>1 DEF TypeOK
  <1>3. CASE d = c
    <2>1. runq'[c] = Append(runq[c], t)
      BY DEF TypeOK
    <2>2. /\ DOMAIN runq'[c] = 1..(Len(runq[c]) + 1)
          /\ \A i \in 1..Len(runq[c]) : runq'[c][i] = runq[c][i]
          /\ runq'[c][Len(runq[c]) + 1] = t
      BY <1>1, <2>1
    <2>3. DOMAIN runq[c] = 1..Len(runq[c]) /\ Len(runq[c]) \in Nat
      BY <1>1
    <2>4. Queued(d)' = Queued(d) \cup {t}
      BY <1>3, <2>2, <2>3 DEF Queued
    <2> QED
      BY <1>2, <1>3, <2>4
  <1>4. CASE d # c
    <2>1. Queued(d)' = Queued(d)
      BY <1>4 DEF Queued, TypeOK
    <2> QED
      BY <1>2, <1>4, <2>1
  <1> QED
    BY <1>3, <1>4
-----------------------------------------------------------------------------
(* The tasks' own steps.                                                   *)

\* Sched_sleep_ns setting WAIT
LEMMA SuspendStep == ASSUME IInv, NEW t \in Tasks, Suspend(t) PROVE IInv'
  <1> USE SchedAssumption DEF IInv, Suspend, At, OnCpu, taskVars, codeVars, cpuVars, switchVars
  <1>1. TypeOK'
    BY DEF TypeOK, Steps
  <1>2. QueuesOwnTasks' /\ CurrentExists' /\ NextKnown'
    BY QueuesKept, CurrentKept, NextKept DEF TypeOK
  <1>3. TicksOutside'
    BY DEF TicksOutside, TypeOK
  <1>4. IdleTasks'
    BY DEF IdleTasks, TypeOK, Tasks, Idle
  <1>5. Creations'
    BY DEF Creations, TypeOK
  <1>6. TheDead'
    BY DEF TheDead, TypeOK, CurrentExists
  <1>7. RunningIsCurrent'
    BY DEF RunningIsCurrent, TypeOK
  <1> QED
    BY <1>1, <1>2, <1>3, <1>4, <1>5, <1>6, <1>7

\* Sched_yield using up the slice
LEMMA UseUpSliceStep == ASSUME IInv, NEW t \in Tasks, UseUpSlice(t) PROVE IInv'
  <1> USE SchedAssumption DEF IInv, UseUpSlice, At, OnCpu, taskVars, codeVars, cpuVars, switchVars
  <1>1. TypeOK'
    BY DEF TypeOK, Steps
  <1>2. QueuesOwnTasks' /\ CurrentExists' /\ NextKnown'
    BY QueuesKept, CurrentKept, NextKept DEF TypeOK
  <1>3. TicksOutside'
    BY DEF TicksOutside, TypeOK
  <1>4. IdleTasks'
    BY DEF IdleTasks, TypeOK, Tasks, Idle
  <1>5. Creations'
    BY DEF Creations, TypeOK
  <1>6. TheDead'
    BY DEF TheDead, TypeOK, CurrentExists
  <1>7. RunningIsCurrent'
    BY DEF RunningIsCurrent, TypeOK
  <1> QED
    BY <1>1, <1>2, <1>3, <1>4, <1>5, <1>6, <1>7

\* The loop test of sched_sleep_ns
LEMMA CheckSleepStep == ASSUME IInv, NEW t \in Tasks, CheckSleep(t) PROVE IInv'
  <1> USE SchedAssumption DEF IInv, CheckSleep, At, OnCpu, taskVars, codeVars, cpuVars, switchVars
  <1>1. TypeOK'
    BY DEF TypeOK, Steps, StillAsleep
  <1>2. QueuesOwnTasks' /\ CurrentExists' /\ NextKnown'
    BY QueuesKept, CurrentKept, NextKept DEF TypeOK, StillAsleep
  <1>3. TicksOutside'
    BY DEF TicksOutside, TypeOK
  <1>4. IdleTasks'
    BY DEF IdleTasks, TypeOK, Tasks, Idle
  <1>5. Creations'
    BY DEF Creations, TypeOK, StillAsleep
  <1>6. TheDead'
    BY DEF TheDead, TypeOK, CurrentExists, StillAsleep
  <1>7. RunningIsCurrent'
    BY DEF RunningIsCurrent, TypeOK, StillAsleep
  <1> QED
    BY <1>1, <1>2, <1>3, <1>4, <1>5, <1>6, <1>7

\* The status test after it
LEMMA WakeUpStep == ASSUME IInv, NEW t \in Tasks, WakeUp(t) PROVE IInv'
  <1> USE SchedAssumption DEF IInv, WakeUp, At, OnCpu, taskVars, codeVars, cpuVars, switchVars
  <1>1. TypeOK'
    BY DEF TypeOK, Steps
  <1>2. QueuesOwnTasks' /\ CurrentExists' /\ NextKnown'
    BY QueuesKept, CurrentKept, NextKept DEF TypeOK
  <1>3. TicksOutside'
    BY DEF TicksOutside, TypeOK
  <1>4. IdleTasks'
    BY DEF IdleTasks, TypeOK, Tasks, Idle
  <1>5. Creations'
    BY DEF Creations, TypeOK
  <1>6. TheDead'
    BY DEF TheDead, TypeOK, CurrentExists
  <1>7. RunningIsCurrent'
    BY DEF RunningIsCurrent, TypeOK
  <1> QED
    BY <1>1, <1>2, <1>3, <1>4, <1>5, <1>6, <1>7

\* Sched_disable closing the switch
LEMMA DisableNowStep == ASSUME IInv, NEW t \in Tasks, DisableNow(t) PROVE IInv'
  <1> USE SchedAssumption DEF IInv, DisableNow, At, OnCpu, taskVars, codeVars, cpuVars, switchVars
  <1>1. TypeOK'
    BY DEF TypeOK, Steps
  <1>2. QueuesOwnTasks' /\ CurrentExists' /\ NextKnown'
    BY QueuesKept, CurrentKept, NextKept DEF TypeOK
  <1>3. TicksOutside'
    BY DEF TicksOutside, TypeOK
  <1>4. IdleTasks'
    BY DEF IdleTasks, TypeOK, Tasks, Idle
  <1>5. Creations'
    BY DEF Creations, TypeOK
  <1>6. TheDead'
    BY DEF TheDead, TypeOK, CurrentExists
  <1>7. RunningIsCurrent'
    BY DEF RunningIsCurrent, TypeOK
  <1> QED
    BY <1>1, <1>2, <1>3, <1>4, <1>5, <1>6, <1>7

\* A call of sched_yield
LEMMA YieldStep == ASSUME IInv, NEW t \in Tasks, Yield(t) PROVE IInv'
  <1> USE SchedAssumption DEF IInv, Yield, At, OnCpu, taskVars, codeVars, cpuVars, switchVars
  <1>1. TypeOK'
    BY DEF TypeOK, Steps, Idle
  <1>2. QueuesOwnTasks' /\ CurrentExists' /\ NextKnown'
    BY QueuesKept, CurrentKept, NextKept DEF TypeOK, Idle
  <1>3. TicksOutside'
    BY DEF TicksOutside, TypeOK
  <1>4. IdleTasks'
    BY DEF IdleTasks, TypeOK, Tasks, Idle
  <1>5. Creations'
    BY DEF Creations, TypeOK, Idle
  <1>6. TheDead'
    BY DEF TheDead, TypeOK, CurrentExists, Idle
  <1>7. RunningIsCurrent'
    BY DEF RunningIsCurrent, TypeOK, Idle
  <1> QED
    BY <1>1, <1>2, <1>3, <1>4, <1>5, <1>6, <1>7

\* Sched_thread_exit; the pick of no handler is the exiting thread
LEMMA ExitStep == ASSUME IInv, NEW t \in Tasks, Exit(t) PROVE IInv'
  <1> USE SchedAssumption DEF IInv, Exit, At, OnCpu, taskVars, codeVars, cpuVars, switchVars
  <1>1. TypeOK'
    BY DEF TypeOK, Steps, Idle
  <1>2. QueuesOwnTasks' /\ CurrentExists' /\ NextKnown'
    BY QueuesKept, CurrentKept, NextKept DEF TypeOK, Idle
  <1>3. TicksOutside'
    BY DEF TicksOutside, TypeOK
  <1>4. IdleTasks'
    BY DEF IdleTasks, TypeOK, Tasks, Idle
  <1>5. Creations'
    BY DEF Creations, TypeOK, Idle
  <1>6. TheDead'
    <2>1. ASSUME NEW c \in Cpus, next[c] \in Tasks, next[c] # current[c]
          PROVE  next[c] # t
      BY <2>1 DEF NextKnown, QueuesOwnTasks
    <2> QED
      BY <2>1 DEF TheDead, TypeOK
  <1>7. RunningIsCurrent'
    BY DEF RunningIsCurrent, TypeOK, Idle
  <1> QED
    BY <1>1, <1>2, <1>3, <1>4, <1>5, <1>6, <1>7

\* Sched_disable counting
LEMMA DisableStep == ASSUME IInv, NEW t \in Tasks, Disable(t) PROVE IInv'
  <1> USE SchedAssumption DEF IInv, Disable, At, OnCpu, taskVars, codeVars, cpuVars, switchVars
  <1>1. TypeOK'
    BY DEF TypeOK, Steps, MaxOff
  <1>2. QueuesOwnTasks' /\ CurrentExists' /\ NextKnown'
    BY QueuesKept, CurrentKept, NextKept DEF TypeOK, MaxOff
  <1>3. TicksOutside'
    BY DEF TicksOutside, TypeOK
  <1>4. IdleTasks'
    BY DEF IdleTasks, TypeOK, Tasks, Idle
  <1>5. Creations'
    BY DEF Creations, TypeOK, MaxOff
  <1>6. TheDead'
    BY DEF TheDead, TypeOK, CurrentExists, MaxOff
  <1>7. RunningIsCurrent'
    BY DEF RunningIsCurrent, TypeOK, MaxOff
  <1> QED
    BY <1>1, <1>2, <1>3, <1>4, <1>5, <1>6, <1>7

\* Sched_enable
LEMMA EnableStep == ASSUME IInv, NEW t \in Tasks, Enable(t) PROVE IInv'
  <1> USE SchedAssumption DEF IInv, Enable, At, OnCpu, taskVars, codeVars, cpuVars, switchVars
  <1>1. TypeOK'
    <2>1. enabled' = EnabledAfter(depth - 1) /\ EnabledAfter(depth - 1) \in BOOLEAN
      BY DEF EnabledAfter
    <2>2. depth' \in 0..MaxOff
      BY DEF TypeOK, MaxOff
    <2> HIDE DEF Enable
    <2>3. UNCHANGED <<status, wakeup, home, ctxOk, pc, why, placing, asked, runq, current,
                      ticks, irq, next, refused, pend, online>>
      BY DEF Enable
    <2> QED
      BY <2>1, <2>2, <2>3 DEF TypeOK
  <1>2. QueuesOwnTasks' /\ CurrentExists' /\ NextKnown'
    BY QueuesKept, CurrentKept, NextKept DEF TypeOK, EnabledAfter, MaxOff
  <1>3. TicksOutside'
    BY DEF TicksOutside, TypeOK
  <1>4. IdleTasks'
    BY DEF IdleTasks, TypeOK, Tasks, Idle
  <1>5. Creations'
    BY DEF Creations, TypeOK, EnabledAfter, MaxOff
  <1>6. TheDead'
    BY DEF TheDead, TypeOK, CurrentExists, EnabledAfter, MaxOff
  <1>7. RunningIsCurrent'
    BY DEF RunningIsCurrent, TypeOK, EnabledAfter, MaxOff
  <1> QED
    BY <1>1, <1>2, <1>3, <1>4, <1>5, <1>6, <1>7

\* Sched_sleep_ns setting the time
LEMMA SleepStep == ASSUME IInv, NEW t \in Tasks, NEW d \in Durations, Sleep(t, d) PROVE IInv'
  <1> USE SchedAssumption DEF IInv, Sleep, At, OnCpu, taskVars, codeVars, cpuVars, switchVars
  <1>1. TypeOK'
    BY DEF TypeOK, Steps, NotTimed
  <1>2. QueuesOwnTasks' /\ CurrentExists' /\ NextKnown'
    BY QueuesKept, CurrentKept, NextKept DEF TypeOK, NotTimed
  <1>3. TicksOutside'
    BY DEF TicksOutside, TypeOK
  <1>4. IdleTasks'
    BY DEF IdleTasks, TypeOK, Tasks, Idle
  <1>5. Creations'
    BY DEF Creations, TypeOK, NotTimed
  <1>6. TheDead'
    BY DEF TheDead, TypeOK, CurrentExists, NotTimed
  <1>7. RunningIsCurrent'
    BY DEF RunningIsCurrent, TypeOK, NotTimed
  <1> QED
    BY <1>1, <1>2, <1>3, <1>4, <1>5, <1>6, <1>7

-----------------------------------------------------------------------------
(* Creation.                                                               *)

\* The chosen core is one of the ready ones, or core 0
LEMMA PickCpuOfReady ==
    ASSUME NEW isApp, NEW len, NEW ready, ready \subseteq Cpus
    PROVE  PickCpu(isApp, len, ready) \subseteq Cpus
  <1>1. 0 \in Cpus
    BY SchedAssumption DEF Cpus
  <1> QED
    BY <1>1 DEF PickCpu

\* The choice of a core for a new thread
LEMMA StartCreateStep ==
    ASSUME IInv, NEW u \in Tasks, NEW t \in Threads, StartCreate(u, t) PROVE IInv'
  <1> USE SchedAssumption DEF IInv, StartCreate, At, OnCpu, switchVars, cpuVars
  <1>1. t \in Tasks /\ t \notin Cpus /\ t # NoTask /\ pc[t] = "none" /\ u # t
    BY DEF Tasks
  <1>2. PICK c \in Cpus : home' = [home EXCEPT ![t] = c]
    <2>1. PickCpu(t \in AppThreads, [d \in Cpus |-> Len(runq[d])], ReadyCpus) \subseteq Cpus
      BY PickCpuOfReady DEF ReadyCpus
    <2> QED
      BY <2>1
  <1>3. TypeOK'
    BY <1>1, <1>2 DEF TypeOK, Steps
  <1>4. QueuesOwnTasks'
    <2>1. \A d \in Cpus : Queued(d)' = Queued(d)
      BY DEF Queued
    <2>2. \A x \in Tasks \ {t} : home'[x] = home[x] /\ (pc[x] # "none" => pc'[x] # "none")
      BY <1>2 DEF TypeOK
    <2> QED
      BY <1>1, <2>1, <2>2 DEF QueuesOwnTasks
  <1>5. CurrentExists' /\ NextKnown'
    BY <1>1, CurrentKept, NextKept DEF TypeOK
  <1>6. TicksOutside'
    BY DEF TicksOutside
  <1>7. IdleTasks'
    <2>1. \A d \in Cpus : home'[d] = home[d] /\ (pc'[d] = "boot" => pc[d] = "boot")
      BY <1>1, <1>2 DEF TypeOK, Tasks
    <2>2. UNCHANGED <<status, current>>
      OBVIOUS
    <2> HIDE DEF StartCreate
    <2> QED
      BY <2>1, <2>2 DEF IdleTasks
  <1>8. Creations'
    <2>1. /\ placing' = [placing EXCEPT ![u] = t]
          /\ pc' = [pc EXCEPT ![u] = "create"]
          /\ status' = status
          /\ \A v \in Tasks : placing[v] # t
      BY DEF Creations
    <2> HIDE DEF StartCreate
    <2>2. \A x \in Tasks : pc'[x] = "none" => status'[x] = "NONE"
      BY <2>1 DEF Creations, TypeOK
    <2>3. \A x \in Tasks : pc'[x] = "create" <=> placing'[x] # NoTask
      BY <1>1, <2>1 DEF Creations, TypeOK
    <2>4. \A x \in Tasks : placing'[x] # NoTask => pc'[placing'[x]] = "none"
      <3>1. pc[u] = "run" /\ placing'[u] = t /\ pc'[t] = "none"
        BY <1>1, <2>1 DEF TypeOK, StartCreate, At
      <3>2. ASSUME NEW x \in Tasks, x # u, placing[x] # NoTask
            PROVE  pc'[placing'[x]] = "none"
        <4>1. placing'[x] = placing[x] /\ placing[x] \in Tasks
          BY <3>2, <2>1 DEF TypeOK, Tasks
        <4>2. pc[placing[x]] = "none"
          BY <3>2 DEF Creations
        <4> QED
          BY <4>1, <4>2, <3>1, <2>1 DEF TypeOK
      <3> QED
        BY <3>1, <3>2, <2>1 DEF TypeOK
    <2>5. \A x, v \in Tasks : placing'[x] = placing'[v] /\ placing'[x] # NoTask => x = v
      BY <2>1 DEF Creations, TypeOK
    <2> QED
      BY <2>2, <2>3, <2>4, <2>5 DEF Creations
  <1>9. TheDead'
    BY <1>1 DEF TheDead, TypeOK
  <1>10. RunningIsCurrent'
    <2>1. UNCHANGED <<status, current>> /\ pc[u] = "run" /\ status[t] = "NONE"
      BY <1>1 DEF Creations
    <2>2. \A x \in Tasks \ {t} : home'[x] = home[x]
      BY <1>2 DEF TypeOK
    <2>3. \A x \in Tasks : pc'[x] # "boot" => pc[x] # "boot"
      BY <2>1 DEF TypeOK
    <2>4. \A d \in Cpus : current[d] # NoTask => current[d] \in Tasks /\ current[d] # t
      BY <1>1 DEF CurrentExists, TypeOK
    <2> HIDE DEF StartCreate
    <2> QED
      BY <2>1, <2>2, <2>3, <2>4 DEF RunningIsCurrent
  <1> QED
    BY <1>3, <1>4, <1>5, <1>6, <1>7, <1>8, <1>9, <1>10

\* The append of the new thread
LEMMA FinishCreateStep == ASSUME IInv, NEW u \in Tasks, FinishCreate(u) PROVE IInv'
  <1> DEFINE t == placing[u]
  <1> USE SchedAssumption DEF IInv
  <1>1. /\ t \in Threads /\ t \in Tasks /\ t \notin Cpus /\ t # NoTask
        /\ pc[t] = "none" /\ u # t /\ home[t] \in Cpus
    BY DEF Creations, TypeOK, Tasks, FinishCreate, At
  <1>2. /\ runq' = [runq EXCEPT ![home[t]] = Append(@, t)]
        /\ pc' = [pc EXCEPT ![u] = "run", ![t] = "run"]
        /\ status' = [status EXCEPT ![t] = "START"]
        /\ placing' = [placing EXCEPT ![u] = NoTask]
    BY DEF FinishCreate, Target
  <1>3. UNCHANGED <<wakeup, home, ctxOk, why, asked, current, ticks, irq, next, refused,
                    pend, online, enabled, depth>>
    BY DEF FinishCreate, cpuVars, switchVars
  <1>4. /\ placing[u] = t /\ pc[u] = "create"
        /\ \A v \in Tasks \ {u} : placing[v] # t
    BY <1>1 DEF Creations
  <1> HIDE DEF t
  <1>5. /\ runq' \in [Cpus -> Seq(Tasks)]
        /\ \A d \in Cpus : Queued(d)' = IF d = home[t] THEN Queued(d) \cup {t} ELSE Queued(d)
    BY <1>1, <1>2, AppendQueued
  <1>6. /\ status' \in [Tasks -> {"NONE", "START", "RUNNING", "WAIT", "DEATH"}]
        /\ status'[t] = "START"
        /\ \A x \in Tasks \ {t} : status'[x] = status[x]
    BY <1>1, <1>2 DEF TypeOK
  <1>7. /\ pc' \in [Tasks -> Steps]
        /\ pc'[t] = "run" /\ pc'[u] = "run"
        /\ \A x \in Tasks \ {t, u} : pc'[x] = pc[x]
    <2>1. pc \in [Tasks -> Steps] /\ "run" \in Steps
      BY DEF TypeOK, Steps
    <2> QED
      BY <1>1, <1>2, <2>1
  <1>8. /\ placing' \in [Tasks -> Threads \cup {NoTask}]
        /\ placing'[u] = NoTask
        /\ \A x \in Tasks \ {u} : placing'[x] = placing[x]
    BY <1>2 DEF TypeOK
  <1>9. TypeOK'
    BY <1>3, <1>5, <1>6, <1>7, <1>8 DEF TypeOK
  <1>10. QueuesOwnTasks'
    <2>1. ASSUME NEW d \in Cpus, NEW x \in Queued(d)'
          PROVE  x \in Tasks /\ home'[x] = d /\ pc'[x] # "none"
      <3>1. CASE x \in Queued(d)
        BY <1>3, <1>7, <3>1 DEF QueuesOwnTasks
      <3>2. CASE x = t /\ d = home[t]
        BY <1>1, <1>3, <1>7, <3>2
      <3> QED
        BY <1>5, <3>1, <3>2
    <2> QED
      BY <2>1 DEF QueuesOwnTasks
  <1>11. CurrentExists'
    BY <1>3, <1>7, CurrentKept
  <1>12. NextKnown'
    BY <1>3, <1>5 DEF NextKnown
  <1>13. TicksOutside'
    BY <1>3 DEF TicksOutside
  <1>14. IdleTasks'
    <2>1. \A c \in Cpus : status'[c] = status[c] /\ (pc'[c] = "boot" => pc[c] = "boot")
      BY <1>1, <1>6, <1>7 DEF Tasks
    <2> QED
      BY <1>3, <2>1 DEF IdleTasks
  <1>15. Creations'
    <2>1. \A x \in Tasks : pc'[x] = "none" => status'[x] = "NONE"
      BY <1>6, <1>7 DEF Creations
    <2>2. \A x \in Tasks : pc'[x] = "create" <=> placing'[x] # NoTask
      BY <1>1, <1>7, <1>8 DEF Creations
    <2>3. ASSUME NEW x \in Tasks, placing'[x] # NoTask PROVE pc'[placing'[x]] = "none"
      <3>1. x # u /\ placing'[x] = placing[x] /\ pc[placing[x]] = "none"
        BY <1>8, <2>3 DEF Creations
      <3>2. placing[x] \in Tasks
        BY <2>3, <3>1 DEF TypeOK, Tasks
      <3>3. placing[x] # t /\ placing[x] # u
        BY <1>4, <3>1
      <3> QED
        BY <1>7, <3>1, <3>2, <3>3
    <2>4. \A x, v \in Tasks : placing'[x] = placing'[v] /\ placing'[x] # NoTask => x = v
      BY <1>8 DEF Creations
    <2> QED
      BY <2>1, <2>2, <2>3, <2>4 DEF Creations
  <1>16. TheDead'
    <2>1. ASSUME NEW x \in Tasks, status'[x] = "DEATH"
          PROVE  (pc'[x] \in {"trap", "svc"} /\ why'[x] = "exit") \/ pc'[x] = "wfi"
      <3>1. x # t /\ status[x] = "DEATH"
        BY <1>6, <2>1
      <3>2. x # u
        BY <1>4, <3>1 DEF TheDead
      <3> QED
        BY <1>3, <1>7, <3>1, <3>2 DEF TheDead
    <2>2. \A x \in Tasks : status'[x] = "DEATH" => status[x] = "DEATH"
      BY <1>6
    <2> QED
      BY <1>3, <2>1, <2>2 DEF TheDead
  <1>17. RunningIsCurrent'
    <2>1. \A x \in Tasks : status'[x] = "RUNNING" /\ pc'[x] # "boot"
              => status[x] = "RUNNING" /\ pc[x] # "boot"
      BY <1>4, <1>6, <1>7
    <2> QED
      BY <1>3, <2>1 DEF RunningIsCurrent
  <1> QED
    BY <1>9, <1>10, <1>11, <1>12, <1>13, <1>14, <1>15, <1>16, <1>17

-----------------------------------------------------------------------------
(* The boot of a core.                                                     *)

\* An AP gets its current task
LEMMA BootCurrentStep == ASSUME IInv, NEW c \in Cpus, BootCurrent(c) PROVE IInv'
  <1> USE SchedAssumption DEF IInv, BootCurrent, Tasks, taskVars, switchVars
  <1>1. TypeOK'
    BY DEF TypeOK, Steps
  <1>2. QueuesOwnTasks'
    BY QueuesKept DEF TypeOK, taskVars
  <1>3. CurrentExists'
    <2>1. /\ current' = [current EXCEPT ![c] = c]
          /\ pc' = [pc EXCEPT ![c] = "cur"]
          /\ irq' = irq /\ c # NoTask
      OBVIOUS
    <2>2. /\ current'[c] = c /\ c \in Tasks /\ pc'[c] = "cur"
          /\ \A d \in Cpus \ {c} : current'[d] = current[d]
      BY <2>1 DEF TypeOK
    <2>3. \A x \in Tasks : pc[x] # "none" => pc'[x] # "none"
      BY <2>1 DEF TypeOK
    <2>4. \A d \in Cpus : current[d] # NoTask => current[d] \in Tasks
      BY DEF TypeOK
    <2> HIDE DEF BootCurrent, Tasks
    <2> QED
      BY <2>1, <2>2, <2>3, <2>4 DEF CurrentExists
  <1>4. NextKnown' /\ TicksOutside'
    BY DEF NextKnown, TicksOutside, Queued, TypeOK, IdleTasks
  <1>5. IdleTasks' /\ Creations'
    BY DEF IdleTasks, Creations, TypeOK
  <1>6. TheDead'
    BY DEF TheDead, TypeOK, IdleTasks
  <1>7. RunningIsCurrent'
    BY DEF RunningIsCurrent, TypeOK, IdleTasks
  <1> QED
    BY <1>1, <1>2, <1>3, <1>4, <1>5, <1>6, <1>7

\* It appends its idle task
LEMMA BootAppendStep == ASSUME IInv, NEW c \in Cpus, BootAppend(c) PROVE IInv'
  <1> USE SchedAssumption DEF IInv, BootAppend, At, OnCpu, Tasks, taskVars, cpuVars, switchVars
  <1>1. /\ runq' \in [Cpus -> Seq(Tasks)]
        /\ \A d \in Cpus : Queued(d)' = IF d = c THEN Queued(d) \cup {c} ELSE Queued(d)
    BY AppendQueued
  <1>2. TypeOK'
    <2>1. pc' \in [Tasks -> Steps]
      BY DEF TypeOK, Steps
    <2> QED
      BY <1>1, <2>1 DEF TypeOK
  <1>3. QueuesOwnTasks'
    <2>1. home' = home /\ \A x \in Tasks : pc[x] # "none" => pc'[x] # "none"
      BY DEF TypeOK
    <2> QED
      BY <1>1, <2>1 DEF QueuesOwnTasks, IdleTasks
  <1>4. CurrentExists'
    BY CurrentKept DEF TypeOK
  <1>5. NextKnown' /\ TicksOutside'
    BY <1>1 DEF NextKnown, TicksOutside
  <1>6. IdleTasks' /\ Creations' /\ TheDead' /\ RunningIsCurrent'
    BY DEF IdleTasks, Creations, TheDead, RunningIsCurrent, TypeOK
  <1> QED
    BY <1>2, <1>3, <1>4, <1>5, <1>6

\* It reports in
LEMMA BootOnlineStep == ASSUME IInv, NEW c \in Cpus, BootOnline(c) PROVE IInv'
  <1> USE SchedAssumption DEF IInv, BootOnline, At, OnCpu, Tasks, taskVars, cpuVars, switchVars
  <1>1. TypeOK'
    BY DEF TypeOK, Steps
  <1>2. QueuesOwnTasks' /\ CurrentExists' /\ NextKnown' /\ TicksOutside'
    BY QueuesKept, CurrentKept, NextKept DEF TypeOK, TicksOutside
  <1>3. IdleTasks' /\ Creations' /\ TheDead' /\ RunningIsCurrent'
    BY DEF IdleTasks, Creations, TheDead, RunningIsCurrent, TypeOK
  <1> QED
    BY <1>1, <1>2, <1>3

-----------------------------------------------------------------------------
(* The clock and the handler.                                              *)

\* A millisecond passes
LEMMA ClockStep == ASSUME IInv, Clock PROVE IInv'
  <1> USE DEF IInv, Clock, cpuVars, switchVars
  <1>1. TypeOK'
    <2>1. wakeup' \in [Tasks -> Nat \cup {NotTimed}]
      BY DEF TypeOK, NotTimed
    <2>2. asked' \in [Tasks -> Nat]
      BY DEF TypeOK
    <2> QED
      BY <2>1, <2>2 DEF TypeOK
  <1>2. QueuesOwnTasks' /\ CurrentExists' /\ NextKnown'
    BY QueuesKept, CurrentKept, NextKept
  <1>3. IdleTasks' /\ Creations' /\ TheDead' /\ RunningIsCurrent' /\ TicksOutside'
    BY DEF IdleTasks, Creations, TheDead, RunningIsCurrent, TicksOutside
  <1> QED
    BY <1>1, <1>2, <1>3

\* What the entry of the handler does to the core
LEMMA EnterStep ==
    ASSUME TypeOK, TicksOutside, NEW c \in Cpus, irq[c] = "none", Enter(c)
    PROVE  /\ ticks' \in [Cpus -> 0..(Slice + 1)]
           /\ irq' \in [Cpus -> {"none", "select", "switch"}]
           /\ TicksOutside'
           /\ current' = current /\ next' = next /\ refused' = refused
           /\ \A d \in Cpus : irq'[d] # "none" => irq[d] # "none" \/ current[d] # NoTask
  <1> USE SchedAssumption DEF Enter, cpuVars
  <1>1. CASE ~enabled \/ current[c] = NoTask
    BY <1>1 DEF TypeOK, TicksOutside
  <1>2. CASE ~(~enabled \/ current[c] = NoTask)
    <2> DEFINE charged == status[current[c]] = "RUNNING" /\ ~Idle(current[c])
    <2>1. /\ ticks' = [ticks EXCEPT ![c] = IF charged THEN @ + 1 ELSE 0]
          /\ irq' = [irq EXCEPT ![c] = IF Continues(c) THEN "none" ELSE "select"]
          /\ current' = current /\ next' = next /\ refused' = refused
      BY <1>2
    <2>2. Continues(c) => charged /\ ticks[c] + 1 < Slice
      BY DEF Continues
    <2>3. ticks[c] \in 0..Slice
      BY DEF TicksOutside
    <2> HIDE DEF charged
    <2> QED
      BY <1>2, <2>1, <2>2, <2>3 DEF TypeOK, TicksOutside
  <1> QED
    BY <1>1, <1>2

\* The timer enters the handler
LEMMA TimerIrqStep == ASSUME IInv, NEW c \in Cpus, TimerIrq(c) PROVE IInv'
  <1> USE DEF IInv, TimerIrq, codeVars, switchVars
  <1>1. /\ ticks' \in [Cpus -> 0..(Slice + 1)]
        /\ irq' \in [Cpus -> {"none", "select", "switch"}]
        /\ TicksOutside'
        /\ current' = current /\ next' = next /\ refused' = refused
        /\ \A d \in Cpus : irq'[d] # "none" => irq[d] # "none" \/ current[d] # NoTask
    BY EnterStep
  <1>2. TypeOK'
    BY <1>1 DEF TypeOK
  <1>3. QueuesOwnTasks' /\ NextKnown'
    BY <1>1, QueuesKept, NextKept
  <1>4. CurrentExists'
    BY <1>1 DEF CurrentExists
  <1>5. IdleTasks' /\ Creations' /\ TheDead' /\ RunningIsCurrent'
    BY <1>1 DEF IdleTasks, Creations, TheDead, RunningIsCurrent
  <1> QED
    BY <1>1, <1>2, <1>3, <1>4, <1>5

\* The trap of sched_yield enters it
LEMMA SvcStep == ASSUME IInv, NEW t \in Tasks, Svc(t) PROVE IInv'
  <1> USE DEF IInv, Svc, At, OnCpu, switchVars
  <1>1. /\ ticks' \in [Cpus -> 0..(Slice + 1)]
        /\ irq' \in [Cpus -> {"none", "select", "switch"}]
        /\ TicksOutside'
        /\ current' = current /\ next' = next /\ refused' = refused
        /\ \A d \in Cpus : irq'[d] # "none" => irq[d] # "none" \/ current[d] # NoTask
    BY EnterStep DEF TypeOK
  <1>2. PICK s \in {"run", "chk", "wfi"} :
            /\ pc' = [pc EXCEPT ![t] = s]
            /\ why[t] = "exit" => s = "wfi"
    BY DEF TypeOK
  <1>3. TypeOK'
    BY <1>1, <1>2 DEF TypeOK, Steps
  <1>4. QueuesOwnTasks' /\ NextKnown'
    BY <1>1, <1>2, QueuesKept, NextKept DEF TypeOK
  <1>5. CurrentExists'
    BY <1>1, <1>2 DEF CurrentExists, TypeOK
  <1>6. IdleTasks'
    BY <1>1, <1>2 DEF IdleTasks, TypeOK, Tasks
  <1>7. Creations'
    BY <1>2 DEF Creations, TypeOK
  <1>8. TheDead'
    BY <1>1, <1>2 DEF TheDead, TypeOK
  <1>9. RunningIsCurrent'
    BY <1>1, <1>2 DEF RunningIsCurrent, TypeOK
  <1> QED
    BY <1>1, <1>3, <1>4, <1>5, <1>6, <1>7, <1>8, <1>9

\* What the wake-up scan may do to a status
LEMMA ScanStep ==
    ASSUME TypeOK, NEW c \in Cpus
    PROVE  /\ StatusAfterScan(c) \in [Tasks -> {"NONE", "START", "RUNNING", "WAIT", "DEATH"}]
           /\ \A t \in Tasks :
                  \/ StatusAfterScan(c)[t] = status[t]
                  \/ status[t] = "WAIT" /\ StatusAfterScan(c)[t] = "START"
  BY DEF TypeOK, StatusAfterScan, Woken, Due

\* sched_select_next returns nobody, current, the idle task of the queue, or a
\* thread of the queue that is not dead
LEMMA ChoiceStep ==
    ASSUME NEW c \in Cpus, NEW st, NEW v, NEW n \in Choice(c, st, v)
    PROVE  \/ n \in {NoTask, current[c]}
           \/ n \in Queued(c) /\ (n = c \/ st[n] # "DEATH")
  <1>1. Turn(runq[c], v, Waiting(c, st),
             AvgVruntime(v, Waiting(c, st) \cup {t \in {current[c]} \cap Queued(c) : Runnable(st[t])}))
            \subseteq Waiting(c, st)
    BY DEF Turn, Earliest
  <1>2. \A t \in Waiting(c, st) : t \in Queued(c) /\ st[t] # "DEATH"
    BY DEF Waiting, Runnable
  <1> QED
    BY <1>1, <1>2 DEF Choice

\* The handler scans and picks
LEMMA SelectStep == ASSUME IInv, NEW c \in Cpus, Select(c) PROVE IInv'
  <1> USE SchedAssumption DEF IInv, Select, codeVars, switchVars
  <1>1. PICK n : next' = [next EXCEPT ![c] = n] /\ n \in {NoTask, current[c]} \cup Queued(c)
                 /\ (n \in {NoTask, current[c]} \/ n = c \/ status'[n] # "DEATH")
    <2>1. CASE runq[c] = <<>>
      BY <2>1
    <2>2. CASE runq[c] # <<>>
      BY <2>2, ChoiceStep
    <2> QED
      BY <2>1, <2>2
  <1>2. /\ status' \in [Tasks -> {"NONE", "START", "RUNNING", "WAIT", "DEATH"}]
        /\ \A t \in Tasks :
               \/ status'[t] = status[t]
               \/ status[t] = "WAIT" /\ status'[t] = "START"
    <2>1. CASE runq[c] = <<>>
      BY <2>1 DEF TypeOK
    <2>2. CASE runq[c] # <<>>
      <3>1. status' = StatusAfterScan(c)
        BY <2>2
      <3> HIDE DEF Select
      <3> QED
        BY <3>1, ScanStep
    <2> QED
      BY <2>1, <2>2
  <1>3. n \in Tasks \cup {NoTask}
    BY <1>1 DEF TypeOK, QueuesOwnTasks
  <1>4. wakeup' \in [Tasks -> Nat \cup {NotTimed}]
    BY DEF TypeOK, NotTimed
  <1>5. TypeOK'
    BY <1>1, <1>2, <1>3, <1>4 DEF TypeOK
  <1>6. \A d \in Cpus : Queued(d)' = Queued(d)
    BY DEF Queued
  <1>7. QueuesOwnTasks' /\ CurrentExists' /\ NextKnown' /\ TicksOutside'
    <2>1. /\ UNCHANGED <<home, pc, current, ticks>>
          /\ irq' = [irq EXCEPT ![c] = "switch"]
          /\ irq[c] # "none"
      OBVIOUS
    <2> HIDE DEF Select
    <2>2. QueuesOwnTasks'
      BY <1>6, <2>1 DEF QueuesOwnTasks
    <2>3. CurrentExists' /\ TicksOutside'
      BY <2>1 DEF CurrentExists, TicksOutside, TypeOK
    <2>4. NextKnown'
      BY <1>1, <1>6, <2>1 DEF NextKnown, TypeOK
    <2> QED
      BY <2>2, <2>3, <2>4
  <1>8. IdleTasks' /\ RunningIsCurrent'
    BY <1>2 DEF IdleTasks, RunningIsCurrent, Tasks
  <1>9. Creations'
    BY <1>2 DEF Creations
  <1>10. TheDead'
    <2>1. \A t \in Tasks : status'[t] = "DEATH" => status[t] = "DEATH"
      BY <1>2
    <2>2. n = c => status'[n] # "DEATH"
      BY <2>1 DEF IdleTasks, Tasks
    <2>3. pc' = pc /\ why' = why /\ current' = current
      OBVIOUS
    <2> HIDE DEF Select
    <2> QED
      BY <1>1, <2>1, <2>2, <2>3 DEF TheDead, TypeOK
  <1> QED
    BY <1>5, <1>7, <1>8, <1>9, <1>10

\* The handler returns to where it came from
LEMMA StayStep == ASSUME IInv, NEW c \in Cpus, Stay(c) PROVE IInv'
  <1> USE SchedAssumption DEF IInv, Stay, Leave, FreshTicks, taskVars, codeVars, switchVars
  <1>1. \A d \in Cpus : Queued(d)' = Queued(d)
    BY DEF Queued
  <1>2. TypeOK'
    BY DEF TypeOK
  <1>3. QueuesOwnTasks' /\ CurrentExists' /\ NextKnown'
    BY <1>1 DEF QueuesOwnTasks, CurrentExists, NextKnown, TypeOK
  <1>4. TicksOutside'
    BY DEF TicksOutside, TypeOK
  <1>5. IdleTasks' /\ Creations' /\ TheDead' /\ RunningIsCurrent'
    BY DEF IdleTasks, Creations, TheDead, RunningIsCurrent, TypeOK
  <1> QED
    BY <1>2, <1>3, <1>4, <1>5

\* The handler switches
LEMMA SwitchStep == ASSUME IInv, NEW c \in Cpus, Switch(c) PROVE IInv'
  <1> DEFINE n == next[c]
             cur == current[c]
  <1> USE SchedAssumption DEF IInv
  <1>1. /\ n \in Queued(c) /\ n \in Tasks /\ home[n] = c /\ pc[n] # "none"
        /\ n # cur /\ cur \in Tasks /\ status[n] # "DEATH"
    BY DEF NextKnown, QueuesOwnTasks, CurrentExists, TheDead, TypeOK, Switch
  <1>2. \A d \in Cpus : Queued(d)' = Queued(d)
    BY DEF Queued, Switch
  <1>3. /\ next' = [next EXCEPT ![c] = NoTask]
        /\ irq' = [irq EXCEPT ![c] = "none"]
        /\ ticks' = [ticks EXCEPT ![c] = 0]
    BY DEF Switch, Leave, FreshTicks
  <1>4. UNCHANGED <<wakeup, vr, home, pc, why, placing, asked, runq, pend, online, enabled, depth>>
    BY DEF Switch, codeVars, switchVars
  <1>5. \/ current' = current /\ status' = status /\ ctxOk' = ctxOk /\ refused' \in [Cpus -> BOOLEAN]
        \/ /\ current' = [current EXCEPT ![c] = n]
           /\ status' = StatusSwitched(cur, n)
           /\ ctxOk' \in [Tasks -> BOOLEAN]
           /\ refused' = refused
    <2>1. CASE ~ctxOk[n]
      <3>1. /\ current' = current /\ status' = status /\ ctxOk' = ctxOk
            /\ refused' = [refused EXCEPT ![c] = TRUE]
        BY <2>1 DEF Switch
      <3>2. refused' \in [Cpus -> BOOLEAN]
        BY <3>1 DEF TypeOK
      <3> QED
        BY <3>1, <3>2
    <2>2. CASE ctxOk[n]
      <3>1. /\ current' = [current EXCEPT ![c] = n]
            /\ status' = StatusSwitched(cur, n)
            /\ ctxOk' = CtxCaptured(cur, n)
            /\ refused' = refused
        BY <2>2 DEF Switch
      <3>2. ctxOk' \in [Tasks -> BOOLEAN]
        BY <1>1, <3>1 DEF CtxCaptured, TypeOK
      <3> QED
        BY <3>1, <3>2
    <2> QED
      BY <2>1, <2>2
  <1> HIDE DEF n, cur
  <1>6. CASE current' = current /\ status' = status /\ ctxOk' = ctxOk /\ refused' \in [Cpus -> BOOLEAN]
    <2>1. TypeOK'
      <3>1. /\ next' \in [Cpus -> Tasks \cup {NoTask}]
            /\ irq' \in [Cpus -> {"none", "select", "switch"}]
            /\ ticks' \in [Cpus -> 0..(Slice + 1)]
        BY <1>3 DEF TypeOK
      <3> QED
        BY <1>4, <1>6, <3>1 DEF TypeOK
    <2>2. QueuesOwnTasks' /\ CurrentExists' /\ NextKnown' /\ TicksOutside'
      BY <1>2, <1>3, <1>4, <1>6 DEF QueuesOwnTasks, CurrentExists, NextKnown, TicksOutside, TypeOK
    <2>3. IdleTasks' /\ Creations' /\ TheDead' /\ RunningIsCurrent'
      BY <1>3, <1>4, <1>6 DEF IdleTasks, Creations, TheDead, RunningIsCurrent, TypeOK
    <2> QED
      BY <2>1, <2>2, <2>3
  <1>7. CASE /\ current' = [current EXCEPT ![c] = n]
             /\ status' = StatusSwitched(cur, n)
             /\ ctxOk' \in [Tasks -> BOOLEAN]
             /\ refused' = refused
    <2>1. /\ status' \in [Tasks -> {"NONE", "START", "RUNNING", "WAIT", "DEATH"}]
          /\ status'[cur] = IF status[cur] = "RUNNING" THEN "START" ELSE status[cur]
          /\ status'[n] = IF status[n] = "START" THEN "RUNNING" ELSE status[n]
          /\ \A t \in Tasks \ {cur, n} : status'[t] = status[t]
      BY <1>1, <1>7 DEF StatusSwitched, TypeOK
    <2>2. /\ current'[c] = n
          /\ \A d \in Cpus \ {c} : current'[d] = current[d]
          /\ current' \in [Cpus -> Tasks \cup {NoTask}]
      BY <1>1, <1>7 DEF TypeOK
    <2>3. /\ next'[c] = NoTask /\ irq'[c] = "none"
          /\ \A d \in Cpus \ {c} : next'[d] = next[d] /\ irq'[d] = irq[d]
      BY <1>3 DEF TypeOK
    <2>4. TypeOK'
      <3>1. /\ next' \in [Cpus -> Tasks \cup {NoTask}]
            /\ irq' \in [Cpus -> {"none", "select", "switch"}]
            /\ ticks' \in [Cpus -> 0..(Slice + 1)]
        BY <1>3 DEF TypeOK
      <3> QED
        BY <1>4, <1>7, <2>1, <2>2, <3>1 DEF TypeOK
    <2>5. QueuesOwnTasks' /\ CurrentExists' /\ NextKnown'
      BY <1>1, <1>2, <1>4, <2>2, <2>3 DEF QueuesOwnTasks, CurrentExists, NextKnown
    <2>6. TicksOutside'
      BY <1>3, <2>3 DEF TicksOutside, TypeOK
    <2>7. IdleTasks'
      <3>1. \A d \in Cpus : status'[d] # "DEATH"
        BY <1>1, <2>1 DEF IdleTasks, Tasks
      <3>2. pc[c] # "boot"
        BY <1>1 DEF IdleTasks, cur
      <3> QED
        BY <1>4, <2>2, <3>1, <3>2 DEF IdleTasks
    <2>8. Creations'
      <3>1. pc[cur] # "none"
        BY <1>1 DEF CurrentExists, cur
      <3> QED
        BY <1>1, <1>4, <2>1, <3>1 DEF Creations
    <2>9. TheDead'
      <3>1. \A t \in Tasks : status'[t] = "DEATH" => status[t] = "DEATH"
        BY <1>1, <2>1
      <3> QED
        BY <1>4, <2>2, <2>3, <3>1 DEF TheDead
    <2>10. RunningIsCurrent'
      <3>1. ASSUME NEW t \in Tasks, status'[t] = "RUNNING", pc'[t] # "boot"
            PROVE  current'[home'[t]] = t
        <4>1. CASE t = n
          BY <1>1, <1>4, <2>2, <4>1
        <4>2. CASE t # n
          <5>1. t # cur /\ status[t] = "RUNNING"
            BY <2>1, <3>1, <4>2
          <5>2. current[home[t]] = t /\ home[t] # c /\ home[t] \in Cpus
            BY <1>4, <3>1, <5>1 DEF RunningIsCurrent, TypeOK, cur
          <5> QED
            BY <1>4, <2>2, <5>2
        <4> QED
          BY <4>1, <4>2
      <3>2. ASSUME NEW d \in Cpus, current'[d] # NoTask
            PROVE  home'[current'[d]] = d
        BY <1>1, <1>4, <2>2, <3>2 DEF RunningIsCurrent
      <3> QED
        BY <3>1, <3>2 DEF RunningIsCurrent
    <2> QED
      BY <2>4, <2>5, <2>6, <2>7, <2>8, <2>9, <2>10
  <1> QED
    BY <1>5, <1>6, <1>7

-----------------------------------------------------------------------------
(* The initial state, and the invariant.                                   *)

\* Boot starts in the invariant
LEMMA InitStep == Init => IInv
  <1> SUFFICES ASSUME Init PROVE IInv
    OBVIOUS
  <1> USE SchedAssumption DEF Tasks, Cpus, Idle
  <1> DEFINE first == CHOOSE s \in [1..Cardinality(Created) -> Created] :
                          \A i, j \in DOMAIN s : s[i] = s[j] => i = j
  <1>1. first \in [1..Cardinality(Created) -> Created] /\ Cardinality(Created) \in Nat
    <2>1. IsFiniteSet(Created)
      BY FS_Subset
    <2>2. Cardinality(Created) \in Nat /\ ExistsBijection(1..Cardinality(Created), Created)
      BY <2>1, FS_CardinalityType
    <2>3. \E s \in [1..Cardinality(Created) -> Created] :
              \A i, j \in DOMAIN s : s[i] = s[j] => i = j
      BY <2>2 DEF ExistsBijection, Bijection, Injection, IsInjective
    <2> QED
      BY <2>2, <2>3
  <1>2. first \in Seq(Tasks)
    BY <1>1 DEF Tasks
  <1>3. runq = [c \in Cpus |-> IF c = 0 THEN <<0>> \o first ELSE <<>>]
    BY DEF Init
  <1> HIDE DEF first
  <1>4. 0 \in Cpus
    OBVIOUS
  <1>5. runq \in [Cpus -> Seq(Tasks)]
    <2>1. <<0>> \o first \in Seq(Tasks) /\ <<>> \in Seq(Tasks)
      BY <1>2, <1>4
    <2> QED
      BY <1>3, <2>1
  <1>6. \A c \in Cpus : \A t \in Queued(c) : c = 0 /\ (t = 0 \/ t \in Created)
    <2>1. ASSUME NEW c \in Cpus, c # 0 PROVE Queued(c) = {}
      BY <1>3, <2>1 DEF Queued
    <2>2. ASSUME NEW i \in DOMAIN runq[0] PROVE runq[0][i] = 0 \/ runq[0][i] \in Created
      BY <1>1, <1>2, <1>3, <1>4, <2>2
    <2> QED
      BY <2>1, <2>2, <1>4 DEF Queued
  <1>7. TypeOK
    BY <1>4, <1>5 DEF Init, TypeOK, Steps, NotTimed, MaxOff
  <1>8. QueuesOwnTasks
    BY <1>4, <1>6 DEF Init, QueuesOwnTasks
  <1>9. CurrentExists /\ NextKnown
    BY <1>4 DEF Init, CurrentExists, NextKnown
  <1>11. TicksOutside
    BY <1>4 DEF Init, TicksOutside
  <1>12. IdleTasks
    BY <1>4 DEF Init, IdleTasks
  <1>10. Creations /\ TheDead /\ RunningIsCurrent
    BY <1>4 DEF Init, Creations, TheDead, RunningIsCurrent
  <1> QED
    BY <1>7, <1>8, <1>9, <1>10, <1>11, <1>12 DEF IInv

\* Every step keeps it
LEMMA NextStep == IInv /\ [Next]_vars => IInv'
  <1> SUFFICES ASSUME IInv, [Next]_vars PROVE IInv'
    OBVIOUS
  <1>1. CASE UNCHANGED vars
    BY <1>1 DEF vars, taskVars, codeVars, cpuVars, switchVars, IInv, TypeOK, TicksOutside,
        QueuesOwnTasks, CurrentExists, NextKnown, IdleTasks, Creations, TheDead,
        RunningIsCurrent, Queued
  <1>2. CASE Clock
    BY <1>2, ClockStep
  <1>3. ASSUME NEW c \in Cpus, Tick(c) \/ Boot(c) PROVE IInv'
    BY <1>3, TimerIrqStep, SelectStep, StayStep, SwitchStep,
        BootCurrentStep, BootAppendStep, BootOnlineStep DEF Tick, Boot
  <1>4. ASSUME NEW t \in Tasks, Continue(t) PROVE IInv'
    BY <1>4, SuspendStep, UseUpSliceStep, SvcStep, CheckSleepStep, WakeUpStep,
        FinishCreateStep, DisableNowStep DEF Continue
  <1>5. ASSUME NEW t \in Tasks, Decide(t) PROVE IInv'
    BY <1>5, YieldStep, ExitStep, DisableStep, EnableStep, SleepStep, StartCreateStep DEF Decide
  <1> QED
    BY <1>1, <1>2, <1>3, <1>4, <1>5 DEF Next

\* IInv is inductive
THEOREM InvariantThm == Spec => []IInv
  BY InitStep, NextStep, PTL DEF Spec

(***************************************************************************)
(* All the scheduler's data keep their types (vruntimes aside); the slice  *)
(* counter of a core never exceeds one tick more than the slice.           *)
(***************************************************************************)
THEOREM TypeThm == Spec => []TypeOK
  <1>1. IInv => TypeOK
    BY DEF IInv
  <1> QED
    BY <1>1, InvariantThm, PTL

(***************************************************************************)
(* A RUNNING task is the current task of its core: sched_tick's two-sided  *)
(* status switch never leaves two of them.                                 *)
(***************************************************************************)
THEOREM RunningIsCurrentThm == Spec => []RunningIsCurrent
  <1>1. IInv => RunningIsCurrent
    BY DEF IInv
  <1> QED
    BY <1>1, InvariantThm, PTL

-----------------------------------------------------------------------------
(* Death is final.                                                         *)

\* No step revives a dead thread or gives it a core
LEMMA DeathStep ==
    ASSUME IInv, Next
    PROVE  \A t \in Tasks : status[t] = "DEATH" =>
               /\ status'[t] = "DEATH"
               /\ \A c \in Cpus : current'[c] = t => current[c] = t
  <1> USE SchedAssumption DEF IInv
  <1>1. CASE Clock
    BY <1>1 DEF Clock, cpuVars
  <1>2. ASSUME NEW c \in Cpus, TimerIrq(c) \/ BootAppend(c) \/ BootOnline(c)
        PROVE  status' = status /\ current' = current
    BY <1>2 DEF TimerIrq, Enter, BootAppend, BootOnline, cpuVars, taskVars
  <1>3. ASSUME NEW c \in Cpus, Select(c) \/ Stay(c)
        PROVE  current' = current /\ \A t \in Tasks : status[t] = "DEATH" => status'[t] = "DEATH"
    <2>1. CASE Select(c)
      <3>1. status' = status \/ status' = StatusAfterScan(c)
        BY <2>1 DEF Select
      <3>2. current' = current
        BY <2>1 DEF Select
      <3> QED
        BY <3>1, <3>2, ScanStep
    <2>2. CASE Stay(c)
      BY <2>2 DEF Stay, taskVars
    <2> QED
      BY <1>3, <2>1, <2>2
  <1>4. ASSUME NEW c \in Cpus, Switch(c), NEW t \in Tasks, status[t] = "DEATH"
        PROVE  status'[t] = "DEATH" /\ \A d \in Cpus : current'[d] = t => current[d] = t
    <2>1. next[c] # t
      BY <1>4 DEF TheDead, Switch
    <2>2. next[c] \in Tasks /\ current[c] \in Tasks
      BY <1>4 DEF Switch, TypeOK, CurrentExists
    <2>3. CASE ~ctxOk[next[c]]
      BY <1>4, <2>3 DEF Switch
    <2>4. CASE ctxOk[next[c]]
      <3>1. /\ status' = StatusSwitched(current[c], next[c])
            /\ current' = [current EXCEPT ![c] = next[c]]
        BY <1>4, <2>4 DEF Switch
      <3> QED
        BY <1>4, <2>1, <2>2, <3>1 DEF StatusSwitched, TypeOK
    <2> QED
      BY <2>3, <2>4
  <1>5. ASSUME NEW c \in Cpus, BootCurrent(c), NEW t \in Tasks, status[t] = "DEATH"
        PROVE  status'[t] = "DEATH" /\ \A d \in Cpus : current'[d] = t => current[d] = t
    BY <1>5 DEF BootCurrent, IdleTasks, TypeOK, taskVars
  <1>6. ASSUME NEW u \in Tasks, Continue(u) \/ Decide(u)
        PROVE  current' = current /\ \A t \in Tasks : status[t] = "DEATH" => status'[t] = "DEATH"
    <2>1. CASE UseUpSlice(u) \/ CheckSleep(u) \/ DisableNow(u) \/ Yield(u) \/ Disable(u) \/ Enable(u)
      BY <2>1 DEF UseUpSlice, CheckSleep, DisableNow, Yield, Disable, Enable, taskVars, cpuVars
    <2>2. CASE Svc(u)
      BY <2>2 DEF Svc, Enter, cpuVars
    <2>3. CASE \E d \in Durations : Sleep(u, d)
      BY <2>3 DEF Sleep, cpuVars
    <2>4. CASE \E t \in Threads : StartCreate(u, t)
      BY <2>4 DEF StartCreate, cpuVars
    <2>5. CASE Suspend(u)
      BY <2>5 DEF Suspend, cpuVars, At, TheDead, TypeOK
    <2>6. CASE WakeUp(u)
      BY <2>6 DEF WakeUp, cpuVars, TypeOK
    <2>7. CASE Exit(u)
      BY <2>7 DEF Exit, cpuVars, TypeOK
    <2>8. CASE FinishCreate(u)
      <3>1. /\ status' = [status EXCEPT ![placing[u]] = "START"]
            /\ current' = current
        BY <2>8 DEF FinishCreate, cpuVars
      <3>2. placing[u] \in Tasks /\ status[placing[u]] = "NONE"
        BY <2>8 DEF FinishCreate, At, Creations, TypeOK, Tasks
      <3> QED
        BY <3>1, <3>2 DEF TypeOK
    <2> QED
      BY <1>6, <2>1, <2>2, <2>3, <2>4, <2>5, <2>6, <2>7, <2>8 DEF Continue, Decide
  <1> QED
    BY <1>1, <1>2, <1>3, <1>4, <1>5, <1>6 DEF Next, Tick, Boot

(***************************************************************************)
(* A thread that called sched_thread_exit stays dead and never gets a core *)
(* again, though it stays in its run queue for ever.                       *)
(***************************************************************************)
THEOREM DeathIsFinalThm == Spec => DeathIsFinal
  <1>1. IInv /\ [Next]_vars => [\A t \in Tasks : status[t] = "DEATH" =>
               /\ status'[t] = "DEATH"
               /\ \A c \in Cpus : current'[c] = t => current[c] = t]_vars
    BY DeathStep
  <1> QED
    BY <1>1, InvariantThm, PTL DEF Spec, DeathIsFinal

-----------------------------------------------------------------------------
(* The windows of sched_disable.                                           *)

\* Only the boot context, which runs kmain, opens windows
OnlyKmainDisables == \A t \in Tasks : "disable" \in Does[t] => t = 0

WInv == WindowHolds /\ \A t \in Tasks : pc[t] = "off" => t = 0

\* No step breaks a window
LEMMA WindowStep ==
    ASSUME OnlyKmainDisables, IInv, WInv, Next
    PROVE  WInv'
  <1> USE SchedAssumption DEF IInv
  <1>1. 0 \in Cpus /\ 0 \in Tasks /\ home[0] = 0 /\ 0 \notin Threads /\ 0 # NoTask
    BY DEF Cpus, Tasks, IdleTasks
  <1>2. ASSUME depth' = depth, enabled' = enabled,
               \A t \in Tasks : pc'[t] = "off" <=> pc[t] = "off",
               irq[0] = "none" /\ current[0] = 0 /\ ~enabled
                   => irq'[0] = "none" /\ current'[0] = 0
        PROVE  WInv'
    BY <1>1, <1>2 DEF WInv, WindowHolds
  <1>3. CASE Clock
    BY <1>2, <1>3 DEF Clock, cpuVars, switchVars
  <1>4. ASSUME NEW c \in Cpus, Tick(c) PROVE WInv'
    <2>1. CASE TimerIrq(c)
      BY <1>2, <2>1 DEF TimerIrq, Enter, codeVars, cpuVars, switchVars
    <2>2. CASE Select(c)
      BY <1>1, <1>2, <2>2 DEF Select, codeVars, switchVars, TypeOK
    <2>3. CASE Stay(c)
      BY <1>1, <1>2, <2>3 DEF Stay, Leave, codeVars, switchVars, TypeOK
    <2>4. CASE Switch(c)
      <3>1. irq[c] # "none" /\ depth' = depth /\ enabled' = enabled /\ pc' = pc
        BY <2>4 DEF Switch, codeVars, switchVars
      <3>2. c # 0 => irq'[0] = irq[0] /\ current'[0] = current[0]
        BY <1>1, <2>4 DEF Switch, Leave, TypeOK
      <3> QED
        BY <1>2, <3>1, <3>2
    <2> QED
      BY <1>4, <2>1, <2>2, <2>3, <2>4 DEF Tick
  <1>5. ASSUME NEW c \in Cpus, Boot(c) PROVE WInv'
    <2>1. CASE BootCurrent(c)
      BY <1>1, <1>2, <2>1 DEF BootCurrent, IdleTasks, TypeOK, Tasks, switchVars
    <2>2. CASE BootAppend(c)
      BY <1>2, <2>2 DEF BootAppend, At, TypeOK, cpuVars, switchVars
    <2>3. CASE BootOnline(c)
      BY <1>2, <2>3 DEF BootOnline, At, TypeOK, cpuVars, switchVars
    <2> QED
      BY <1>5, <2>1, <2>2, <2>3 DEF Boot
  <1>6. ASSUME NEW t \in Tasks, Continue(t) \/ Decide(t) PROVE WInv'
    <2>1. CASE Suspend(t) \/ UseUpSlice(t) \/ CheckSleep(t) \/ WakeUp(t) \/ Yield(t) \/ Exit(t)
      <3>1. UNCHANGED <<depth, enabled, current, irq>> /\ pc[t] # "off"
        BY <2>1 DEF Suspend, UseUpSlice, CheckSleep, WakeUp, Yield, Exit, At, cpuVars, switchVars
      <3>2. \A x \in Tasks : pc'[x] = "off" <=> pc[x] = "off"
        BY <2>1 DEF Suspend, UseUpSlice, CheckSleep, WakeUp, Yield, Exit, At, TypeOK
      <3> QED
        BY <1>2, <3>1, <3>2
    <2>2. CASE \E d \in Durations : Sleep(t, d)
      BY <1>2, <2>2 DEF Sleep, At, TypeOK, cpuVars, switchVars
    <2>3. CASE Svc(t)
      BY <1>2, <2>3 DEF Svc, Enter, At, TypeOK, cpuVars, switchVars
    <2>4. CASE \E u \in Threads : StartCreate(t, u)
      BY <1>2, <2>4 DEF StartCreate, At, TypeOK, cpuVars, switchVars
    <2>5. CASE FinishCreate(t)
      <3>1. /\ UNCHANGED <<depth, enabled, current, irq>>
            /\ pc' = [pc EXCEPT ![t] = "run", ![placing[t]] = "run"]
        BY <2>5 DEF FinishCreate, cpuVars, switchVars
      <3>2. pc[t] # "off" /\ placing[t] \in Tasks /\ pc[placing[t]] # "off"
        BY <2>5 DEF FinishCreate, At, Creations, TypeOK, Tasks
      <3> QED
        BY <1>2, <3>1, <3>2 DEF TypeOK
    <2>6. CASE Disable(t)
      <3>1. t = 0 /\ pc' = [pc EXCEPT ![0] = "off"]
        BY <2>6 DEF Disable, OnlyKmainDisables
      <3> QED
        BY <1>1, <3>1 DEF WInv, WindowHolds, TypeOK
    <2>7. CASE DisableNow(t)
      <3>1. t = 0 /\ current[0] = 0 /\ irq[0] = "none"
        BY <1>1, <2>7 DEF DisableNow, At, OnCpu, WInv
      <3> QED
        BY <1>1, <2>7, <3>1 DEF DisableNow, WInv, WindowHolds, TypeOK, cpuVars
    <2>8. CASE Enable(t)
      <3>1. t = 0 /\ current[0] = 0 /\ irq[0] = "none"
        BY <1>1, <2>8 DEF Enable, At, OnCpu, OnlyKmainDisables
      <3>2. depth' > 0 => ~enabled'
        <4>1. depth' = depth - 1 /\ enabled' = EnabledAfter(depth - 1)
          BY <2>8 DEF Enable
        <4>2. depth' > 0 => ~EnabledAfter(depth - 1)
          BY <4>1 DEF EnabledAfter
        <4> QED
          BY <4>1, <4>2, Zenon
      <3> QED
        BY <2>8, <3>1, <3>2 DEF Enable, WInv, WindowHolds, codeVars, cpuVars
    <2> QED
      BY <1>6, <2>1, <2>2, <2>3, <2>4, <2>5, <2>6, <2>7, <2>8 DEF Continue, Decide
  <1> QED
    BY <1>3, <1>4, <1>5, <1>6 DEF Next

(***************************************************************************)
(* Between sched_disable and the matching sched_enable of kmain no handler *)
(* takes core 0 away from it, however deep the windows nest.               *)
(***************************************************************************)
THEOREM WindowHoldsThm ==
    ASSUME OnlyKmainDisables
    PROVE  Spec => []WindowHolds
  <1>1. Init => WInv
    BY DEF Init, WInv, WindowHolds
  <1>2. IInv /\ WInv /\ [Next]_vars => WInv'
    <2>1. CASE UNCHANGED vars
      BY <2>1 DEF vars, taskVars, codeVars, cpuVars, switchVars, WInv, WindowHolds
    <2> QED
      BY <2>1, WindowStep
  <1>3. WInv => WindowHolds
    BY DEF WInv
  <1> QED
    BY <1>1, <1>2, <1>3, InvariantThm, PTL DEF Spec

-----------------------------------------------------------------------------
(* The queues, the cores that are ready, and the contexts.                 *)

\* Tasks that are in no queue yet
Outside == {"none", "boot", "cur"}

\* A queue has no task twice, and exactly those of its core that are not outside
NoRepeats == \A c \in Cpus : \A i, j \in DOMAIN runq[c] : runq[c][i] = runq[c][j] => i = j

Members == \A c \in Cpus, t \in Tasks : t \in Queued(c) <=> home[t] = c /\ pc[t] \notin Outside

Roster == NoRepeats /\ Members

\* A core is published after its boot; threads are made for published cores
Ready ==
    /\ online[0]
    /\ \A c \in Cpus : /\ pc[c] = "boot" \/ current[c] # NoTask
                       /\ pc[c] # "none"
                       /\ online[c] => pc[c] \notin {"boot", "cur", "queued"}
    /\ \A t \in Threads : /\ pc[t] \notin {"boot", "cur", "queued"}
                          /\ pc[t] # "none" \/ (\E u \in Tasks : placing[u] = t) => online[home[t]]

\* Only an idle task that was never preempted has no context, and it is still
\* the current task; so every pick has one
Contexts ==
    /\ \A t \in Threads : ctxOk[t]
    /\ \A c \in Cpus : pc[c] = "boot" \/ current[c] = c \/ ctxOk[c]
    /\ \A c \in Cpus : next[c] \notin {NoTask, current[c]} => ctxOk[next[c]]
    /\ NoRefusedSwitch

PlaceInv == Roster /\ Ready /\ Contexts

\* Most steps of a task leave queues, cores and contexts alone
LEMMA TaskLeaves ==
    ASSUME IInv, NEW t \in Tasks, Continue(t) \/ Decide(t),
           ~FinishCreate(t), \A u \in Threads : ~StartCreate(t, u)
    PROVE  /\ UNCHANGED <<home, ctxOk, runq, current, next, refused, online, placing>>
           /\ pc[t] \notin Outside \cup {"queued"} /\ pc'[t] \notin Outside \cup {"queued"}
           /\ \A x \in Tasks \ {t} : pc'[x] = pc[x]
  <1> USE DEF IInv, At, TypeOK, Outside, taskVars, cpuVars
  <1>1. CASE Suspend(t) \/ UseUpSlice(t) \/ CheckSleep(t) \/ WakeUp(t)
    BY <1>1 DEF Suspend, UseUpSlice, CheckSleep, WakeUp
  <1>2. CASE Svc(t)
    BY <1>2 DEF Svc, Enter
  <1>3. CASE DisableNow(t) \/ Disable(t) \/ Enable(t)
    BY <1>3 DEF DisableNow, Disable, Enable, codeVars
  <1>4. CASE Yield(t) \/ Exit(t) \/ \E d \in Durations : Sleep(t, d)
    BY <1>4 DEF Yield, Exit, Sleep
  <1> QED
    BY <1>1, <1>2, <1>3, <1>4 DEF Continue, Decide

\* Nothing that the three parts mention changes
LEMMA PlaceKept ==
    ASSUME IInv, PlaceInv,
           UNCHANGED <<home, ctxOk, runq, current, next, refused, online, placing>>,
           \A x \in Tasks : \/ pc'[x] = pc[x]
                            \/ /\ pc[x] \notin Outside \cup {"queued"}
                               /\ pc'[x] \notin Outside \cup {"queued"}
    PROVE  PlaceInv'
  <1>1. Threads \subseteq Tasks /\ Cpus \subseteq Tasks
    BY DEF Tasks
  <1>2. Roster'
    <2>1. \A d \in Cpus : Queued(d)' = Queued(d)
      BY DEF Queued
    <2> QED
      BY <2>1 DEF PlaceInv, Roster, NoRepeats, Members, Outside
  <1>3. Ready'
    BY <1>1 DEF PlaceInv, Ready, Outside
  <1>4. Contexts'
    BY <1>1 DEF PlaceInv, Contexts, NoRefusedSwitch, Outside
  <1> QED
    BY <1>2, <1>3, <1>4 DEF PlaceInv

\* A thread is placed on a ready core
LEMMA PickCpuReady ==
    ASSUME NEW isApp, NEW len, NEW ready, 0 \in ready
    PROVE  PickCpu(isApp, len, ready) \subseteq ready
  BY DEF PickCpu

\* A core is chosen for a new thread
LEMMA PlaceStartCreate ==
    ASSUME IInv, PlaceInv, NEW u \in Tasks, NEW t \in Threads, StartCreate(u, t)
    PROVE  PlaceInv'
  <1> USE SchedAssumption DEF IInv
  <1>1. PICK c \in Cpus : home' = [home EXCEPT ![t] = c] /\ c \in ReadyCpus
    <2>1. 0 \in ReadyCpus /\ ReadyCpus \subseteq Cpus
      BY DEF ReadyCpus, Cpus
    <2>2. PickCpu(t \in AppThreads, [d \in Cpus |-> Len(runq[d])], ReadyCpus) \subseteq ReadyCpus
      BY <2>1, PickCpuReady
    <2> QED
      BY <2>1, <2>2 DEF StartCreate
  <1>2. /\ UNCHANGED <<ctxOk, runq, current, next, refused, online>>
        /\ pc' = [pc EXCEPT ![u] = "create"] /\ pc[u] = "run" /\ pc[t] = "none"
        /\ placing' = [placing EXCEPT ![u] = t]
        /\ t \in Tasks /\ t \notin Cpus
    BY DEF StartCreate, At, cpuVars, Tasks
  <1>3. \A x \in Tasks : /\ x # u => pc'[x] = pc[x] /\ placing'[x] = placing[x]
                         /\ x # t => home'[x] = home[x]
                         /\ pc'[u] = "create" /\ placing'[u] = t /\ home'[t] = c
    BY <1>1, <1>2 DEF TypeOK
  <1>4. online[c]
    BY <1>1 DEF ReadyCpus, PlaceInv, Ready
  <1>5. Roster'
    <2>1. \A d \in Cpus : Queued(d)' = Queued(d)
      BY <1>2 DEF Queued
    <2>2. NoRepeats'
      BY <1>2 DEF PlaceInv, Roster, NoRepeats
    <2>3. Members'
      BY <1>2, <1>3, <2>1 DEF PlaceInv, Roster, Members, Outside
    <2> QED
      BY <2>2, <2>3 DEF Roster
  <1>6. Ready'
    <2>1. Cpus \subseteq Tasks /\ Threads \subseteq Tasks
      BY DEF Tasks
    <2>2. ASSUME NEW x \in Threads, pc'[x] # "none" \/ \E v \in Tasks : placing'[v] = x
          PROVE  online'[home'[x]]
      <3>1. CASE x = t
        BY <1>2, <1>3, <1>4, <3>1
      <3>2. CASE x # t
        <4>1. pc[x] # "none" \/ \E v \in Tasks : placing[v] = x
          BY <1>2, <1>3, <2>2, <3>2
        <4> QED
          BY <1>2, <1>3, <2>1, <3>2, <4>1 DEF PlaceInv, Ready
      <3> QED
        BY <3>1, <3>2
    <2> QED
      BY <1>2, <1>3, <2>1, <2>2 DEF PlaceInv, Ready
  <1>7. Contexts'
    BY <1>2, <1>3 DEF PlaceInv, Contexts, NoRefusedSwitch, Tasks
  <1> QED
    BY <1>5, <1>6, <1>7 DEF PlaceInv

\* An append to the queue of a core of somebody who was outside
LEMMA RosterAppend ==
    ASSUME IInv, Roster, NEW c \in Cpus, NEW t \in Tasks, home[t] = c,
           pc[t] \in Outside, pc'[t] \notin Outside,
           runq' = [runq EXCEPT ![c] = Append(@, t)], home' = home,
           \A x \in Tasks \ {t} : pc'[x] \in Outside <=> pc[x] \in Outside
    PROVE  Roster'
  <1> USE DEF IInv
  <1>1. \A d \in Cpus : Queued(d)' = IF d = c THEN Queued(d) \cup {t} ELSE Queued(d)
    BY AppendQueued
  <1>2. \A d \in Cpus : t \notin Queued(d)
    BY DEF Roster, Members
  <1>3. NoRepeats'
    <2>1. /\ runq[c] \in Seq(Tasks) /\ runq'[c] = Append(runq[c], t)
          /\ \A d \in Cpus : d # c => runq'[d] = runq[d]
      BY DEF TypeOK
    <2>2. /\ DOMAIN runq'[c] = 1..(Len(runq[c]) + 1) /\ DOMAIN runq[c] = 1..Len(runq[c])
          /\ Len(runq[c]) \in Nat
          /\ \A i \in 1..Len(runq[c]) : runq'[c][i] = runq[c][i]
          /\ runq'[c][Len(runq[c]) + 1] = t
      BY <2>1
    <2>3. \A i \in 1..Len(runq[c]) : runq[c][i] # t
      BY <1>2, <2>2 DEF Queued
    <2>4. \A i \in DOMAIN runq'[c] : i \in 1..Len(runq[c]) \/ i = Len(runq[c]) + 1
      BY <2>2
    <2>5. ASSUME NEW i \in DOMAIN runq'[c], NEW j \in DOMAIN runq'[c], runq'[c][i] = runq'[c][j]
          PROVE  i = j
      BY <2>2, <2>3, <2>4, <2>5 DEF Roster, NoRepeats
    <2>6. \A d \in Cpus : \A i, j \in DOMAIN runq'[d] : runq'[d][i] = runq'[d][j] => i = j
      BY <2>1, <2>5 DEF Roster, NoRepeats
    <2> QED
      BY <2>6 DEF NoRepeats
  <1>4. Members'
    <2>1. ASSUME NEW d \in Cpus, NEW x \in Tasks
          PROVE  x \in Queued(d)' <=> home'[x] = d /\ pc'[x] \notin Outside
      BY <1>1, <1>2, <2>1 DEF Roster, Members
    <2> QED
      BY <2>1 DEF Members
  <1> QED
    BY <1>3, <1>4 DEF Roster

\* The new thread joins the queue of the chosen core
LEMMA PlaceFinishCreate ==
    ASSUME IInv, PlaceInv, NEW u \in Tasks, FinishCreate(u)
    PROVE  PlaceInv'
  <1> USE SchedAssumption DEF IInv
  <1> DEFINE t == placing[u]
  <1>1. /\ pc[u] = "create" /\ placing[u] # NoTask
        /\ runq' = [runq EXCEPT ![home[t]] = Append(@, t)]
        /\ pc' = [pc EXCEPT ![u] = "run", ![t] = "run"]
        /\ placing' = [placing EXCEPT ![u] = NoTask]
        /\ UNCHANGED <<home, ctxOk, current, next, refused, online>>
    BY DEF FinishCreate, Target, At, Creations, cpuVars
  <1>2. t \in Threads /\ t \in Tasks /\ t \notin Cpus /\ pc[t] = "none" /\ t # u
    BY <1>1 DEF TypeOK, Creations, Tasks
  <1>3. \A x \in Tasks : /\ x # t /\ x # u => pc'[x] = pc[x]
                         /\ placing'[x] = IF x = u THEN NoTask ELSE placing[x]
                         /\ pc'[t] = "run" /\ pc'[u] = "run"
    BY <1>1, <1>2 DEF TypeOK
  <1>4. home[t] \in Cpus
    BY <1>2 DEF TypeOK
  <1> HIDE DEF t
  <1>5. Roster'
    <2>1. /\ pc[t] \in Outside /\ pc'[t] \notin Outside
          /\ pc[u] \notin Outside /\ pc'[u] \notin Outside
      BY <1>1, <1>2, <1>3 DEF Outside
    <2>2. ASSUME NEW x \in Tasks \ {t} PROVE pc'[x] \in Outside <=> pc[x] \in Outside
      BY <1>3, <2>1, <2>2
    <2> QED
      BY <1>1, <1>2, <1>4, <2>1, <2>2, RosterAppend DEF PlaceInv
  <1>6. Ready'
    <2>1. online[home[t]]
      BY <1>2 DEF PlaceInv, Ready, t
    <2>2. Cpus \subseteq Tasks /\ Threads \subseteq Tasks /\ NoTask \notin Threads
      BY DEF Tasks
    <2>3. ASSUME NEW c \in Cpus
          PROVE  /\ pc'[c] \in {"boot", "cur", "queued", "none"} => pc'[c] = pc[c]
                 /\ pc[c] \in {"boot", "none"} => pc'[c] = pc[c]
      <3>1. c \in Tasks /\ c # t
        BY <1>2, <2>2
      <3>2. CASE c = u
        BY <1>1, <1>3, <3>1, <3>2
      <3>3. CASE c # u
        BY <1>3, <3>1, <3>3
      <3> QED
        BY <3>2, <3>3
    <2>4. ASSUME NEW x \in Threads, pc'[x] # "none" \/ \E v \in Tasks : placing'[v] = x
          PROVE  online'[home'[x]]
      <3>1. CASE x = t
        BY <1>1, <2>1, <3>1
      <3>2. CASE x # t
        <4>1. pc[x] # "none" \/ \E v \in Tasks : placing[v] = x
          BY <1>1, <1>3, <2>2, <2>4, <3>2
        <4> QED
          BY <1>1, <4>1 DEF PlaceInv, Ready
      <3> QED
        BY <3>1, <3>2
    <2>5. ASSUME NEW x \in Threads PROVE pc'[x] \notin {"boot", "cur", "queued"}
      BY <1>3, <2>2 DEF PlaceInv, Ready
    <2> QED
      BY <1>1, <2>3, <2>4, <2>5 DEF PlaceInv, Ready
  <1>7. Contexts'
    <2>1. \A c \in Cpus : pc[c] = "boot" => pc'[c] = "boot"
      BY <1>1, <1>2, <1>3 DEF Tasks
    <2> QED
      BY <1>1, <2>1 DEF PlaceInv, Contexts, NoRefusedSwitch
  <1> QED
    BY <1>5, <1>6, <1>7 DEF PlaceInv

\* The boot of another core
LEMMA PlaceBoot ==
    ASSUME IInv, PlaceInv, NEW c \in Cpus, Boot(c)
    PROVE  PlaceInv'
  <1> USE SchedAssumption DEF IInv
  <1>1. c \in Tasks /\ c \notin Threads /\ home[c] = c /\ c # NoTask
    BY DEF Tasks, IdleTasks
  <1>2. CASE BootCurrent(c)
    <2>1. /\ pc[c] = "boot" /\ current' = [current EXCEPT ![c] = c] /\ pc' = [pc EXCEPT ![c] = "cur"]
          /\ UNCHANGED <<home, ctxOk, placing, runq, next, refused, online>>
          /\ current[c] = NoTask
      BY <1>2 DEF BootCurrent, IdleTasks, taskVars
    <2>2. \A x \in Tasks : pc'[x] = IF x = c THEN "cur" ELSE pc[x]
      BY <1>1, <2>1 DEF TypeOK
    <2>3. \A d \in Cpus : current'[d] = IF d = c THEN c ELSE current[d]
      BY <2>1 DEF TypeOK
    <2>4. Roster'
      <3>1. \A d \in Cpus : Queued(d)' = Queued(d)
        BY <2>1 DEF Queued
      <3> QED
        BY <2>1, <2>2, <3>1 DEF PlaceInv, Roster, NoRepeats, Members, Outside
    <2>5. Ready'
      BY <1>1, <2>1, <2>2, <2>3 DEF PlaceInv, Ready, Tasks
    <2>6. Contexts'
      BY <1>1, <2>1, <2>2, <2>3 DEF PlaceInv, Contexts, NoRefusedSwitch, Tasks
    <2> QED
      BY <2>4, <2>5, <2>6 DEF PlaceInv
  <1>3. CASE BootAppend(c)
    <2>1. /\ pc[c] = "cur" /\ runq' = [runq EXCEPT ![c] = Append(@, c)]
          /\ pc' = [pc EXCEPT ![c] = "queued"]
          /\ UNCHANGED <<home, ctxOk, placing, current, next, refused, online>>
      BY <1>3 DEF BootAppend, At, taskVars, cpuVars
    <2>2. \A x \in Tasks : pc'[x] = IF x = c THEN "queued" ELSE pc[x]
      BY <1>1, <2>1 DEF TypeOK
    <2>3. Roster'
      <3>1. pc[c] \in Outside /\ pc'[c] \notin Outside
        BY <1>1, <2>1, <2>2 DEF Outside
      <3>2. \A x \in Tasks \ {c} : pc'[x] \in Outside <=> pc[x] \in Outside
        BY <2>2
      <3> QED
        BY <1>1, <2>1, <3>1, <3>2, RosterAppend DEF PlaceInv
    <2>4. Ready'
      BY <1>1, <2>1, <2>2 DEF PlaceInv, Ready, Tasks
    <2>5. Contexts'
      BY <1>1, <2>1, <2>2 DEF PlaceInv, Contexts, NoRefusedSwitch, Tasks
    <2> QED
      BY <2>3, <2>4, <2>5 DEF PlaceInv
  <1>4. CASE BootOnline(c)
    <2>1. /\ pc[c] = "queued" /\ online' = [online EXCEPT ![c] = TRUE]
          /\ pc' = [pc EXCEPT ![c] = "run"]
          /\ UNCHANGED <<home, ctxOk, placing, runq, current, next, refused>>
      BY <1>4 DEF BootOnline, At, taskVars, cpuVars
    <2>2. \A x \in Tasks : pc'[x] = IF x = c THEN "run" ELSE pc[x]
      BY <1>1, <2>1 DEF TypeOK
    <2>3. \A d \in Cpus : IF d = c THEN online'[d] ELSE online'[d] = online[d]
      BY <2>1 DEF TypeOK
    <2>4. Roster'
      <3>1. \A d \in Cpus : Queued(d)' = Queued(d)
        BY <2>1 DEF Queued
      <3> QED
        BY <2>1, <2>2, <3>1 DEF PlaceInv, Roster, NoRepeats, Members, Outside
    <2>5. Ready'
      <3>1. 0 \in Cpus /\ \A t \in Threads : home[t] \in Cpus
        BY DEF Cpus, TypeOK, Tasks
      <3> QED
        BY <1>1, <2>1, <2>2, <2>3, <3>1 DEF PlaceInv, Ready, Tasks
    <2>6. Contexts'
      BY <1>1, <2>1, <2>2 DEF PlaceInv, Contexts, NoRefusedSwitch, Tasks
    <2> QED
      BY <2>4, <2>5, <2>6 DEF PlaceInv
  <1> QED
    BY <1>2, <1>3, <1>4 DEF Boot

\* What a handler may pick has a context, unless it stays
LEMMA PickedHasContext ==
    ASSUME IInv, PlaceInv, NEW c \in Cpus, NEW st, NEW v, NEW n \in Choice(c, st, v)
    PROVE  n \in {NoTask, current[c]} \/ ctxOk[n]
  <1>1. Turn(runq[c], v, Waiting(c, st),
             AvgVruntime(v, Waiting(c, st) \cup {t \in {current[c]} \cap Queued(c) : Runnable(st[t])}))
            \subseteq Waiting(c, st)
    BY DEF Turn, Earliest
  <1>2. n \in {NoTask, current[c]} \/ (n \in Queued(c) /\ n # current[c] /\ (n = c \/ ~Idle(n)))
    BY <1>1 DEF Choice, Waiting
  <1>3. CASE n \in Queued(c) /\ ~Idle(n)
    BY <1>3 DEF IInv, QueuesOwnTasks, PlaceInv, Contexts, Tasks, Idle
  <1>4. CASE n \in Queued(c) /\ n = c /\ n # current[c]
    <2>1. pc[c] # "boot"
      BY <1>4 DEF PlaceInv, Roster, Members, Outside, Tasks
    <2> QED
      BY <1>4, <2>1 DEF PlaceInv, Contexts
  <1> QED
    BY <1>2, <1>3, <1>4

\* The clock and the handler
LEMMA PlaceTick ==
    ASSUME IInv, PlaceInv, NEW c \in Cpus, Tick(c)
    PROVE  PlaceInv'
  <1> USE SchedAssumption DEF IInv
  <1>1. CASE TimerIrq(c)
    <2>1. UNCHANGED <<home, ctxOk, runq, current, next, refused, online, placing, pc>>
      BY <1>1 DEF TimerIrq, Enter, codeVars, cpuVars
    <2> QED
      BY <2>1, PlaceKept
  <1>2. ASSUME UNCHANGED <<home, runq, online, placing, pc>>,
               \A d \in Cpus : current'[d] = NoTask => current[d] = NoTask,
               Contexts'
        PROVE  PlaceInv'
    <2>1. \A d \in Cpus : Queued(d)' = Queued(d)
      BY <1>2 DEF Queued
    <2>2. Roster'
      BY <1>2, <2>1 DEF PlaceInv, Roster, NoRepeats, Members
    <2>3. Ready'
      BY <1>2 DEF PlaceInv, Ready
    <2> QED
      BY <1>2, <2>2, <2>3 DEF PlaceInv
  <1>3. CASE Select(c)
    <2>1. UNCHANGED <<home, runq, online, placing, pc, current, ctxOk, refused>>
      BY <1>3 DEF Select, codeVars
    <2>2. PICK n : next' = [next EXCEPT ![c] = n] /\ (n \in {NoTask, current[c]} \/ ctxOk[n])
      <3>1. CASE runq[c] = <<>>
        BY <1>3, <3>1 DEF Select
      <3>2. CASE runq[c] # <<>>
        <4>1. PICK m \in Choice(c, StatusAfterScan(c), AfterScan(c)) : next' = [next EXCEPT ![c] = m]
          BY <1>3, <3>2 DEF Select
        <4>2. m \in {NoTask, current[c]} \/ ctxOk[m]
          BY PickedHasContext
        <4> QED
          BY <4>1, <4>2
      <3> QED
        BY <3>1, <3>2
    <2>3. Contexts'
      BY <2>1, <2>2 DEF PlaceInv, Contexts, NoRefusedSwitch, TypeOK
    <2> QED
      BY <1>2, <2>1, <2>3
  <1>4. CASE Stay(c)
    <2>1. /\ UNCHANGED <<home, runq, online, placing, pc, current, ctxOk, refused>>
          /\ next' = [next EXCEPT ![c] = NoTask]
      BY <1>4 DEF Stay, Leave, codeVars, taskVars
    <2>2. Contexts'
      BY <2>1 DEF PlaceInv, Contexts, NoRefusedSwitch, TypeOK
    <2> QED
      BY <1>2, <2>1, <2>2
  <1>5. CASE Switch(c)
    <2> DEFINE n == next[c]
               cur == current[c]
    <2>1. n \in Tasks /\ cur \in Tasks /\ n # cur /\ n # NoTask /\ ctxOk[n]
      BY <1>5 DEF Switch, TypeOK, CurrentExists, PlaceInv, Contexts
    <2>2. /\ UNCHANGED <<home, runq, online, placing, pc, refused>>
          /\ next' = [next EXCEPT ![c] = NoTask]
          /\ current' = [current EXCEPT ![c] = n]
          /\ ctxOk' = [ctxOk EXCEPT ![cur] = TRUE]
      BY <1>5, <2>1 DEF Switch, Leave, codeVars, CtxCaptured
    <2>3. home[cur] = c
      BY <2>1 DEF RunningIsCurrent
    <2> HIDE DEF n, cur
    <2>4. /\ \A t \in Tasks : ctxOk[t] => ctxOk'[t]
          /\ ctxOk'[cur]
      BY <2>1, <2>2 DEF TypeOK
    <2>5. /\ \A d \in Cpus : current'[d] = IF d = c THEN n ELSE current[d]
          /\ \A d \in Cpus : next'[d] = IF d = c THEN NoTask ELSE next[d]
          /\ \A d \in Cpus : next[d] \in Tasks \cup {NoTask}
          /\ Threads \subseteq Tasks /\ Cpus \subseteq Tasks
      BY <2>2 DEF TypeOK, Tasks
    <2>6. \A d \in Cpus : pc[d] = "boot" \/ current'[d] = d \/ ctxOk'[d]
      BY <2>3, <2>4, <2>5 DEF PlaceInv, Contexts, cur
    <2>7. \A d \in Cpus : next'[d] \notin {NoTask, current'[d]} => ctxOk'[next'[d]]
      BY <2>4, <2>5 DEF PlaceInv, Contexts
    <2>8. Contexts'
      BY <2>2, <2>4, <2>5, <2>6, <2>7 DEF PlaceInv, Contexts, NoRefusedSwitch
    <2> QED
      BY <1>2, <2>1, <2>2, <2>5, <2>8
  <1> QED
    BY <1>1, <1>3, <1>4, <1>5 DEF Tick

\* Every step keeps the three parts
LEMMA PlaceNext == IInv /\ PlaceInv /\ [Next]_vars => PlaceInv'
  <1> SUFFICES ASSUME IInv, PlaceInv, [Next]_vars PROVE PlaceInv'
    OBVIOUS
  <1>1. CASE UNCHANGED vars \/ Clock
    <2>1. UNCHANGED <<home, ctxOk, runq, current, next, refused, online, placing, pc>>
      BY <1>1 DEF vars, taskVars, codeVars, cpuVars, switchVars, Clock
    <2> QED
      BY <2>1, PlaceKept
  <1>2. ASSUME NEW c \in Cpus, Tick(c) \/ Boot(c) PROVE PlaceInv'
    BY <1>2, PlaceTick, PlaceBoot
  <1>3. ASSUME NEW t \in Tasks, Continue(t) \/ Decide(t) PROVE PlaceInv'
    <2>1. CASE FinishCreate(t)
      BY <2>1, PlaceFinishCreate
    <2>2. ASSUME NEW u \in Threads, StartCreate(t, u) PROVE PlaceInv'
      BY <2>2, PlaceStartCreate
    <2>3. CASE ~FinishCreate(t) /\ \A u \in Threads : ~StartCreate(t, u)
      <3>1. /\ UNCHANGED <<home, ctxOk, runq, current, next, refused, online, placing>>
            /\ pc[t] \notin Outside \cup {"queued"} /\ pc'[t] \notin Outside \cup {"queued"}
            /\ \A x \in Tasks \ {t} : pc'[x] = pc[x]
        BY <1>3, <2>3, TaskLeaves
      <3>2. \A x \in Tasks : \/ pc'[x] = pc[x]
                             \/ /\ pc[x] \notin Outside \cup {"queued"}
                                /\ pc'[x] \notin Outside \cup {"queued"}
        BY <3>1
      <3> QED
        BY <3>1, <3>2, PlaceKept
    <2> QED
      BY <2>1, <2>2, <2>3
  <1> QED
    BY <1>1, <1>2, <1>3 DEF Next

\* The threads that exist at the boot are in the queue of core 0, once each
LEMMA PlaceInit == Init => PlaceInv
  <1> SUFFICES ASSUME Init PROVE PlaceInv
    OBVIOUS
  <1> USE SchedAssumption
  <1> DEFINE N == Cardinality(Created)
             first == CHOOSE s \in [1..N -> Created] :
                          \A i, j \in DOMAIN s : s[i] = s[j] => i = j
  <1>1. /\ N \in Nat /\ IsFiniteSet(Created)
        /\ first \in [1..N -> Created]
        /\ \A i, j \in 1..N : first[i] = first[j] => i = j
    <2>1. IsFiniteSet(Created)
      BY FS_Subset
    <2>2. N \in Nat /\ ExistsBijection(1..N, Created)
      BY <2>1, FS_CardinalityType
    <2>3. \E s \in [1..N -> Created] : \A i, j \in DOMAIN s : s[i] = s[j] => i = j
      BY <2>2 DEF ExistsBijection, Bijection, Injection, IsInjective
    <2> QED
      BY <2>1, <2>2, <2>3
  <1>2. \A t \in Created : \E i \in 1..N : first[i] = t
    <2>1. IsFiniteSet(1..N) /\ Cardinality(1..N) = N
      BY <1>1, FS_Interval
    <2>2. first \in Injection(1..N, Created)
      BY <1>1 DEF Injection, IsInjective
    <2> HIDE DEF first, N
    <2>3. Cardinality(1..N) = Cardinality(Created) <=> first \in Surjection(1..N, Created)
      BY <1>1, <2>2, FS_Injection
    <2>4. first \in Surjection(1..N, Created)
      BY <2>1, <2>3 DEF N
    <2> QED
      BY <2>4 DEF Surjection
  <1>3. runq = [c \in Cpus |-> IF c = 0 THEN <<0>> \o first ELSE <<>>]
    BY DEF Init
  <1> HIDE DEF first, N
  <1>4. /\ first \in Seq(Tasks) /\ Len(first) = N
        /\ 0 \in Cpus /\ Created \subseteq Tasks /\ 0 \notin Created
    BY <1>1 DEF Tasks, Cpus
  <1>5. /\ runq[0] \in Seq(Tasks) /\ DOMAIN runq[0] = 1..(N + 1)
        /\ runq[0][1] = 0
        /\ \A i \in 2..(N + 1) : runq[0][i] = first[i - 1]
        /\ \A c \in Cpus \ {0} : runq[c] = <<>>
    BY <1>1, <1>3, <1>4 DEF Tasks
  <1>6. NoRepeats
    <2>1. \A i \in 2..(N + 1) : runq[0][i] # 0
      BY <1>1, <1>4, <1>5
    <2>2. \A i, j \in 2..(N + 1) : runq[0][i] = runq[0][j] => i = j
      BY <1>1, <1>5
    <2>3. \A i \in DOMAIN runq[0] : i = 1 \/ i \in 2..(N + 1)
      BY <1>1, <1>5
    <2>4. \A i, j \in DOMAIN runq[0] : runq[0][i] = runq[0][j] => i = j
      BY <1>5, <2>1, <2>2, <2>3
    <2>5. \A c \in Cpus \ {0} : DOMAIN runq[c] = {}
      BY <1>5
    <2> QED
      BY <2>4, <2>5 DEF NoRepeats
  <1>7. Members
    <2>1. \A t : t \in Queued(0) <=> t = 0 \/ t \in Created
      <3>1. ASSUME NEW t \in Queued(0) PROVE t = 0 \/ t \in Created
        <4>1. PICK i \in 1..(N + 1) : t = runq[0][i]
          BY <1>5, <3>1 DEF Queued
        <4>2. CASE i = 1
          BY <1>5, <4>1, <4>2
        <4>3. CASE i # 1
          BY <1>1, <1>5, <4>1, <4>3
        <4> QED
          BY <4>2, <4>3
      <3>2. 0 \in Queued(0)
        BY <1>1, <1>5 DEF Queued
      <3>3. ASSUME NEW t \in Created PROVE t \in Queued(0)
        <4>1. PICK i \in 1..N : first[i] = t
          BY <1>2
        <4>2. i + 1 \in 2..(N + 1) /\ runq[0][i + 1] = t
          BY <1>1, <1>5, <4>1
        <4>3. i + 1 \in DOMAIN runq[0]
          BY <1>1, <1>5, <4>2
        <4> QED
          BY <4>2, <4>3 DEF Queued
      <3> QED
        BY <3>1, <3>2, <3>3
    <2>2. \A c \in Cpus \ {0} : Queued(c) = {}
      BY <1>5 DEF Queued
    <2>3. \A t \in Tasks : /\ home[t] = IF t \in Cpus THEN t ELSE 0
                           /\ pc[t] \notin Outside <=> t = 0 \/ t \in Created
      BY DEF Init, Idle, Outside
    <2> QED
      BY <1>4, <2>1, <2>2, <2>3 DEF Members
  <1>8. Ready
    BY <1>4 DEF Init, Ready, Idle, Tasks
  <1>9. Contexts
    BY <1>4 DEF Init, Contexts, NoRefusedSwitch, Idle, Tasks
  <1> QED
    BY <1>6, <1>7, <1>8, <1>9 DEF PlaceInv, Roster
\* What places the tasks holds in all states
LEMMA PlaceThm == Spec => [](IInv /\ PlaceInv)
  BY InvariantThm, PlaceInit, PlaceNext, PTL DEF Spec

\* A queue is no longer than there are tasks
LEMMA QueueFits ==
    ASSUME TypeOK, NoRepeats, NEW c \in Cpus
    PROVE  Len(runq[c]) \in Nat /\ Len(runq[c]) <= Cardinality(Tasks)
  <1>1. runq[c] \in Seq(Tasks) /\ Len(runq[c]) \in Nat /\ DOMAIN runq[c] = 1..Len(runq[c])
    BY DEF TypeOK
  <1>2. IsFiniteSet(Tasks)
    <2>1. IsFiniteSet(Cpus)
      BY SchedAssumption, FS_Interval DEF Cpus
    <2> QED
      BY <2>1, SchedAssumption, FS_Union DEF Tasks
  <1>3. runq[c] \in Injection(1..Len(runq[c]), Tasks)
    BY <1>1 DEF NoRepeats, Injection, IsInjective
  <1>4. Cardinality(1..Len(runq[c])) <= Cardinality(Tasks)
    BY <1>2, <1>3, FS_Injection
  <1>5. Cardinality(1..Len(runq[c])) = Len(runq[c])
    <2>1. 1 \in Int /\ Len(runq[c]) \in Int
      BY <1>1
    <2>2. Cardinality(1..Len(runq[c])) = IF 1 > Len(runq[c]) THEN 0 ELSE Len(runq[c]) - 1 + 1
      BY ZenonT(30), <2>1, FS_Interval
    <2> QED
      BY <1>1, <2>2
  <1> QED
    BY <1>1, <1>4, <1>5

\* The places of a task, counted
LEMMA RosterIsExact == IInv /\ PlaceInv => RosterExact
  <1> SUFFICES ASSUME IInv, PlaceInv, NEW t \in Tasks
               PROVE  LET places == {p \in Cpus \X (1..Cardinality(Tasks)) :
                                         p[2] \in DOMAIN runq[p[1]] /\ runq[p[1]][p[2]] = t}
                      IN  IF pc[t] \in {"none", "boot", "cur"}
                            THEN places = {}
                            ELSE \E i \in 1..Cardinality(Tasks) : places = {<<home[t], i>>}
    BY DEF RosterExact
  <1> DEFINE places == {p \in Cpus \X (1..Cardinality(Tasks)) :
                            p[2] \in DOMAIN runq[p[1]] /\ runq[p[1]][p[2]] = t}
  <1>1. ASSUME NEW p \in places PROVE home[t] = p[1] /\ pc[t] \notin Outside
    <2>1. p[1] \in Cpus /\ t \in Queued(p[1])
      BY <1>1 DEF Queued
    <2> QED
      BY <2>1 DEF PlaceInv, Roster, Members
  <1>2. CASE pc[t] \in Outside
    <2>1. places = {}
      BY <1>1, <1>2
    <2> QED
      BY <1>2, <2>1 DEF Outside
  <1>3. CASE pc[t] \notin Outside
    <2>1. home[t] \in Cpus
      BY DEF IInv, TypeOK
    <2>2. t \in Queued(home[t])
      BY <1>3, <2>1 DEF PlaceInv, Roster, Members
    <2>3. PICK i \in DOMAIN runq[home[t]] : runq[home[t]][i] = t
      BY <2>2 DEF Queued
    <2>4. i \in 1..Cardinality(Tasks)
      <3>1. Len(runq[home[t]]) \in Nat /\ Len(runq[home[t]]) <= Cardinality(Tasks)
        BY <2>1, QueueFits DEF IInv, PlaceInv, Roster
      <3>2. Cardinality(Tasks) \in Nat
        <4>1. IsFiniteSet(Cpus)
          BY SchedAssumption, FS_Interval DEF Cpus
        <4>2. IsFiniteSet(Tasks)
          BY <4>1, SchedAssumption, FS_Union DEF Tasks
        <4> QED
          BY <4>2, FS_CardinalityType
      <3>3. DOMAIN runq[home[t]] = 1..Len(runq[home[t]])
        BY <2>1 DEF IInv, TypeOK
      <3> QED
        BY <2>3, <3>1, <3>2, <3>3
    <2>5. <<home[t], i>> \in places
      BY <2>1, <2>3, <2>4
    <2>6. ASSUME NEW p \in places PROVE p = <<home[t], i>>
      <3>1. p \in Cpus \X (1..Cardinality(Tasks)) /\ p[1] = home[t]
        BY <1>1, <2>6
      <3>2. p[2] \in DOMAIN runq[home[t]] /\ runq[home[t]][p[2]] = t
        BY <2>6, <3>1
      <3>3. p[2] = i
        BY <2>1, <2>3, <3>2 DEF PlaceInv, Roster, NoRepeats
      <3> QED
        BY <3>1, <3>3
    <2>7. places = {<<home[t], i>>}
      BY <2>5, <2>6
    <2> QED
      BY <1>3, <2>4, <2>7 DEF Outside
  <1> QED
    BY <1>2, <1>3

(***************************************************************************)
(* From its creation on a task is in exactly one run queue, that of its    *)
(* core, and there once, whatever the creations and boots going on: an     *)
(* append never meets a thread that is queued already.                     *)
(***************************************************************************)
THEOREM RosterExactThm == Spec => []RosterExact
  BY PlaceThm, RosterIsExact, PTL

(***************************************************************************)
(* sched_select_next never returns a task without a context: an idle task  *)
(* that was not preempted yet is still its core's current one, and nobody  *)
(* switches to the current task.                                           *)
(***************************************************************************)
THEOREM NoRefusedSwitchThm == Spec => []NoRefusedSwitch
  <1>1. PlaceInv => NoRefusedSwitch
    BY DEF PlaceInv, Contexts
  <1> QED
    BY <1>1, PlaceThm, PTL

(***************************************************************************)
(* Threads are only put on cores whose online flag is up, and that flag    *)
(* goes up last: such a core has its idle task queued and a current task.  *)
(***************************************************************************)
THEOREM OnlineMeansReadyThm == Spec => []OnlineMeansReady
  <1>1. IInv /\ PlaceInv => OnlineMeansReady
    <2> SUFFICES ASSUME IInv, PlaceInv, NEW c \in Cpus,
                        online[c] \/ Queued(c) \cap Threads # {}
                 PROVE  c \in Queued(c) /\ current[c] # NoTask
      BY DEF OnlineMeansReady
    <2>1. online[c]
      <3>1. ASSUME NEW t \in Queued(c) \cap Threads PROVE online[c]
        BY <3>1 DEF IInv, QueuesOwnTasks, PlaceInv, Ready
      <3> QED
        BY <3>1
    <2>2. /\ pc[c] \notin {"boot", "cur", "queued", "none"} /\ current[c] # NoTask
          /\ c \in Tasks /\ home[c] = c
      BY <2>1 DEF PlaceInv, Ready, IInv, IdleTasks, Tasks
    <2> QED
      BY <2>2 DEF PlaceInv, Roster, Members, Outside
  <1> QED
    BY <1>1, PlaceThm, PTL

-----------------------------------------------------------------------------
(* Going idle.                                                             *)

\* The idle task is picked when nobody in the queue could run
LEMMA IdleStep ==
    ASSUME IInv, PlaceInv, Next, NEW c \in Cpus, NEW t \in Threads,
           irq[c] = "select", irq'[c] = "switch", next'[c] = c, home[t] = c
    PROVE  /\ status[t] \notin {"START", "RUNNING"}
           /\ ~(status[t] = "WAIT" /\ wakeup[t] = 0)
  <1> USE SchedAssumption DEF IInv
  <1>1. Select(c)
    <2>1. CASE Clock
      BY <2>1 DEF Clock, cpuVars
    <2>2. ASSUME NEW d \in Cpus, TimerIrq(d) PROVE irq'[c] # "switch"
      BY <2>2 DEF TimerIrq, Enter, cpuVars, TypeOK
    <2>3. ASSUME NEW d \in Cpus, Select(d) PROVE d = c
      BY <2>3 DEF Select, TypeOK
    <2>4. ASSUME NEW d \in Cpus, Stay(d) \/ Switch(d) PROVE irq'[c] # "switch"
      BY <2>4 DEF Stay, Switch, Leave, TypeOK
    <2>5. ASSUME NEW d \in Cpus, Boot(d) PROVE irq' = irq
      BY <2>5 DEF Boot, BootCurrent, BootAppend, BootOnline, cpuVars
    <2>6. ASSUME NEW u \in Tasks, Continue(u) \/ Decide(u) PROVE irq'[c] # "switch"
      <3>1. CASE Svc(u)
        BY <3>1 DEF Svc, Enter, cpuVars, TypeOK
      <3>2. CASE Suspend(u) \/ UseUpSlice(u) \/ CheckSleep(u) \/ WakeUp(u) \/ FinishCreate(u)
                 \/ DisableNow(u)
        BY <3>2 DEF Suspend, UseUpSlice, CheckSleep, WakeUp, FinishCreate, DisableNow, cpuVars
      <3>3. CASE Decide(u)
        BY <3>3 DEF Decide, Yield, Exit, Disable, Enable, Sleep, StartCreate, cpuVars
      <3> QED
        BY <2>6, <3>1, <3>2, <3>3 DEF Continue
    <2> QED
      BY <2>1, <2>2, <2>3, <2>4, <2>5, <2>6 DEF Next, Tick
  <1>2. c \notin Threads /\ t # c /\ t \in Tasks /\ c \in Tasks
    BY DEF Tasks
  <1>3. ASSUME status[t] \in {"START", "RUNNING"} \/ Due(t) PROVE FALSE
    <2>1. t \in Queued(c)
      <3>1. pc[t] \notin Outside
        BY <1>2, <1>3 DEF Creations, Outside, Due, PlaceInv, Ready
      <3> QED
        BY <1>2, <3>1 DEF PlaceInv, Roster, Members
    <2>2. runq[c] # <<>>
      BY <2>1 DEF Queued
    <2>3. c \in Choice(c, StatusAfterScan(c), AfterScan(c))
      BY <1>1, <2>2 DEF Select, TypeOK
    <2>4. Runnable(StatusAfterScan(c)[t])
      BY <1>2, <1>3, <2>1 DEF StatusAfterScan, Woken, Runnable
    <2> DEFINE st == StatusAfterScan(c)
               v == AfterScan(c)
               waiting == Waiting(c, st)
    <2>5. Turn(runq[c], v, waiting,
               AvgVruntime(v, waiting \cup {x \in {current[c]} \cap Queued(c) : Runnable(st[x])}))
              \subseteq waiting
      BY DEF Turn, Earliest
    <2>6. c \notin waiting
      BY <1>2 DEF Waiting, Idle
    <2>7. waiting = {}
      BY <2>3, <2>5, <2>6 DEF Choice
    <2>8. t = current[c]
      BY <1>2, <2>1, <2>4, <2>7 DEF Waiting, Idle, Tasks
    <2>9. Choice(c, st, v) = {t}
      BY <2>4, <2>7, <2>8 DEF Choice
    <2> QED
      BY <1>2, <2>3, <2>9
  <1> QED
    BY <1>3 DEF Due

(***************************************************************************)
(* A core takes its idle task only when no thread of its own could run, a  *)
(* sleeper that is just due included: a thread of that core is always in   *)
(* the queue that the handler scans.                                       *)
(***************************************************************************)
THEOREM IdleOnlyWithoutWorkThm == Spec => IdleOnlyWithoutWork
  <1>1. IInv /\ PlaceInv /\ [Next]_vars =>
            [\A c \in Cpus, t \in Threads :
                 irq[c] = "select" /\ irq'[c] = "switch" /\ next'[c] = c /\ home[t] = c
                     => /\ status[t] \notin {"START", "RUNNING"}
                        /\ ~(status[t] = "WAIT" /\ wakeup[t] = 0)]_vars
    BY IdleStep
  <1> QED
    BY <1>1, PlaceThm, PTL DEF Spec, IdleOnlyWithoutWork

-----------------------------------------------------------------------------
(* Sleep.                                                                  *)

\* A sleeper's wakeup time is the one it asked for; once it is not asleep any
\* more, that time has passed
TimeKept(t) ==
    /\ status[t] = "WAIT" => pc[t] \in {"trap", "svc", "chk"} /\ why[t] = "sleep"
    /\ pc[t] = "arm" => wakeup[t] = asked[t]
    /\ pc[t] = "chk" => why[t] = "sleep"
    /\ pc[t] \in {"trap", "svc", "chk"} /\ why[t] = "sleep" =>
           IF status[t] = "WAIT" THEN wakeup[t] = asked[t] ELSE asked[t] = 0
    /\ pc[t] = "wake" => asked[t] = 0

SleepInv == \A t \in Tasks : TimeKept(t)

\* A step in which no task goes to sleep, gets up or is timed
LEMMA SleepKept ==
    ASSUME SleepInv, UNCHANGED <<wakeup, asked>>,
           \A t \in Tasks :
               /\ status'[t] = "WAIT" <=> status[t] = "WAIT"
               /\ pc'[t] = pc[t] /\ why'[t] = why[t]
    PROVE  SleepInv'
  BY DEF SleepInv, TimeKept

\* The handler wakes those whose time has come, the clock counts both times down
LEMMA SleepHandler ==
    ASSUME IInv, SleepInv, Clock \/ \E c \in Cpus : Tick(c)
    PROVE  SleepInv'
  <1> USE DEF IInv
  <1>1. CASE Clock
    <2>1. /\ UNCHANGED <<status, pc, why>>
          /\ \A t \in Tasks : /\ wakeup'[t] = IF wakeup[t] > 0 THEN wakeup[t] - 1 ELSE wakeup[t]
                              /\ asked'[t] = IF asked[t] > 0 THEN asked[t] - 1 ELSE 0
                              /\ asked[t] \in Nat
      BY <1>1 DEF Clock, TypeOK
    <2> QED
      BY <2>1 DEF SleepInv, TimeKept
  <1>2. ASSUME NEW c \in Cpus, TimerIrq(c) \/ Stay(c) PROVE SleepInv'
    BY <1>2, SleepKept DEF TimerIrq, Stay, codeVars, taskVars
  <1>3. ASSUME NEW c \in Cpus, Select(c) PROVE SleepInv'
    <2>1. UNCHANGED <<pc, why, asked>>
      BY <1>3 DEF Select, codeVars
    <2>2. CASE runq[c] = <<>>
      BY <1>3, <2>1, <2>2, SleepKept DEF Select
    <2>3. CASE runq[c] # <<>>
      <3>1. \A t \in Tasks :
                \/ /\ status[t] = "WAIT" /\ wakeup[t] = 0
                   /\ status'[t] = "START"
                \/ status'[t] = status[t] /\ wakeup'[t] = wakeup[t]
        BY <1>3, <2>3 DEF Select, StatusAfterScan, Woken, Due
      <3> QED
        BY <2>1, <3>1 DEF SleepInv, TimeKept
    <2> QED
      BY <2>2, <2>3
  <1>4. ASSUME NEW c \in Cpus, Switch(c) PROVE SleepInv'
    <2>1. UNCHANGED <<pc, why, asked, wakeup>>
      BY <1>4 DEF Switch, codeVars
    <2>2. next[c] \in Tasks /\ current[c] \in Tasks /\ next[c] # current[c]
      BY <1>4 DEF Switch, TypeOK, CurrentExists
    <2>3. status' = status \/ status' = StatusSwitched(current[c], next[c])
      BY <1>4 DEF Switch
    <2>4. \A t \in Tasks : status'[t] = "WAIT" <=> status[t] = "WAIT"
      <3>1. CASE status' = status
        BY <3>1
      <3>2. CASE status' = StatusSwitched(current[c], next[c])
        <4>1. /\ status'[current[c]] = IF status[current[c]] = "RUNNING" THEN "START"
                                       ELSE status[current[c]]
              /\ status'[next[c]] = IF status[next[c]] = "START" THEN "RUNNING"
                                    ELSE status[next[c]]
              /\ \A t \in Tasks \ {current[c], next[c]} : status'[t] = status[t]
          BY <2>2, <3>2 DEF StatusSwitched, TypeOK
        <4> QED
          BY <4>1
      <3> QED
        BY <2>3, <3>1, <3>2
    <2> QED
      BY <2>1, <2>4, SleepKept
  <1> QED
    BY <1>1, <1>2, <1>3, <1>4 DEF Tick

\* A task that moves on its own: the others are not concerned
LEMMA SleepOfOne ==
    ASSUME SleepInv, NEW t \in Tasks,
           \A x \in Tasks \ {t} : /\ status'[x] = status[x] /\ wakeup'[x] = wakeup[x]
                                  /\ asked'[x] = asked[x] /\ pc'[x] = pc[x] /\ why'[x] = why[x],
           TimeKept(t)'
    PROVE  SleepInv'
  BY DEF SleepInv, TimeKept

\* The tasks' own steps
LEMMA SleepTask ==
    ASSUME IInv, SleepInv, NEW t \in Tasks, Continue(t) \/ Decide(t)
    PROVE  SleepInv'
  <1> USE DEF IInv, TypeOK, At, taskVars
  <1>0. TimeKept(t)
    BY DEF SleepInv
  <1>1. CASE Yield(t) \/ Exit(t)
    <2>1. CASE Yield(t)
      BY <1>0, <2>1, SleepOfOne DEF Yield, TimeKept
    <2>2. CASE Exit(t)
      BY <1>0, <2>2, SleepOfOne DEF Exit, TimeKept
    <2> QED
      BY <1>1, <2>1, <2>2
  <1>2. CASE Disable(t) \/ DisableNow(t)
    BY <1>0, <1>2, SleepOfOne DEF Disable, DisableNow, TimeKept
  <1>3. CASE Enable(t)
    BY <1>3, SleepKept DEF Enable, codeVars
  <1>4. ASSUME NEW d \in Durations, Sleep(t, d) PROVE SleepInv'
    BY <1>0, <1>4, SleepOfOne, SchedAssumption DEF Sleep, TimeKept
  <1>5. CASE Suspend(t)
    BY <1>0, <1>5, SleepOfOne DEF Suspend, TimeKept
  <1>6. CASE UseUpSlice(t)
    BY <1>0, <1>6, SleepOfOne DEF UseUpSlice, TimeKept
  <1>7. CASE Svc(t)
    BY <1>0, <1>7, SleepOfOne DEF Svc, TimeKept
  <1>8. CASE CheckSleep(t)
    <2>1. /\ pc[t] = "chk" /\ UNCHANGED <<status, wakeup, asked, why>>
          /\ pc'[t] = IF status[t] = "WAIT" THEN "trap" ELSE "wake"
          /\ \A x \in Tasks \ {t} : pc'[x] = pc[x]
      BY <1>8 DEF CheckSleep, StillAsleep
    <2>2. TimeKept(t)'
      BY <1>0, <2>1 DEF TimeKept
    <2> QED
      BY <2>1, <2>2, SleepOfOne
  <1>9. CASE WakeUp(t)
    BY <1>0, <1>9, SleepOfOne DEF WakeUp, TimeKept
  <1>10. ASSUME NEW u \in Threads, StartCreate(t, u) PROVE SleepInv'
    BY <1>0, <1>10, SleepOfOne DEF StartCreate, TimeKept
  <1>11. CASE FinishCreate(t)
    <2>1. /\ status' = [status EXCEPT ![placing[t]] = "START"]
          /\ pc' = [pc EXCEPT ![t] = "run", ![placing[t]] = "run"]
          /\ UNCHANGED <<wakeup, asked, why>>
          /\ placing[t] \in Tasks
      BY <1>11 DEF FinishCreate, Creations, Tasks
    <2>2. \A x \in Tasks : /\ status'[x] = IF x = placing[t] THEN "START" ELSE status[x]
                           /\ pc'[x] = IF x \in {t, placing[t]} THEN "run" ELSE pc[x]
      BY <2>1
    <2>3. status[t] # "WAIT"
      BY <1>0, <1>11 DEF FinishCreate, TimeKept
    <2> QED
      BY <2>1, <2>2, <2>3 DEF SleepInv, TimeKept
  <1> QED
    BY <1>1, <1>2, <1>3, <1>4, <1>5, <1>6, <1>7, <1>8, <1>9, <1>10, <1>11 DEF Continue, Decide

(***************************************************************************)
(* sched_sleep_ns returns only after the time it was asked for, in spite   *)
(* of the preemption between its two stores and of the wake-up scans that  *)
(* other tasks' handlers make.                                             *)
(***************************************************************************)
THEOREM SleepNotCutShortThm == Spec => []SleepNotCutShort
  <1>1. Init => SleepInv
    BY DEF Init, SleepInv, TimeKept
  <1>2. IInv /\ SleepInv /\ [Next]_vars => SleepInv'
    <2> SUFFICES ASSUME IInv, SleepInv, [Next]_vars PROVE SleepInv'
      OBVIOUS
    <2>1. CASE UNCHANGED vars
      BY <2>1, SleepKept DEF vars, taskVars, codeVars
    <2>2. ASSUME NEW c \in Cpus, Boot(c) PROVE SleepInv'
      <3>1. /\ UNCHANGED <<status, wakeup, asked, why>> /\ c \in Tasks
            /\ pc[c] \in {"boot", "cur", "queued"}
            /\ \E s \in {"cur", "queued", "run"} : pc' = [pc EXCEPT ![c] = s]
        BY <2>2 DEF Boot, BootCurrent, BootAppend, BootOnline, At, taskVars, Tasks
      <3> QED
        BY <3>1 DEF IInv, TypeOK, SleepInv, TimeKept
    <2> QED
      BY <2>1, <2>2, SleepHandler, SleepTask DEF Next
  <1>3. SleepInv => SleepNotCutShort
    BY DEF SleepInv, TimeKept, SleepNotCutShort
  <1> QED
    BY <1>1, <1>2, <1>3, InvariantThm, PTL DEF Spec

-----------------------------------------------------------------------------
(* Averages.                                                               *)

\* Induction up to a bound
LEMMA UpTo ==
    ASSUME NEW L \in Nat, NEW S, 0 \in S, \A i \in 1..L : i - 1 \in S => i \in S
    PROVE  0..L \subseteq S
  <1> DEFINE R == OpToRel(<, Nat)
             B == (0..L) \ S
  <1>1. IsWellFoundedOn(R, Nat)
    BY NatLessThanWellFounded
  <1>2. \A i, j \in Nat : i < j => <<i, j>> \in R
    BY DEF OpToRel
  <1> SUFFICES ASSUME B # {} PROVE FALSE
    OBVIOUS
  <1>3. B \subseteq Nat
    OBVIOUS
  <1> HIDE DEF R
  <1>4. PICK i \in B : \A j \in B : ~(<<j, i>> \in R)
    BY <1>1, <1>3, WFMin
  <1>5. i \in 1..L
    BY <1>4
  <1>6. i - 1 \in Nat /\ i - 1 \notin B
    <2>1. i \in Nat /\ i - 1 \in Nat /\ i - 1 < i
      BY <1>5
    <2>2. <<i - 1, i>> \in R
      BY <1>2, <2>1
    <2> QED
      BY <1>4, <2>1, <2>2
  <1>7. i - 1 \in S
    BY <1>5, <1>6
  <1> QED
    BY <1>4, <1>5, <1>7

(***************************************************************************)
(* sched_avg_vruntime is a number: the sum under it is a fold over a set,  *)
(* that is, a function on the subsets of the set, given by an equation     *)
(* that has a solution because the subsets become smaller.                 *)
(***************************************************************************)
\* The equation, for one subset
Term(f, v, s) == IF s = {} THEN 0 ELSE LET x == CHOOSE x \in s : TRUE IN v[x] + f[s \ {x}]

\* A subset and what is left of it after the first step
LEMMA OneLess ==
    ASSUME NEW S, IsFiniteSet(S), NEW s \in SUBSET S, s # {}
    PROVE  \E x \in s : /\ x = CHOOSE y \in s : TRUE
                        /\ s \ {x} \in SUBSET S /\ Cardinality(s) \in Nat /\ Cardinality(s \ {x}) = Cardinality(s) - 1
  <1>1. PICK x : x = CHOOSE y \in s : TRUE
    OBVIOUS
  <1>2. x \in s
    BY <1>1
  <1>3. IsFiniteSet(s)
    BY FS_Subset
  <1>4. Cardinality(s \ {x}) = Cardinality(s) - 1
    BY <1>2, <1>3, FS_RemoveElement
  <1>5. Cardinality(s) \in Nat
    BY <1>3, FS_CardinalityType
  <1> QED
    BY <1>1, <1>2, <1>4, <1>5

\* The equation has a solution, found for ever larger subsets
LEMMA SumExists ==
    ASSUME NEW S, IsFiniteSet(S), NEW v
    PROVE  \E f : f = [s \in SUBSET S |-> Term(f, v, s)]
  <1> DEFINE D(n) == {s \in SUBSET S : Cardinality(s) <= n}
             L == Cardinality(S)
             Good == {n \in 0..L : \E f : f = [s \in D(n) |-> Term(f, v, s)]}
  <1>1. L \in Nat
    BY FS_CardinalityType
  <1>2. \A s \in SUBSET S : IsFiniteSet(s) /\ Cardinality(s) \in Nat /\ Cardinality(s) <= L
    BY FS_Subset, FS_CardinalityType
  <1>3. 0 \in Good
    <2> DEFINE f == [s \in D(0) |-> 0]
    <2>1. ASSUME NEW s \in D(0) PROVE s = {}
      <3>1. Cardinality(s) = 0 /\ IsFiniteSet(s)
        BY <1>2
      <3> QED
        BY <3>1, FS_EmptySet
    <2>2. \A s \in D(0) : Term(f, v, s) = 0
      BY <2>1 DEF Term
    <2>3. f = [s \in D(0) |-> Term(f, v, s)]
      BY <2>2
    <2> HIDE DEF f, D
    <2> QED
      BY <1>1, <2>3
  <1>4. ASSUME NEW n \in 1..L, n - 1 \in Good PROVE n \in Good
    <2>1. PICK g : g = [s \in D(n - 1) |-> Term(g, v, s)]
      BY <1>4
    <2> DEFINE f == [s \in D(n) |-> Term(g, v, s)]
    <2>2. ASSUME NEW s \in D(n) PROVE Term(f, v, s) = Term(g, v, s)
      <3>1. CASE s = {}
        BY <3>1 DEF Term
      <3>2. CASE s # {}
        <4>1. PICK x \in s : /\ x = CHOOSE y \in s : TRUE
                             /\ s \ {x} \in SUBSET S /\ Cardinality(s) \in Nat
                             /\ Cardinality(s \ {x}) = Cardinality(s) - 1
          BY <3>2, OneLess
        <4>2. s \ {x} \in D(n - 1) /\ s \ {x} \in D(n)
          BY <1>1, <4>1
        <4>3. f[s \ {x}] = g[s \ {x}]
          <5>1. f[s \ {x}] = Term(g, v, s \ {x})
            BY <4>2
          <5>2. g[s \ {x}] = Term(g, v, s \ {x})
            <6> HIDE DEF f, D
            <6> QED
              BY <2>1, <4>2
          <5> QED
            BY <5>1, <5>2
        <4> HIDE DEF f
        <4> QED
          BY <3>2, <4>1, <4>3 DEF Term
      <3> QED
        BY <3>1, <3>2
    <2>3. f = [s \in D(n) |-> Term(f, v, s)]
      <3>1. f = [s \in D(n) |-> f[s]] /\ \A s \in D(n) : f[s] = Term(g, v, s)
        OBVIOUS
      <3> HIDE DEF f, D
      <3> QED
        BY <2>2, <3>1
    <2>4. n \in 0..L
      BY <1>1
    <2> HIDE DEF f, D
    <2> QED
      BY <2>3, <2>4
  <1> HIDE DEF Good, D, L
  <1>5. L \in Good
    BY <1>1, <1>3, <1>4, UpTo
  <1>6. D(L) = SUBSET S
    BY <1>2 DEF D
  <1> QED
    BY <1>5, <1>6 DEF Good

\* So the sum of vruntimes, and their average, is a number
LEMMA AverageIsNat ==
    ASSUME NEW S, IsFiniteSet(S), NEW v, \A x \in S : v[x] \in Nat
    PROVE  AvgVruntime(v, S) \in Nat
  <1> DEFINE f == CHOOSE f : f = [s \in SUBSET S |-> Term(f, v, s)]
             L == Cardinality(S)
             Good == {n \in 0..L : \A s \in SUBSET S : Cardinality(s) <= n => f[s] \in Nat}
  <1>1. L \in Nat
    BY FS_CardinalityType
  <1>2. \A s \in SUBSET S : IsFiniteSet(s) /\ Cardinality(s) \in Nat /\ Cardinality(s) <= L
    BY FS_Subset, FS_CardinalityType
  <1>3. f = [s \in SUBSET S |-> Term(f, v, s)]
    BY SumExists
  <1>4. CASE S = {}
    BY <1>4 DEF AvgVruntime
  <1>5. CASE S # {}
    <2>1. AvgVruntime(v, S) = f[S] \div L
      BY <1>5 DEF AvgVruntime, MapThenSumSet, MapThenFoldSet, Term
    <2> HIDE DEF f
    <2>2. \A s \in SUBSET S : f[s] = Term(f, v, s)
      BY <1>3
    <2>3. 0 \in Good
      <3>1. ASSUME NEW s \in SUBSET S, Cardinality(s) <= 0 PROVE f[s] \in Nat
        <4>1. Cardinality(s) = 0 /\ IsFiniteSet(s)
          BY <1>2, <3>1
        <4>2. s = {}
          BY <4>1, FS_EmptySet
        <4>3. f[s] = Term(f, v, s)
          BY <2>2
        <4> QED
          BY <4>2, <4>3 DEF Term
      <3> QED
        BY <1>1, <3>1
    <2>4. ASSUME NEW n \in 1..L, n - 1 \in Good PROVE n \in Good
      <3>1. ASSUME NEW s \in SUBSET S, Cardinality(s) <= n PROVE f[s] \in Nat
        <4>1. CASE s = {}
          BY <2>2, <4>1 DEF Term
        <4>2. CASE s # {}
          <5>1. PICK x \in s : /\ x = CHOOSE y \in s : TRUE
                               /\ s \ {x} \in SUBSET S /\ Cardinality(s) \in Nat
                               /\ Cardinality(s \ {x}) = Cardinality(s) - 1
            BY <4>2, OneLess
          <5>2. f[s \ {x}] \in Nat
            BY <1>1, <2>4, <3>1, <5>1
          <5>3. f[s] = v[x] + f[s \ {x}]
            BY <2>2, <4>2, <5>1 DEF Term
          <5> QED
            BY <5>1, <5>2, <5>3
        <4> QED
          BY <4>1, <4>2
      <3> QED
        BY <1>1, <3>1
    <2> HIDE DEF Good
    <2>5. L \in Good
      BY <1>1, <2>3, <2>4, UpTo
    <2>6. f[S] \in Nat
      BY <1>1, <2>5 DEF Good
    <2>7. L # 0
      BY <1>5, FS_EmptySet
    <2>8. PICK a, b \in Nat : a = f[S] /\ b = L /\ b # 0
      BY <1>1, <2>6, <2>7
    <2>9. a \div b \in Nat
      BY <2>8, SMT
    <2> QED
      BY <2>1, <2>8, <2>9
  <1> QED
    BY <1>4, <1>5

-----------------------------------------------------------------------------
(* The share of the core.                                                  *)

\* Those that never give up the core, as long as they live
Busy == {v \in Created : Does[v] \cap {"sleep", "yield"} = {}}

\* They are never asleep, and enter the handler only when their slice is used up or they are dead
Shape(t) ==
    /\ wakeup[t] = NotTimed /\ status[t] \in {"START", "RUNNING", "DEATH"}
    /\ pc[t] \in {"run", "off", "create", "trap", "svc", "wfi"}
    /\ pc[t] \in {"trap", "svc"} => status[t] = "DEATH"
    /\ current[home[t]] = t =>
         /\ status[t] # "START"
         /\ status[t] = "RUNNING" /\ irq[home[t]] = "none" => ticks[home[t]] < Slice

(***************************************************************************)
(* How far t may be ahead of u: no further than what u has left of its     *)
(* slice, while u runs; no further than t has used of its own, while t     *)
(* runs; and not at all when t is picked.                                  *)
(***************************************************************************)
Lead(t, u, c) ==
    /\ vr[t] <= vr[u] + Slice
    /\ current[c] = u => IF irq[c] = "none" THEN vr[t] + ticks[c] <= vr[u] + Slice ELSE vr[t] <= vr[u]
    /\ current[c] = t /\ irq[c] = "none" => vr[t] <= vr[u] + ticks[c]
    /\ irq[c] = "switch" => next[c] # NoTask /\ next[c] # current[c]
    /\ irq[c] = "switch" /\ next[c] = t => vr[t] <= vr[u]

Competing(t, u) ==
    t # u /\ home[t] = home[u] /\ Runnable(status[t]) /\ Runnable(status[u]) /\ vr[t] < VrCap

LagInv ==
    /\ vr \in [Tasks -> Nat]
    /\ \A t \in Busy : Shape(t)
    /\ \A t, u \in Busy : Competing(t, u) => Lead(t, u, home[t])

\* Who is busy was created at the start, and is not an idle task
LEMMA BusyFacts ==
    ASSUME IInv, NEW t \in Busy
    PROVE  /\ t \in Created /\ t \in Threads /\ t \in Tasks /\ t \notin Cpus /\ ~Idle(t)
           /\ "sleep" \notin Does[t] /\ "yield" \notin Does[t]
           /\ home[t] \in Cpus
  BY SchedAssumption DEF Busy, Tasks, Idle, IInv, TypeOK

\* A step of a task, or of a core that starts: slices and queues of the busy are not concerned
LEMMA LagKept ==
    ASSUME IInv, LagInv, vr' \in [Tasks -> Nat], UNCHANGED <<irq, next>>,
           \A t \in Busy : /\ Shape(t)' /\ home'[t] = home[t] /\ vr'[t] = vr[t]
                           /\ Runnable(status'[t]) => Runnable(status[t]),
           \A c \in Cpus :
               \/ /\ current'[c] = current[c]
                  /\ \/ ticks'[c] = ticks[c]
                     \/ \A t \in Busy : current[c] = t => ~Runnable(status'[t])
               \/ current[c] \notin Busy /\ current'[c] \notin Busy /\ irq[c] = "none"
    PROVE  LagInv'
  <1>1. ASSUME NEW t \in Busy, NEW u \in Busy, Competing(t, u)' PROVE Lead(t, u, home[t])'
    <2>1. PICK c \in Cpus : c = home[t] /\ home'[t] = c /\ home'[u] = c /\ home[u] = c
      BY <1>1, BusyFacts DEF Competing
    <2>2. Competing(t, u) /\ Lead(t, u, c)
      BY <1>1, <2>1 DEF Competing, LagInv
    <2>3. vr'[t] = vr[t] /\ vr'[u] = vr[u] /\ Runnable(status'[t]) /\ Runnable(status'[u])
      BY <1>1 DEF Competing
    <2>4. CASE current'[c] = current[c] /\ ticks'[c] = ticks[c]
      BY <2>1, <2>2, <2>3, <2>4 DEF Lead
    <2>5. CASE current'[c] = current[c] /\ \A x \in Busy : current[c] = x => ~Runnable(status'[x])
      BY <2>1, <2>2, <2>3, <2>5 DEF Lead
    <2>6. CASE current[c] \notin Busy /\ current'[c] \notin Busy /\ irq[c] = "none"
      BY <2>1, <2>2, <2>3, <2>6 DEF Lead
    <2> QED
      BY <2>4, <2>5, <2>6
  <1> QED
    BY <1>1 DEF LagInv

\* The average of vruntimes is a number, and so is what a new thread is given
LEMMA AverageOfTasks ==
    ASSUME NEW v \in [Tasks -> Nat], NEW S \in SUBSET Tasks
    PROVE  AvgVruntime(v, S) \in Nat
  <1>1. IsFiniteSet(Cpus)
    BY SchedAssumption, FS_Interval DEF Cpus
  <1>2. IsFiniteSet(Tasks)
    BY <1>1, SchedAssumption, FS_Union DEF Tasks
  <1>3. IsFiniteSet(S)
    BY <1>2, FS_Subset
  <1> QED
    BY <1>3, AverageIsNat

\* The tasks' own steps, a creation with its credit included
LEMMA LagTask ==
    ASSUME IInv, LagInv, NEW x \in Tasks, Continue(x) \/ Decide(x), ~Svc(x)
    PROVE  LagInv'
  <1> USE DEF IInv, TypeOK, At, taskVars
  <1>0. /\ vr \in [Tasks -> Nat] /\ \A t \in Busy : t \in Tasks /\ Shape(t) /\ home[t] \in Cpus
        /\ \A t \in Busy : "sleep" \notin Does[t] /\ "yield" \notin Does[t]
    BY BusyFacts DEF LagInv
  <1>1. CASE Yield(x)
    <2>1. x \notin Busy
      BY <1>0, <1>1 DEF Yield
    <2> QED
      BY <1>0, <1>1, <2>1, LagKept DEF Yield, Shape, cpuVars
  <1>2. ASSUME NEW d \in Durations, Sleep(x, d) PROVE LagInv'
    <2>1. x \notin Busy
      BY <1>0, <1>2 DEF Sleep
    <2> QED
      BY <1>0, <1>2, <2>1, LagKept DEF Sleep, Shape, cpuVars
  <1>3. CASE Suspend(x) \/ CheckSleep(x) \/ WakeUp(x)
    <2>1. x \notin Busy
      BY <1>0, <1>3 DEF Suspend, CheckSleep, WakeUp, Shape
    <2>2. \A t \in Busy : /\ status'[t] = status[t] /\ pc'[t] = pc[t] /\ wakeup'[t] = wakeup[t]
                          /\ home'[t] = home[t] /\ vr'[t] = vr[t]
      BY <1>0, <1>3, <2>1 DEF Suspend, CheckSleep, WakeUp
    <2>3. UNCHANGED <<vr, current, ticks, irq, next>>
      BY <1>3 DEF Suspend, CheckSleep, WakeUp, cpuVars
    <2> QED
      BY <1>0, <2>2, <2>3, LagKept DEF Shape
  <1>4. CASE Exit(x)
    <2>1. /\ status' = [status EXCEPT ![x] = "DEATH"] /\ pc' = [pc EXCEPT ![x] = "trap"]
          /\ UNCHANGED <<vr, home, wakeup, current, ticks, irq, next>>
      BY <1>4 DEF Exit, cpuVars
    <2>2. \A t \in Busy : IF t = x THEN status'[t] = "DEATH" /\ pc'[t] = "trap"
                          ELSE status'[t] = status[t] /\ pc'[t] = pc[t]
      BY <1>0, <2>1
    <2>3. \A t \in Busy : Shape(t)' /\ (Runnable(status'[t]) => Runnable(status[t]))
      BY <1>0, <2>1, <2>2 DEF Shape, Runnable
    <2> QED
      BY <1>0, <2>1, <2>3, LagKept
  <1>5. CASE UseUpSlice(x)
    <2>1. /\ pc[x] = "trap" /\ pc' = [pc EXCEPT ![x] = "svc"] /\ ticks' = [ticks EXCEPT ![home[x]] = Slice]
          /\ current[home[x]] = x /\ UNCHANGED <<status, vr, home, wakeup, current, irq, next>>
      BY <1>5 DEF UseUpSlice, OnCpu
    <2>2. x \in Busy => status[x] = "DEATH"
      BY <1>0, <2>1 DEF Shape
    <2>3. \A t \in Busy : pc'[t] = IF t = x THEN "svc" ELSE pc[t]
      BY <1>0, <2>1
    <2>4. \A c \in Cpus : ticks'[c] = ticks[c] \/ c = home[x]
      BY <2>1
    <2>5. ASSUME NEW t \in Busy PROVE Shape(t)'
      <3>1. current[home[t]] = t => ticks'[home[t]] = ticks[home[t]] \/ t = x
        BY <1>0, <2>1, <2>4
      <3> QED
        BY <1>0, <2>1, <2>2, <2>3, <3>1 DEF Shape
    <2>6. \A c \in Cpus : ticks'[c] = ticks[c] \/ \A t \in Busy : current[c] = t => ~Runnable(status'[t])
      BY <2>1, <2>2, <2>4 DEF Runnable
    <2> QED
      BY <1>0, <2>1, <2>5, <2>6, LagKept
  <1>6. CASE Disable(x) \/ DisableNow(x) \/ Enable(x)
    <2>1. UNCHANGED <<status, vr, home, wakeup, current, ticks, irq, next>>
      BY <1>6 DEF Disable, DisableNow, Enable, cpuVars
    <2>2. \A t \in Busy : pc'[t] = pc[t] \/ pc'[t] \in {"run", "off"}
      BY <1>0, <1>6 DEF Disable, DisableNow, Enable, codeVars
    <2>3. \A t \in Busy : Shape(t)'
      BY <1>0, <2>1, <2>2 DEF Shape
    <2> QED
      BY <1>0, <2>1, <2>3, LagKept
  <1>7. ASSUME NEW n \in Threads, StartCreate(x, n) PROVE LagInv'
    <2>1. /\ pc[n] = "none" /\ pc' = [pc EXCEPT ![x] = "create"]
          /\ UNCHANGED <<status, vr, wakeup, current, ticks, irq, next>>
          /\ \A t \in Tasks : t # n => home'[t] = home[t]
      BY <1>7 DEF StartCreate, cpuVars
    <2>2. n \notin Busy
      BY <1>0, <2>1 DEF Shape
    <2>3. \A t \in Busy : home'[t] = home[t] /\ (pc'[t] = pc[t] \/ pc'[t] = "create")
      BY <1>0, <2>1, <2>2
    <2>4. \A t \in Busy : Shape(t)'
      BY <1>0, <2>1, <2>3 DEF Shape
    <2> QED
      BY <1>0, <2>1, <2>3, <2>4, LagKept
  <1>8. CASE FinishCreate(x)
    <2> DEFINE n == placing[x]
               a == AvgVruntime(vr, Queued(Target(x)))
    <2>1. /\ vr' = [vr EXCEPT ![n] = Credited(a)] /\ status' = [status EXCEPT ![n] = "START"]
          /\ pc' = [pc EXCEPT ![x] = "run", ![n] = "run"]
          /\ UNCHANGED <<home, wakeup, current, ticks, irq, next>>
      BY <1>8 DEF FinishCreate, cpuVars
    <2>2. pc[x] = "create" /\ n \in Tasks /\ pc[n] = "none"
      BY <1>8 DEF FinishCreate, Creations, Tasks
    <2>3. a \in Nat
      <3>1. Target(x) \in Cpus
        BY <2>2 DEF Target
      <3>2. Queued(Target(x)) \subseteq Tasks
        BY <3>1 DEF QueuesOwnTasks
      <3> QED
        BY <1>0, <3>2, AverageOfTasks
    <2> HIDE DEF n, a
    <2>4. Credited(a) \in Nat
      BY <2>3, SchedAssumption DEF Credited
    <2>5. n \notin Busy /\ vr' \in [Tasks -> Nat]
      BY <1>0, <2>1, <2>2, <2>4 DEF Shape
    <2>6. \A t \in Busy : vr'[t] = vr[t] /\ status'[t] = status[t] /\ (pc'[t] = pc[t] \/ pc'[t] = "run")
      BY <1>0, <2>1, <2>5
    <2>7. \A t \in Busy : Shape(t)'
      BY <1>0, <2>1, <2>6 DEF Shape
    <2> QED
      BY <2>1, <2>5, <2>6, <2>7, LagKept
  <1> QED
    BY <1>1, <1>2, <1>3, <1>4, <1>5, <1>6, <1>7, <1>8 DEF Continue, Decide

\* Time passing, and another core starting
LEMMA LagClockBoot ==
    ASSUME IInv, LagInv, Clock \/ \E c \in Cpus : Boot(c)
    PROVE  LagInv'
  <1>0. /\ vr \in [Tasks -> Nat] /\ \A t \in Busy : t \in Tasks /\ t \notin Cpus /\ Shape(t) /\ home[t] \in Cpus
    BY BusyFacts DEF LagInv
  <1>1. CASE Clock
    <2>1. /\ UNCHANGED <<status, vr, home, pc, current, ticks, irq, next>>
          /\ \A t \in Tasks : wakeup'[t] = IF wakeup[t] > 0 THEN wakeup[t] - 1 ELSE wakeup[t]
      BY <1>1 DEF Clock, cpuVars
    <2>2. \A t \in Busy : Shape(t)'
      BY <1>0, <2>1 DEF Shape, NotTimed
    <2> QED
      BY <1>0, <2>1, <2>2, LagKept
  <1>2. ASSUME NEW c \in Cpus, Boot(c) PROVE LagInv'
    <2>1. /\ UNCHANGED <<status, vr, home, wakeup, ticks, irq, next>>
          /\ \A t \in Tasks : t # c => pc'[t] = pc[t]
          /\ \A d \in Cpus : current'[d] = current[d] \/ (pc[c] = "boot" /\ d = c /\ current'[c] = c /\ irq[c] = "none")
      BY <1>2 DEF Boot, BootCurrent, BootAppend, BootOnline, At, taskVars, cpuVars, IInv, TypeOK
    <2>2. pc[c] = "boot" => current[c] = NoTask
      BY DEF IInv, IdleTasks
    <2>3. NoTask \notin Busy /\ c \notin Busy
      BY <1>0, SchedAssumption
    <2>4. \A d \in Cpus : current'[d] = current[d] \/ (current[d] \notin Busy /\ current'[d] \notin Busy /\ irq[d] = "none")
      BY <2>1, <2>2, <2>3
    <2>5. \A t \in Busy : pc'[t] = pc[t] /\ (current'[home[t]] = t => current[home[t]] = t)
      BY <1>0, <2>1, <2>3, <2>4
    <2>6. \A t \in Busy : Shape(t)'
      BY <1>0, <2>1, <2>5 DEF Shape
    <2> QED
      BY <1>0, <2>1, <2>4, <2>6, LagKept
  <1> QED
    BY <1>1, <1>2

\* The handler up to the lock: the running thread has one tick more
LEMMA LagEnter ==
    ASSUME IInv, LagInv, NEW c \in Cpus, irq[c] = "none", Enter(c),
           UNCHANGED <<status, wakeup, home>>,
           \A t \in Busy : \/ pc'[t] = pc[t]
                           \/ pc[t] = "svc" /\ pc'[t] = "wfi"
    PROVE  LagInv'
  <1> USE SchedAssumption DEF IInv, TypeOK
  <1>0. /\ vr \in [Tasks -> Nat]
        /\ \A t \in Busy : t \in Tasks /\ Shape(t) /\ home[t] \in Cpus /\ t # NoTask /\ ~Idle(t)
    BY BusyFacts DEF LagInv
  <1>1. CASE ~enabled \/ current[c] = NoTask
    <2>1. UNCHANGED <<vr, current, ticks, irq, next>>
      BY <1>1 DEF Enter, cpuVars
    <2>2. \A t \in Busy : Shape(t)'
      BY <1>0, <2>1 DEF Shape
    <2> QED
      BY <1>0, <2>1, <2>2, LagKept
  <1>2. CASE enabled /\ current[c] # NoTask
    <2> DEFINE cur == current[c]
               charged == status[cur] = "RUNNING" /\ ~Idle(cur)
    <2>1. cur \in Tasks
      BY <1>2
    <2>2. /\ vr' = [vr EXCEPT ![cur] = IF charged /\ vr[cur] < VrCap THEN vr[cur] + 1 ELSE vr[cur]]
          /\ ticks' = [ticks EXCEPT ![c] = IF charged THEN ticks[c] + 1 ELSE 0]
          /\ irq' = [irq EXCEPT ![c] = IF Continues(c) THEN "none" ELSE "select"]
          /\ UNCHANGED <<current, next>>
      BY <1>2 DEF Enter
    <2>3. vr' \in [Tasks -> Nat]
      BY <1>0, <2>1, <2>2
    <2>4. ASSUME NEW t \in Busy PROVE Shape(t)'
      <3>1. CASE cur = t /\ home[t] = c /\ status[t] = "RUNNING"
        <4>1. charged /\ (Continues(c) <=> ticks[c] + 1 < Slice)
          BY <1>0, <3>1 DEF Continues
        <4>2. ticks'[c] = ticks[c] + 1 /\ (irq'[c] = "none" => ticks[c] + 1 < Slice)
          BY <2>2, <4>1
        <4> QED
          BY <1>0, <2>2, <3>1, <4>2 DEF Shape
      <3>2. CASE home[t] # c
        <4>1. ticks'[home[t]] = ticks[home[t]] /\ irq'[home[t]] = irq[home[t]]
          BY <1>0, <2>2, <3>2
        <4> QED
          BY <1>0, <2>2, <4>1 DEF Shape
      <3>3. CASE home[t] = c /\ ~(cur = t /\ status[t] = "RUNNING")
        BY <1>0, <2>2, <3>3 DEF Shape
      <3> QED
        BY <3>1, <3>2, <3>3
    <2>5. ASSUME NEW t \in Busy, NEW u \in Busy, Competing(t, u)' PROVE Lead(t, u, home[t])'
      <3>1. PICK d \in Cpus :
            /\ t # u /\ d = home[t] /\ home'[t] = d /\ home[u] = d
            /\ Runnable(status[t]) /\ Runnable(status[u]) /\ vr'[t] < VrCap
        BY <1>0, <2>5 DEF Competing
      <3>2. /\ vr[t] \in Nat /\ vr[u] \in Nat /\ ticks[c] \in Nat /\ ticks[d] \in Nat
            /\ VrCap \in Nat /\ Slice \in Nat
        BY <1>0
      <3>3. \A x \in {t, u} : vr'[x] = IF x = cur /\ charged /\ vr[x] < VrCap THEN vr[x] + 1 ELSE vr[x]
        BY <1>0, <2>1, <2>2
      <3>4. vr[t] < VrCap
        <4> HIDE DEF cur, charged, IInv, TypeOK
        <4> QED
          BY <3>1, <3>2, <3>3
      <3>5. Lead(t, u, d)
        <4>1. Competing(t, u)
          BY <3>1, <3>4 DEF Competing
        <4> QED
          BY <3>1, <4>1 DEF LagInv
      <3>6. CASE d # c
        <4>1. ticks'[d] = ticks[d] /\ irq'[d] = irq[d] /\ UNCHANGED <<current, next>>
          BY <2>2, <3>1, <3>6
        <4>2. cur # t /\ cur # u
          <5>1. home[cur] = c
            BY <1>2 DEF RunningIsCurrent
          <5> QED
            BY <3>1, <3>6, <5>1
        <4>3. vr'[t] = vr[t] /\ vr'[u] = vr[u]
          BY <1>0, <2>2, <4>2
        <4> HIDE DEF cur
        <4> QED
          BY <3>1, <3>5, <4>1, <4>3 DEF Lead
      <3>7. CASE d = c
        <4>1. irq'[c] \in {"none", "select"} /\ current'[c] = cur
          BY <2>2
        <4>2. CASE cur = t
          <5>1. status[t] = "RUNNING" /\ ~Idle(t) /\ ticks[c] < Slice
            BY <1>0, <3>1, <3>7, <4>2 DEF Shape, Runnable
          <5>2. /\ vr'[t] = IF vr[t] < VrCap THEN vr[t] + 1 ELSE vr[t]
                /\ vr'[u] = vr[u]
                /\ ticks'[c] = ticks[c] + 1
            BY <1>0, <2>1, <2>2, <3>1, <4>2, <5>1
          <5>3. vr[t] <= vr[u] + ticks[c]
            BY <3>5, <3>7, <4>2 DEF Lead
          <5> HIDE DEF cur, charged, IInv, TypeOK
          <5>4. vr'[t] = vr[t] + 1
            BY <3>4, <5>2
          <5>5. vr'[t] <= vr'[u] + ticks'[c] /\ vr'[t] <= vr'[u] + Slice
            BY <3>2, <5>1, <5>2, <5>3, <5>4
          <5> QED
            BY <3>1, <3>7, <4>1, <4>2, <5>5 DEF Lead
        <4>3. CASE cur = u
          <5>1. status[u] = "RUNNING" /\ ~Idle(u) /\ ticks[c] < Slice
            BY <1>0, <3>1, <3>7, <4>3 DEF Shape, Runnable
          <5>2. /\ vr'[u] = IF vr[u] < VrCap THEN vr[u] + 1 ELSE vr[u]
                /\ vr'[t] = vr[t]
                /\ ticks'[c] = ticks[c] + 1
            BY <1>0, <2>1, <2>2, <3>1, <4>3, <5>1
          <5>3. irq'[c] = IF ticks[c] + 1 < Slice THEN "none" ELSE "select"
            BY <2>2, <4>3, <5>1 DEF Continues
          <5>4. vr[t] + ticks[c] <= vr[u] + Slice
            BY <3>5, <3>7, <4>3 DEF Lead
          <5> HIDE DEF cur, charged, IInv, TypeOK
          <5>5. vr'[t] <= vr'[u] + Slice
            BY <3>2, <3>4, <5>2, <5>4
          <5>6. irq'[c] = "none" => vr'[t] + ticks'[c] <= vr'[u] + Slice
            <6>1. CASE vr[u] < VrCap
              BY <3>2, <5>2, <5>4, <6>1
            <6>2. CASE ~(vr[u] < VrCap) /\ ticks[c] + 1 < Slice
              BY <3>2, <3>4, <5>2, <6>2
            <6> QED
              BY <5>3, <6>1, <6>2
          <5>7. irq'[c] # "none" => vr'[t] <= vr'[u]
            BY <3>2, <3>4, <5>1, <5>2, <5>3, <5>4
          <5> QED
            BY <3>1, <3>7, <4>1, <4>3, <5>5, <5>6, <5>7 DEF Lead
        <4>4. CASE cur # t /\ cur # u
          <5>1. vr'[t] = vr[t] /\ vr'[u] = vr[u]
            BY <1>0, <2>2, <4>4
          <5> HIDE DEF cur, charged, IInv, TypeOK
          <5> QED
            BY <3>1, <3>5, <3>7, <4>1, <4>4, <5>1 DEF Lead
        <4> QED
          BY <4>2, <4>3, <4>4
      <3> QED
        BY <3>6, <3>7
    <2> QED
      BY <2>3, <2>4, <2>5 DEF LagInv
  <1> QED
    BY <1>1, <1>2

\* What is picked among the waiting is not ahead of any other of them
LEMMA TurnIsLeast ==
    ASSUME NEW queue, NEW v, NEW waiting, NEW avg \in Nat, \A x \in waiting : v[x] \in Nat,
           NEW n \in Turn(queue, v, waiting, avg)
    PROVE  n \in waiting /\ \A u \in waiting : v[n] <= v[u]
  <1> DEFINE eligible == {x \in waiting : v[x] <= avg}
             chosen == IF eligible # {} THEN eligible ELSE waiting
  <1>1. n \in chosen /\ \A x \in chosen \ {n} : v[n] < v[x] \/ v[n] = v[x]
    BY DEF Turn, Earliest
  <1>2. n \in waiting /\ v[n] \in Nat
    BY <1>1
  <1>3. ASSUME NEW u \in waiting PROVE v[n] <= v[u]
    <2>1. CASE u \in chosen
      BY <1>1, <1>2, <2>1
    <2>2. CASE u \notin chosen
      <3>1. v[n] <= avg /\ ~(v[u] <= avg)
        BY <1>1, <2>2
      <3> QED
        BY <1>2, <3>1
    <2> QED
      BY <2>1, <2>2
  <1> QED
    BY <1>2, <1>3

\* Of two competitors one is waiting when the handler looks, and one of the waiting is picked
LEMMA LagSelect ==
    ASSUME IInv, PlaceInv, LagInv, NEW c \in Cpus, Select(c)
    PROVE  LagInv'
  <1> USE DEF IInv
  <1> DEFINE st == StatusAfterScan(c)
             v == AfterScan(c)
             waiting == Waiting(c, st)
             counted == waiting \cup {x \in {current[c]} \cap Queued(c) : Runnable(st[x])}
  <1>0. /\ vr \in [Tasks -> Nat]
        /\ \A t \in Busy : t \in Tasks /\ Shape(t) /\ home[t] \in Cpus /\ t # NoTask /\ ~Idle(t)
    BY BusyFacts, SchedAssumption DEF LagInv
  <1>1. /\ irq[c] = "select" /\ irq' = [irq EXCEPT ![c] = "switch"]
        /\ UNCHANGED <<home, pc, current, ticks>>
        /\ \A d \in Cpus : d # c => next'[d] = next[d]
    BY DEF Select, codeVars, TypeOK
  <1>2. \A t \in Busy : ~Due(t)
    BY <1>0 DEF Due, Shape
  <1>3. v \in [Tasks -> Nat] /\ \A t \in Busy : st[t] = status[t] /\ v[t] = vr[t]
    <2>1. \A a, b \in Nat : Placed(a, b) \in Nat
      BY SchedAssumption DEF Placed, Credited
    <2>2. current[c] \in Tasks
      BY <1>1 DEF TypeOK, CurrentExists
    <2>3. v \in [Tasks -> Nat]
      <3> DEFINE own == IF current[c] \in Woken(c) THEN Placed(vr[current[c]], vr[current[c]]) ELSE vr[current[c]]
      <3>1. own \in Nat
        BY <1>0, <2>1, <2>2
      <3> HIDE DEF own
      <3>2. \A t \in Tasks : v[t] \in Nat
        BY <1>0, <2>1, <3>1 DEF AfterScan, own
      <3> QED
        BY <3>2 DEF AfterScan
    <2>4. \A t \in Busy : st[t] = status[t] /\ v[t] = vr[t]
      BY <1>0, <1>2 DEF StatusAfterScan, AfterScan, Woken
    <2> HIDE DEF v
    <2> QED
      BY <2>3, <2>4
  <1>4. vr' \in [Tasks -> Nat] /\ \A t \in Busy : status'[t] = status[t] /\ vr'[t] = vr[t] /\ wakeup'[t] = wakeup[t]
    <2>1. CASE runq[c] = <<>>
      BY <1>0, <2>1 DEF Select
    <2>2. CASE runq[c] # <<>>
      <3>1. /\ status' = st /\ vr' = v
            /\ wakeup' = [x \in Tasks |-> IF x \in Woken(c) THEN NotTimed ELSE wakeup[x]]
        BY <2>2 DEF Select
      <3>2. \A t \in Busy : t \notin Woken(c)
        BY <1>2 DEF Woken
      <3> HIDE DEF st, v
      <3> QED
        BY <1>0, <1>3, <3>1, <3>2
    <2> QED
      BY <2>1, <2>2
  <1>5. ASSUME NEW t \in Busy PROVE Shape(t)'
    <2>1. irq'[home[t]] = "none" => irq[home[t]] = "none"
      BY <1>0, <1>1 DEF TypeOK
    <2> QED
      BY <1>0, <1>1, <1>4, <1>5, <2>1 DEF Shape
  <1>6. ASSUME NEW t \in Busy, NEW u \in Busy, Competing(t, u)' PROVE Lead(t, u, home[t])'
    <2>1. PICK d \in Cpus : /\ t # u /\ d = home[t] /\ home'[t] = d /\ home[u] = d
                            /\ Runnable(status[t]) /\ Runnable(status[u]) /\ vr[t] < VrCap
      BY <1>0, <1>1, <1>4, <1>6 DEF Competing
    <2>2. Lead(t, u, d)
      <3>1. Competing(t, u)
        BY <2>1 DEF Competing
      <3> QED
        BY <2>1, <3>1 DEF LagInv
    <2>3. vr'[t] = vr[t] /\ vr'[u] = vr[u] /\ ticks'[d] = ticks[d] /\ current'[d] = current[d]
      BY <1>1, <1>4
    <2>4. CASE d # c
      <3>1. irq'[d] = irq[d] /\ next'[d] = next[d]
        BY <1>1, <2>4 DEF TypeOK
      <3> QED
        BY <2>1, <2>2, <2>3, <3>1 DEF Lead
    <2>5. CASE d = c
      <3>1. t \in Queued(c) /\ u \in Queued(c)
        <4>1. pc[t] \notin Outside /\ pc[u] \notin Outside
          BY <1>0 DEF Shape, Outside
        <4> QED
          BY <1>0, <2>1, <2>5, <4>1 DEF PlaceInv, Roster, Members
      <3>2. Runnable(st[t]) /\ Runnable(st[u])
        BY <1>3, <2>1
      <3> HIDE DEF st
      <3>3. \A x \in {t, u} : x # current[c] => x \in waiting
        BY <1>0, <3>1, <3>2 DEF Waiting
      <3>4. waiting # {}
        BY <2>1, <3>3
      <3>5. waiting \subseteq Queued(c) /\ current[c] \notin waiting /\ Queued(c) \subseteq Tasks
        BY DEF Waiting, QueuesOwnTasks
      <3>6. AvgVruntime(v, counted) \in Nat
        <4>1. counted \in SUBSET Tasks
          BY <3>5
        <4> HIDE DEF v, counted
        <4> QED
          BY <1>3, <4>1, AverageOfTasks
      <3>7. next'[c] \in Turn(runq[c], v, waiting, AvgVruntime(v, counted))
        <4>1. runq[c] # <<>>
          BY <3>1 DEF Queued
        <4>2. next'[c] \in Choice(c, st, v)
          BY <4>1 DEF Select, TypeOK, st
        <4> HIDE DEF v
        <4> QED
          BY <3>4, <4>2 DEF Choice
      <3> HIDE DEF v, waiting, counted
      <3>8. \A x \in waiting : v[x] \in Nat
        BY <1>3, <3>5
      <3>9. next'[c] \in waiting /\ \A x \in waiting : v[next'[c]] <= v[x]
        <4> HIDE DEF IInv
        <4> QED
          BY <3>6, <3>7, <3>8, TurnIsLeast
      <3>10. next'[c] # NoTask /\ next'[c] # current[c]
        BY <3>5, <3>9, SchedAssumption
      <3>11. irq'[c] = "switch"
        BY <1>1 DEF TypeOK
      <3>12. current[c] = u => vr[t] <= vr[u]
        BY <1>1, <2>2, <2>5 DEF Lead
      <3>13. next'[c] = t => vr[t] <= vr[u]
        BY <1>3, <3>3, <3>9, <3>12
      <3> QED
        BY <2>1, <2>2, <2>3, <2>5, <3>10, <3>11, <3>12, <3>13 DEF Lead
    <2> QED
      BY <2>4, <2>5
  <1> QED
    BY <1>4, <1>5, <1>6 DEF LagInv

\* Nobody stays while a competitor waits; who is alone may
LEMMA LagStay ==
    ASSUME IInv, LagInv, NEW c \in Cpus, Stay(c)
    PROVE  LagInv'
  <1> USE DEF IInv
  <1>0. /\ vr \in [Tasks -> Nat]
        /\ \A t \in Busy : t \in Tasks /\ Shape(t) /\ home[t] \in Cpus
    BY BusyFacts DEF LagInv
  <1>1. /\ irq[c] = "switch" /\ next[c] \in {NoTask, current[c]}
        /\ irq' = [irq EXCEPT ![c] = "none"] /\ ticks' = [ticks EXCEPT ![c] = 0]
        /\ next' = [next EXCEPT ![c] = NoTask]
        /\ UNCHANGED <<status, wakeup, vr, home, pc, current>>
    BY DEF Stay, Leave, FreshTicks, taskVars, codeVars
  <1>2. \A t \in Busy : Shape(t)'
    BY <1>0, <1>1, SchedAssumption DEF Shape, TypeOK
  <1>3. ASSUME NEW t \in Busy, NEW u \in Busy, Competing(t, u)' PROVE Lead(t, u, home[t])'
    <2>1. PICK d \in Cpus : d = home[t] /\ home'[t] = d
      BY <1>0, <1>1
    <2>2. Lead(t, u, d)
      BY <1>1, <1>3, <2>1 DEF LagInv, Competing
    <2>3. d # c
      BY <1>1, <2>2 DEF Lead
    <2>4. irq'[d] = irq[d] /\ next'[d] = next[d] /\ ticks'[d] = ticks[d]
      BY <1>1, <2>3 DEF TypeOK
    <2> QED
      BY <1>1, <2>1, <2>2, <2>4 DEF Lead
  <1> QED
    BY <1>0, <1>1, <1>2, <1>3 DEF LagInv

\* The picked one takes over with a fresh slice
LEMMA LagSwitch ==
    ASSUME IInv, PlaceInv, LagInv, NEW c \in Cpus, Switch(c)
    PROVE  LagInv'
  <1> USE DEF IInv
  <1>0. /\ vr \in [Tasks -> Nat]
        /\ \A t \in Busy : t \in Tasks /\ Shape(t) /\ home[t] \in Cpus
    BY BusyFacts DEF LagInv
  <1> DEFINE cur == current[c]
             n == next[c]
  <1>1. /\ irq[c] = "switch" /\ n # cur /\ n \in Tasks /\ cur \in Tasks /\ ctxOk[n]
    BY DEF Switch, TypeOK, CurrentExists, PlaceInv, Contexts
  <1>2. /\ irq' = [irq EXCEPT ![c] = "none"] /\ ticks' = [ticks EXCEPT ![c] = 0]
        /\ next' = [next EXCEPT ![c] = NoTask] /\ current' = [current EXCEPT ![c] = n]
        /\ status' = StatusSwitched(cur, n)
        /\ UNCHANGED <<wakeup, vr, home, pc>>
    BY <1>1 DEF Switch, Leave, FreshTicks, codeVars
  <1>3. \A t \in Tasks : status'[t] = IF t = cur THEN IF status[t] = "RUNNING" THEN "START" ELSE status[t]
                                      ELSE IF t = n /\ status[t] = "START" THEN "RUNNING" ELSE status[t]
    BY <1>1, <1>2 DEF StatusSwitched, TypeOK
  <1> HIDE DEF cur, n
  <1>4. \A t \in Busy : Runnable(status'[t]) => Runnable(status[t])
    BY <1>0, <1>3 DEF Runnable
  <1>5. ASSUME NEW t \in Busy PROVE Shape(t)'
    <2>1. CASE current'[home[t]] = t /\ home[t] = c
      <3>1. t = n
        BY <1>2, <2>1 DEF TypeOK
      <3>2. status'[t] = IF status[t] = "START" THEN "RUNNING" ELSE status[t]
        BY <1>0, <1>1, <1>3, <3>1
      <3>3. ticks'[c] = 0
        BY <1>2 DEF TypeOK
      <3> QED
        BY <1>0, <1>2, <2>1, <3>2, <3>3, SchedAssumption DEF Shape
    <2>2. CASE current'[home[t]] = t /\ home[t] # c
      <3>1. /\ current[home[t]] = t /\ irq'[home[t]] = irq[home[t]] /\ ticks'[home[t]] = ticks[home[t]]
        BY <1>0, <1>2, <2>2 DEF TypeOK
      <3>2. t # cur /\ t # n
        <4>1. home[cur] = c
          BY <1>1, SchedAssumption DEF cur, RunningIsCurrent
        <4>2. home[n] = c
          BY <1>1, SchedAssumption DEF cur, n, NextKnown, QueuesOwnTasks
        <4> QED
          BY <2>2, <4>1, <4>2
      <3>3. status'[t] = status[t]
        BY <1>0, <1>3, <3>2
      <3> QED
        BY <1>0, <1>2, <3>1, <3>3 DEF Shape
    <2>3. CASE current'[home[t]] # t
      <3>1. status'[t] \in {"START", "RUNNING", "DEATH"} /\ (status[t] = "DEATH" => status'[t] = "DEATH")
        BY <1>0, <1>3 DEF Shape
      <3> QED
        BY <1>0, <1>2, <2>3, <3>1 DEF Shape
    <2> QED
      BY <2>1, <2>2, <2>3
  <1>6. ASSUME NEW t \in Busy, NEW u \in Busy, Competing(t, u)' PROVE Lead(t, u, home[t])'
    <2>1. PICK d \in Cpus : d = home[t] /\ home'[t] = d
      BY <1>0, <1>2
    <2>2. Lead(t, u, d) /\ vr[t] \in Nat /\ vr[u] \in Nat /\ Slice \in Nat
      BY <1>0, <1>2, <1>4, <1>6, <2>1, SchedAssumption DEF LagInv, Competing
    <2>3. CASE d # c
      <3>1. irq'[d] = irq[d] /\ next'[d] = next[d] /\ ticks'[d] = ticks[d] /\ current'[d] = current[d]
        BY <1>2, <2>3 DEF TypeOK
      <3> QED
        BY <1>2, <2>1, <2>2, <3>1 DEF Lead
    <2>4. CASE d = c
      <3>1. irq'[d] = "none" /\ ticks'[d] = 0 /\ current'[d] = n /\ irq[d] = "switch" /\ next[d] = n
        BY <1>1, <1>2, <2>4 DEF TypeOK, n
      <3>2. n = t => vr[t] <= vr[u]
        BY <2>2, <3>1 DEF Lead
      <3> QED
        BY <1>2, <2>1, <2>2, <3>1, <3>2 DEF Lead
    <2> QED
      BY <2>3, <2>4
  <1> QED
    BY <1>0, <1>2, <1>5, <1>6 DEF LagInv

\* The two ways into the handler
LEMMA LagHandler ==
    ASSUME IInv, PlaceInv, LagInv,
           (\E c \in Cpus : Tick(c)) \/ \E x \in Tasks : Svc(x)
    PROVE  LagInv'
  <1>1. ASSUME NEW c \in Cpus, TimerIrq(c) PROVE LagInv'
    BY <1>1, LagEnter DEF TimerIrq, codeVars
  <1>2. ASSUME NEW x \in Tasks, Svc(x) PROVE LagInv'
    <2>1. /\ home[x] \in Cpus /\ irq[home[x]] = "none" /\ Enter(home[x]) /\ pc[x] = "svc"
          /\ UNCHANGED <<status, wakeup, home>>
      BY <1>2 DEF Svc, At, OnCpu, IInv, TypeOK
    <2>2. ASSUME NEW t \in Busy PROVE pc'[t] = pc[t] \/ (pc[t] = "svc" /\ pc'[t] = "wfi")
      <3>1. CASE t # x
        BY <1>2, <3>1, BusyFacts DEF Svc, IInv, TypeOK
      <3>2. CASE t = x
        <4>1. status[t] = "DEATH"
          BY <2>1, <3>2 DEF LagInv, Shape
        <4>2. why[t] = "exit"
          BY <2>1, <3>2, <4>1 DEF IInv, TheDead
        <4> QED
          BY <1>2, <2>1, <3>2, <4>2 DEF Svc, IInv, TypeOK
      <3> QED
        BY <3>1, <3>2
    <2> QED
      BY <2>1, <2>2, LagEnter
  <1> QED
    BY <1>1, <1>2, LagSelect, LagStay, LagSwitch DEF Tick

\* At the start nobody is ahead
LEMMA LagInit == Init => LagInv
  <1> SUFFICES ASSUME Init PROVE LagInv
    OBVIOUS
  <1> USE SchedAssumption DEF Init
  <1>1. vr \in [Tasks -> Nat]
    OBVIOUS
  <1>2. ASSUME NEW t \in Busy PROVE Shape(t)
    <2>1. t \in Threads /\ t \in Created /\ t \notin Cpus /\ t \in Tasks /\ 0 \in Cpus /\ ~Idle(t)
      BY DEF Busy, Tasks, Cpus, Idle
    <2>2. home[t] = 0 /\ current[0] = 0 /\ t # 0
      BY <2>1
    <2> QED
      BY <2>1, <2>2 DEF Shape
  <1>3. ASSUME NEW t \in Busy, NEW u \in Busy PROVE Lead(t, u, home[t])
    <2>1. t \in Threads /\ u \in Threads /\ t \in Tasks /\ u \in Tasks /\ 0 \in Cpus /\ ~Idle(t) /\ t # 0 /\ u # 0
      BY DEF Busy, Tasks, Cpus, Idle
    <2>2. home[t] = 0 /\ current[0] = 0 /\ irq[0] = "none" /\ vr[t] = 0 /\ vr[u] = 0 /\ Slice \in Nat
      BY <2>1
    <2> QED
      BY <2>1, <2>2 DEF Lead
  <1> QED
    BY <1>1, <1>2, <1>3 DEF LagInv

(***************************************************************************)
(* The share of the core: threads that never sleep nor yield stay within   *)
(* one slice of each other, next to any number of others that do.  The     *)
(* deadline rule gives it: whoever is picked is not ahead of any other     *)
(* waiting thread, and keeps the core for one slice.                       *)
(***************************************************************************)
THEOREM LagBoundedThm == Spec => []LagBounded
  <1>1. IInv /\ PlaceInv /\ LagInv /\ [Next]_vars => LagInv'
    <2> SUFFICES ASSUME IInv, PlaceInv, LagInv, [Next]_vars PROVE LagInv'
      OBVIOUS
    <2>1. CASE UNCHANGED vars
      <3>1. UNCHANGED <<status, wakeup, vr, home, pc, current, ticks, irq, next>>
        BY <2>1 DEF vars, taskVars, codeVars, cpuVars
      <3> QED
        BY <3>1 DEF LagInv, Shape, Competing, Lead
    <2>2. ASSUME NEW x \in Tasks, Continue(x) \/ Decide(x) PROVE LagInv'
      BY <2>2, LagTask, LagHandler
    <2> QED
      BY <2>1, <2>2, LagHandler, LagClockBoot DEF Next
  <1>2. IInv /\ LagInv => LagBounded
    <2> SUFFICES ASSUME IInv, LagInv, NEW t \in Busy, NEW u \in Busy,
                        home[t] = home[u], Runnable(status[t]), Runnable(status[u]), vr[t] < VrCap
                 PROVE  vr[t] <= vr[u] + Slice
      BY DEF LagBounded, Busy
    <2>1. vr[t] \in Nat /\ Slice \in Nat
      BY BusyFacts, SchedAssumption DEF LagInv
    <2>2. CASE t = u
      BY <2>1, <2>2
    <2>3. CASE t # u
      BY <2>3 DEF LagInv, Competing, Lead
    <2> QED
      BY <2>2, <2>3
  <1> QED
    BY <1>1, <1>2, LagInit, PlaceThm, PTL DEF Spec
=============================================================================
