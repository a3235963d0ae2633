# OpenXJ380 — verification of the kernel's concurrent core

OpenXJ380 is an x86-64 kernel with a Linux-compatible system-call layer, and this
branch carries a port of the kernel's base to the Zynq-7020 (two Cortex-A9 cores)
under `arch/arm32/`. The port is a kernel with self-tests and a serial shell; it
has no user mode yet. This directory models the parts of both whose correctness
depends on the order in which several actors take their steps, checks them with
TLC and proves what matters most with TLAPS.

Contents

1. The system: components and what makes them correct
2. Modules: how state and actions correspond to the code
3. Runs: what each one checks, its bounds, what it shows
4. Fairness
5. Proofs
6. Disagreements between the code and its documentation
7. What is not modelled, and why
8. Plan

Run a configuration with `tlc -workers 2 -config X.cfg M`, a proof module with
`tlapm M.tla`. `PROJECT.json` maps every definition to the lines it translates.

---

## 1. The system

### 1.1 How the parts interact

```
      user processes (x86)                      kernel threads (Zynq)
             | system calls                            | direct calls
  sys.cpp ---+--- signal.cpp                           |
     |       |         |                               |
  VFS -- pipes, ptys, sockets, FAT       console.c -- mutex_kern.c -- mutex.c
     |            |                                    |
     |    scheduler_wake_task / WAIT            sched_sleep_ns, sched_yield
     |            |                                    |
  pcb.cpp --- scheduler.cpp                       sched_kern.c -- sched.c
  reaper.cpp      |                                    |
     |        timer interrupt                    tick on each core, svc
  lock_queue, ipc, mutex.cpp                           |
     |            |                                    |
     +-------- spinlock (include/cpu/lock.h)     spinlock (arch/cpu.h)
  memory: frame/buddy/page/vma             memory: palloc/heap/vmap/kstack
```

Everything that is shared is guarded by a spinlock that also masks interrupts
on its core. Threads of the x86 kernel block by setting their own status to WAIT
and yielding; whoever wakes them stores START into their TCB. The kernel has
no wait queue in the scheduler: each blocking component keeps its own list (the
pipe), or its waiters poll (mutex, wait4, ipc, poll). Threads of the Zynq port
sleep by time only.

### 1.2 Components

For each: the state it keeps, its operations, the hard behaviour, and what makes
it correct. "Module" names the model; a dash means that it is not modelled yet
(section 7 says why or when).

| Component (source) | State | Operations | What is hard | What makes it correct | Module |
|---|---|---|---|---|---|
| spinlock (`include/cpu/lock.h`, `arch/arm32/include/arch/cpu.h`) | lock word, saved interrupt state | `spin_lock`, `spin_unlock` | the saved state lives in the lock; handlers use the same locks | exclusion; no handler on top of a holder; the caller gets its own interrupt state back; progress | SpinLock |
| yield-type mutex (`kernel/task/mutex.cpp`) | state, owner, recursion count, wait queue | lock, trylock, unlock, destroy | destroy against waiting lockers; nesting | exclusion, agreement of owner/count/state with the clients, queue freed once, waiters let go | ReentrantLock, YieldMutex |
| Zynq scheduler (`sched_kern.c`, `sched.c`, `smp.c`, `percpu_hw.c`) | run queue and current task per core, status, wake-up time, vruntime, slice counters, the global switch | tick, svc, yield, sleep, exit, create, disable/enable, boot of core 1 | ticks between any two instructions; status written in and outside the handler; the second core boots under ticks | a task runs on one core; nobody lost; sleeps neither cut short nor endless; death final; windows hold; bounded unfairness | EevdfPolicy, ArmSched |
| exclusive output (`console.c`, `mutex_kern.c`, `mutex.c`) | the console mutex, the legacy switch | `console_excl_begin/end`, `hook_yield`, `console_mutex_set_legacy` | the idle task takes part; two mechanisms exchanged at run time | regions exclude; a holder gets its core back; the mutex is not left behind | ConsoleLock |
| pipes (`pipefs.cpp`, `pipe.h`) | byte buffer, two descriptor counts, two waiter lists, spec objects | read, write, close, fork's `fd_dup` | lost wake-ups, end of file and EPIPE while the other side sleeps, frees outside the lock | stream intact, chunks atomic, sleepers justified, counts exact, freed once, progress | PipeChannel, Pipe |
| process lifecycle (`pcb.cpp`, `reaper.cpp`, `sys.cpp` wait4/exit) | process tree, thread lists, status, descriptor tables, exit messages | fork, vfork, clone, exec, exit, exit_group, wait4 | application threads all live on processor 0 and system calls run with interrupts masked, so what interleaves is what yields: a close that waits for the FAT mutex in the middle of exit_group, the polling of wait4 and vfork; two notification paths; children of a freed parent; borrowed page directories and shared tables | a child is on its parent's list until it is collected, once; a table is closed by its last process; a borrowed space outlives its borrower; waits end | ProcessContract, ProcessLife |
| x86 scheduler (`scheduler.cpp`) | queue and current thread per CPU, one global switch, status, wake-up times | timer, yield, sleep, wake, add | the switch is saved, turned off and restored by several processors; status and times written across CPUs without a lock | the switch comes on again; a sleeper has its time; a dead thread stays dead | X86Sched |
| kernel queues, IPC (`lock_queue.cpp`, `ipc.cpp`) | list with indices, rr cursor | enqueue at an index, dequeue, remove, copy; send, receive by type | consumers that dequeue and re-enqueue | nothing lost, no index twice, FIFO per type with one consumer | — |
| byte rings, keyboard (`atom_queue.cpp`, `keyboard.cpp`) | ring, head, tail, size | push, pop (one or many producers) | interrupt handler as second consumer | FIFO or a documented loss of the oldest byte | — |
| ids, bitmap (`id_alloc.cpp`, `bitmap.cpp`) | bitmap, next id | alloc, free, set and find a range | byte-wise shortcuts, wrap-around | equal to a naive search | bitmap_set_range in Frames |
| x86 memory (`kernel/memory`) | frames, buddy lists, a bitmap, reference counts; page tables, regions | alloc, free, map, unmap, fault | split and merge under a lock per zone, a bitmap shared without one; lazily mapped pages | no frame handed out twice or lost; merging inverts splitting; a client can give back what it has | Frames (the frames) |
| VFS (`vfs.cpp`, `fatfs.cpp`) | node tree, descriptors, counts, marks | open, create, unlink, close, dup, mount | each call waits for the FAT driver, which refreshes nodes of other calls | a node lives while something refers to it, and no longer | VfsNode, Pipe |
| tmpfs, dev, procfs, nmfs, dnsfs | tables | file callbacks | little | — | — |
| sockets, ptys (`unixsock.cpp`, `socketfs.cpp`, `pty.cpp`) | connection state, buffers | connect, accept, send, receive, ioctl | two ends closing | like the pipe, in both directions | — |
| signals (`signal.cpp`) | mask, pending set, handlers | kill, sigaction, delivery, sigreturn | delivery only on return to user mode | a signal that is not blocked is delivered once | — |
| futex (`sys.cpp:3106`) | none | wait, wake | — | — (WAIT yields once and reports a timeout, WAKE does nothing) | — |
| poll, epoll, messages | none of their own, or pipes | loops over callbacks | — | — | — |
| FAT, partitions, disk, audio, PCI and serial drivers | device registers | request, complete | the device | a statement about hardware | — |
| SMP, APIC, module loader, boot loader, start-up | set up once | in sequence | — | — | — |
| GUI, xapi, kmod (e1000, xhci, lwIP) | windows, device rings | — | — | — | — |
| Zynq memory (`palloc.c`, `heap.c`, `kmalloc.c`, `vmap.c`, `kstack.c`) | page bitmap, block list, translation tables, stack slots | alloc, free, map, split, guard | mapping fails half-way and is rolled back; the TLB remembers | a free slot is unmapped, a used one has its pages and its guard | StackPool (vmap, kstack) |
| Zynq MMU, caches, GIC, timers, UART, devices, shell, self-tests | registers | in sequence | the hardware | — | — |

`PROJECT.json` lists the same components with their files, and under "hazards"
the places in this code where something could go wrong that a test would
hardly reach, each at its line; most of them are covered by a property that a
run checks, the others say why not.

---

## 2. Modules

Names are the source's wherever TLA+ allows it; every definition says in its
comment what it stands for, and a definition marked "Mutant" is a bug that the
code does not have, kept to show that the property next to it in `PROJECT.json`
would notice it.

### SpinLock
Both spinlocks in one module, because they are the same steps in another order:
the x86 form masks, tests and sets, and then saves the former interrupt state in
the lock; the ARM form saves first (`Port` chooses). A core has a thread and a
timer handler on top of it, both using the lock; the handler starts only while
interrupts are enabled. The weak memory order of both processors is left to the
barriers the code has. `entry` is a ghost: the caller's state when it called.

### ReentrantLock, YieldMutex
`YieldMutex` has one action per path between `spin_lock` and `spin_unlock` in each
function of `mutex.cpp`; taking the spinlock is a step of its own, so that any
thread may come in between a call and its section, and `queue_destroy`, which runs after
the unlock, is another. `depth` counts what the clients were told. The
abstract `ReentrantLock` knows a holder, a count and whether the lock is retired;
the refinement maps owner, rcc and the state DESTROYED to them.

### EevdfPolicy, ArmSched, MCArmSched
`EevdfPolicy` holds the decisions of `sched.c` as operators: credit on waking,
whose turn it is, which core a thread is put on. `ArmSched` is the machine around them:
`sched_tick` in three steps (accounting and early returns; the selection under
the queue's lock; the switch), entered by the timer or by the `svc` of
`sched_yield`; every function a task calls (`sched_yield`, `sched_sleep_ns`,
`sched_thread_exit`, `sched_kthread_create_level`, `sched_disable`, `sched_enable`)
cut where a tick on the same core, or a step of the other core, can see or change
something; and the boot of the second core (`cpu1_main`, `sched_register_ap_idle`).
Time is counted in ticks of one millisecond: `wakeup[t]` is what is left until
`wakeup_time`. All threads have the same slice, so that comparing deadlines is
comparing vruntimes. `Does` says what each task's program makes use of; which
tasks sleep, exit, yield or create is the only thing the instances choose.

### ConsoleLock, MCConsoleLock
The exclusive regions of `console.c` over `mutex.c` through the hooks of
`mutex_kern.c`. The mutex's sections are one step each, since YieldMutex looks
inside the same code; the scheduler is reduced to a choice among the ready threads
of a core, which is what ArmSched shows about it (`Choice`). `Tick`, `HookYield`
and `Rest` are the only steps that change who runs. kmain is the idle task of its
core, and its comparison of the mutex with `sched_disable` (kmain.c:4592-4618) is
`SwitchTest` and `SwitchWrite`, the two halves of `console_mutex_set_legacy`.
`retrying` states an assumption: a woken thread gets as far as its next look at the
mutex, a few hundred instructions, before the next tick takes the core away.

### PipeChannel, Pipe, MCPipe
`Pipe` has one action per section under `pipe->lock`; going to WAIT is part of the
section, the return from `pipe_wait_on` and the frees after the unlock are steps of
their own. A byte is its writer, its position in the writer's stream and whether it
ends a chunk. `fd_dup` on fork counts the new descriptors. `PipeChannel` is what the
processes rely on: a bounded stream with end of file and broken pipe, where nobody
sleeps and a caller that can proceed does proceed.

### ProcessContract, ProcessLife, MCProcessLife
Processes in slots, since a PCB is memory that is freed and allocated again; a pid
is given out once. A process has a parent, a list of children, an exit code, a
page directory of its own or (vfork) its parent's, a descriptor table of its own or
(CLONE_FILES) a shared one, and threads. A step runs from one yield to the next: the
system calls run with interrupts masked and application threads are on one
processor (`add_task`, scheduler.cpp:540; syscall.cpp:209), so that they interleave
only in wait4's loop, in vfork's loop and where a close waits for the FAT driver
in the middle of exit_group. A freed parent is still read by its children
(pcb.cpp:281); what that memory holds by then is a choice (`Adopt`), and a message
sent there is dropped. `ProcessContract` is what a parent may rely on: a child is born,
ends once, and is collected once, by its parent, with the code it ended with.

### Frames
One processor's call of `alloc_frames` or `free_frames` is cut at the zone's lock and at
every load and store of a byte of `using_regions`, because alloc_frames marks its frames
outside of the lock and neighbours share bytes. The free lists are sets of blocks; a block
popped from a list is any block of its order. `add_memory_region` builds the lists at boot.
`stale` marks the frames whose bit another processor's store has wiped out, `lost` those
whose free was refused for it.

### StackPool
`vmap.c` as functions from tables to tables and a result code, and over it `kstack.c` with every early
return and the rollback. A call is a step: kmain alone creates threads and switches
guards. `cached` is what the core's TLB may still translate: a page stays in it until
it is flushed after it became inaccessible, so that a missing flush is a property's
failure. Where the pool begins in its section, how many tables there are, and the kind of the
guard are chosen by Init.

### VfsNode
One name in one directory of a FAT file system and all the `vfs_node_t` it ever gets.
Steps run from one wait for `fatfs_operate_lock` to the next. `Walk` is the refresh of the directory
(fatfs_stat with its pruning of unreferenced children) and the look-up; `OpenStat`, `OpenUpdate`,
`UnlinkStat` and `UnlinkRedo` are the refreshes of the node by the calls that hold it,
`UnlinkDone` and `UnlinkFails` the end of vfs_delete, `Leave` the rest of
vfs_close and `Closed` what follows the driver's close. The count, the mark `file_delete`, the
handle and the link to the parent are the node's state. `wiped` are nodes whose mark a refresh has overwritten.

### X86Sched
`timer_handle` on each processor in four steps (the test of the switch; the selection under the
queue's lock; the switch off and the exchange, or giving up when the pick has no `context`; the switch on),
threads that sleep, and everyone else who
writes `is_scheduler`: the creators of threads and processes (`create_kernel_thread` and
`process_fork` take the lock and mask interrupts in opposite orders), the page fault handler, which may
kill the thread, KernelMain's last loop and the reaper. add_task's walk over another processor's queue
is cut at each of its stores. Any schedulable thread may be picked: what the policy prefers is
EevdfPolicy's affair, whose source is a rewrite of the same selection. `stranded` and `overrun` are ghosts
for the two races of section 6.

### MCStructures
Extends X86Sched, Frames, StackPool and VfsNode, so that the run checks the very definitions X86SchedProofs and
StructuresProofs prove. They do not
interact; `which` says whose behaviour it is, and the variables of the others rest.

### The proof modules
SpinLockProofs, YieldMutexProofs, ArmSchedProofs, ConsoleLockProofs, PipeProofs, ProcessLifeProofs and
X86SchedProofs extend the module they are named for, StructuresProofs extends Frames, StackPool and VfsNode. Section 5 says what
they prove.

---

## 3. Runs

| Run | Instance | What it shows |
|---|---|---|
| `spinlock_x86` | 2 cores, thread and handler on each (2,630 states) | the x86 lock excludes, is never held under a handler of its core, restores each caller's interrupt state, makes progress |
| `spinlock_arm_restore` | the same with the ARM form | **violation** of `InterruptsRestored` (section 6, 1) |
| `mutex` | 3 threads, recursive, nesting 2 (3,055) | the account of owner, count and state, the queue freed once; refinement of ReentrantLock; waiters of a destroyed mutex leave; progress |
| `sched_boot` | 2 cores, one thread there, one created, kmain with nested windows (1,280,551) | no task is RUNNING without being current, none is in two queues or none, nothing is placed on a core that is not ready, no switch is refused for lack of a context, windows hold, no sleep ends early |
| `sched_core` | 1 core, a thread that sleeps 1 or 2 ticks and yields, two that only exit (971,225) | death is final, no idling with work to do, and of two threads that never give up the core none gets more than a slice ahead |
| `sched_wakes` | 1 core, two threads that sleep, one that never does (11,554) | a sleeper is woken |
| `sched_starve` | 1 core, two that sleep, one that never does | **violation** of `NoStarvation` (6, 2) |
| `pipe` | 3 processes, 2 bytes, writes of 3, reads of 1 and 3, positions modulo 3 (88,896) | stream, sleepers, counts, frees; refinement of PipeChannel with its fairness, that is: no wake-up is lost |
| `console` | 2 cores, kmain and three threads, nesting 2 (44,922) | regions exclude each other; a holder, kmain too, is not kept out by the threads that wait for it |
| `console_switch` | 1 core, kmain and two threads | **violation** of `LockNotAbandoned` (6, 3) |
| `process` | 3 PCB slots, 4 pids, 2 threads (76,052) | children and tables are accounted for, a borrowed address space is alive, the contract is kept, wait4 and vfork return |
| `structures` | Frames: 2 processors, two zones of 4 and 2 frames; StackPool: 4 stacks of 2 pages and a guard over sections of 4 pages, 1 to 4 tables; VfsNode: 2 processes, 4 nodes; X86Sched: 2 processors, 7 threads, one of them unborn (922,130) | no frame twice or lost, merging complete, clients' bits set; stacks have their guards, failures leave no trace; nodes live as long as they are referred to; the switch comes on again, sleepers keep their time, the dead stay dead; each but for the races section 6 names |

Bounds, all named in the modules or the configurations:

- *Slice = 2 ticks* (4 on the board): one tick inside a slice and one at its end are
  the two cases the handler distinguishes.
- *VrCap* stops the vruntimes; `LagBounded` is stated below it, and 6 is three slices,
  two more than the lag it allows. The runs about safety alone use 1: there only the
  choice matters, and equal vruntimes allow every order the queue does.
- *Durations* {1} or {1, 2} ticks: a sleep that ends at the next tick, and one that
  outlasts it.
- *MaxOff = 2, MaxNest = 2, MaxDepth = 2*: an inner and an outer level.
- *Capacity = 2 bytes, writes of 3*: a chunk that fills the pipe exactly, and a remainder
  that does not fit next to one unread byte; reads of 1 leave such a byte, reads of 3 ask
  for more than the pipe can hold. Three processes are two sleepers of one kind and one
  that wakes them.
- *SeqMod = 3* is larger than the pipe, so that a repeated or lost byte shows.
- Three threads in `mutex` are a holder, a waiter and a destroyer.
- *3 slots, 4 pids, 2 threads* in `process`: a parent, two generations below it, and a slot that is
  used again for another pid; a process with a sibling thread that waits, closes or kills.
- *Frames*: zones of 4 and 2 frames have an order to split twice and one whose buddy does not belong to
  the allocator (frame 0); ByteBits = 2 makes two frames share a byte; requests of 1, 2 and 3.
- *StackPool*: slots of three pages over sections of four put the guard in its
  stack's section, at its end, and in the one before; 1 to 4 tables make every call
  fail at every place, or none.
- *VfsNode*: 4 addresses, MaxFds = 1 and `Room` (a step that may allocate finds two unused ones):
  an unlinked node that is still open, its successor, and one more that a refresh adds.
- *X86Sched*: a processor with KernelMain, an application and a thread that a creator on the other one makes, and one
  with an idle thread, the reaper and the creator. Seconds are not counted: a slept time ends any moment.

Deadlock is checked except in `pipe`, where all processes may close everything and
be done, in `process` and `structures`, whose bounds (pids, addresses, threads) may be used up, and in `spinlock_arm_restore`, where a core may stop for good once its
interrupts stay masked.

---

## 4. Fairness

- *Spinlock*: a context that keeps getting its core executes its next instruction
  (strong fairness: an interrupt may come between two attempts); handlers end. Nothing makes the
  test-and-set fair, so only deadlock freedom is claimed.
- *Mutex*: sections run with interrupts off (weak fairness); a spinning thread does not
  lose the spinlock's race for ever (strong); a holder comes back to unlock. The order of the
  contenders is not fair and the run does not pretend it is.
- *ArmSched*: timers tick and handlers end (weak); a thread that keeps getting its core
  gets on (strong); a program that opened a `sched_disable` window closes it. What a
  program decides to do is not fair. That a *ready* thread gets the core is never assumed:
  it is what the properties are about.
- *ConsoleLock*: ticks are weakly fair, and a task that keeps getting its core ends its
  regions. `HolderReleases` also names its assumption on the load
  (`LoadLeavesRoom`): again and again there is a moment when each thread of a core sleeps,
  waits for the mutex or holds it. Without it kmain, an idle task, has no claim to the core.
- *Pipe*: every ready thread runs again and again; nobody has to make a call, fork or
  close. That this holds of the x86 scheduler is assumed here, not shown.
- *ProcessLife*: a thread in wait4's or vfork's loop polls again and again (weak), for it yields in each round and the
  scheduler keeps ready threads running; whether a child ever exits or calls exec is its own affair, and the properties are conditional on it.
- *Frames, StackPool, VfsNode, X86Sched*: safety only.

---

## 5. Proofs

All constants are arbitrary, under the named assumptions of the modules (`SpinAssumption`,
`MutexAssumption`, `SchedAssumption`, `ConsoleAssumption`, `PipeAssumption`, `ProcessAssumption`,
`MachineAssumption`, `FramesAssumption`, `ZonesAligned`, `StackAssumption`, `VfsAssumption`), which TLC
evaluates for each instance. Two say more than that a constant has its type:
`FramesAssumption` that boot gives each frame once, above the first MiB, and in pieces that lie in one
zone (`process_memory_region`); `ZonesAligned` that an aligned block of given frames lies in one zone.
The zones end at 16 MiB and at 4 GiB, so that an aligned block across an end would begin with frame 0,
which is never given.

| Theorem | States |
|---|---|
| SpinLockProofs: MutualExclusionThm, HolderNotInterruptedThm | both forms of the spinlock, any number of cores |
| SpinLockProofs: InterruptsRestoredThm | the x86 form gives every caller its interrupt state back |
| YieldMutexProofs: TypeThm, OwnerAccountThm, MutualExclusionThm, NeverDestroyedHeldThm | the mutex, any number of threads |
| YieldMutexProofs: WaitQueueOwnedOnceThm | the wait queue is freed by one destroyer, once |
| YieldMutexProofs: RefinementThm | YieldMutex implements ReentrantLock |
| ArmSchedProofs: TypeThm, RunningIsCurrentThm, DeathIsFinalThm | any number of cores, threads and programs |
| ArmSchedProofs: WindowHoldsThm | if only kmain's context opens windows |
| ArmSchedProofs: RosterExactThm, OnlineMeansReadyThm, NoRefusedSwitchThm | every task in exactly one queue, on a core that is ready; every pick has a context |
| ArmSchedProofs: IdleOnlyWithoutWorkThm, SleepNotCutShortThm | a core goes idle only with nothing to run; a sleep lasts as long as was asked |
| ArmSchedProofs: LagBoundedThm | threads that never sleep nor yield stay within a slice of each other, next to any others, for any bound on vruntimes |
| ConsoleLockProofs: TypeThm, RegionsExclusiveThm | any number of cores and printing threads, any nesting |
| PipeProofs: TypeThm, StreamIntactThm, SleepersJustifiedThm, DescriptorsCountedThm, FreedExactlyOnceThm | any number of processes, any capacity, requests of any size |
| PipeProofs: ChannelStepsThm | each step of Pipe is one of PipeChannel, or leaves the channel as it is |
| ProcessLifeProofs: TypeThm, ChildrenExactThm, TablesAccountedThm, BorrowedSpaceAliveThm | any number of processes and threads, whatever slot malloc takes next |
| ProcessLifeProofs: KeepsContractThm | ProcessLife implements ProcessContract |
| X86SchedProofs: SchedulingComesBackThm, SleepersKeepTheirTimeThm | any number of processors, threads and creators |
| X86SchedProofs: SwitchNotGivenUpThm | whatever timer_handle picks has a context |
| StructuresProofs: VfsTypeThm, NodesAliveThm | any number of processes, addresses and descriptors |
| StructuresProofs: StackTypeThm, GuardsHoldThm, FailuresLeaveNoTraceThm | any number of slots, pages per stack, pages per section and tables |
| StructuresProofs: FramesTypeThm, FramesAccountedThm, FullyMergedThm, BitsOfOwnersThm | any zones, regions, orders, bytes of the bitmap and processors |

With these, every invariant and every action property that a passing run checks is also a theorem.

The inductive invariants and why they are needed:

- *SpinLock.* Exclusion needs `LockWord` (the word is set exactly while somebody is
  inside), which needs `Masked`: a context past the masking step is the one its core runs
  and has interrupts off. `HandlerDone` says that a handler that is not active is in
  neither function. For x86 `Saved` adds what the lock's field holds at each step; its
  last conjunct, that the field still belongs to the holder, is what fails on the port.
- *YieldMutex.* `OwnerAccount` is inductive together with `TypeOK`; exclusion and the rest
  follow from it, and so does each step of the refinement. For the queue, `QueueInv` keeps the set of
  destroyers between the unlock and `queue_destroy` finite, so that counting them is adding and subtracting one.
- *ArmSched.* What a handler switches to was chosen a step before, from a queue others
  append to. So the invariant says what queues hold (`QueuesOwnTasks`), what the pick may be
  (`NextKnown`), that a core in a handler has a task (`CurrentExists`), that idle tasks stay on
  their core and never die (`IdleTasks`), that a thread being created belongs to one creator
  (`Creations`), and that a dead one is on its way to WFI and not the pick (`TheDead`). `WindowHolds` is
  then inductive by itself. `PlaceInv` adds who is in which queue, without repetition (`Roster`), what a
  published core has and that threads are made for published cores only (`Ready`), and that a task has a context
  unless it still boots or is its core's current one, so that whatever is picked has one (`Contexts`): `RosterExact` alone is not
  inductive, since the queue of a core that is still booting lacks its idle task. `SleepInv` ties the
  three places where a sleep's time is written (asked, wakeup, why) to the step the sleeper is at. For all this nothing
  is assumed of vruntimes: it holds whatever `Turn` prefers, as long as it chooses among the waiting.
  `LagBounded` is about vruntimes. `LagInv` adds to it how far t may be ahead of u at each moment (`Lead`): by what u has left of
  its slice while u runs, by what t has used of its own while t runs, and not at all when t is picked (`TurnIsLeast`).
  It speaks of threads that neither sleep nor yield, whatever the others do. A thread that yields gives up the rest of its slice
  uncharged, and the others get ahead of it without bound; a sleeper is placed behind by its credit.
- *ConsoleLock.* `RegionsExclusive` with `PlacesAgree` (a task in mutex_lock has room for one
  more region; only such tasks are retrying) and `Switch` (the legacy switch is off until kmain
  has passed its test; the mutex has an owner exactly while its count is not zero).
- *Pipe.* The run's four invariants and `HeapInv`, which says of each of the three objects whether its
  count still keeps it, one closer has it on its list, or it is freed: with the counts alone two closers could
  have the same object. `SleepersJustified` needs that only who waits is on a list (`Listed`). The stream is a
  sequence whose positions are kept modulo `SeqMod`; the proof is about prefixes (`GoesOn`) and adds up remainders.
- *ProcessLife.* Pids name processes and grow towards the children (`PcbsNamed`), so that nobody is its own
  ancestor and a slot that is used again is not taken for its former process; what a message says is so in
  whatever queue it lies (`MessagesTrue`); a borrower has one lender that waits for it by pid (`Lent`); a list has each
  child once, and its children point back (`Family`); a table has as many users as it counts and, without users, one closer
  (`Tables`). The freed parent that is still read needs nothing: the proof holds for whatever `Adopt` finds there.
- *X86Sched.* `SchedulingComesBack` is inductive with the types alone: who may turn the switch on is what
  some processor runs, and that changes only in an exchange, which turns it on itself, and in a switch given up, which does too. For
  `SleepersKeepTheirTime` the walk of add_task is what matters: `OneCreator` (only the holder of
  create_thread_lock walks), `WalkSound` (what it found still sleeps, unless its own processor was
  faster), `NotMade` (the newborn is not yet a thread that could sleep or be found) and `Sleeping` (WAIT only
  inside scheduler_sleep_ns). `Picks` says that a pick
  is of its processor's queue and not current, and that a thread without context is the boot thread of its processor and
  still current. So no switch is given up, which `SleepersKeepTheirTime` needs as well: the branch of scheduler.cpp:450
  sets the current thread to RUNNING even if it is dead. `MachineAssumption` asks for a boot
  thread for every processor, in its own queue, and a processor for every thread.
- *VfsNode.* `Sound` of each node: its count is the number of references (`Counted`); a node out of the tree is marked, one
  call deletes it, and one closes it (`Marked`). Both are claimed only outside `wiped`: after
  a refresh has overwritten `file_delete`, a second unlink drops the tree's reference again. That the
  node is linked at most once is a fact about every node.
- *StackPool.* `StackInv` says what a slot is by its bit: handed out (`HeldSlot`), free (`FreeSlot`, nothing of it can
  still be translated), or given up (`LeakedSlot`, which means that the tables have run out). Two facts about the
  order of the calls carry it: a slot's guard splits its section first, before any page of the stack is mapped
  (`GuardFirst`), and the lowest free slot is taken (`BelowSplit`), so that a section that is not split
  has no stack below it in use. The loops over the pages are folds; what they preserve is `Change`.
- *Frames.* `Listing`: the blocks in the lists are aligned, in one zone, disjoint, and no two can merge. Alignment is what makes
  `Buddy` an involution and `Merged` the union of both; without the zone, a block pushed could be the buddy of
  one in the list that the code did not look at. `Accounts` partitions the given frames; what boot has not
  given yet (`Pending`) is a part of it, and each action moves one block from one part to another (the lemmas `Accounts...`).
  `CallOK` says that a byte is cleared only under the zone's lock and for frames that are in the lists: so a client's bit can be
  lost only by a load and a store of one byte on two processors, which is what `stale` remembers. A zone's count follows from
  the blocks' cardinality, 2^order, by `ZoneCounts`.

Recursive functions on numbers (the orders of a merge, the pages of a stack, the list of a directory, powers of two) are treated
with the lemma `UpTo` (StructuresProofs, ArmSchedProofs): what holds of 0 and goes on holding, holds up to any bound. It is induction over a set rather than
over an operator, from the well-foundedness of < on Nat, and first gives the function (a CHOOSE) its recursive equation. In the same way `AverageIsNat` shows that the sum of the vruntimes of
a queue, a fold of the community modules, is a number.

Only model-checked: all liveness (LockProgress, SleeperWakes, DestroyReleasesWaiters, HolderReleases, WaitEnds,
VforkReturns, and the fairness of RefinesChannel, whose safety part is ChannelStepsThm), which the prover cannot treat. The other way
round, the mutex's MutualExclusionThm and NeverDestroyedHeldThm and the types (each module's TypeThm,
VfsTypeThm, StackTypeThm, FramesTypeThm) are proved and not checked by a run: they are lemmas of properties that are. So is SwitchNotGivenUpThm, about the
branch of `Switch` that no state reaches.

---

## 6. Disagreements between the code and its documentation

Each is the counterexample of a run; `PROJECT.json` quotes the lines.

1. **spin_lock of the port stores the interrupt state before it has the lock**
   (`arch/cpu.h:600`). A core that waits overwrites the holder's saved state, and `spin_unlock` gives
   the holder the waiter's. The comment at cpu.h:605 promises the state at the time of
   locking; the x86 form stores it inside the lock and keeps the promise (proved).
2. **A runnable thread can be passed over for ever** (`sched.c:129`). Two threads that sleep in turn are
   each placed a slice behind the other and stay below a third that waits; kmain.c:809 says this
   cannot be. Among the threads of that self-test's load, which never give up the core, the lag stays within
   a slice (`sched_core`, LagBoundedThm); it is the sleepers that get ahead of all of them.
3. **The console mutex can be left behind** (`mutex_kern.c:249`). `console_mutex_set_legacy` looks at
   the mutex at one moment; a thread asleep in `mutex_lock` takes it after the change and
   ends its region with `sched_enable`.

Four races of the x86 kernel are excused by name in the properties of `structures`; each
exception is one ghost variable, and without it TLC shows the race as a counterexample:

- **A bit of `using_regions` can be lost** (`BitsOfOwners`, ghost `stale`): alloc_frames sets its bits
  without a lock (buddy.cpp:328), one byte at a time; a frame whose bit is lost cannot be freed (buddy.cpp:356).
- **The scheduler can stay off** (`SchedulingComesBack`, ghost `stranded`): a creator that looks at the
  switch while another processor exchanges its thread, and turns it off after that one turned it on, restores
  "off" (pcb.cpp:1912, scheduler.cpp:433). It stays off until KernelMain, the reaper or a page fault runs.
- **add_task can take a sleeper's time or revive a dead thread** (`SleepersKeepTheirTime`, ghost `overrun`):
  `docs/PTASK.md:622` calls the unlocked walk of scheduler.cpp:552 benign.
- **Two unlinks can both succeed on one node** (`NodesAlive`, ghost `wiped`): a refresh
  overwrites `file_delete` (vfs.cpp:119, fatfs.cpp:660), both drop the tree's reference, and "any
  other open references keep the detached node alive" (vfs.cpp:465) fails.

---

## 7. What is not modelled, and why

Within the modelled components:

- *Pipe*: processes with several threads (a sibling that closes the descriptor a thread
  is blocked on, a thread killed while it waits); the `O_NONBLOCK` test of `sys_read`, which happens before
  the modelled call; `pipefs_poll`, which only reads; the bounce buffer of `sys_read` and
  `sys_write` for more than 64 KiB, which makes several calls of the modelled one; two paths of `pipe_wait_on`
  that change nothing (no memory, idle task).
- *ArmSched*: `sched_wake_task`, which has no caller on the port; the VFP owner and the
  relocation of contexts; two switches of the self-tests (legacy exit, all threads on
  core 0); the teardown by `sched_kern_init` between self-tests; `sched_disable` from two
  cores at once (its counter is not protected; today kmain is the only caller).
- *ConsoleLock*: `mutex_trylock` and `mutex_destroy` (no caller on the port), the counters that
  only report, the exit of a thread that holds the mutex, which the port reports and does not
  handle. `g_legacy` is read in the same step as the release it decides.
- *SpinLock*: memory ordering.
- *ProcessLife*: exec of a process with several threads, failures for lack of memory (fork
  and exec undo what they did before the failure; messages are different: when malloc fails, kill_proc has ended the
  process and drops the message, pcb.cpp:270, so that wait4, which also looks at the children, returns and vfork's
  loop, which takes messages only, does not; exec does not test the allocation of its own, pcb.cpp:1660), the
  working directories, stopping by signals, CLEARTID, a bad status pointer of wait4, `kill_proc_deferred` and the
  reaper (whose condition no process meets). Three situations are excused by name: the thread
  that closes its process's table in exit_group is killed by a sibling meanwhile (`torn`: the rest of the table is never closed), the
  parent in vfork's loop is killed by a sibling (`deserted`: its child runs in a space that goes away), and the messages
  that vfork's loop takes from a sibling's wait4 and passes on. Children whose parent is the kernel's
  process group are never collected; docs/PTASK.md says so too (8.9, 11.3).
- *Frames*: pages that a second mapping refers to (refcount above 1), the second bitmap
  `frame_allocator.bitmap` that boot fills, and callers that free what is not theirs.
- *StackPool*: the TLB of the other core. `kstack_hw.c:34` flushes the caller's only; a thread with a stack
  is created before it runs anywhere, and the guard tests run on the caller's core.
- *VfsNode*: links, rename, mounts, directories, aliases; the intermediate directories of a path, which
  vfs_open_impl walks without a reference (vfs.cpp:614); memory that is allocated again while
  something still points to it (only unused addresses are).
- *X86Sched*: slices and vruntimes, waking by scheduler_wake_task, kills by another processor (a fatal page fault kills
  a process of one thread), a page fault in the kernel, which halts the processor for good, remove_task, and
  the effects a stranded switch has on threads that test it (scheduler_yield returns).

The components marked "—" in section 1.2 are listed in `PROJECT.json` with a reason each:
planned (section 8), register-level hardware access, one-time start-up code in sequence,
third-party code (lwIP, FatFs, lexbor, libvterm), or formatting.

---

## 8. Plan

Done, in this order: SpinLock, YieldMutex (the primitives everything rests on), ArmSched
(what the port is about), Pipe (the x86 kernel's blocking pattern), ConsoleLock (a composition of
the two primitives with the scheduler), ProcessLife (who owns what when processes end), and the structures
below them: Frames, StackPool, VfsNode, X86Sched. Then the proofs: of every invariant and action property the runs check.

Next:

1. **Proofs**: more of EevdfPolicy as lemmas (what a thread created later can be behind; how far a sleeper gets ahead by one
   credit), and invariants behind the liveness properties, which TLC alone checks.
2. **Queues and rings**: lock_queue with its index discipline, ipc_recv by several
   consumers, the byte rings against an abstract FIFO with the keyboard's overwrite.
3. **Pure data**: bitmap_find_range and id_alloc against naive searches over all small bitmaps; EevdfPolicy's
   operators as lemmas.
4. **Kills across processors** in X86Sched, and the pipe's fairness assumption as its property.
5. Pseudo terminals, unixsock, signals; page tables and lazy allocation.

A family of small components shares one module for model checking, as in MCStructures, so that a run
asks one question of a family and not of a file.
