---------------------------- MODULE ProcessLife ----------------------------
(***************************************************************************)
(* The life of a process of the x86 kernel: fork, vfork and clone          *)
(* (kernel/task/pcb.cpp), exec, the exit of a thread and of the group,     *)
(* wait4 (kernel/syscall/sys.cpp), the messages that tell a parent of it   *)
(* (kernel/task/ipc.cpp), and the adoption of orphans by the timer handler *)
(* (kernel/task/scheduler.cpp).                                            *)
(*                                                                         *)
(* Every application thread runs on processor 0 (add_task) and system      *)
(* calls run with interrupts masked (syscall.cpp), so a call is one step   *)
(* as far as it does not yield.  It yields in three places: in the loop of *)
(* wait4, in the loop of vfork, and in mutex_lock when exit_group closes a *)
(* FAT file while a kernel thread has the FAT lock.                        *)
(*                                                                         *)
(* PCBs are allocated and freed, so a pointer may outlive its target: a    *)
(* slot is the memory of a PCB.                                            *)
(***************************************************************************)
EXTENDS Naturals, FiniteSets, SequencesExt

CONSTANTS
    Slots,      \* memory for PCBs
    Tids,       \* bound: the threads a process may have, all its life
    MaxPid,     \* bound: alloc_pid hands out 1..MaxPid
    Codes,      \* bound: Codes[k]: the exit codes that thread k of a process uses
    Kinds,      \* bound: Kinds[p]: how process p may be made: "fork", "vfork" or
                \* "files" (clone with CLONE_FILES)
    Kernel,     \* the address of kernel_group
    Malloc(_),  \* Malloc(F): the slots of F, all free, that malloc may return
    Threaded    \* bound: the processes that create further threads

ASSUME ProcessAssumption ==
    /\ Tids # {} /\ MaxPid \in Nat \ {0}
    /\ Codes \in [Tids -> SUBSET Nat]
    /\ Kinds \in [1..MaxPid -> SUBSET {"fork", "vfork", "files"}]
    /\ Kernel \notin Slots
    /\ Slots # {} /\ IsFiniteSet(Slots)
    /\ Threaded \subseteq 1..MaxPid
    /\ \A F \in SUBSET Slots : Malloc(F) \subseteq F

Pids == 1..MaxPid
AnyCode == {0} \cup UNION {Codes[k] : k \in Tids}
NoTable == 0
AnyChild == 0                    \* the pid argument -1 of wait4

VARIABLES
    pcb,        \* pcb[s]: the process_control_block in slot s
    thread,     \* thread[s][k]: where thread k of that process is
    nextPid,    \* what alloc_pid returns next
    refs,       \* refs[d]: *file_open_shared_refs of descriptor table d
    files,      \* files[d]: the handles in table d that are still open
    told,       \* history: told[p]: who collected process p, and the code it got
    torn,       \* history: tables whose closer was killed at it
    deserted    \* history: vfork children whose waiting parent was killed

vars == <<pcb, thread, nextPid, refs, files, told, torn, deserted>>
fdVars == <<refs, files>>
history == <<told, torn, deserted>>

\* a table is named for the process that was created with it
Free == [pid |-> 0, status |-> "FREE", parent |-> Kernel, ppid |-> 0, exit_code |-> 0,
         child_pcb |-> <<>>, ipc_queue |-> <<>>, file_open |-> NoTable,
         pagedir |-> 0, vfork |-> FALSE]

NoThread == [at |-> "none", arg |-> 0, table |-> NoTable]
AtUser == [at |-> "user", arg |-> 0, table |-> NoTable]
Dead == [at |-> "dead", arg |-> 0, table |-> NoTable]
Waiting(x) == [at |-> "wait4", arg |-> x, table |-> NoTable]
InVfork(x) == [at |-> "vfork", arg |-> x, table |-> NoTable]
Closing(c, d) == [at |-> "closing", arg |-> c, table |-> d]

Message == [type : {"EPID", "EXEC"}, pid : Pids, code : AnyCode]
NotTold == [by |-> 0, code |-> 0]

ProcessControlBlock ==
    [pid : 0..MaxPid, status : {"FREE", "START", "ZOMBIE"}, parent : Slots \cup {Kernel},
     ppid : 0..MaxPid, exit_code : AnyCode, child_pcb : Seq(Slots), ipc_queue : Seq(Message),
     file_open : 0..MaxPid, pagedir : 0..MaxPid, vfork : BOOLEAN]
Place ==
    [at : {"none", "user", "dead", "wait4", "vfork", "closing"}, arg : Nat, table : 0..MaxPid]

TypeOK ==
    /\ pcb \in [Slots -> ProcessControlBlock]
    /\ thread \in [Slots -> [Tids -> Place]]
    /\ nextPid \in 1..MaxPid + 1
    /\ refs \in [Pids -> Nat] /\ files \in [Pids -> 0..1]
    /\ told \in [Pids -> [by : 0..MaxPid, code : AnyCode]]
    /\ torn \subseteq Pids /\ deserted \subseteq Pids

OneThread == CHOOSE k \in Tids : TRUE
Started(k) == [j \in Tids |-> IF j = k THEN AtUser ELSE NoThread]

\* the first application: one thread, one open file on the FAT volume
Init ==
    \E s \in Malloc(Slots) :
        /\ pcb = [x \in Slots |-> IF x = s
                  THEN [Free EXCEPT !.pid = 1, !.status = "START", !.file_open = 1, !.pagedir = 1]
                  ELSE Free]
        /\ thread = [x \in Slots |-> IF x = s THEN Started(OneThread)
                                     ELSE [k \in Tids |-> NoThread]]
        /\ nextPid = 2
        /\ refs = [d \in Pids |-> IF d = 1 THEN 1 ELSE 0]
        /\ files = [d \in Pids |-> IF d = 1 THEN 1 ELSE 0]
        /\ told = [p \in Pids |-> NotTold]
        /\ torn = {} /\ deserted = {}

----------------------------------------------------------------------------
(* Threads and messages.                                                    *)

Exists(s) == pcb[s].status # "FREE"
Live(s, k) == thread[s][k].at \notin {"none", "dead"}
At(s, k, where) == thread[s][k].at = where
InUser(s, k) == At(s, k, "user")

Split(s) == \E j, k \in Tids : j # k /\ NoThread \notin {thread[s][j], thread[s][k]}

\* process_has_other_live_thread
OtherLive(s, k) == \E j \in Tids \ {k} : Live(s, j)

Go(s, k, where) == thread' = [thread EXCEPT ![s][k] = where]

\* ipc_send; kill_proc0 clears ipc_queue before it frees the PCB
Sent(b, to, m) ==
    IF to \in Slots /\ b[to].status # "FREE"
    THEN [b EXCEPT ![to].ipc_queue = Append(@, m)] ELSE b

ExecMessage(p) == [type |-> "EXEC", pid |-> p, code |-> 0]

\* what a consumer leaves that takes the message at place i: those before it
\* were dequeued and enqueued again, behind the others
Taken(q, i) == SubSeq(q, i + 1, Len(q)) \o SubSeq(q, 1, i - 1)

\* wait4_pop_exit_message, one pass: its place and what it leaves
ExitMessage(q, x) == SelectInSeq(q, LAMBDA m : m.type = "EPID" /\ (x = AnyChild \/ m.pid = x))

\* wait4_discard_exit_message
Discarded(q, x) == LET i == ExitMessage(q, x) IN IF i = 0 THEN q ELSE Taken(q, i)

----------------------------------------------------------------------------
(* Birth.                                                                   *)

\* Mutant: a process that shares its parent's table is not counted.
RefsAfterForkUncounted(d) == IF refs[d] = 0 THEN [refs EXCEPT ![d] = 1] ELSE refs

\* alloc_fd_table_ref or fd_table_ref
RefsAfterFork(d) == [refs EXCEPT ![d] = @ + 1]

\* Mutant: vfork returns without waiting for its child.
ForkerNeverParks(kind, p) == AtUser

\* where fork and vfork leave the thread that called
ForkerAfter(kind, p) == IF kind = "vfork" THEN InVfork(p) ELSE AtUser

\* process_fork; clone without CLONE_THREAD comes here too
Fork(s, k, kind, n) ==
    LET parent == pcb[s]
        table == IF kind = "files" THEN parent.file_open ELSE nextPid
    IN  /\ InUser(s, k)
        /\ n \in Malloc({x \in Slots : ~Exists(x)})
        /\ nextPid <= MaxPid /\ kind \in Kinds[nextPid]
        /\ parent.file_open # NoTable       \* else queue_copy fails: -ENOMEM
        /\ pcb' = [pcb EXCEPT
               ![s].child_pcb = Append(@, n),
               ![n] = [Free EXCEPT
                   !.pid = nextPid, !.status = "START", !.parent = s, !.ppid = parent.pid,
                   !.file_open = table, !.vfork = (kind = "vfork"),
                   !.pagedir = IF kind = "vfork" THEN parent.pagedir ELSE nextPid]]
        /\ thread' = [thread EXCEPT ![n] = Started(OneThread),
                ![s][k] = ForkerAfter(kind, nextPid)]
        /\ nextPid' = nextPid + 1
        /\ refs' = RefsAfterFork(table)
        /\ files' = IF kind = "files" THEN files
                    ELSE [files EXCEPT ![table] = files[parent.file_open]]
        /\ UNCHANGED history

\* thread_clone
Clone(s, k, j) ==
    /\ InUser(s, k)
    /\ thread[s][j] = NoThread
    /\ pcb[s].pid \in Threaded
    /\ Go(s, j, AtUser)
    /\ UNCHANGED <<pcb, nextPid, fdVars, history>>

\* Mutant: the flag is tested after it was cleared.
ParentNotToldOfExec(s, b) ==
    IF b[s].vfork THEN Sent(b, pcb[s].parent, ExecMessage(pcb[s].pid)) ELSE b

\* the message that lets a vfork parent go on
ParentToldOfExec(s, b) ==
    IF pcb[s].vfork THEN Sent(b, pcb[s].parent, ExecMessage(pcb[s].pid)) ELSE b

\* process_execve of a process with one thread: the caller gets a page
\* directory of its own, and whatever is in its ipc_queue is freed
Exec(s, k) ==
    /\ InUser(s, k) /\ ~OtherLive(s, k)
    /\ pcb' = ParentToldOfExec(s, [pcb EXCEPT ![s].vfork = FALSE,
                  ![s].pagedir = pcb[s].pid, ![s].ipc_queue = <<>>])
    /\ UNCHANGED <<thread, nextPid, fdVars, history>>

\* the loop at the end of process_fork: ipc_recv for EXEC, then for EPID; a
\* message about another process goes to the caller's own parent
VforkLook(s, k) ==
    LET q == pcb[s].ipc_queue
        exec == SelectInSeq(q, LAMBDA m : m.type = "EXEC")
        i == IF exec # 0 THEN exec ELSE ExitMessage(q, AnyChild)
        b == [pcb EXCEPT ![s].ipc_queue = Taken(@, i)]
    IN  /\ At(s, k, "vfork")
        /\ i # 0
        /\ IF q[i].pid = thread[s][k].arg
           THEN pcb' = b /\ Go(s, k, AtUser)
           ELSE pcb' = Sent(b, pcb[s].parent, q[i]) /\ UNCHANGED thread
        /\ UNCHANGED <<nextPid, fdVars, history>>

----------------------------------------------------------------------------
(* Death.                                                                   *)

\* Mutant: only the caller is killed, its siblings stay.
ThreadsAfterKillSelf(s, k) == [thread[s] EXCEPT ![k] = Dead]

\* kill_thread on every thread
ThreadsAfterKill(s, k) == [j \in Tids |-> IF Live(s, j) THEN Dead ELSE thread[s][j]]

\* the part of kill_proc(pcb, c, true) that follows the closing of the files
BecomeZombie(s, k, b, c) ==
    /\ pcb' = Sent([b EXCEPT ![s].status = "ZOMBIE"], b[s].parent,
                   [type |-> "EPID", pid |-> b[s].pid, code |-> c])
    /\ thread' = [thread EXCEPT ![s] = ThreadsAfterKill(s, k)]
    /\ torn' = torn \cup {thread[s][j].table : j \in {i \in Tids \ {k} : At(s, i, "closing")}}
    /\ deserted' = deserted \cup {thread[s][j].arg : j \in {i \in Tids : At(s, i, "vfork")}}

\* close_process_file_table forgets the table before it closes anything
Detached(s, c) == [pcb EXCEPT ![s].exit_code = c, ![s].file_open = NoTable]

\* exit_group, a fatal signal, a fault in user mode: kill_proc(pcb, c, true).
\* fatBusy: a kernel thread has fatfs_operate_lock, so that vfs_close yields.
ExitGroup(s, k, c, fatBusy) ==
    LET d == pcb[s].file_open
        lastRef == d # NoTable /\ refs[d] = 1              \* fd_table_unref
        b == Detached(s, c)
    IN  /\ refs' = IF d = NoTable THEN refs ELSE [refs EXCEPT ![d] = @ - 1]
        /\ IF lastRef /\ files[d] > 0 /\ fatBusy
           THEN pcb' = b /\ Go(s, k, Closing(c, d)) /\ UNCHANGED <<files, torn, deserted>>
           ELSE /\ BecomeZombie(s, k, b, c)
                /\ files' = IF lastRef THEN [files EXCEPT ![d] = 0] ELSE files
        /\ UNCHANGED <<nextPid, told>>

\* the FAT lock is free again: vfs_close returns, and kill_proc goes on
CloseDone(s, k) ==
    /\ At(s, k, "closing")
    /\ files' = [files EXCEPT ![thread[s][k].table] = 0]
    /\ BecomeZombie(s, k, pcb, thread[s][k].arg)
    /\ UNCHANGED <<nextPid, refs, told>>

EndGroup(s, k, c) == InUser(s, k) /\ \E fatBusy \in BOOLEAN : ExitGroup(s, k, c, fatBusy)

\* sys_exit
Exit(s, k, c) ==
    /\ InUser(s, k)
    /\ IF OtherLive(s, k)
       THEN Go(s, k, Dead) /\ UNCHANGED <<pcb, nextPid, fdVars, history>>
       ELSE \E fatBusy \in BOOLEAN : ExitGroup(s, k, c, fatBusy)

\* timer_handle, switching to a thread of s: the parent is gone.  Its memory
\* was freed, so what the test reads there is not certain, and this step may
\* be missed; once the slot is used again the test sees a living process.
Adopt(s) ==
    /\ \E k \in Tids : Live(s, k)
    /\ pcb[s].parent # Kernel /\ ~Exists(pcb[s].parent)
    /\ pcb' = [pcb EXCEPT ![s].parent = Kernel]
    /\ UNCHANGED <<thread, nextPid, fdVars, history>>

----------------------------------------------------------------------------
(* Collection.                                                              *)

\* wait4_find_child
Matches(c, x) == x = AnyChild \/ pcb[c].pid = x
MatchingChild(s, x) == \E i \in 1..Len(pcb[s].child_pcb) : Matches(pcb[s].child_pcb[i], x)

\* Mutant: only the messages tell of a zombie.
ZombieNeverSeen(s, x) == 0

\* wait4_find_zombie_child: its place in child_pcb
ZombieChild(s, x) ==
    SelectInSeq(pcb[s].child_pcb, LAMBDA c : pcb[c].status = "ZOMBIE" /\ Matches(c, x))

\* Mutant: a collected child stays in the list.
ChildrenAfterReapAll(s, c) == pcb[s].child_pcb

\* queue_remove_data(parent->child_pcb, child)
ChildrenAfterReap(s, c) == RemoveFirst(pcb[s].child_pcb, c)

\* wait4_reap_child and kill_proc(child, code, false); the child's own
\* children are not told
Reap(s, k, c, q, code) ==
    /\ pcb' = [pcb EXCEPT
           ![s].ipc_queue = Discarded(q, pcb[c].pid),
           ![s].child_pcb = ChildrenAfterReap(s, c),
           ![c] = Free]
    /\ thread' = [thread EXCEPT ![c] = [j \in Tids |-> NoThread], ![s][k] = AtUser]
    /\ told' = [told EXCEPT ![pcb[c].pid] = [by |-> pcb[s].pid, code |-> code]]
    /\ UNCHANGED <<torn, deserted>>

\* one look of wait4, at its start or in its loop; q[i] is the message it
\* takes if no zombie is found
Look(s, k, x) ==
    LET q == pcb[s].ipc_queue
        z == ZombieChild(s, x)
        i == ExitMessage(q, x)
        rest == Taken(q, i)
        c == SelectInSeq(pcb[s].child_pcb, LAMBDA y : pcb[y].pid = q[i].pid)
    IN  /\ MatchingChild(s, x)
        /\ IF z # 0
           THEN LET y == pcb[s].child_pcb[z] IN Reap(s, k, y, q, pcb[y].exit_code)
           ELSE IF i = 0
           THEN Go(s, k, Waiting(x)) /\ UNCHANGED <<pcb, history>>
           ELSE IF c # 0
           THEN Reap(s, k, pcb[s].child_pcb[c], rest, q[i].code)
           ELSE /\ pcb' = [pcb EXCEPT ![s].ipc_queue = rest]
                /\ Go(s, k, Waiting(x))
                /\ UNCHANGED history
        /\ UNCHANGED <<nextPid, fdVars>>

\* sys_wait4; with WNOHANG, and for the errors, it changes nothing unless
\* there is a zombie
Wait4(s, k, x) == InUser(s, k) /\ Look(s, k, x)

WaitLoop(s, k) == At(s, k, "wait4") /\ Look(s, k, thread[s][k].arg)

\* -ECHILD: a sibling has collected the child
WaitFails(s, k) ==
    /\ At(s, k, "wait4")
    /\ ~MatchingChild(s, thread[s][k].arg)
    /\ Go(s, k, AtUser)
    /\ UNCHANGED <<pcb, nextPid, fdVars, history>>

Next ==
    \/ \E s \in Slots :
           \/ Adopt(s)
           \/ \E k \in Tids :
                  \/ \E kind \in {"fork", "vfork", "files"} : \E n \in Slots : Fork(s, k, kind, n)
                  \/ \E j \in Tids : Clone(s, k, j)
                  \/ Exec(s, k)
                  \/ VforkLook(s, k)
                  \/ CloseDone(s, k)
                  \/ \E c \in Codes[k] : EndGroup(s, k, c) \/ Exit(s, k, c)
                  \/ \E x \in 0..MaxPid : Wait4(s, k, x)
                  \/ WaitLoop(s, k) \/ WaitFails(s, k)

\* The scheduler runs every ready thread again and again, so the polling
\* loops of wait4 and vfork keep looking.
Fairness ==
    \A s \in Slots : \A k \in Tids :
        WF_vars(WaitLoop(s, k) \/ WaitFails(s, k) \/ VforkLook(s, k))

Spec == Init /\ [][Next]_vars /\ Fairness

----------------------------------------------------------------------------
(* Properties.                                                              *)

\* child_pcb and ppid agree: the list of a process holds exactly the children
\* it has created and not collected, each once, and their parent pointer
\* still leads to it; so wait4 never meets the PCB of a freed process, nor
\* somebody else's child in a reused one.
ChildrenExact ==
    \A s \in Slots : Exists(s) =>
        LET q == pcb[s].child_pcb IN
        /\ \A i, j \in 1..Len(q) : q[i] = q[j] => i = j
        /\ {q[i] : i \in 1..Len(q)} = {c \in Slots : Exists(c) /\ pcb[c].ppid = pcb[s].pid}
        /\ \A i \in 1..Len(q) : pcb[q[i]].parent = s

\* file_open_shared_refs counts the processes that use a table; a table in
\* use is whole; one that nobody uses is closed or being closed, unless its
\* closer was killed by a sibling's exit_group in the middle of it.
TablesAccounted ==
    \A d \in Pids :
        LET users == {s \in Slots : pcb[s].file_open = d}
            closers == {s \in Slots : \E k \in Tids : thread[s][k].table = d}
        IN  /\ refs[d] = Cardinality(users)
            /\ users # {} => files[d] = 1 /\ closers = {}
            /\ users = {} => files[d] = 0 \/ closers # {} \/ d \in torn

\* A vfork child that has not called exec runs in memory that exists: the
\* process it borrowed the page directory from is alive, as long as nobody's
\* sibling ends the group of a process that waits in vfork.
BorrowedSpaceAlive ==
    deserted = {} =>
        \A s \in Slots : pcb[s].status = "START" =>
            \E o \in Slots : pcb[o].pid = pcb[s].pagedir /\ pcb[o].status = "START"

\* what ProcessContract says of a process, read off its PCB
Life == [p \in Pids |->
    IF \E s \in Slots : pcb[s].pid = p
    THEN LET b == pcb[CHOOSE s \in Slots : pcb[s].pid = p] IN
         IF b.status = "START" THEN [is |-> "alive", by |-> b.ppid]
         ELSE [is |-> "ended", by |-> b.ppid, code |-> b.exit_code]
    ELSE IF p < nextPid THEN [is |-> "collected", by |-> told[p].by, code |-> told[p].code]
    ELSE [is |-> "unborn"]]

Contract == INSTANCE ProcessContract WITH First <- 1, Codes <- AnyCode, life <- Life

\* The process calls keep the contract of ProcessContract.
KeepsContract == Contract!Spec

\* k waits, and no child that it asks for is alive
WaitsForNobody(s, k) ==
    /\ At(s, k, "wait4")
    /\ \A c \in Slots : pcb[c].status = "START" /\ pcb[c].ppid = pcb[s].pid
           => ~Matches(c, thread[s][k].arg)

\* A thread in wait4 gets out once no child it asks for is alive (unless a
\* sibling makes a new one), whoever else of its process waits, takes the
\* messages or collects the children.
WaitEnds == \A s \in Slots : \A k \in Tids : WaitsForNobody(s, k) ~> ~WaitsForNobody(s, k)

\* the only thread of s is in vfork, and the child has ended or called exec
VforkOver(s) ==
    /\ \E k \in Tids : At(s, k, "vfork")
    /\ ~Split(s)
    /\ \A k \in Tids, c \in Slots :
           pcb[c].pid = thread[s][k].arg /\ pcb[c].status = "START" => ~pcb[c].vfork

\* vfork of a process with one thread returns once the child has called exec
\* or has ended.
VforkReturns == \A s \in Slots : VforkOver(s) ~> ~VforkOver(s)
=============================================================================
