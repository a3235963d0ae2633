-------------------------------- MODULE Pipe --------------------------------
(***************************************************************************)
(* The kernel pipe of driver/fs/vfs/pipefs.cpp, with the descriptor        *)
(* counting of fd_dup and vfs_close (driver/fs/vfs/vfs.cpp), as the        *)
(* single-threaded processes that inherit its two ends use it.             *)
(*                                                                         *)
(* Everything between spin_lock(&pipe->lock) and the matching unlock is    *)
(* one action: the lock is held with interrupts off and the section calls  *)
(* nothing that yields.  A thread goes to sleep inside its section (status *)
(* becomes WAIT before the unlock) and leaves pipe_wait_on in a later step *)
(* of its own, once somebody has set its status to START.  The two paths   *)
(* of pipe_wait_on that do not sleep (no memory for the list node, the     *)
(* idle task) leave the pipe as it is and try again: here they stutter.    *)
(* A signal is only delivered on the way back to user mode, so nothing but *)
(* the pipe wakes a thread that waits for it.                              *)
(***************************************************************************)
EXTENDS Naturals, Sequences, FiniteSets

CONSTANTS
    Procs,      \* the (single-threaded) processes
    Capacity,   \* PIPE_BUFF
    Requests,   \* Requests[e]: the sizes of the calls made at end e
    SeqMod,     \* bound: a byte carries its position in its writer's stream modulo
                \* SeqMod (1: positions are ignored)
    InitialEnds \* the ends each process holds after pipe2, fork and close

Ends == {"read", "write"}
Other(e) == IF e = "read" THEN "write" ELSE "read"

Holders(ends, e) == {p \in Procs : e \in ends[p]}

ASSUME PipeAssumption ==
    /\ IsFiniteSet(Procs)
    /\ Capacity \in Nat \ {0}
    /\ Requests \in [Ends -> SUBSET (Nat \ {0})]
    /\ SeqMod \in Nat \ {0}
    /\ InitialEnds \in [Procs -> SUBSET Ends]
    /\ \A e \in Ends : Holders(InitialEnds, e) # {}

VARIABLES
    buf,        \* pipe->buf[0 .. pipe->ptr - 1]
    holds,      \* holds[p]: the ends p has a descriptor of
    call,       \* call[p]: the pipe call p is in, and the bytes it still asks for
    sent,       \* history: how many bytes p has put, modulo SeqMod
    got,        \* history: how many of p's bytes were read, modulo SeqMod
    fds,        \* fds["read"] is pipe->read_fds, fds["write"] is pipe->write_fds
    waiters,    \* waiters["read"] is pipe->blocking_read, ["write"] blocking_write
    status,     \* status[p]: the status of p's thread
    spec,       \* spec[e]: pipe->read_spec or pipe->write_spec is not NULL
    closing,    \* closing[p]: what p, past the unlock of pipefs_close, has to free
    freed       \* history: how often each object of the pipe was given to free()

channelVars == <<buf, holds, call, sent>>
heapVars == <<spec, closing, freed>>
vars == <<buf, holds, call, sent, got, fds, waiters, status, spec, closing, freed>>

Objects == Ends \cup {"pipe"}
Idle == [op |-> "none", left |-> 0]

Byte == [by : Procs, pos : 0..SeqMod - 1, last : BOOLEAN]

TypeOK ==
    /\ buf \in Seq(Byte)
    /\ holds \in [Procs -> SUBSET Ends]
    /\ call \in [Procs -> [op : Ends \cup {"none"}, left : Nat]]
    /\ sent \in [Procs -> 0..SeqMod - 1] /\ got \in [Procs -> 0..SeqMod - 1]
    /\ fds \in [Ends -> Nat]
    /\ waiters \in [Ends -> SUBSET Procs]
    /\ status \in [Procs -> {"RUNNING", "WAIT", "START"}]
    /\ spec \in [Ends -> BOOLEAN]
    /\ closing \in [Procs -> SUBSET Objects]
    /\ freed \in [Objects -> Nat]

\* sys_pipe2, and the forks and closes that dealt the two ends out
Init ==
    /\ buf = <<>>
    /\ holds = InitialEnds
    /\ call = [p \in Procs |-> Idle]
    /\ sent = [p \in Procs |-> 0]
    /\ got = [p \in Procs |-> 0]
    /\ fds = [e \in Ends |-> Cardinality(Holders(InitialEnds, e))]
    /\ waiters = [e \in Ends |-> {}]
    /\ status = [p \in Procs |-> "RUNNING"]
    /\ spec = [e \in Ends |-> TRUE]
    /\ closing = [p \in Procs |-> {}]
    /\ freed = [o \in Objects |-> 0]

----------------------------------------------------------------------------
(* Descriptors: fd_dup and pipefs_close.                                    *)

\* p runs its own code, outside every pipe call
AtUser(p) == call[p] = Idle /\ closing[p] = {}

\* Mutant: fd_dup copies a pipe descriptor without counting it.
FdsAfterForkUncounted(p) == fds

FdsAfterFork(p) == [e \in Ends |-> IF e \in holds[p] THEN fds[e] + 1 ELSE fds[e]]

\* fork: fd_dup of each pipe descriptor of the parent, for a new process
Fork(p, q) ==
    /\ AtUser(p) /\ AtUser(q)
    /\ holds[p] # {} /\ holds[q] = {}
    /\ holds' = [holds EXCEPT ![q] = holds[p]]
    /\ fds' = FdsAfterFork(p)
    /\ UNCHANGED <<buf, call, sent, got, waiters, status, heapVars>>

\* Mutant: one waiter is woken, the others stay on the list.
WokenOne(e) == IF waiters[e] = {} THEN {} ELSE {CHOOSE p \in waiters[e] : TRUE}

\* pipe_wake_waiters takes every node off the list ...
Woken(e) == waiters[e]

\* ... and scheduler_wake_task makes its thread ready if it is in WAIT
Wake(e) ==
    /\ status' = [p \in Procs |-> IF p \in Woken(e) /\ status[p] = "WAIT"
                                  THEN "START" ELSE status[p]]
    /\ waiters' = [waiters EXCEPT ![e] = @ \ Woken(e)]

\* Mutant: the closer of an end leaves its own spec pointer in the pipe.
SpecAfterCloseDangling(e) == spec

SpecAfterClose(e) == [spec EXCEPT ![e] = FALSE]

PipeGoes(left) == \A e \in Ends : left[e] = 0

\* pipefs_close up to its spin_unlock
Close(p, e) ==
    LET left == [fds EXCEPT ![e] = IF @ > 0 THEN @ - 1 ELSE 0]
        lastOfEnd == left[e] = 0
        otherSpec == IF lastOfEnd /\ spec[Other(e)] THEN {Other(e)} ELSE {}
    IN  /\ AtUser(p)
        /\ e \in holds[p]
        /\ holds' = [holds EXCEPT ![p] = @ \ {e}]
        /\ fds' = left
        /\ IF lastOfEnd
           THEN Wake(Other(e)) /\ spec' = SpecAfterClose(e)
           ELSE UNCHANGED <<waiters, status, spec>>
        /\ closing' = [closing EXCEPT ![p] =
               (IF lastOfEnd THEN {e} ELSE {})
               \cup (IF PipeGoes(left) THEN {"pipe"} \cup otherSpec ELSE {})]
        /\ UNCHANGED <<buf, call, sent, got, freed>>

\* the rest of pipefs_close, outside the lock
CloseFree(p) ==
    /\ closing[p] # {}
    /\ freed' = [o \in Objects |-> IF o \in closing[p] THEN freed[o] + 1 ELSE freed[o]]
    /\ closing' = [closing EXCEPT ![p] = {}]
    /\ UNCHANGED <<channelVars, got, fds, waiters, status, spec>>

----------------------------------------------------------------------------
(* Reading and writing.                                                     *)

Smaller(m, n) == IF m <= n THEN m ELSE n

\* sys_read and sys_write return at once when they are asked for 0 bytes
Ask(p, op, n) ==
    /\ AtUser(p)
    /\ op \in holds[p]
    /\ call' = [call EXCEPT ![p] = [op |-> op, left |-> n]]
    /\ UNCHANGED <<buf, holds, sent, got, fds, waiters, status, heapVars>>

\* p's thread runs inside the read or write loop, about to take pipe->lock
InLoop(p, op) == call[p].op = op /\ status[p] = "RUNNING"

\* pipe_wait_on: queue up, go to WAIT, and only then release pipe->lock
WaitOn(p, e) ==
    /\ waiters' = [waiters EXCEPT ![e] = @ \cup {p}]
    /\ status' = [status EXCEPT ![p] = "WAIT"]
    /\ UNCHANGED <<channelVars, got, fds, heapVars>>

\* the end of pipe_wait_on; the loop around it then starts again
Resume(p) ==
    /\ status[p] = "START"
    /\ status' = [status EXCEPT ![p] = "RUNNING"]
    /\ UNCHANGED <<channelVars, got, fds, waiters, heapVars>>

\* Mutant: a read forgets the bytes it had no room for.
UnreadDropped(n) == <<>>

Unread(n) == SubSeq(buf, n + 1, Len(buf))

\* how many of the first n bytes of s are from w
Count(s, w, n) == Cardinality({i \in 1..n : s[i].by = w})

ReadTake(p) ==
    LET n == Smaller(Smaller(call[p].left, Capacity), Len(buf))
    IN  /\ InLoop(p, "read")
        /\ buf # <<>>
        /\ buf' = Unread(n)
        /\ got' = [w \in Procs |-> (got[w] + Count(buf, w, n)) % SeqMod]
        /\ call' = [call EXCEPT ![p] = Idle]
        /\ Wake("write")
        /\ UNCHANGED <<holds, sent, fds, heapVars>>

ReadEof(p) ==
    /\ InLoop(p, "read")
    /\ buf = <<>>
    /\ fds["write"] = 0
    /\ call' = [call EXCEPT ![p] = Idle]
    /\ UNCHANGED <<buf, holds, sent, got, fds, waiters, status, heapVars>>

ReadBlock(p) ==
    /\ InLoop(p, "read")
    /\ buf = <<>>
    /\ fds["write"] # 0
    /\ WaitOn(p, "read")

\* pipefs_write cuts a request into PIPE_BUFF bytes at a time and a remainder
Chunk(p) == Smaller(call[p].left, Capacity)

Room(n) == Capacity - Len(buf) >= n

\* what is left of p's call after n of its bytes
Rest(p, n) == IF call[p].left = n THEN Idle ELSE [op |-> "write", left |-> call[p].left - n]

\* the next bytes of p's stream, the last of them marked as the end of a chunk
Bytes(p, n) ==
    [i \in 1..n |-> [by |-> p, pos |-> (sent[p] + i - 1) % SeqMod, last |-> i = n]]

WritePut(p) ==
    LET n == Chunk(p) IN
    /\ InLoop(p, "write")
    /\ fds["read"] # 0
    /\ Room(n)
    /\ buf' = buf \o Bytes(p, n)
    /\ sent' = [sent EXCEPT ![p] = (@ + n) % SeqMod]
    /\ call' = [call EXCEPT ![p] = Rest(p, n)]
    /\ Wake("read")
    /\ UNCHANGED <<holds, got, fds, heapVars>>

\* -EPIPE, or the count of the chunks already put
WriteBroken(p) ==
    /\ InLoop(p, "write")
    /\ fds["read"] = 0
    /\ call' = [call EXCEPT ![p] = Idle]
    /\ UNCHANGED <<buf, holds, sent, got, fds, waiters, status, heapVars>>

WriteBlock(p) ==
    /\ InLoop(p, "write")
    /\ fds["read"] # 0
    /\ ~Room(Chunk(p))
    /\ WaitOn(p, "write")

Next ==
    \E p \in Procs :
        \/ \E q \in Procs : Fork(p, q)
        \/ \E e \in Ends : Close(p, e)
        \/ CloseFree(p)
        \/ \E e \in Ends : \E n \in Requests[e] : Ask(p, e, n)
        \/ Resume(p)
        \/ ReadTake(p) \/ ReadEof(p) \/ ReadBlock(p)
        \/ WritePut(p) \/ WriteBroken(p) \/ WriteBlock(p)

\* The scheduler runs every ready thread again and again; nobody has to ask
\* for anything, fork or close.
Fairness ==
    \A p \in Procs :
        /\ WF_vars(CloseFree(p) \/ Resume(p))
        /\ WF_vars(ReadTake(p) \/ ReadEof(p) \/ ReadBlock(p))
        /\ WF_vars(WritePut(p) \/ WriteBroken(p) \/ WriteBlock(p))

Spec == Init /\ [][Next]_vars /\ Fairness

----------------------------------------------------------------------------
(* Properties.                                                              *)

\* The bytes of one writer leave the pipe in the order it wrote them, none
\* lost or repeated, a chunk of at most PIPE_BUFF bytes is never mixed with
\* another writer's, and the buffer is never written past its end: what
\* memcpy, memmove and ptr do under the lock in pipe_write_inner and
\* pipefs_read.
StreamIntact ==
    /\ Len(buf) <= Capacity
    /\ \A i \in 1..Len(buf) :
           LET w == buf[i].by IN buf[i].pos = (got[w] + Count(buf, w, i - 1)) % SeqMod
    /\ \A p \in Procs : sent[p] = (got[p] + Count(buf, p, Len(buf))) % SeqMod
    /\ \A i \in 1..Len(buf) :
           ~buf[i].last => i < Len(buf) /\ buf[i + 1].by = buf[i].by

\* No wake-up is lost: a thread in WAIT is on the list of the end it waits
\* for, and what it waits for has not happened.  A reader sleeps only while
\* the pipe is empty and has a writer, a writer only while there is a reader
\* and no room for its chunk (pipe_wait_on against pipe_wake_waiters).
SleepersJustified ==
    \A p \in Procs : status[p] = "WAIT" =>
        \/ /\ call[p].op = "read" /\ p \in waiters["read"]
           /\ buf = <<>> /\ fds["write"] # 0
        \/ /\ call[p].op = "write" /\ p \in waiters["write"]
           /\ ~Room(Chunk(p)) /\ fds["read"] # 0

\* read_fds and write_fds are the numbers of descriptors that exist, and only
\* a thread that waits is on a list, so pipe_wake_waiters finds it in a call.
DescriptorsCounted ==
    /\ \A e \in Ends : fds[e] = Cardinality(Holders(holds, e))
    /\ \A e \in Ends : \A p \in waiters[e] : status[p] = "WAIT" /\ call[p].op = e

\* pipefs_close frees the pipe and each of its two specs at most once, never
\* under a process that can still reach them, and leaves none of them behind.
FreedExactlyOnce ==
    /\ \A o \in Objects : freed[o] <= 1
    /\ \A e \in Ends : freed[e] = 1 => Holders(holds, e) = {}
    /\ freed["pipe"] = 1 => \A p \in Procs : holds[p] = {}
    /\ (\A p \in Procs : holds[p] = {} /\ closing[p] = {})
           => \A o \in Objects : freed[o] = 1

Channel == INSTANCE PipeChannel

\* The pipe implements the channel without sleeping of PipeChannel: counters
\* for holders, and a caller that can proceed does proceed, which is where a
\* lost wake-up would show.
RefinesChannel == Channel!Spec
=============================================================================
