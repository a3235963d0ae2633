---------------------------- MODULE PipeChannel ----------------------------
(***************************************************************************)
(* What a pipe promises to the processes that hold its descriptors: a      *)
(* bounded stream of bytes in which a chunk of at most Capacity bytes is   *)
(* put as a whole, reads that take what is there, end of file when the     *)
(* last writer is gone and the stream is empty, EPIPE when the last reader *)
(* is gone.  Nobody sleeps here: a caller that can proceed does proceed.   *)
(***************************************************************************)
EXTENDS Naturals, Sequences

CONSTANTS
    Procs,      \* the (single-threaded) processes
    Capacity,   \* PIPE_BUFF
    Requests,   \* Requests[e]: the sizes of the calls made at end e
    SeqMod,     \* bytes carry their position in their writer's stream, modulo SeqMod
    InitialEnds \* the ends each process holds after pipe2, fork and close

Ends == {"read", "write"}

VARIABLES
    buf,        \* the bytes written and not yet read
    holds,      \* holds[p]: the ends p has a descriptor of
    call,       \* call[p]: the pipe call p is in, and the bytes it still asks for
    sent        \* sent[p]: how many bytes p has put, modulo SeqMod

channelVars == <<buf, holds, call, sent>>

Idle == [op |-> "none", left |-> 0]

Init ==
    /\ buf = <<>>
    /\ holds = InitialEnds
    /\ call = [p \in Procs |-> Idle]
    /\ sent = [p \in Procs |-> 0]

Someone(e) == \E p \in Procs : e \in holds[p]

Fork(p, q) ==
    /\ call[p] = Idle
    /\ holds[p] # {} /\ holds[q] = {}
    /\ holds' = [holds EXCEPT ![q] = holds[p]]
    /\ UNCHANGED <<buf, call, sent>>

Close(p, e) ==
    /\ call[p] = Idle
    /\ e \in holds[p]
    /\ holds' = [holds EXCEPT ![p] = @ \ {e}]
    /\ UNCHANGED <<buf, call, sent>>

Ask(p, op, n) ==
    /\ call[p] = Idle
    /\ op \in holds[p]
    /\ call' = [call EXCEPT ![p] = [op |-> op, left |-> n]]
    /\ UNCHANGED <<buf, holds, sent>>

Smaller(m, n) == IF m <= n THEN m ELSE n

Receive(p) ==
    /\ call[p].op = "read"
    /\ buf # <<>>
    /\ buf' = SubSeq(buf, Smaller(call[p].left, Len(buf)) + 1, Len(buf))
    /\ call' = [call EXCEPT ![p] = Idle]
    /\ UNCHANGED <<holds, sent>>

EndOfFile(p) ==
    /\ call[p].op = "read"
    /\ buf = <<>>
    /\ ~Someone("write")
    /\ call' = [call EXCEPT ![p] = Idle]
    /\ UNCHANGED <<buf, holds, sent>>

\* what is left of p's call after n of its bytes
Rest(p, n) == IF call[p].left = n THEN Idle ELSE [op |-> "write", left |-> call[p].left - n]

\* the next bytes of p's stream, the last of them marked as the end of a chunk
Bytes(p, n) ==
    [i \in 1..n |-> [by |-> p, pos |-> (sent[p] + i - 1) % SeqMod, last |-> i = n]]

Send(p) ==
    LET n == Smaller(call[p].left, Capacity) IN
    /\ call[p].op = "write"
    /\ Someone("read")
    /\ Len(buf) + n <= Capacity
    /\ buf' = buf \o Bytes(p, n)
    /\ sent' = [sent EXCEPT ![p] = (@ + n) % SeqMod]
    /\ call' = [call EXCEPT ![p] = Rest(p, n)]
    /\ UNCHANGED holds

BrokenPipe(p) ==
    /\ call[p].op = "write"
    /\ ~Someone("read")
    /\ call' = [call EXCEPT ![p] = Idle]
    /\ UNCHANGED <<buf, holds, sent>>

Next ==
    \E p \in Procs :
        \/ \E q \in Procs : Fork(p, q)
        \/ \E e \in Ends : Close(p, e)
        \/ \E e \in Ends : \E n \in Requests[e] : Ask(p, e, n)
        \/ Receive(p) \/ EndOfFile(p)
        \/ Send(p) \/ BrokenPipe(p)

Spec ==
    /\ Init /\ [][Next]_channelVars
    /\ \A p \in Procs : WF_channelVars(Receive(p) \/ EndOfFile(p))
    /\ \A p \in Procs : WF_channelVars(Send(p) \/ BrokenPipe(p))
=============================================================================
