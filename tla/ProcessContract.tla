-------------------------- MODULE ProcessContract --------------------------
(***************************************************************************)
(* What the process calls promise: a process is born of a living one, ends *)
(* once with an exit code, and is collected at most once, by its creator   *)
(* and with the code it ended with.                                        *)
(***************************************************************************)
EXTENDS Naturals

CONSTANTS
    Pids,       \* the process numbers
    First,      \* the process that start-up creates
    Codes       \* exit codes

VARIABLE life   \* life[p]: what has become of process p

Unborn == [is |-> "unborn"]
Alive(by) == [is |-> "alive", by |-> by]
Ended(by, c) == [is |-> "ended", by |-> by, code |-> c]
Collected(by, c) == [is |-> "collected", by |-> by, code |-> c]

\* 0 stands for the kernel
Init == life = [p \in Pids |-> IF p = First THEN Alive(0) ELSE Unborn]

Fork(p, q) ==
    /\ life[p].is = "alive"
    /\ life[q] = Unborn
    /\ life' = [life EXCEPT ![q] = Alive(p)]

End(p, c) ==
    /\ life[p].is = "alive"
    /\ life' = [life EXCEPT ![p] = Ended(@.by, c)]

Collect(p, q) ==
    /\ life[p].is = "alive"
    /\ life[q].is = "ended" /\ life[q].by = p
    /\ life' = [life EXCEPT ![q] = Collected(p, @.code)]

Next ==
    \E p \in Pids :
        \/ \E q \in Pids : Fork(p, q) \/ Collect(p, q)
        \/ \E c \in Codes : End(p, c)

Spec == Init /\ [][Next]_life
=============================================================================
