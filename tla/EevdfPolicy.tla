---------------------------- MODULE EevdfPolicy ----------------------------
(***************************************************************************)
(* The scheduling decisions of arch/arm32/src/sched.c, which the port      *)
(* copied from kernel/task/scheduler.cpp: what a wake-up credit is, whose  *)
(* turn it is, and on which core a new thread is put.                      *)
(*                                                                         *)
(* Time is counted in ticks.  Every thread has the same slice, because     *)
(* sched_entity_init gives it SCHED_BASE_SLICE_NS and nothing changes it;  *)
(* so the clamp of the wake-up credit between SCHED_WAKEUP_CREDIT and      *)
(* SCHED_SLEEPER_CREDIT is always one slice, and a deadline is always the  *)
(* vruntime plus one slice: comparing deadlines compares vruntimes.        *)
(***************************************************************************)
EXTENDS Naturals, Sequences, FiniteSets, FiniteSetsExt

CONSTANT Slice  \* SCHED_TIME_SLICE, in ticks (4 on the board)

\* A vruntime one credit behind base, but not below zero
Credited(base) == IF base > Slice THEN base - Slice ELSE 0

\* sched_apply_wakeup_credit: a wake-up lowers a vruntime or leaves it
Placed(own, base) == IF own > Credited(base) THEN Credited(base) ELSE own

AvgVruntime(vr, S) ==
    IF S = {} THEN 0 ELSE MapThenSumSet(LAMBDA t : vr[t], S) \div Cardinality(S)

\* sched_deadline_before, and the scan keeps the first of equals
Earliest(queue, vr, S) ==
    {t \in S : \A u \in S \ {t} :
        \/ vr[t] < vr[u]
        \/ /\ vr[t] = vr[u]
           /\ \E i, j \in DOMAIN queue : i < j /\ queue[i] = t /\ queue[j] = u}

\* Mutant: the choice is not restricted to the eligible, nor ordered by deadline.
TurnOfFirst(queue, vr, waiting, avg) ==
    {t \in waiting : \E i \in DOMAIN queue : queue[i] = t /\ \A j \in 1..(i - 1) : queue[j] \notin waiting}

(***************************************************************************)
(* The candidate sched_select_next prefers: the earliest deadline among    *)
(* those whose vruntime is not above the average, or among all if none is. *)
(***************************************************************************)
Turn(queue, vr, waiting, avg) ==
    LET eligible == {t \in waiting : vr[t] <= avg}
    IN  Earliest(queue, vr, IF eligible # {} THEN eligible ELSE waiting)

(***************************************************************************)
(* sched_pick_cpu: the shortest queue of the cores that are ready, the     *)
(* lowest number of equals; application threads always on core 0.  A set   *)
(* of one core.                                                            *)
(***************************************************************************)
PickCpu(isApp, len, ready) ==
    IF isApp \/ 0 \notin ready
      THEN {0}
      ELSE {c \in ready : \A d \in ready \ {c} :
                len[c] < len[d] \/ (len[c] = len[d] /\ c < d)}
=============================================================================
