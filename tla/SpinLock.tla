------------------------------ MODULE SpinLock ------------------------------
(***************************************************************************)
(* The spinlock every shared structure of the kernel is guarded by, in the *)
(* two forms the tree has: include/cpu/lock.h for x86-64 and               *)
(* arch/arm32/include/arch/cpu.h for the Zynq port.  spin_lock also masks  *)
(* the interrupts of its core and leaves their former state in the lock,   *)
(* where spin_unlock finds it.                                             *)
(*                                                                         *)
(* A core runs a thread and, while interrupts are enabled, may be stopped  *)
(* by its timer handler, which uses the lock too.  The two forms are made  *)
(* of the same steps in a different order:                                 *)
(*    x86    mask - (test and set; on failure unmask and retry) - save     *)
(*    arm32  mask - save - (ldrex/strex until it is free)                  *)
(* and both release by: read the saved state - clear - restore.            *)
(***************************************************************************)
EXTENDS Naturals

CONSTANTS
    Cpus,   \* the cores that share the lock
    Port    \* which of the two headers: "x86" or "arm32"

ASSUME SpinAssumption == Port \in {"x86", "arm32"}

VARIABLES
    locked,     \* the lock word
    saved,      \* spin_t.rflags / spin_t.cpsr: interrupts to be re-enabled?
    enabled,    \* enabled[c]: core c takes interrupts (IF set, I clear)
    inIrq,      \* inIrq[c]: core c is in its timer handler
    pc,         \* pc[x]: where context x is in spin_lock or spin_unlock
    flags,      \* flags[x]: the local variable holding an interrupt state
    entry       \* entry[x]: ghost, the interrupt state when x called spin_lock

vars == <<locked, saved, enabled, inIrq, pc, flags, entry>>

Contexts == Cpus \X {"thread", "irq"}

\* The context core c is executing, and whether that is x
Top(c) == <<c, IF inIrq[c] THEN "irq" ELSE "thread">>
Running(x) == x = Top(x[1])

Steps == {"none", "mask", "save", "take", "cs", "clear", "restore"}

TypeOK ==
    /\ locked \in BOOLEAN
    /\ saved \in BOOLEAN
    /\ enabled \in [Cpus -> BOOLEAN]
    /\ inIrq \in [Cpus -> BOOLEAN]
    /\ pc \in [Contexts -> Steps]
    /\ flags \in [Contexts -> BOOLEAN]
    /\ entry \in [Contexts -> BOOLEAN]

\* SPIN_INIT
Init ==
    /\ locked = FALSE
    /\ saved = FALSE
    /\ enabled = [c \in Cpus |-> TRUE]
    /\ inIrq = [c \in Cpus |-> FALSE]
    /\ pc = [x \in Contexts |-> "none"]
    /\ flags = [x \in Contexts |-> FALSE]
    /\ entry = [x \in Contexts |-> FALSE]

At(x, s) == Running(x) /\ pc[x] = s
Goto(x, s) == pc' = [pc EXCEPT ![x] = s]

\* A caller may itself run with interrupts masked (arch_irq_save, cli)
ToggleInterrupts(c) ==
    /\ ~inIrq[c]
    /\ pc[Top(c)] = "none"
    /\ enabled' = [enabled EXCEPT ![c] = ~@]
    /\ UNCHANGED <<locked, saved, inIrq, pc, flags, entry>>

\* The timer stops the thread; a handler starts with interrupts masked
Interrupt(c) ==
    /\ enabled[c]
    /\ ~inIrq[c]
    /\ inIrq' = [inIrq EXCEPT ![c] = TRUE]
    /\ enabled' = [enabled EXCEPT ![c] = FALSE]
    /\ UNCHANGED <<locked, saved, pc, flags, entry>>

\* The return from the handler restores the state of the interrupted thread
EndInterrupt(c) ==
    /\ inIrq[c]
    /\ pc[Top(c)] = "none"
    /\ inIrq' = [inIrq EXCEPT ![c] = FALSE]
    /\ enabled' = [enabled EXCEPT ![c] = TRUE]
    /\ UNCHANGED <<locked, saved, pc, flags, entry>>

SpinLock(x) ==
    /\ At(x, "none")
    /\ entry' = [entry EXCEPT ![x] = enabled[x[1]]]
    /\ Goto(x, "mask")
    /\ UNCHANGED <<locked, saved, enabled, inIrq, flags>>

\* Mutant: the interrupt state is read but interrupts stay on.
EnabledInsideOn(x) == enabled[x[1]]

EnabledInside(x) == FALSE

\* pushfq; cli -- or arch_irq_save
Mask(x) ==
    /\ At(x, "mask")
    /\ flags' = [flags EXCEPT ![x] = enabled[x[1]]]
    /\ enabled' = [enabled EXCEPT ![x[1]] = EnabledInside(x)]
    /\ Goto(x, IF Port = "x86" THEN "take" ELSE "save")
    /\ UNCHANGED <<locked, saved, inIrq, entry>>

\* lock btsq found the bit set: popfq, pause and from the top
RetryX86(x) ==
    /\ Port = "x86"
    /\ At(x, "take")
    /\ locked
    /\ enabled' = [enabled EXCEPT ![x[1]] = flags[x]]
    /\ Goto(x, "mask")
    /\ UNCHANGED <<locked, saved, inIrq, flags, entry>>

\* Mutant: the test and the set are two instructions, or the lock prefix is lost.
FreeUnchecked == TRUE

Free == ~locked

\* lock btsq found the bit clear -- or strex stored
Take(x) ==
    /\ At(x, "take")
    /\ Free
    /\ locked' = TRUE
    /\ Goto(x, IF Port = "x86" THEN "save" ELSE "cs")
    /\ UNCHANGED <<saved, enabled, inIrq, flags, entry>>

\* lock->rflags = flags (the lock is held) -- lock->cpsr = ... (it is not)
Save(x) ==
    /\ At(x, "save")
    /\ saved' = flags[x]
    /\ Goto(x, IF Port = "x86" THEN "cs" ELSE "take")
    /\ UNCHANGED <<locked, enabled, inIrq, flags, entry>>

\* spin_unlock reads the state before it lets go of the lock
ReadSaved(x) ==
    /\ At(x, "cs")
    /\ flags' = [flags EXCEPT ![x] = saved]
    /\ Goto(x, "clear")
    /\ UNCHANGED <<locked, saved, enabled, inIrq, entry>>

\* Mutant: the release does not reach the lock word.
ReleasedWordKept == locked

ReleasedWord == FALSE

Clear(x) ==
    /\ At(x, "clear")
    /\ locked' = ReleasedWord
    /\ Goto(x, "restore")
    /\ UNCHANGED <<saved, enabled, inIrq, flags, entry>>

\* Mutant: spin_unlock reads the saved state after it cleared the lock word.
StateToRestoreLate(x) == saved

StateToRestore(x) == flags[x]

\* popfq -- arch_irq_restore
Restore(x) ==
    /\ At(x, "restore")
    /\ enabled' = [enabled EXCEPT ![x[1]] = StateToRestore(x)]
    /\ Goto(x, "none")
    /\ UNCHANGED <<locked, saved, inIrq, flags, entry>>

LockStep(x) ==
    \/ Mask(x) \/ RetryX86(x) \/ Take(x) \/ Save(x)
    \/ ReadSaved(x) \/ Clear(x) \/ Restore(x)

Next ==
    \/ \E c \in Cpus : ToggleInterrupts(c) \/ Interrupt(c) \/ EndInterrupt(c)
    \/ \E x \in Contexts : SpinLock(x) \/ LockStep(x)

Spec == Init /\ [][Next]_vars

(***************************************************************************)
(* Fairness: a context that keeps getting the core makes progress in these *)
(* functions (strong, because a spinning thread may be interrupted between *)
(* two attempts), and a handler ends.  Nothing makes test-and-set fair: a  *)
(* core may find the word set at each of its attempts.                     *)
(***************************************************************************)
Fairness ==
    /\ \A x \in Contexts : SF_vars(LockStep(x))
    /\ \A c \in Cpus : WF_vars(EndInterrupt(c))

FairSpec == Spec /\ Fairness

-----------------------------------------------------------------------------
(* At most one context, thread or handler of any core, is inside.          *)
MutualExclusion ==
    \A x, y \in Contexts : pc[x] \in {"cs", "clear"} /\ pc[y] \in {"cs", "clear"} => x = y

(* A thread inside the lock is not stopped by the handler of its own core, *)
(* which would then spin for ever on a lock its own core holds.            *)
HolderNotInterrupted ==
    \A c \in Cpus : pc[<<c, "thread">>] \in {"cs", "clear"} => ~inIrq[c]

(* The contract both headers state (include/cpu/lock.h:66-68 and           *)
(* arch/arm32/include/arch/cpu.h:606-613): spin_unlock gives the caller    *)
(* back the interrupt state it had when it called spin_lock.               *)
InterruptsRestored ==
    [][\A x \in Contexts : Restore(x) => enabled'[x[1]] = entry[x]]_vars

(* Deadlock freedom: while some context is trying to get the lock, some    *)
(* context gets it.                                                        *)
LockProgress ==
    (\E x \in Contexts : pc[x] = "take") ~> (\E x \in Contexts : pc[x] = "cs")
=============================================================================
