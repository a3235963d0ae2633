--------------------------- MODULE SpinLockProofs ---------------------------
(***************************************************************************)
(* The spinlock for any number of cores: both forms exclude, and the x86   *)
(* form gives its callers their interrupt state back.                      *)
(*                                                                         *)
(* The argument: the lock word is set exactly while somebody is inside     *)
(* (LockWord), and a context past Mask has interrupts off, so its own core *)
(* cannot switch away from it (Masked).  On x86 the saved state is written *)
(* inside the lock only, so it still belongs to the holder when the holder *)
(* reads it (Saved); on the Zynq port it is written outside, and the last  *)
(* conjunct is exactly what fails.                                         *)
(***************************************************************************)
EXTENDS SpinLock, TLAPS

\* The steps at which x has the lock word to itself
Inside == {"cs", "clear"} \cup (IF Port = "x86" THEN {"save"} ELSE {})

LockWord ==
    /\ \A x \in Contexts : pc[x] \in Inside => locked
    /\ \A x, y \in Contexts : pc[x] \in Inside /\ pc[y] \in Inside => x = y

Masked == \A x \in Contexts :
    pc[x] \in {"save", "take", "cs", "clear", "restore"} =>
        Running(x) /\ ~enabled[x[1]]

\* A handler that has not started, or has ended, is in neither function
HandlerDone == \A x \in Contexts : x[2] = "irq" /\ ~inIrq[x[1]] => pc[x] = "none"

IInv == TypeOK /\ LockWord /\ Masked /\ HandlerDone

\* What is known of the interrupt state a context will get back (x86 only)
Saved == \A x \in Contexts :
    /\ pc[x] = "mask" => (entry[x] <=> (Running(x) => enabled[x[1]]))
    /\ pc[x] \in {"take", "save", "clear", "restore"} => flags[x] = entry[x]
    /\ pc[x] = "cs" => saved = entry[x]

(* A context runs when its core is in the mode the context belongs to.     *)
LEMMA ContextsOfCore ==
    /\ \A x \in Contexts : x[1] \in Cpus /\ x[2] \in {"thread", "irq"} /\ x = <<x[1], x[2]>>
    /\ \A x \in Contexts : Running(x) <=> x[2] = IF inIrq[x[1]] THEN "irq" ELSE "thread"
    /\ \A c \in Cpus : Top(c) \in Contexts /\ Top(c)[1] = c /\ Running(Top(c))
    /\ \A x, y \in Contexts : Running(x) /\ Running(y) /\ x[1] = y[1] => x = y
  BY DEF Contexts, Running, Top

(* A core runs one context at a time.                                      *)
LEMMA OneRunning ==
    ASSUME NEW x \in Contexts, NEW y \in Contexts,
           Running(x), Running(y), y[1] = x[1]
    PROVE  y = x
  BY DEF Contexts, Running, Top

LEMMA ContextsOfCorePrimed ==
    \A x \in Contexts : Running(x)' <=> x[2] = IF inIrq'[x[1]] THEN "irq" ELSE "thread"
  BY ContextsOfCore DEF Running, Top

LEMMA InitInv == Init => IInv
  BY DEF Init, IInv, TypeOK, LockWord, Masked, HandlerDone, Inside, Steps

(* A core may toggle interrupts, or enter or leave its handler, only while *)
(* none of its contexts has them masked by the lock.                       *)
LEMMA CoreStep ==
    ASSUME IInv, NEW c \in Cpus,
           ToggleInterrupts(c) \/ Interrupt(c) \/ EndInterrupt(c)
    PROVE  IInv'
<1>1. UNCHANGED <<locked, saved, pc, flags, entry>>
  BY DEF ToggleInterrupts, Interrupt, EndInterrupt
<1>2. TypeOK'
  BY <1>1 DEF IInv, TypeOK, ToggleInterrupts, Interrupt, EndInterrupt
<1>3. LockWord'
  BY <1>1 DEF IInv, LockWord, Inside
<1>4. \A x \in Contexts : x[1] = c => pc[x] \in {"none", "mask"}
  BY ContextsOfCore DEF IInv, TypeOK, Steps, Masked, ToggleInterrupts, Interrupt, EndInterrupt
<1>5. \A d \in Cpus : d # c => enabled'[d] = enabled[d] /\ inIrq'[d] = inIrq[d]
  BY DEF IInv, TypeOK, ToggleInterrupts, Interrupt, EndInterrupt
<1>6. Masked'
  BY <1>1, <1>4, <1>5, ContextsOfCore, ContextsOfCorePrimed DEF IInv, Masked
<1>7. HandlerDone'
  BY <1>1, <1>5, ContextsOfCore
  DEF IInv, TypeOK, HandlerDone, ToggleInterrupts, Interrupt, EndInterrupt, Top
<1>. QED  BY <1>2, <1>3, <1>6, <1>7 DEF IInv

LEMMA ContextStep ==
    ASSUME IInv, NEW x \in Contexts, SpinLock(x) \/ LockStep(x)
    PROVE  IInv'
<1>a. inIrq' = inIrq /\ Running(x)
  BY DEF SpinLock, LockStep, Mask, RetryX86, Take, Save, ReadSaved, Clear, Restore, At
<1>1. Running(x) /\ inIrq' = inIrq /\ \A y \in Contexts : Running(y)' <=> Running(y)
  BY <1>a, ContextsOfCore, ContextsOfCorePrimed
<1>2. \A y \in Contexts : Running(y) /\ y[1] = x[1] => y = x
  <2>. SUFFICES ASSUME NEW y \in Contexts, Running(y), y[1] = x[1] PROVE y = x
    OBVIOUS
  <2>. QED  BY <1>a, OneRunning
<1>3. CASE SpinLock(x)
  BY <1>1, <1>3, ContextsOfCore
  DEF IInv, TypeOK, LockWord, Masked, HandlerDone, Inside, SpinLock, At, Goto, Steps
<1>4. CASE Mask(x)
  BY <1>1, <1>2, <1>4, ContextsOfCore
  DEF IInv, TypeOK, LockWord, Masked, HandlerDone, Inside, Mask, EnabledInside, At, Goto, Steps
<1>5. CASE RetryX86(x)
  BY <1>1, <1>2, <1>5, ContextsOfCore
  DEF IInv, TypeOK, LockWord, Masked, HandlerDone, Inside, RetryX86, At, Goto, Steps
<1>6. CASE Take(x)
  BY <1>1, <1>6 DEF IInv, TypeOK, LockWord, Masked, HandlerDone, Inside, Take, Free, At, Goto, Steps
<1>7. CASE Save(x)
  BY <1>1, <1>7, SpinAssumption
  DEF IInv, TypeOK, LockWord, Masked, HandlerDone, Inside, Save, At, Goto, Steps
<1>8. CASE ReadSaved(x)
  BY <1>1, <1>8 DEF IInv, TypeOK, LockWord, Masked, HandlerDone, Inside, ReadSaved, At, Goto, Steps
<1>9. CASE Clear(x)
  BY ZenonT(40), <1>1, <1>9
  DEF IInv, TypeOK, LockWord, Masked, HandlerDone, Inside, Clear, ReleasedWord, At, Goto, Steps
<1>10. CASE Restore(x)
  BY <1>1, <1>2, <1>10, ContextsOfCore
  DEF IInv, TypeOK, LockWord, Masked, HandlerDone, Inside, Restore, StateToRestore, At, Goto, Steps
<1>. QED  BY <1>3, <1>4, <1>5, <1>6, <1>7, <1>8, <1>9, <1>10 DEF LockStep

LEMMA Inductive == IInv /\ [Next]_vars => IInv'
<1>1. ASSUME IInv, UNCHANGED vars PROVE IInv'
  BY <1>1, ContextsOfCore, ContextsOfCorePrimed
  DEF vars, IInv, TypeOK, LockWord, Masked, HandlerDone, Inside
<1>. QED  BY <1>1, CoreStep, ContextStep DEF Next

THEOREM InvariantThm == Spec => []IInv
  BY InitInv, Inductive, PTL DEF Spec

(* Both forms of the lock, on any number of cores, admit one context at a  *)
(* time.                                                                   *)
THEOREM MutualExclusionThm == Spec => []MutualExclusion
<1>1. IInv => MutualExclusion
  BY DEF IInv, LockWord, Inside, MutualExclusion
<1>. QED  BY <1>1, InvariantThm, PTL

(* In both forms a handler never starts on top of a thread that holds the  *)
(* lock.                                                                   *)
THEOREM HolderNotInterruptedThm == Spec => []HolderNotInterrupted
<1>1. IInv => HolderNotInterrupted
  <2>. SUFFICES ASSUME IInv, NEW c \in Cpus, pc[<<c, "thread">>] \in {"cs", "clear"}
                PROVE  inIrq[c] = FALSE
    BY DEF HolderNotInterrupted
  <2>1. <<c, "thread">> \in Contexts
    BY DEF Contexts
  <2>. QED  BY <2>1, ContextsOfCore DEF IInv, TypeOK, Masked
<1>. QED  BY <1>1, InvariantThm, PTL

-----------------------------------------------------------------------------
(* The saved interrupt state, on x86                                       *)

LEMMA SavedInductive ==
    ASSUME Port = "x86", IInv, Saved, [Next]_vars
    PROVE  Saved'
<1>1. CASE UNCHANGED vars
  BY <1>1, ContextsOfCore, ContextsOfCorePrimed DEF vars, Saved
<1>2. ASSUME NEW c \in Cpus, ToggleInterrupts(c) \/ Interrupt(c) \/ EndInterrupt(c)
      PROVE  Saved'
  <2>1. UNCHANGED <<locked, saved, pc, flags, entry>>
    BY <1>2 DEF ToggleInterrupts, Interrupt, EndInterrupt
  <2>2. \A d \in Cpus : d # c => enabled'[d] = enabled[d] /\ inIrq'[d] = inIrq[d]
    BY <1>2 DEF IInv, TypeOK, ToggleInterrupts, Interrupt, EndInterrupt
  <2>3. ASSUME NEW x \in Contexts, x[1] = c, pc[x] = "mask"
        PROVE  entry[x] <=> (Running(x)' => enabled'[c])
    <3>1. entry[x] <=> (Running(x) => enabled[c])
      BY <2>3 DEF Saved
    <3>2. CASE ToggleInterrupts(c)
      <4>1. x = Top(c)
        BY <2>3, <3>2, ContextsOfCore DEF IInv, HandlerDone, Top, ToggleInterrupts
      <4>. QED  BY <2>3, <3>2, <4>1 DEF ToggleInterrupts
    <3>3. CASE Interrupt(c)
      BY <2>3, <3>1, <3>3, ContextsOfCore, ContextsOfCorePrimed
      DEF IInv, TypeOK, HandlerDone, Interrupt
    <3>4. CASE EndInterrupt(c)
      <4>1. x # Top(c)
        BY <2>3, <3>4 DEF EndInterrupt
      <4>2. ~Running(x) /\ entry[x] = TRUE
        BY <2>3, <3>1, <4>1 DEF Running
      <4>3. enabled'[c] = TRUE
        BY <3>4 DEF IInv, TypeOK, EndInterrupt
      <4>. QED  BY <4>2, <4>3
    <3>. QED  BY <1>2, <3>2, <3>3, <3>4
  <2>. QED  BY <2>1, <2>2, <2>3, ContextsOfCore, ContextsOfCorePrimed DEF Saved
<1>3. ASSUME NEW x \in Contexts, SpinLock(x) \/ LockStep(x)
      PROVE  Saved'
  <2>a. inIrq' = inIrq /\ Running(x)
    BY <1>3 DEF SpinLock, LockStep, Mask, RetryX86, Take, Save, ReadSaved, Clear, Restore, At
  <2>1. Running(x) /\ \A y \in Contexts : Running(y)' <=> Running(y)
    BY <2>a, ContextsOfCore, ContextsOfCorePrimed
  <2>2. \A y \in Contexts : Running(y) /\ y[1] = x[1] => y = x
    <3>. SUFFICES ASSUME NEW y \in Contexts, Running(y), y[1] = x[1] PROVE y = x
      OBVIOUS
    <3>. QED  BY <2>a, OneRunning
  <2>b. \A y \in Contexts : y # x /\ Running(y) => enabled'[y[1]] = enabled[y[1]]
    <3>1. \A c \in Cpus : c # x[1] => enabled'[c] = enabled[c]
      BY <1>3 DEF IInv, TypeOK, SpinLock, LockStep, Mask, RetryX86, Take, Save,
                  ReadSaved, Clear, Restore
    <3>. QED  BY <3>1, <2>2, ContextsOfCore
  <2>3. CASE SpinLock(x)
    BY <2>1, <2>3, ContextsOfCore DEF IInv, TypeOK, Saved, SpinLock, At, Goto
  <2>4. CASE Mask(x)
    BY <2>1, <2>b, <2>4, ContextsOfCore DEF IInv, TypeOK, Saved, Mask, At, Goto
  <2>5. CASE RetryX86(x)
    BY <2>1, <2>b, <2>5, ContextsOfCore DEF IInv, TypeOK, Saved, RetryX86, At, Goto
  <2>6. CASE Take(x)
    BY <2>1, <2>6 DEF IInv, TypeOK, Saved, Take, At, Goto
  <2>7. CASE Save(x)
    <3>1. \A y \in Contexts : y # x => pc[y] # "cs"
      BY <2>7 DEF IInv, LockWord, Inside, Save, At
    <3>. QED  BY <2>1, <2>7, <3>1 DEF IInv, TypeOK, Saved, Save, At, Goto
  <2>8. CASE ReadSaved(x)
    BY <2>1, <2>8 DEF IInv, TypeOK, Saved, ReadSaved, At, Goto
  <2>9. CASE Clear(x)
    BY <2>1, <2>9 DEF IInv, TypeOK, Saved, Clear, At, Goto
  <2>10. CASE Restore(x)
    BY <2>1, <2>2, <2>10, ContextsOfCore DEF IInv, TypeOK, Saved, Restore, At, Goto
  <2>. QED  BY <1>3, <2>3, <2>4, <2>5, <2>6, <2>7, <2>8, <2>9, <2>10 DEF LockStep
<1>. QED  BY <1>1, <1>2, <1>3 DEF Next

(* spin_unlock of include/cpu/lock.h gives every caller, on any number of  *)
(* cores, the interrupt state it had before spin_lock.                     *)
THEOREM InterruptsRestoredThm == Port = "x86" => (Spec => InterruptsRestored)
<1>1. Init => Saved
  BY DEF Init, Saved
<1>2. IInv /\ Saved => (\A x \in Contexts : Restore(x) => enabled'[x[1]] = entry[x])
  <2>. SUFFICES ASSUME IInv, Saved, NEW x \in Contexts, Restore(x)
                PROVE  enabled'[x[1]] = entry[x]
    OBVIOUS
  <2>. QED  BY ContextsOfCore DEF IInv, TypeOK, Saved, Restore, At, StateToRestore
<1>3. SUFFICES ASSUME Port = "x86"
               PROVE  Spec => InterruptsRestored
  OBVIOUS
<1>4. IInv /\ Saved /\ [Next]_vars => Saved'
  BY <1>3, SavedInductive
<1>. QED  BY <1>1, <1>2, <1>4, InvariantThm, PTL DEF Spec, InterruptsRestored
=============================================================================
