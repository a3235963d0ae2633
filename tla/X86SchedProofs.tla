--------------------------- MODULE X86SchedProofs ---------------------------
(***************************************************************************)
(* The two properties of X86Sched for any number of processors and         *)
(* threads, whatever the select functions prefer.                          *)
(*                                                                         *)
(* SchedulingComesBack needs only the types: who may turn the switch on is *)
(* a thread that some processor runs, and what a processor runs changes    *)
(* only while the switch is off for the exchange. SleepersKeepTheirTime    *)
(* needs to know who walks a queue (one creator, the holder of the lock),  *)
(* and what the walk may rely on between its look and its stores: that the *)
(* sleeper still sleeps unless its own processor was faster. It also needs *)
(* that a switch is never given up for want of a context, which would make *)
(* a dead thread RUNNING again (Picks).                                    *)
(***************************************************************************)
EXTENDS X86Sched, TLAPS

Places == {"body", "timed", "asleep", "dead", "fault", "killed", "saved", "off", "locked",
           "adding", "found", "cleared", "added", "unlocked"}

(* Every variable has its type; only a picked thread is switched to.       *)
TypeOK ==
  /\ on \in BOOLEAN /\ stranded \in BOOLEAN
  /\ current \in [Cpus -> Threads]
  /\ tick \in [Cpus -> {"out", "in", "picked", "off"}]
  /\ best \in [Cpus -> Threads \cup {None}]
  /\ \A c \in Cpus : tick[c] = "picked" => best[c] # None
  /\ context \in [Threads -> BOOLEAN]
  /\ status \in [Threads -> {"none", "START", "RUNNING", "WAIT", "DEATH"}]
  /\ timed \in [Threads -> BOOLEAN] /\ was \in [Threads -> BOOLEAN]
  /\ at \in [Threads -> Places]
  /\ creating \in Threads \cup {None}
  /\ newborn \in Threads \cup {None}
  /\ found \in Threads \cup {None}

(* The pick is another thread of the processor's own, and a thread has no  *)
(* context only until it is switched out for the first time.               *)
Picks ==
  /\ \A t \in Threads : context[t] \/ current[Home[t]] = t
  /\ \A c \in Cpus : tick[c] = "picked" =>
       best[c] \in Threads /\ Home[best[c]] = c /\ best[c] # current[c]

(* So timer_handle always has something to switch to.                      *)
SwitchNotGivenUp == \A c \in Cpus : tick[c] = "picked" => context[best[c]]

(* A thread waits only inside scheduler_sleep_ns, after its time is set.   *)
Sleeping ==
  /\ \A t \in Threads : status[t] = "WAIT" => at[t] = "asleep"
  /\ \A t \in Threads : at[t] = "timed" /\ t # found => timed[t] \/ t \in overrun

(* A thread that is not made yet does nothing; the newborn is one.         *)
NotMade ==
  /\ \A t \in Threads : status[t] = "none" => at[t] = "body"
  /\ newborn # None => status[newborn] = "none"
  /\ found # None => status[found] # "none"

(* One creator at a time is past the lock, and it alone walks a queue.     *)
OneCreator ==
  /\ \A t \in Threads : at[t] \in {"locked", "adding", "found", "cleared", "added"}
                          <=> creating = t
  /\ \A t \in Threads : creating = t => (at[t] \in {"found", "cleared"} <=> found # None)
  /\ creating = None => found = None

(* What the walk found still sleeps, unless its processor was faster.      *)
WalkSound == found # None => \/ found \in overrun
                             \/ status[found] = "WAIT" /\ at[found] = "asleep"

SleepInv == Sleeping /\ NotMade /\ OneCreator /\ WalkSound /\ SleepersKeepTheirTime

IInv == TypeOK /\ Picks /\ SchedulingComesBack /\ SleepInv

(* Every step keeps the types.                                             *)
LEMMA TypeStep ==
    ASSUME TypeOK, [Next]_vars
    PROVE  TypeOK'
<1>. USE DEF TypeOK, Places, TurnOn
<1>1. CASE UNCHANGED vars
  BY <1>1 DEF vars, switch, cpuVars, sleep, making
<1>2. ASSUME NEW c \in Cpus, Select(c)
      PROVE  TypeOK'
  <2>1. PICK due \in SUBSET Threads :
              /\ status' = [t \in Threads |-> IF t \in due THEN "START" ELSE status[t]]
              /\ timed' = [t \in Threads |-> timed[t] /\ t \notin due]
    BY <1>2 DEF Select
  <2>2. status' \in [Threads -> {"none", "START", "RUNNING", "WAIT", "DEATH"}]
    BY <2>1
  <2>3. timed' \in [Threads -> BOOLEAN]
    BY <2>1
  <2>4. \/ tick' = [tick EXCEPT ![c] = "out"] /\ UNCHANGED best
        \/ \E t \in Threads : /\ tick' = [tick EXCEPT ![c] = "picked"]
                              /\ best' = [best EXCEPT ![c] = t]
    BY <1>2 DEF Select
  <2>5. tick' \in [Cpus -> {"out", "in", "picked", "off"}] /\ best' \in [Cpus -> Threads \cup {None}]
        /\ \A d \in Cpus : tick'[d] = "picked" => best'[d] # None
    BY <2>4, MachineAssumption
  <2>6. UNCHANGED <<on, stranded, current, context, at, was, creating, newborn, found>>
    BY <1>2 DEF Select, switch, making
  <2>. QED  BY <2>2, <2>3, <2>5, <2>6
<1>3. ASSUME NEW c \in Cpus, Switch(c)
      PROVE  TypeOK'
  <2>1. current[c] \in Threads /\ best[c] \in Threads
    BY <1>3, MachineAssumption DEF Switch
  <2>2. status' \in [Threads -> {"none", "START", "RUNNING", "WAIT", "DEATH"}]
    <3>1. PICK st \in [Threads -> {"none", "START", "RUNNING", "WAIT", "DEATH"}] :
                 status' = st \/ status' = [st EXCEPT ![current[c]] = "RUNNING"]
      <4>. DEFINE st == [t \in Threads |->
                           IF t = current[c] /\ status[t] = "RUNNING" THEN "START"
                           ELSE IF t = best[c] /\ status[t] = "START" THEN "RUNNING" ELSE status[t]]
      <4>1. st \in [Threads -> {"none", "START", "RUNNING", "WAIT", "DEATH"}]
        OBVIOUS
      <4>2. status' = st \/ status' = [st EXCEPT ![current[c]] = "RUNNING"]
        BY <1>3 DEF Switch
      <4>. QED  BY <4>1, <4>2
    <3>. QED  BY <3>1, <2>1
  <2>3. current' \in [Cpus -> Threads] /\ context' \in [Threads -> BOOLEAN]
    BY <1>3, <2>1 DEF Switch
  <2>4. /\ tick' = [tick EXCEPT ![c] = "off"] /\ on' = FALSE
        /\ UNCHANGED <<stranded, best, timed, at, was, creating, newborn, found>>
    BY <1>3 DEF Switch, making
  <2>. QED  BY <2>2, <2>3, <2>4
<1>4. ASSUME NEW c \in Cpus, SwitchOn(c)
      PROVE  TypeOK'
  BY <1>4 DEF SwitchOn, switch, cpuVars, sleep, making
<1>5. ASSUME NEW t \in Threads, SleepTime(t)
      PROVE  TypeOK'
  BY <1>5 DEF SleepTime, switch, cpuVars, sleep, making
<1>6. ASSUME NEW t \in Threads, SleepWait(t)
      PROVE  TypeOK'
  BY <1>6 DEF SleepWait, switch, cpuVars, sleep, making
<1>7. ASSUME NEW t \in Threads, SleepEnds(t)
      PROVE  TypeOK'
  BY <1>7 DEF SleepEnds, switch, cpuVars, sleep, making
<1>8. ASSUME NEW t \in Threads, Exit(t)
      PROVE  TypeOK'
  BY <1>8 DEF Exit, switch, cpuVars, sleep, making
<1>9. ASSUME NEW t \in Threads, Enable(t)
      PROVE  TypeOK'
  BY <1>9 DEF Enable, switch, cpuVars, sleep, making
<1>10. ASSUME NEW t \in Threads, Fault(t)
      PROVE  TypeOK'
  BY <1>10 DEF Fault, switch, cpuVars, sleep, making
<1>11. ASSUME NEW t \in Threads, FaultDone(t)
      PROVE  TypeOK'
  BY <1>11 DEF FaultDone, switch, cpuVars, sleep, making
<1>12. ASSUME NEW t \in Threads, Save(t)
      PROVE  TypeOK'
  BY <1>12 DEF Save, switch, cpuVars, sleep, making
<1>13. ASSUME NEW t \in Threads, Off(t)
      PROVE  TypeOK'
  BY <1>13 DEF Off, switch, cpuVars, sleep, making
<1>14. ASSUME NEW t \in Threads, Lock(t)
      PROVE  TypeOK'
  BY <1>14 DEF Lock, switch, cpuVars, sleep, making
<1>15. ASSUME NEW t \in Threads, Prepare(t)
      PROVE  TypeOK'
  BY <1>15 DEF Prepare, Threads, switch, cpuVars, sleep, making
<1>16. ASSUME NEW t \in Threads, Unlock(t)
      PROVE  TypeOK'
  BY <1>16 DEF Unlock, switch, cpuVars, sleep, making
<1>17. ASSUME NEW t \in Threads, Restore(t)
      PROVE  TypeOK'
  BY <1>17 DEF Restore, Restored, switch, cpuVars, sleep, making
<1>18. ASSUME NEW t \in Threads, WalkFinds(t)
      PROVE  TypeOK'
  BY <1>18 DEF WalkFinds, switch, cpuVars, sleep, making
<1>19. ASSUME NEW t \in Threads, WalkClears(t)
      PROVE  TypeOK'
  BY <1>19 DEF WalkClears, switch, cpuVars, sleep, making
<1>20. ASSUME NEW t \in Threads, WalkStarts(t)
      PROVE  TypeOK'
  BY <1>20 DEF WalkStarts, switch, cpuVars, sleep, making
<1>21. ASSUME NEW t \in Threads, Enqueue(t)
      PROVE  TypeOK'
  BY <1>21 DEF Enqueue, switch, cpuVars, sleep, making
<1>22. ASSUME NEW t \in Threads, FaultKills(t)
      PROVE  TypeOK'
  BY <1>22 DEF FaultKills, switch, cpuVars, sleep, making
<1>23. ASSUME NEW t \in Threads, FaultEnds(t)
      PROVE  TypeOK'
  BY <1>23 DEF FaultEnds, switch, cpuVars, sleep, making
<1>24. ASSUME NEW c \in Cpus, Enter(c)
      PROVE  TypeOK'
  BY <1>24 DEF Enter, switch, cpuVars, sleep, making
<1>. QED
  BY <1>1, <1>2, <1>3, <1>4, <1>5, <1>6, <1>7, <1>8, <1>9, <1>10, <1>11,
     <1>12, <1>13, <1>14, <1>15, <1>16, <1>17, <1>18, <1>19, <1>20, <1>21, <1>22, <1>23, <1>24
  DEF Next

(* Every step keeps what is known of the picks.                            *)
LEMMA PicksStep ==
    ASSUME TypeOK, Picks, [Next]_vars
    PROVE  Picks'
<1>. USE DEF TypeOK, Picks
<1>1. ASSUME NEW c \in Cpus, Select(c)
      PROVE  Picks'
  <2>1. UNCHANGED <<current, context>>
    BY <1>1 DEF Select
  <2>2. \/ tick' = [tick EXCEPT ![c] = "out"] /\ UNCHANGED best
        \/ \E t \in Threads : /\ Home[t] = c /\ t # current[c]
                              /\ tick' = [tick EXCEPT ![c] = "picked"]
                              /\ best' = [best EXCEPT ![c] = t]
    BY <1>1 DEF Select
  <2>. QED  BY <2>1, <2>2
<1>2. ASSUME NEW c \in Cpus, Switch(c)
      PROVE  Picks'
  <2>1. /\ best[c] \in Threads /\ Home[best[c]] = c /\ current[c] \in Threads
        /\ tick' = [tick EXCEPT ![c] = "off"] /\ UNCHANGED best
    BY <1>2 DEF Switch
  <2>2. \/ /\ current' = [current EXCEPT ![c] = best[c]]
           /\ context' = [context EXCEPT ![current[c]] = TRUE] /\ context[best[c]]
        \/ UNCHANGED <<current, context>>
    BY <1>2 DEF Switch
  <2>3. \A t \in Threads : context'[t] \/ current'[Home[t]] = t
    BY <2>1, <2>2, MachineAssumption
  <2>. QED  BY <2>1, <2>2, <2>3
<1>3. ASSUME NEW c \in Cpus, SwitchOn(c) \/ Enter(c)
      PROVE  Picks'
  BY <1>3 DEF SwitchOn, Enter
<1>4. CASE UNCHANGED cpuVars
  BY <1>4 DEF cpuVars
<1>5. CASE UNCHANGED vars
  BY <1>5 DEF vars, cpuVars
<1>6. ASSUME NEW t \in Threads,
             \/ SleepTime(t) \/ SleepWait(t) \/ SleepEnds(t) \/ Exit(t) \/ Enable(t)
             \/ Fault(t) \/ FaultDone(t) \/ FaultKills(t) \/ FaultEnds(t)
             \/ Save(t) \/ Off(t) \/ Lock(t) \/ Prepare(t) \/ Unlock(t) \/ Restore(t)
             \/ WalkFinds(t) \/ WalkClears(t) \/ WalkStarts(t) \/ Enqueue(t)
      PROVE  UNCHANGED cpuVars
  BY <1>6 DEF SleepTime, SleepWait, SleepEnds, Exit, Enable, Fault, FaultDone, FaultKills, FaultEnds,
              Save, Off, Lock, Prepare, Unlock, Restore, Restored,
              WalkFinds, WalkClears, WalkStarts, Enqueue
<1>. QED  BY <1>1, <1>2, <1>3, <1>4, <1>5, <1>6 DEF Next

(* At the moment of the switch the pick's context is there.                *)
LEMMA PicksSwitchable ==
    ASSUME TypeOK, Picks
    PROVE  SwitchNotGivenUp
BY DEF TypeOK, Picks, SwitchNotGivenUp

(* Every step keeps somebody who will turn the switch on.                  *)
LEMMA ComesBackStep ==
    ASSUME TypeOK, SchedulingComesBack, [Next]_vars
    PROVE  SchedulingComesBack'
<1>. USE MachineAssumption DEF TypeOK, TurnOn, Runs, SchedulingComesBack
<1>1. CASE UNCHANGED vars
  BY <1>1 DEF vars, switch, cpuVars, sleep, making
<1>2. ASSUME NEW c \in Cpus, Select(c)
      PROVE  SchedulingComesBack'
  BY <1>2 DEF Select, switch, cpuVars, sleep, making
<1>3. ASSUME NEW c \in Cpus, Switch(c)
      PROVE  SchedulingComesBack'
  BY <1>3 DEF Switch, switch, cpuVars, sleep, making
<1>4. ASSUME NEW c \in Cpus, SwitchOn(c)
      PROVE  SchedulingComesBack'
  BY <1>4 DEF SwitchOn, switch, cpuVars, sleep, making
<1>5. ASSUME NEW t \in Threads, SleepTime(t)
      PROVE  SchedulingComesBack'
  BY <1>5 DEF SleepTime, switch, cpuVars, sleep, making
<1>6. ASSUME NEW t \in Threads, SleepWait(t)
      PROVE  SchedulingComesBack'
  BY <1>6 DEF SleepWait, switch, cpuVars, sleep, making
<1>7. ASSUME NEW t \in Threads, SleepEnds(t)
      PROVE  SchedulingComesBack'
  BY <1>7 DEF SleepEnds, switch, cpuVars, sleep, making
<1>8. ASSUME NEW t \in Threads, Exit(t)
      PROVE  SchedulingComesBack'
  BY <1>8 DEF Exit, switch, cpuVars, sleep, making
<1>9. ASSUME NEW t \in Threads, Enable(t)
      PROVE  SchedulingComesBack'
  BY <1>9 DEF Enable, switch, cpuVars, sleep, making
<1>10. ASSUME NEW t \in Threads, Fault(t)
      PROVE  SchedulingComesBack'
  BY <1>10 DEF Fault, switch, cpuVars, sleep, making
<1>11. ASSUME NEW t \in Threads, FaultDone(t)
      PROVE  SchedulingComesBack'
  BY <1>11 DEF FaultDone, switch, cpuVars, sleep, making
<1>12. ASSUME NEW t \in Threads, Save(t)
      PROVE  SchedulingComesBack'
  BY <1>12 DEF Save, switch, cpuVars, sleep, making
<1>13. ASSUME NEW t \in Threads, Off(t)
      PROVE  SchedulingComesBack'
  BY <1>13 DEF Off, switch, cpuVars, sleep, making
<1>14. ASSUME NEW t \in Threads, Lock(t)
      PROVE  SchedulingComesBack'
  BY <1>14 DEF Lock, switch, cpuVars, sleep, making
<1>15. ASSUME NEW t \in Threads, Prepare(t)
      PROVE  SchedulingComesBack'
  BY <1>15 DEF Prepare, switch, cpuVars, sleep, making
<1>16. ASSUME NEW t \in Threads, Unlock(t)
      PROVE  SchedulingComesBack'
  BY <1>16 DEF Unlock, switch, cpuVars, sleep, making
<1>17. ASSUME NEW t \in Threads, Restore(t)
      PROVE  SchedulingComesBack'
  BY <1>17 DEF Restore, Restored, switch, cpuVars, sleep, making
<1>18. ASSUME NEW t \in Threads, WalkFinds(t)
      PROVE  SchedulingComesBack'
  BY <1>18 DEF WalkFinds, switch, cpuVars, sleep, making
<1>19. ASSUME NEW t \in Threads, WalkClears(t)
      PROVE  SchedulingComesBack'
  BY <1>19 DEF WalkClears, switch, cpuVars, sleep, making
<1>20. ASSUME NEW t \in Threads, WalkStarts(t)
      PROVE  SchedulingComesBack'
  BY <1>20 DEF WalkStarts, switch, cpuVars, sleep, making
<1>21. ASSUME NEW t \in Threads, Enqueue(t)
      PROVE  SchedulingComesBack'
  BY <1>21 DEF Enqueue, switch, cpuVars, sleep, making
<1>22. ASSUME NEW t \in Threads, FaultKills(t)
      PROVE  SchedulingComesBack'
  BY <1>22 DEF FaultKills, switch, cpuVars, sleep, making
<1>23. ASSUME NEW t \in Threads, FaultEnds(t)
      PROVE  SchedulingComesBack'
  BY <1>23 DEF FaultEnds, switch, cpuVars, sleep, making
<1>24. ASSUME NEW c \in Cpus, Enter(c)
      PROVE  SchedulingComesBack'
  BY <1>24 DEF Enter, switch, cpuVars, sleep, making
<1>. QED
  BY <1>1, <1>2, <1>3, <1>4, <1>5, <1>6, <1>7, <1>8, <1>9, <1>10, <1>11,
     <1>12, <1>13, <1>14, <1>15, <1>16, <1>17, <1>18, <1>19, <1>20, <1>21, <1>22, <1>23, <1>24
  DEF Next

(* Every step keeps the account of sleepers and of the walk.               *)
LEMMA SleepStep ==
    ASSUME TypeOK, Picks, SleepInv, [Next]_vars
    PROVE  SleepInv'
<1>. USE MachineAssumption
     DEF TypeOK, TurnOn, Runs, SleepInv, Sleeping, NotMade, OneCreator, WalkSound,
         SleepersKeepTheirTime
<1>1. CASE UNCHANGED vars
  BY <1>1 DEF vars, switch, cpuVars, sleep, making
<1>2. ASSUME NEW c \in Cpus, Select(c)
      PROVE  SleepInv'
  BY <1>2 DEF Select, switch, cpuVars, sleep, making
<1>3. ASSUME NEW c \in Cpus, Switch(c)
      PROVE  SleepInv'
  <2>1. context[best[c]]
    BY <1>3, PicksSwitchable DEF Switch, SwitchNotGivenUp
  <2>2. status' = [t \in Threads |->
                    IF t = current[c] /\ status[t] = "RUNNING" THEN "START"
                    ELSE IF t = best[c] /\ status[t] = "START" THEN "RUNNING" ELSE status[t]]
    BY <1>3, <2>1 DEF Switch
  <2>3. UNCHANGED <<timed, overrun, at, was, creating, newborn, found>>
    BY <1>3 DEF Switch, making
  <2>. QED  BY <2>2, <2>3
<1>4. ASSUME NEW c \in Cpus, SwitchOn(c)
      PROVE  SleepInv'
  BY <1>4 DEF SwitchOn, switch, cpuVars, sleep, making
<1>5. ASSUME NEW t \in Threads, SleepTime(t)
      PROVE  SleepInv'
  <2>1. /\ status[t] # "WAIT" /\ status[t] # "none" /\ creating # t
        /\ timed' = [timed EXCEPT ![t] = TRUE] /\ at' = [at EXCEPT ![t] = "timed"]
        /\ overrun' = overrun \ ({t} \ {found})
        /\ UNCHANGED <<status, creating, newborn, found>>
    BY <1>5 DEF SleepTime, Sleeps, making
  <2>2. Sleeping'
    BY <2>1
  <2>3. NotMade' /\ WalkSound'
    BY <2>1
  <2>4. OneCreator'
    BY <2>1
  <2>5. SleepersKeepTheirTime'
    BY <2>1
  <2>. QED  BY <2>2, <2>3, <2>4, <2>5
<1>6. ASSUME NEW t \in Threads, SleepWait(t)
      PROVE  SleepInv'
  BY <1>6 DEF SleepWait, switch, cpuVars, sleep, making
<1>7. ASSUME NEW t \in Threads, SleepEnds(t)
      PROVE  SleepInv'
  BY <1>7 DEF SleepEnds, switch, cpuVars, sleep, making
<1>8. ASSUME NEW t \in Threads, Exit(t)
      PROVE  SleepInv'
  BY <1>8 DEF Exit, switch, cpuVars, sleep, making
<1>9. ASSUME NEW t \in Threads, Enable(t)
      PROVE  SleepInv'
  BY <1>9 DEF Enable, switch, cpuVars, sleep, making
<1>10. ASSUME NEW t \in Threads, Fault(t)
      PROVE  SleepInv'
  BY <1>10 DEF Fault, switch, cpuVars, sleep, making
<1>11. ASSUME NEW t \in Threads, FaultDone(t)
      PROVE  SleepInv'
  BY <1>11 DEF FaultDone, switch, cpuVars, sleep, making
<1>12. ASSUME NEW t \in Threads, Save(t)
      PROVE  SleepInv'
  BY <1>12 DEF Save, switch, cpuVars, sleep, making
<1>13. ASSUME NEW t \in Threads, Off(t)
      PROVE  SleepInv'
  BY <1>13 DEF Off, switch, cpuVars, sleep, making
<1>14. ASSUME NEW t \in Threads, Lock(t)
      PROVE  SleepInv'
  BY <1>14 DEF Lock, switch, cpuVars, sleep, making
<1>15. ASSUME NEW t \in Threads, Prepare(t)
      PROVE  SleepInv'
  BY <1>15 DEF Prepare, switch, cpuVars, sleep, making
<1>16. ASSUME NEW t \in Threads, Unlock(t)
      PROVE  SleepInv'
  BY <1>16 DEF Unlock, switch, cpuVars, sleep, making
<1>17. ASSUME NEW t \in Threads, Restore(t)
      PROVE  SleepInv'
  BY <1>17 DEF Restore, Restored, switch, cpuVars, sleep, making
<1>18. ASSUME NEW t \in Threads, WalkFinds(t)
      PROVE  SleepInv'
  BY <1>18 DEF WalkFinds, switch, cpuVars, sleep, making
<1>19. ASSUME NEW t \in Threads, WalkClears(t)
      PROVE  SleepInv'
  BY <1>19 DEF WalkClears, switch, cpuVars, sleep, making
<1>20. ASSUME NEW t \in Threads, WalkStarts(t)
      PROVE  SleepInv'
  BY <1>20 DEF WalkStarts, switch, cpuVars, sleep, making
<1>21. ASSUME NEW t \in Threads, Enqueue(t)
      PROVE  SleepInv'
  BY <1>21 DEF Enqueue, switch, cpuVars, sleep, making
<1>22. ASSUME NEW t \in Threads, FaultKills(t)
      PROVE  SleepInv'
  BY <1>22 DEF FaultKills, switch, cpuVars, sleep, making
<1>23. ASSUME NEW t \in Threads, FaultEnds(t)
      PROVE  SleepInv'
  BY <1>23 DEF FaultEnds, switch, cpuVars, sleep, making
<1>24. ASSUME NEW c \in Cpus, Enter(c)
      PROVE  SleepInv'
  BY <1>24 DEF Enter, switch, cpuVars, sleep, making
<1>. QED
  BY <1>1, <1>2, <1>3, <1>4, <1>5, <1>6, <1>7, <1>8, <1>9, <1>10, <1>11,
     <1>12, <1>13, <1>14, <1>15, <1>16, <1>17, <1>18, <1>19, <1>20, <1>21, <1>22, <1>23, <1>24
  DEF Next

(* It all holds at the start.                                              *)
LEMMA InitInv ==
    ASSUME Init
    PROVE  IInv
<1>1. Boot \in [Cpus -> Threads]
  BY MachineAssumption DEF Threads
<1>2. TypeOK
  BY <1>1, MachineAssumption DEF Init, TypeOK, Places
<1>3. Picks
  BY <1>1, MachineAssumption DEF Init, Picks
<1>4. SchedulingComesBack /\ SleepInv
  BY MachineAssumption DEF Init, SchedulingComesBack, SleepInv, Sleeping, NotMade,
         OneCreator, WalkSound, SleepersKeepTheirTime
<1>. QED  BY <1>2, <1>3, <1>4 DEF IInv

(* The types and both properties hold in every reachable state.            *)
THEOREM InvariantThm == Spec => []IInv
<1>1. Init => IInv
  BY InitInv
<1>2. IInv /\ [Next]_vars => IInv'
  BY TypeStep, PicksStep, ComesBackStep, SleepStep DEF IInv
<1>. QED  BY <1>1, <1>2, PTL DEF Spec

(***************************************************************************)
(* On any number of processors is_scheduler never stays off because        *)
(* everybody who could turn it on has been switched away, except after the *)
(* race of restore_runtime_state with timer_handle that stranded marks.    *)
(***************************************************************************)
THEOREM SchedulingComesBackThm ==
    Spec => []SchedulingComesBack
<1>1. IInv => SchedulingComesBack
  BY DEF IInv
<1>. QED  BY <1>1, InvariantThm, PTL

(***************************************************************************)
(* A thread in scheduler_sleep_ns can be woken and an exited one stays     *)
(* dead, however many processors walk each other's queues, except after    *)
(* the race of add_task's walk with the sleeper's own processor.           *)
(***************************************************************************)
THEOREM SleepersKeepTheirTimeThm ==
    Spec => []SleepersKeepTheirTime
<1>1. IInv => SleepersKeepTheirTime
  BY DEF IInv, SleepInv
<1>. QED  BY <1>1, InvariantThm, PTL

(***************************************************************************)
(* timer_handle never gives up a switch because the pick has no context    *)
(* (scheduler.cpp:448): only idle threads and KernelMain start without     *)
(* one, as the current threads of their processors, and the pick is never  *)
(* current. That branch would set a dead current thread to RUNNING.        *)
(***************************************************************************)
THEOREM SwitchNotGivenUpThm ==
    Spec => []SwitchNotGivenUp
<1>1. IInv => SwitchNotGivenUp
  BY PicksSwitchable DEF IInv
<1>. QED  BY <1>1, InvariantThm, PTL
=============================================================================
