---------------------------- MODULE MCStructures ----------------------------
(***************************************************************************)
(* X86Sched, Frames, StackPool and VfsNode on small instances. They do not *)
(* interact: a behaviour is one of the first, the second, the third or the *)
(* fourth, chosen at the start, while the variables of the others rest.    *)
(***************************************************************************)
EXTENDS X86Sched, Frames, VfsNode, StackPool, TLC

VARIABLE which

\* Two processors; "worker" may create "second" in the other one's queue, and "app" tries to fork
BootThreads == [bsp |-> "main", ap |-> "idle"]
Homes == [main |-> "bsp", app |-> "bsp", second |-> "bsp", idle |-> "ap", reaper |-> "ap", worker |-> "ap"]

\* The high zone is tried first; the low one has a frame 0 that boot does not give away
TheZones   == <<4..7, 0..1>>
TheRegions == <<<<1, 2>>, <<4, 8>>>>

Sym == Permutations(Callers) \cup Permutations(Procs)

FamilyInit ==
  /\ which \in {"frames", "stacks", "nodes", "sched"}
  /\ FramesInit /\ StackInit /\ VfsInit /\ Init
  /\ which # "stacks" => offset = 0 /\ tables = 1 /\ kind = "unmapped"

FamilyNext ==
  /\ \/ which = "frames" /\ FramesNext /\ UNCHANGED <<stackVars, vfsVars, vars>>
     \/ which = "stacks" /\ StackNext /\ UNCHANGED <<framesVars, vfsVars, vars>>
     \/ which = "nodes"  /\ VfsNext /\ UNCHANGED <<framesVars, stackVars, vars>>
     \/ which = "sched"  /\ Next /\ UNCHANGED <<framesVars, stackVars, vfsVars>>
  /\ UNCHANGED which

FamilySpec == FamilyInit /\ [][FamilyNext]_<<framesVars, stackVars, vfsVars, vars, which>>
=============================================================================
