------------------------------ MODULE VfsNode ------------------------------
(***************************************************************************)
(* The life of a vfs_node_t (driver/fs/vfs/vfs.cpp): one name in one FAT   *)
(* directory that processes open, hand to their children, close, unlink    *)
(* and create again. A node counts one reference for its place in the tree *)
(* and one for each descriptor and each call that found it. System calls   *)
(* run with interrupts masked and applications on one processor, so that   *)
(* a call is interrupted only where it waits for the lock of the FAT       *)
(* driver; everything between two such waits is a step. fatfs.cpp writes   *)
(* node->type when it refreshes a node, and the mark file_delete with it.  *)
(***************************************************************************)
EXTENDS Integers, Sequences, FiniteSets, Functions

CONSTANTS
  Procs,      \* single-threaded processes
  Addresses,  \* 1..n: where nodes are allocated
  MaxFds      \* bound: descriptors a process has for one node

ASSUME VfsAssumption ==
  /\ IsFiniteSet(Procs) /\ IsFiniteSet(Addresses)
  /\ 1 \in Addresses /\ MaxFds \in Nat

VARIABLES
  node,       \* at each address: alive, del (file_delete), ref (refcount), handle (not NULL)
  children,   \* the directory's list, newest first; a node outside of it has no parent
  onDisk,     \* whether the directory on the disk has the name
  fds,        \* how many descriptors each process has for each node
  call,       \* what each process waits in
  wiped       \* ghost: nodes whose mark a refresh by another call has overwritten

vfsVars == <<node, children, onDisk, fds, call, wiped>>

Fresh == [alive |-> TRUE, del |-> FALSE, ref |-> 1, handle |-> FALSE]      \* vfs_node_alloc
Gone  == [alive |-> FALSE, del |-> FALSE, ref |-> 0, handle |-> FALSE]
Idle  == [at |-> "idle", op |-> "open", n |-> 1, deleting |-> FALSE]

\* Where a call waits for the driver, what it is to do, and its node with the mark it remembers
Call == [at : {"idle", "walk", "parent", "mkfile", "stat", "update", "redo", "delete", "close"},
         op : {"open", "create", "unlink"}, n : Addresses, deleting : BOOLEAN]

Linked(n) == n \in Range(children)

\* The descriptors of a node, numbered in each process
Descriptors(n) == {d \in Procs \X (1..MaxFds) : d[2] <= fds[d[1]][n]}
Opened(n)      == Cardinality(Descriptors(n))

\* Calls that have counted themselves, and those that use the node in any way
Holders(n) == {p \in Procs : call[p].n = n /\ call[p].at \in {"stat", "update", "redo", "delete"}}
Users(n)   == Holders(n) \cup {p \in Procs : call[p].n = n /\ call[p].at = "close"}

\* malloc: the instance reuses an address only when nothing points there any more
Unused == {n \in Addresses : ~node[n].alive /\ Users(n) = {} /\ Opened(n) = 0}
Room   == Cardinality(Unused) >= 2      \* bound: a step that may allocate takes two nodes at most

VfsInit ==
  /\ node = [n \in Addresses |-> Gone] /\ children = <<>> /\ onDisk = TRUE
  /\ fds = [p \in Procs |-> [n \in Addresses |-> 0]]
  /\ call = [p \in Procs |-> Idle]
  /\ wiped = {}

Begin(p, op) ==
  /\ call[p].at = "idle"
  /\ call' = [call EXCEPT ![p] = [Idle EXCEPT !.at = "walk", !.op = op]]
  /\ UNCHANGED <<node, children, onDisk, fds, wiped>>

(***************************************************************************)
(* fatfs_stat of the directory. Of the nodes with the name the first one   *)
(* of the list counts as visited, if the disk has the name; another one    *)
(* leaves the list and is freed unless somebody refers to it. A name on    *)
(* the disk without a node gets one.                                       *)
(***************************************************************************)
\* The list after list_delete of the members in S; a lookup skips its S likewise
Without(list, S) ==
  LET kept[i \in 0..Len(list)] ==
        IF i = 0 THEN <<>>
        ELSE IF list[i] \in S THEN kept[i - 1] ELSE Append(kept[i - 1], list[i])
  IN kept[Len(list)]

\* Mutant: referred to or not
PrunableAlways(n) == Linked(n) /\ ~(onDisk /\ Head(children) = n)

Prunable(n) == Linked(n) /\ ~(onDisk /\ Head(children) = n) /\ node[n].ref <= 1

Append1(dir) ==
  LET a == CHOOSE n \in Unused : ~dir.node[n].alive
  IN [node |-> [dir.node EXCEPT ![a] = Fresh], children |-> <<a>> \o dir.children]

Refreshed ==
  LET pruned == [node     |-> [n \in Addresses |-> IF Prunable(n) THEN Gone ELSE node[n]],
                 children |-> Without(children, {n \in Addresses : Prunable(n)})]
  IN IF onDisk /\ children = <<>> THEN Append1(pruned) ELSE pruned

\* vfs_open_impl: the directory is brought up to date, then the name is looked up and referenced
Walk(p) ==
  LET visible == Without(Refreshed.children, {n \in Addresses : Refreshed.node[n].del})
  IN /\ call[p].at = "walk" /\ Room
     /\ children' = Refreshed.children
     /\ IF visible = <<>>
        THEN /\ node' = Refreshed.node
             /\ call' = [call EXCEPT ![p] = IF @.op = "create" THEN [@ EXCEPT !.at = "parent"] ELSE Idle]
        ELSE /\ node' = [Refreshed.node EXCEPT ![Head(visible)].ref = @ + 1]
             /\ call' = [call EXCEPT ![p].at = "stat", ![p].n = Head(visible), ![p].deleting = FALSE]
     /\ wiped' = wiped \ Unused
     /\ UNCHANGED <<onDisk, fds>>

\* vfs_mkfile: it opens the directory, and appends a node before the file exists
MkNode(p) ==
  /\ call[p].at = "parent" /\ Room
  /\ LET added == Append1(Refreshed)
     IN node' = added.node /\ children' = added.children
  /\ call' = [call EXCEPT ![p].at = "mkfile"]
  /\ wiped' = wiped \ Unused
  /\ UNCHANGED <<onDisk, fds>>

\* fatfs_mkfile, and the second vfs_open of open_kernel_path
MkFile(p) ==
  /\ call[p].at = "mkfile"
  /\ onDisk' = TRUE
  /\ call' = [call EXCEPT ![p].at = "walk", ![p].op = "open"]
  /\ UNCHANGED <<node, children, fds, wiped>>

(***************************************************************************)
(* do_open, which remembers the mark before it waits and sets it again,    *)
(* through fatfs_stat or, without a handle, fatfs_open: both write the     *)
(* type, but only if the disk has the name.                                *)
(***************************************************************************)
Updated(n, deleting) ==
  LET r == node[n]
  IN IF ~r.handle /\ ~Linked(n) THEN r
     ELSE IF onDisk THEN [r EXCEPT !.handle = TRUE, !.del = deleting]
     ELSE [r EXCEPT !.del = @ \/ deleting]

WipedBy(n, r) == IF node[n].del /\ ~r.del THEN wiped \cup {n} ELSE wiped

\* The rest of vfs_close, for a node whose count is lowered already
Leave(p, n, r) ==
  /\ node' = [node EXCEPT ![n] = IF r.ref = 0 /\ ~r.handle /\ r.del THEN Gone ELSE r]
  /\ call' = [call EXCEPT ![p] = IF r.ref = 0 /\ r.handle
                                 THEN [@ EXCEPT !.at = "close", !.n = n, !.deleting = r.del]
                                 ELSE Idle]

Less(r, k) == [r EXCEPT !.ref = IF @ > k THEN @ - k ELSE 0]

\* Opening: vfs_open has updated the node, open_kernel_path does so once more
OpenStat(p) ==
  LET n == call[p].n
      r == Updated(n, call[p].deleting)
  IN /\ call[p].at = "stat" /\ call[p].op # "unlink" /\ node[n].alive
     /\ node' = [node EXCEPT ![n] = r] /\ wiped' = WipedBy(n, r)
     /\ call' = [call EXCEPT ![p].at = "update", ![p].deleting = r.del]
     /\ UNCHANGED <<children, onDisk, fds>>

OpenUpdate(p) ==
  LET n == call[p].n
      r == Updated(n, call[p].deleting)
  IN /\ call[p].at = "update" /\ node[n].alive
     /\ wiped' = WipedBy(n, r)
     /\ IF r.handle
        THEN /\ fds[p][n] < MaxFds /\ fds' = [fds EXCEPT ![p][n] = @ + 1]
             /\ node' = [node EXCEPT ![n] = r] /\ call' = [call EXCEPT ![p] = Idle]
        ELSE Leave(p, n, Less(r, 1)) /\ UNCHANGED fds
     /\ UNCHANGED <<children, onDisk>>

(***************************************************************************)
(* sys_unlink and vfs_delete. A node that is marked is not a plain file    *)
(* any more and is closed; one that left the tree meanwhile is refused,    *)
(* with the reference of the call. Without a handle do_update tries for    *)
(* one, which waits again.                                                 *)
(***************************************************************************)
UnlinkStat(p) ==
  LET n == call[p].n
      r == Updated(n, FALSE)
  IN /\ call[p].at = "stat" /\ call[p].op = "unlink" /\ node[n].alive
     /\ wiped' = WipedBy(n, r)
     /\ IF r.del THEN Leave(p, n, Less(r, 1))
        ELSE IF ~Linked(n)
        THEN node' = [node EXCEPT ![n] = r] /\ call' = [call EXCEPT ![p] = Idle]
        ELSE /\ node' = [node EXCEPT ![n] = [r EXCEPT !.del = TRUE]]
             /\ call' = [call EXCEPT ![p].at = IF r.handle THEN "delete" ELSE "redo", ![p].deleting = TRUE]
     /\ UNCHANGED <<children, onDisk, fds>>

DeleteFails(p, n, r) == Leave(p, n, Less([r EXCEPT !.del = FALSE], 1))

UnlinkRedo(p) ==
  LET n == call[p].n
      r == Updated(n, TRUE)
  IN /\ call[p].at = "redo" /\ node[n].alive
     /\ IF r.handle
        THEN node' = [node EXCEPT ![n] = r] /\ call' = [call EXCEPT ![p].at = "delete"]
        ELSE DeleteFails(p, n, r)
     /\ UNCHANGED <<children, onDisk, fds, wiped>>

\* fatfs_delete succeeds: the node leaves the tree, and with the last reference goes
UnlinkDone(p) ==
  LET n == call[p].n
      r == Less(node[n], 2)
  IN /\ call[p].at = "delete" /\ node[n].alive /\ onDisk
     /\ onDisk' = FALSE
     /\ children' = Without(children, {n})
     /\ Leave(p, n, IF r.ref = 0 THEN [r EXCEPT !.del = TRUE] ELSE r)   \* freed, whatever the mark says
     /\ UNCHANGED <<fds, wiped>>

\* The name is gone, or the disk fails: the mark is taken back
UnlinkFails(p) ==
  LET n == call[p].n
  IN /\ call[p].at = "delete" /\ node[n].alive
     /\ DeleteFails(p, n, node[n])
     /\ UNCHANGED <<children, onDisk, fds, wiped>>

(***************************************************************************)
(* vfs_close of a descriptor, and the wait of its last part for the        *)
(* driver's close; fd_dup, by which a fork counts the child's descriptors. *)
(***************************************************************************)
Close(p, n) ==
  /\ call[p].at = "idle" /\ fds[p][n] > 0 /\ node[n].alive
  /\ fds' = [fds EXCEPT ![p][n] = @ - 1]
  /\ Leave(p, n, Less(node[n], 1))
  /\ UNCHANGED <<children, onDisk, wiped>>

Closed(p) ==
  LET n == call[p].n
  IN /\ call[p].at = "close" /\ node[n].alive
     /\ node' = [node EXCEPT ![n] = IF call[p].deleting THEN Gone ELSE [@ EXCEPT !.handle = FALSE]]
     /\ children' = IF call[p].deleting THEN Without(children, {n}) ELSE children
     /\ call' = [call EXCEPT ![p] = Idle]
     /\ UNCHANGED <<onDisk, fds, wiped>>

FdDup(p, q, n) ==
  /\ call[p].at = "idle" /\ fds[p][n] > 0 /\ fds[q][n] < MaxFds /\ node[n].alive
  /\ fds' = [fds EXCEPT ![q][n] = @ + 1]
  /\ node' = [node EXCEPT ![n].ref = @ + 1]
  /\ UNCHANGED <<children, onDisk, call, wiped>>

VfsNext ==
  \E p \in Procs :
    \/ \E op \in {"open", "create", "unlink"} : Begin(p, op)
    \/ Walk(p) \/ MkNode(p) \/ MkFile(p)
    \/ OpenStat(p) \/ OpenUpdate(p)
    \/ UnlinkStat(p) \/ UnlinkRedo(p) \/ UnlinkDone(p) \/ UnlinkFails(p)
    \/ \E n \in Addresses : Close(p, n) \/ \E q \in Procs \ {p} : FdDup(p, q, n)
    \/ Closed(p)

VfsSpec == VfsInit /\ [][VfsNext]_vfsVars
-----------------------------------------------------------------------------
(***************************************************************************)
(* Properties                                                              *)
(***************************************************************************)

\* Every variable has its type (struct vfs_node and the calls on the way)
VfsTypeOK ==
  /\ node \in [Addresses -> [alive : BOOLEAN, del : BOOLEAN, ref : Nat, handle : BOOLEAN]]
  /\ children \in Seq(Addresses) /\ onDisk \in BOOLEAN
  /\ fds \in [Procs -> [Addresses -> 0..MaxFds]]
  /\ call \in [Procs -> Call]
  /\ wiped \subseteq Addresses

References(n) == Opened(n) + Cardinality(Holders(n)) + (IF Linked(n) THEN 1 ELSE 0)

(***************************************************************************)
(* A node is there as long as the tree, a descriptor or a call refers to   *)
(* it, also after its name is unlinked ("Any other open references keep    *)
(* the detached node alive", vfs.cpp:465), its count says how many do, and *)
(* it is gone when nobody does. The one exception is a node whose mark a   *)
(* refresh has wiped out (vfs.cpp:119 against fatfs.cpp:674): two unlinks  *)
(* of it may be under way at once.                                         *)
(***************************************************************************)
NodesAlive ==
  \A n \in Addresses \ wiped :
    /\ node[n].alive => node[n].ref = References(n)
    /\ ~node[n].alive => References(n) = 0 /\ Users(n) = {}
    /\ node[n].alive /\ References(n) = 0 => Users(n) # {}
=============================================================================
