----------------------------- MODULE StackPool -----------------------------
(***************************************************************************)
(* Kernel stacks of the Zynq port (arch/arm32/src/kstack.c) over the page  *)
(* tables of vmap.c. A slot is a guard page below its stack pages. The     *)
(* pool lies in memory that is mapped in sections; a page is changed by    *)
(* itself only once its section is split, for which vmap takes a second-   *)
(* level table from a small pool and never gives it back. When there is no *)
(* table left a stack that is half mapped has to be rolled back.           *)
(*                                                                         *)
(* kmain alone creates threads and tries the guards, so a call is a step.  *)
(* Pages are numbered from the pool's first; offset is where in a section  *)
(* palloc put it. The TLB is the caller's core's: it may keep any          *)
(* translation that gave access until the page is flushed.                 *)
(***************************************************************************)
EXTENDS Integers

CONSTANTS
  Slots,         \* slot_count
  StackPages,    \* stack_pages
  SectionPages,  \* VMAP_L2_ENTRIES
  TableCounts,   \* values of l2_capacity
  Kinds          \* values of guard_kind: "unmapped", "ap_none"

ASSUME StackAssumption ==
  /\ Slots \in Nat /\ StackPages \in Nat /\ SectionPages \in Nat \ {0}
  /\ TableCounts \subseteq Nat /\ Kinds \subseteq {"unmapped", "ap_none"}

VARIABLES
  kind, offset, tables,  \* guard_kind, the pool's place and l2_capacity: fixed at the start
  entry,                 \* what the page tables say of each page
  taken,                 \* l2_used
  bitmap,                \* the slots marked as used
  handed,                \* ghost: the slots whose kstack_t a thread or kmain holds
  bare,                  \* ghost: those of them whose guard was switched off
  cached                 \* pages the TLB may still give access to

stackVars == <<kind, offset, tables, entry, taken, bitmap, handed, bare, cached>>

SlotNos     == 0..(Slots - 1)
Guard(s)    == s * (StackPages + 1)                        \* slot_guard_of
Stack(s)    == (Guard(s) + 1)..(Guard(s) + StackPages)
SlotPages(s) == {Guard(s)} \cup Stack(s)                   \* what flush_range covers
Pages       == UNION {SlotPages(s) : s \in SlotNos}
Section(p)  == {q \in Pages : (q + offset) \div SectionPages = (p + offset) \div SectionPages}

(***************************************************************************)
(* vmap.c. An entry is "section" (not split), "identity" (as splitting     *)
(* left it), "own" or "noaccess" (written for the pool), or "none". Tables *)
(* in the making are [entry, taken, err]; each function leaves its result  *)
(* in err and the tables alone if it fails.                                *)
(***************************************************************************)
Entries == {"section", "identity", "own", "noaccess", "none"}

Fail(vm, err) == [vm EXCEPT !.err = err]
Put(vm, p, e) == [vm EXCEPT !.entry[p] = e, !.err = "ok"]

\* Mutant: a section whose pages are under control already is filled again
SplitAgain(vm, p) ==
  IF vm.entry[p] \notin {"section", "none"} THEN Fail(vm, "ok")
  ELSE IF vm.taken >= tables THEN Fail(vm, "no_l2")
  ELSE [entry |-> [q \in Pages |-> IF q \in Section(p) THEN "identity" ELSE vm.entry[q]],
        taken |-> vm.taken + 1, err |-> "ok"]

Split(vm, p) ==                                            \* vmap_split_section
  IF vm.entry[p] # "section" THEN Fail(vm, "ok")
  ELSE IF vm.taken >= tables THEN Fail(vm, "no_l2")
  ELSE [entry |-> [q \in Pages |-> IF q \in Section(p) THEN "identity" ELSE vm.entry[q]],
        taken |-> vm.taken + 1, err |-> "ok"]

Map(vm, p, e) ==                                           \* vmap_map
  LET opened == Split(vm, p)
  IN IF vm.entry[p] \notin {"section", "none"} THEN Fail(vm, "already")
     ELSE IF opened.err # "ok" THEN opened
     ELSE Put(opened, p, e)

Unmap(vm, p) ==                                            \* vmap_unmap
  IF vm.entry[p] = "none" THEN Fail(vm, "not_mapped")
  ELSE IF vm.entry[p] = "section" THEN Fail(vm, "is_section")
  ELSE Put(vm, p, "none")

SetAttr(vm, p, e) ==                                       \* vmap_set_attr
  IF vm.entry[p] = "none" THEN Fail(vm, "not_mapped")
  ELSE IF vm.entry[p] = "section" THEN Fail(vm, "is_section")
  ELSE Put(vm, p, e)

(***************************************************************************)
(* kstack.c over it.                                                       *)
(***************************************************************************)
Tolerate(vm, errs) == IF vm.err \in errs THEN Fail(vm, "ok") ELSE vm

GuardUnmap(vm, p) ==                                       \* guard_unmap
  LET first  == Unmap(vm, p)
      opened == Split(vm, p)
  IN Tolerate(IF first.err # "is_section" THEN first
              ELSE IF opened.err # "ok" THEN opened
              ELSE Unmap(opened, p), {"not_mapped"})

GuardApply(vm, p) ==                                       \* guard_apply
  LET opened == Split(vm, p)
  IN IF kind # "ap_none" THEN GuardUnmap(vm, p)
     ELSE IF opened.err # "ok" THEN opened
     ELSE IF opened.entry[p] = "none" THEN Map(opened, p, "noaccess")
     ELSE SetAttr(opened, p, "noaccess")

PageClaim(vm, p) ==                                        \* page_claim
  LET opened  == Split(vm, p)
      cleared == Tolerate(Unmap(opened, p), {"not_mapped"})
  IN IF opened.err # "ok" THEN opened
     ELSE IF cleared.err # "ok" THEN cleared
     ELSE Map(cleared, p, "own")

\* The stack pages from the bottom; the first one that cannot be claimed ends it
ClaimStack(vm, s) ==
  LET claim[i \in 0..StackPages] ==
        IF i = 0 THEN vm
        ELSE IF claim[i - 1].err # "ok" THEN claim[i - 1]
        ELSE PageClaim(claim[i - 1], Guard(s) + i)
  IN claim[StackPages]

\* slot_release: all pages of the slot, whatever became of the guard
SlotRelease(vm, s) ==
  LET guarded == GuardUnmap(vm, Guard(s))
  IN [guarded EXCEPT !.entry = [p \in Pages |-> IF p \in Stack(s) /\ @[p] # "section"
                                                THEN "none" ELSE @[p]]]

\* Mutant: the stack pages first, as the comment says the first version did
SlotSetupGuardLast(vm, s) ==
  LET claimed == ClaimStack(vm, s)
  IN IF claimed.err # "ok" THEN claimed ELSE GuardApply(claimed, Guard(s))

SlotSetup(vm, s) ==                                        \* the two parts of kstack_alloc
  LET guarded == GuardApply(vm, Guard(s))
  IN IF guarded.err # "ok" THEN guarded ELSE ClaimStack(guarded, s)

-----------------------------------------------------------------------------
Now == [entry |-> entry, taken |-> taken, err |-> "ok"]

Accessible(tab) == {p \in Pages : tab[p] \in {"section", "identity", "own"}}

Become(vm, flushed) ==
  /\ entry' = vm.entry /\ taken' = vm.taken
  /\ cached' = (cached \ flushed) \cup Accessible(vm.entry)

StackInit ==
  /\ kind \in Kinds /\ offset \in 0..(SectionPages - 1) /\ tables \in TableCounts
  /\ entry = [p \in Pages |-> "section"] /\ taken = 0
  /\ bitmap = {} /\ handed = {} /\ bare = {}
  /\ cached = Pages

fixed == <<kind, offset, tables>>

(***************************************************************************)
(* kstack_alloc takes the first free slot, and marks it before it maps.    *)
(* After a failure the slot is free again only if the rollback succeeded.  *)
(***************************************************************************)
KstackAlloc ==
  \E s \in SlotNos \ bitmap :
    LET done == SlotSetup(Now, s)
        back == SlotRelease(done, s)
    IN /\ \A q \in SlotNos \ bitmap : s <= q
       /\ IF done.err = "ok"
          THEN Become(done, SlotPages(s)) /\ handed' = handed \cup {s} /\ bitmap' = bitmap \cup {s}
          ELSE /\ Become(back, SlotPages(s)) /\ UNCHANGED handed
               /\ bitmap' = IF back.err = "ok" THEN bitmap ELSE bitmap \cup {s}
       /\ UNCHANGED <<fixed, bare>>

\* kstack_free: a slot that cannot be released stays marked and its handle valid
KstackFree(s) ==
  LET back == SlotRelease(Now, s)
  IN /\ s \in handed
     /\ Become(back, SlotPages(s))
     /\ IF back.err = "ok"
        THEN bitmap' = bitmap \ {s} /\ handed' = handed \ {s} /\ bare' = bare \ {s}
        ELSE UNCHANGED <<bitmap, handed, bare>>
     /\ UNCHANGED fixed

KstackGuardDisable(s) ==
  LET p    == Guard(s)
      done == IF entry[p] = "section" THEN Split(Now, p)
              ELSE IF entry[p] = "none" THEN Map(Now, p, "own")
              ELSE SetAttr(Now, p, "own")
  IN /\ s \in handed /\ done.err = "ok"
     /\ Become(done, {p}) /\ bare' = bare \cup {s}
     /\ UNCHANGED <<fixed, bitmap, handed>>

KstackGuardEnable(s) ==
  LET done == GuardApply(Now, Guard(s))
  IN /\ s \in handed /\ done.err = "ok"
     /\ Become(done, {Guard(s)}) /\ bare' = bare \ {s}
     /\ UNCHANGED <<fixed, bitmap, handed>>

StackNext ==
  \/ KstackAlloc
  \/ \E s \in SlotNos : KstackFree(s) \/ KstackGuardDisable(s) \/ KstackGuardEnable(s)

StackSpec == StackInit /\ [][StackNext]_stackVars
-----------------------------------------------------------------------------
(***************************************************************************)
(* Properties                                                              *)
(***************************************************************************)

\* Every variable has its type (kstack_pool_t and the tables of vmap_t)
StackTypeOK ==
  /\ kind \in Kinds /\ offset \in 0..(SectionPages - 1) /\ tables \in TableCounts
  /\ entry \in [Pages -> Entries]
  /\ taken \in 0..tables
  /\ bitmap \subseteq SlotNos /\ handed \subseteq bitmap /\ bare \subseteq handed
  /\ cached \subseteq Pages

(***************************************************************************)
(* A stack that was handed out has all its pages, and a guard that neither *)
(* the tables nor what the TLB may remember give access to, unless it was  *)
(* switched off: no later split fills the guard in again (kstack.c:217),   *)
(* and a slot gets its guard back after kstack_guard_disable and           *)
(* kstack_free (kstack.c:505).                                             *)
(***************************************************************************)
GuardsHold ==
  \A s \in handed :
    /\ \A p \in Stack(s) : entry[p] = "own"
    /\ s \in bare \/ Guard(s) \notin cached

(***************************************************************************)
(* A free slot has no page the pool has mapped, and a slot that is marked  *)
(* without having been handed out (kstack.c:474 leaks it on purpose) is    *)
(* one whose guard's section could not be split, with nothing of it        *)
(* changed: a failure half-way leaves no other trace.                      *)
(***************************************************************************)
FailuresLeaveNoTrace ==
  /\ \A s \in SlotNos \ bitmap : \A p \in SlotPages(s) :
       entry[p] \notin {"own", "noaccess"} /\ (entry[p] = "none" => p \notin cached)
  /\ \A s \in bitmap \ handed :
       /\ entry[Guard(s)] = "section" /\ taken = tables
       /\ \A p \in SlotPages(s) : entry[p] \in {"section", "identity"}
=============================================================================
