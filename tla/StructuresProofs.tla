-------------------------- MODULE StructuresProofs --------------------------
(***************************************************************************)
(* The life of a file node for any number of processes, addresses and      *)
(* descriptors, the guarded kernel stacks for any number of slots, pages   *)
(* and tables, and the frame allocator for any zones, regions, orders and  *)
(* processors. What the loops over a directory's list, over the pages of   *)
(* a stack and over the orders of a merge compute is proved with UpTo:     *)
(* induction up to a bound, of a set instead of an operator.               *)
(***************************************************************************)
EXTENDS VfsNode, StackPool, Frames, FiniteSetTheorems, SequenceTheorems, WellFoundedInduction, TLAPS

\* What holds of 0 and goes on holding, holds up to any bound
LEMMA UpTo ==
  ASSUME NEW L \in Nat, NEW S, 0 \in S, \A i \in 1..L : i - 1 \in S => i \in S
  PROVE  0..L \subseteq S
<1> DEFINE R == OpToRel(<, Nat)
           B == (0..L) \ S
<1>1. IsWellFoundedOn(R, Nat)
  BY NatLessThanWellFounded
<1>2. \A i, j \in Nat : i < j => <<i, j>> \in R
  BY DEF OpToRel
<1> SUFFICES ASSUME B # {} PROVE FALSE
  OBVIOUS
<1>3. B \subseteq Nat
  OBVIOUS
<1> HIDE DEF R
<1>4. PICK i \in B : \A j \in B : ~(<<j, i>> \in R)
  BY <1>1, <1>3, WFMin
<1>5. i \in 1..L
  BY <1>4
<1>6. i - 1 \in Nat /\ i - 1 \notin B
  <2>1. i \in Nat /\ i - 1 \in Nat /\ i - 1 < i
    BY <1>5
  <2>2. <<i - 1, i>> \in R
    BY <1>2, <2>1
  <2> QED
    BY <1>4, <2>1, <2>2
<1>7. i - 1 \in S
  BY <1>5, <1>6
<1> QED
  BY <1>4, <1>5, <1>7

LEMMA AppendRange ==
  ASSUME NEW A, NEW s \in Seq(A), NEW a \in A
  PROVE  Range(Append(s, a)) = Range(s) \cup {a}
<1> DEFINE t == Append(s, a)
<1>1. /\ DOMAIN t = 1..(Len(s) + 1) /\ DOMAIN s = 1..Len(s) /\ Len(s) \in Nat
      /\ \A i \in 1..Len(s) : t[i] = s[i]
      /\ t[Len(s) + 1] = a
  BY AppendProperties, LenProperties
<1> HIDE DEF t
<1>2. DOMAIN t = DOMAIN s \cup {Len(s) + 1}
  BY <1>1
<1> QED
  BY <1>1, <1>2 DEF Range, t

\* Deleting some members of a list leaves the others
LEMMA WithoutLeaves ==
  ASSUME NEW A, NEW list \in Seq(A), NEW T
  PROVE  Without(list, T) \in Seq(A) /\ Range(Without(list, T)) = Range(list) \ T
<1> DEFINE L == Len(list)
           Next1(g, i) == IF list[i] \in T THEN g ELSE Append(g, list[i])
           Kept(f, i) == IF i = 0 THEN <<>> ELSE Next1(f[i - 1], i)
           kept == CHOOSE f : f = [i \in 0..L |-> Kept(f, i)]
<1>1. L \in Nat
  BY LenProperties
<1>2. Without(list, T) = kept[L]
  BY DEF Without
<1> HIDE DEF L, Next1
<1>3. \A n \in 0..L : \E f : f = [i \in 0..n |-> Kept(f, i)]
  <2> DEFINE S == {n \in 0..L : \E f : f = [i \in 0..n |-> Kept(f, i)]}
  <2>1. 0 \in S
    <3> DEFINE f == [i \in 0..0 |-> <<>>]
    <3>1. \A i \in 0..0 : i = 0
      OBVIOUS
    <3>2. f = [i \in 0..0 |-> Kept(f, i)]
      BY <3>1
    <3> HIDE DEF f
    <3> QED
      BY <1>1, <3>2
  <2>2. ASSUME NEW n \in 1..L, n - 1 \in S PROVE n \in S
    <3>1. PICK g : g = [i \in 0..(n - 1) |-> Kept(g, i)]
      BY <2>2
    <3> DEFINE f == [i \in 0..n |-> IF i = n THEN Kept(g, n) ELSE g[i]]
    <3>2. \A i \in 0..n : i # 0 => i - 1 \in 0..n /\ i - 1 # n /\ f[i - 1] = g[i - 1]
      BY <1>1
    <3>3. \A i \in 0..n : Kept(f, i) = Kept(g, i)
      BY <3>2
    <3>4. \A i \in 0..(n - 1) : g[i] = Kept(g, i)
      <4> HIDE DEF Kept
      <4> QED
        BY <3>1
    <3>5. \A i \in 0..n : f[i] = Kept(f, i)
      <4>1. \A i \in 0..n : f[i] = Kept(g, i)
        <5> HIDE DEF Kept
        <5>1. \A i \in 0..n : i # n => i \in 0..(n - 1)
          BY <1>1
        <5> QED
          BY <3>4, <5>1
      <4> HIDE DEF Kept, f
      <4> QED
        BY <3>3, <4>1
    <3>6. f = [i \in 0..n |-> Kept(f, i)]
      <4>1. f = [i \in 0..n |-> f[i]]
        OBVIOUS
      <4> HIDE DEF f, Kept
      <4> QED
        BY <3>5, <4>1
    <3> HIDE DEF f, Kept
    <3> QED
      BY <3>6
  <2> HIDE DEF S
  <2>3. 0..L \subseteq S
    BY <1>1, <2>1, <2>2, UpTo
  <2> QED
    BY <2>3 DEF S
<1>4. kept = [i \in 0..L |-> Kept(kept, i)]
  <2>1. \E f : f = [i \in 0..L |-> Kept(f, i)]
    BY <1>1, <1>3
  <2> HIDE DEF Kept
  <2> QED
    BY <2>1
<1> HIDE DEF kept
<1>5. \A i \in 0..L : kept[i] = Kept(kept, i)
  <2> HIDE DEF Kept
  <2> QED
    BY <1>4
<1>6. kept[0] = <<>> /\ \A i \in 1..L : i - 1 \in 0..L /\ kept[i] = Next1(kept[i - 1], i)
  BY <1>1, <1>5
<1> HIDE DEF Kept
<1> DEFINE First(i) == {list[j] : j \in 1..i}
           G == {i \in 0..L : kept[i] \in Seq(A) /\ Range(kept[i]) = First(i) \ T}
<1>7. 0 \in G
  <2>1. <<>> \in Seq(A) /\ Range(<<>>) = {}
    BY DEF Range
  <2>2. First(0) = {}
    OBVIOUS
  <2>3. 0 \in 0..L
    BY <1>1
  <2> HIDE DEF First
  <2>4. kept[0] \in Seq(A) /\ Range(kept[0]) = First(0) \ T
    BY <1>6, <2>1, <2>2
  <2> QED
    BY <2>3, <2>4
<1>8. ASSUME NEW i \in 1..L, i - 1 \in G PROVE i \in G
  <2>1. list[i] \in A
    BY <1>1 DEF L
  <2>2. First(i) = First(i - 1) \cup {list[i]}
    <3>1. 1..i = 1..(i - 1) \cup {i}
      BY <1>1
    <3> QED
      BY <3>1
  <2> HIDE DEF First
  <2>3. kept[i - 1] \in Seq(A) /\ Range(kept[i - 1]) = First(i - 1) \ T
    BY <1>8
  <2>4. kept[i] = Next1(kept[i - 1], i)
    BY <1>6
  <2>5. CASE list[i] \in T
    <3>1. kept[i] = kept[i - 1]
      BY <2>4, <2>5 DEF Next1
    <3> QED
      BY <1>1, <2>2, <2>3, <2>5, <3>1
  <2>6. CASE list[i] \notin T
    <3>1. kept[i] = Append(kept[i - 1], list[i])
      BY <2>4, <2>6 DEF Next1
    <3>2. kept[i] \in Seq(A)
      BY <2>1, <2>3, <3>1
    <3>3. Range(kept[i]) = Range(kept[i - 1]) \cup {list[i]}
      BY <2>1, <2>3, <3>1, AppendRange
    <3> QED
      BY <1>1, <2>2, <2>3, <2>6, <3>2, <3>3
  <2> QED
    BY <2>5, <2>6
<1> HIDE DEF G
<1>9. L \in G
  <2>1. 0..L \subseteq G
    BY <1>1, <1>7, <1>8, UpTo
  <2> QED
    BY <1>1, <2>1
<1>10. Range(list) = First(L)
  BY DEF Range, L
<1> QED
  BY <1>2, <1>9, <1>10 DEF G
-----------------------------------------------------------------------------
(***************************************************************************)
(* The inductive invariant. A node in the tree has the count it should     *)
(* have, wiped or not. Of a node that nobody has wiped, moreover, at most  *)
(* one call deletes it, and marks it while it does so; only a marked node  *)
(* is outside of the tree; and the last reference has gone when a call     *)
(* waits for the driver's close, which one call does, to free the node.    *)
(***************************************************************************)
Deleters(n) == {p \in Procs : call[p].n = n /\ call[p].at \in {"redo", "delete"}}
Closers(n)  == {p \in Procs : call[p].n = n /\ call[p].at = "close"}

Counted(n) ==
  /\ node[n].alive => node[n].ref = References(n)
  /\ ~node[n].alive => References(n) = 0 /\ Users(n) = {}
  /\ node[n].alive /\ References(n) = 0 => Users(n) # {}

Marked(n) ==
  /\ node[n].alive /\ ~Linked(n) => node[n].del
  /\ Deleters(n) # {} => Linked(n) /\ node[n].del
  /\ \A p, q \in Deleters(n) : p = q
  /\ Closers(n) # {} => node[n].ref = 0
  /\ \A p, q \in Closers(n) : p = q /\ call[p].deleting

Sound(n) ==
  /\ Linked(n) => node[n].alive /\ node[n].ref = References(n)
  /\ n \notin wiped => Counted(n) /\ Marked(n)

VInv == VfsTypeOK /\ \A n \in Addresses : Sound(n)

NodeType == [alive : BOOLEAN, del : BOOLEAN, ref : Nat, handle : BOOLEAN]
-----------------------------------------------------------------------------
\* Counting

LEMMA FiniteCounts ==
  /\ \A S \in SUBSET Procs : IsFiniteSet(S) /\ Cardinality(S) \in Nat
  /\ \A S \in SUBSET (Procs \X (1..MaxFds)) : IsFiniteSet(S) /\ Cardinality(S) \in Nat
<1>1. IsFiniteSet(Procs) /\ IsFiniteSet(1..MaxFds)
  BY VfsAssumption, FS_Interval
<1>2. IsFiniteSet(Procs \X (1..MaxFds))
  BY <1>1, FS_Product
<1> QED
  BY <1>1, <1>2, FS_Subset, FS_CardinalityType

LEMMA CountsOfNodes ==
  ASSUME NEW n
  PROVE  /\ Opened(n) \in Nat /\ Cardinality(Holders(n)) \in Nat
         /\ Opened(n)' \in Nat /\ Cardinality(Holders(n))' \in Nat
         /\ Cardinality(Holders(n)) = 0 <=> Holders(n) = {}
         /\ Cardinality(Holders(n))' = 0 <=> Holders(n)' = {}
<1>1. /\ Holders(n) \in SUBSET Procs /\ Descriptors(n) \in SUBSET (Procs \X (1..MaxFds))
      /\ Holders(n)' \in SUBSET Procs /\ Descriptors(n)' \in SUBSET (Procs \X (1..MaxFds))
  BY DEF Holders, Descriptors
<1> QED
  BY <1>1, FiniteCounts, FS_EmptySet DEF Opened

\* A call that begins or ends to count itself changes the number of holders by one
LEMMA HoldersMore ==
  ASSUME NEW p \in Procs, NEW n, \A q \in Procs \ {p} : call'[q] = call[q],
         p \notin Holders(n), p \in Holders(n)'
  PROVE  Cardinality(Holders(n))' = Cardinality(Holders(n)) + 1
<1>1. Holders(n)' = Holders(n) \cup {p}
  BY DEF Holders
<1>2. IsFiniteSet(Holders(n))
  BY FiniteCounts DEF Holders
<1> QED
  BY <1>1, <1>2, FS_AddElement

LEMMA HoldersFewer ==
  ASSUME NEW p \in Procs, NEW n, \A q \in Procs \ {p} : call'[q] = call[q],
         p \in Holders(n), p \notin Holders(n)'
  PROVE  /\ Cardinality(Holders(n)) = Cardinality(Holders(n))' + 1
         /\ Cardinality(Holders(n))' \in Nat
<1>1. Holders(n) = Holders(n)' \cup {p}
  BY DEF Holders
<1>2. IsFiniteSet(Holders(n)') /\ Cardinality(Holders(n)') \in Nat
  BY FiniteCounts DEF Holders
<1> QED
  BY <1>1, <1>2, FS_AddElement

LEMMA HoldersSame ==
  ASSUME NEW p \in Procs, NEW n, \A q \in Procs \ {p} : call'[q] = call[q],
         p \in Holders(n) <=> p \in Holders(n)'
  PROVE  Holders(n)' = Holders(n) /\ Cardinality(Holders(n))' = Cardinality(Holders(n))
<1>1. Holders(n)' = Holders(n)
  BY DEF Holders
<1> QED
  BY <1>1

LEMMA DescriptorsSame ==
  ASSUME NEW n, \A q \in Procs : fds'[q][n] = fds[q][n]
  PROVE  Opened(n)' = Opened(n)
<1>1. Descriptors(n)' = Descriptors(n)
  BY DEF Descriptors
<1> QED
  BY <1>1 DEF Opened

\* One descriptor more, and one less
LEMMA DescriptorsMore ==
  ASSUME VfsTypeOK, NEW p \in Procs, NEW n \in Addresses,
         fds[p][n] < MaxFds, fds' = [fds EXCEPT ![p][n] = @ + 1]
  PROVE  /\ Opened(n)' = Opened(n) + 1
         /\ \A m \in Addresses \ {n} : Opened(m)' = Opened(m)
<1>1. /\ fds \in [Procs -> [Addresses -> 0..MaxFds]] /\ MaxFds \in Nat
      /\ fds[p][n] \in Nat /\ fds'[p][n] = fds[p][n] + 1
      /\ \A q \in Procs, m \in Addresses : q # p \/ m # n => fds'[q][m] = fds[q][m]
  BY VfsAssumption DEF VfsTypeOK
<1> DEFINE d == <<p, fds[p][n] + 1>>
<1>2. d \in Procs \X (1..MaxFds) /\ d \notin Descriptors(n)
  BY <1>1 DEF Descriptors
<1>3. Descriptors(n)' = Descriptors(n) \cup {d}
  <2>1. ASSUME NEW e \in Procs \X (1..MaxFds)
        PROVE  e[2] <= fds'[e[1]][n] <=> e[2] <= fds[e[1]][n] \/ e = d
    <3>1. e[1] \in Procs /\ e[2] \in 1..MaxFds /\ e = <<e[1], e[2]>>
      OBVIOUS
    <3>2. CASE e[1] = p
      <4>1. e = d <=> e[2] = fds[p][n] + 1
        BY <3>1, <3>2
      <4> HIDE DEF d
      <4> QED
        BY <1>1, <3>1, <3>2, <4>1
    <3>3. CASE e[1] # p
      BY <1>1, <3>1, <3>3
    <3> QED
      BY <3>2, <3>3
  <2> HIDE DEF d
  <2> QED
    BY <1>2, <2>1 DEF Descriptors
<1>4. IsFiniteSet(Descriptors(n))
  BY FiniteCounts DEF Descriptors
<1>5. Opened(n)' = Opened(n) + 1
  BY <1>2, <1>3, <1>4, FS_AddElement DEF Opened
<1> QED
  BY <1>1, <1>5, DescriptorsSame

LEMMA DescriptorsFewer ==
  ASSUME VfsTypeOK, NEW p \in Procs, NEW n \in Addresses,
         fds[p][n] > 0, fds' = [fds EXCEPT ![p][n] = @ - 1]
  PROVE  /\ Opened(n) = Opened(n)' + 1
         /\ \A m \in Addresses \ {n} : Opened(m)' = Opened(m)
<1>1. /\ fds \in [Procs -> [Addresses -> 0..MaxFds]] /\ MaxFds \in Nat
      /\ fds[p][n] \in 1..MaxFds /\ fds'[p][n] = fds[p][n] - 1
      /\ \A q \in Procs, m \in Addresses : q # p \/ m # n => fds'[q][m] = fds[q][m]
  BY VfsAssumption DEF VfsTypeOK
<1> DEFINE d == <<p, fds[p][n]>>
<1>2. d \in Procs \X (1..MaxFds) /\ d \notin Descriptors(n)'
  BY <1>1 DEF Descriptors
<1>3. Descriptors(n) = Descriptors(n)' \cup {d}
  <2>1. ASSUME NEW e \in Procs \X (1..MaxFds)
        PROVE  e[2] <= fds[e[1]][n] <=> e[2] <= fds'[e[1]][n] \/ e = d
    <3>1. e[1] \in Procs /\ e[2] \in 1..MaxFds /\ e = <<e[1], e[2]>>
      OBVIOUS
    <3>2. CASE e[1] = p
      <4>1. e = d <=> e[2] = fds[p][n]
        BY <3>1, <3>2
      <4> HIDE DEF d
      <4> QED
        BY <1>1, <3>1, <3>2, <4>1
    <3>3. CASE e[1] # p
      BY <1>1, <3>1, <3>3
    <3> QED
      BY <3>2, <3>3
  <2> HIDE DEF d
  <2> QED
    BY <1>2, <2>1 DEF Descriptors
<1>4. IsFiniteSet(Descriptors(n)')
  BY FiniteCounts DEF Descriptors
<1>5. Opened(n) = Opened(n)' + 1
  BY <1>2, <1>3, <1>4, FS_AddElement DEF Opened
<1> QED
  BY <1>1, <1>5, DescriptorsSame

\* A descriptor that a process has is counted
LEMMA DescriptorCounted ==
  ASSUME VfsTypeOK, NEW p \in Procs, NEW n \in Addresses, fds[p][n] > 0
  PROVE  Opened(n) > 0
<1>1. fds[p][n] \in 1..MaxFds
  BY VfsAssumption DEF VfsTypeOK
<1>2. <<p, fds[p][n]>> \in Descriptors(n)
  BY <1>1 DEF Descriptors
<1>3. IsFiniteSet(Descriptors(n)) /\ Opened(n) \in Nat
  BY FiniteCounts DEF Descriptors, Opened
<1> QED
  BY <1>2, <1>3, FS_EmptySet DEF Opened
-----------------------------------------------------------------------------
\* Steps

\* A node that a step does not touch stays sound
LEMMA Untouched ==
  ASSUME VfsTypeOK, NEW p \in Procs, NEW m \in Addresses, Sound(m),
         node'[m] = node[m], Linked(m)' = Linked(m), Opened(m)' = Opened(m),
         \A q \in Procs \ {p} : call'[q] = call[q],
         p \notin Users(m), p \notin Users(m)', m \notin wiped' => m \notin wiped
  PROVE  Sound(m)'
<1>1. /\ Holders(m)' = Holders(m) /\ Users(m)' = Users(m)
      /\ Deleters(m)' = Deleters(m) /\ Closers(m)' = Closers(m)
      /\ \A q \in Closers(m) : call'[q] = call[q]
  BY DEF Holders, Users, Deleters, Closers
<1>2. References(m)' = References(m)
  BY <1>1 DEF References
<1>3. Counted(m) /\ Marked(m) => Counted(m)' /\ Marked(m)'
  BY <1>1, <1>2 DEF Counted, Marked
<1> QED
  BY <1>2, <1>3 DEF Sound

\* The same of calls, for a step that leaves the nodes, the tree and the descriptors alone
LEMMA NobodyTouched ==
  ASSUME VInv, NEW p \in Procs, UNCHANGED <<node, children, fds, wiped>>,
         \A q \in Procs \ {p} : call'[q] = call[q],
         \A n \in Addresses : p \notin Users(n) /\ p \notin Users(n)'
  PROVE  \A n \in Addresses : Sound(n)'
<1> SUFFICES ASSUME NEW m \in Addresses PROVE Sound(m)'
  OBVIOUS
<1>1. Linked(m)' = Linked(m) /\ Opened(m)' = Opened(m)
  BY DescriptorsSame DEF Linked
<1> QED
  BY <1>1, Untouched DEF VInv

\* The last part of vfs_close, of a record whose count is right
LEMMA Leaving ==
  ASSUME VfsTypeOK, NEW p \in Procs, NEW n \in Addresses, NEW r \in NodeType, r.alive,
         Leave(p, n, r),
         Linked(n)' => r.ref = References(n)',
         n \notin wiped' => /\ r.ref = References(n)'
                            /\ ~Linked(n)' => r.del
                            /\ Closers(n) \subseteq {p}
                            /\ Deleters(n) \ {p} # {} => Linked(n)' /\ r.del
                            /\ \A q1, q2 \in Deleters(n) \ {p} : q1 = q2
  PROVE  Sound(n)'
<1> DEFINE kept == ~(r.ref = 0 /\ ~r.handle /\ r.del)
           asks == r.ref = 0 /\ r.handle
<1>1. /\ node \in [Addresses -> NodeType] /\ call \in [Procs -> Call]
      /\ r.ref \in Nat /\ r.del \in BOOLEAN /\ r.handle \in BOOLEAN
  BY DEF VfsTypeOK, NodeType
<1>2. node'[n] = IF kept THEN r ELSE Gone
  BY <1>1 DEF Leave
<1>3. /\ \A q \in Procs \ {p} : call'[q] = call[q]
      /\ asks => call'[p].at = "close" /\ call'[p].n = n /\ call'[p].deleting = r.del
      /\ ~asks => call'[p].at = "idle"
  <2>1. \A q \in Procs \ {p} : call'[q] = call[q]
    BY <1>1 DEF Leave
  <2>2. call[p] \in Call /\ call'[p] = IF asks THEN [call[p] EXCEPT !.at = "close", !.n = n, !.deleting = r.del]
                                               ELSE Idle
    BY <1>1 DEF Leave
  <2>3. asks => call'[p].at = "close" /\ call'[p].n = n /\ call'[p].deleting = r.del
    BY <2>2 DEF Call
  <2>4. ~asks => call'[p].at = "idle"
    BY <2>2 DEF Idle
  <2> QED
    BY <2>1, <2>3, <2>4
<1>4. /\ p \notin Holders(n)' /\ p \notin Deleters(n)'
      /\ Deleters(n)' = Deleters(n) \ {p}
      /\ Closers(n)' = (Closers(n) \ {p}) \cup (IF asks THEN {p} ELSE {})
      /\ Users(n)' = Holders(n)' \cup Closers(n)'
      /\ Deleters(n)' \subseteq Holders(n)'
  BY <1>3 DEF Holders, Users, Deleters, Closers
<1>5. Opened(n)' \in Nat /\ Cardinality(Holders(n))' \in Nat /\ (Cardinality(Holders(n))' = 0 <=> Holders(n)' = {})
  BY CountsOfNodes
<1>6. /\ References(n)' \in Nat /\ (References(n)' = 0 => ~Linked(n)' /\ Holders(n)' = {})
      /\ Linked(n)' => References(n)' > 0
  BY <1>5 DEF References
<1>7. Linked(n)' => node'[n].alive /\ node'[n].ref = References(n)'
  <2> SUFFICES ASSUME Linked(n)' PROVE node'[n].alive /\ node'[n].ref = References(n)'
    OBVIOUS
  <2>1. r.ref = References(n)' /\ r.ref # 0
    BY <1>6
  <2> QED
    BY <1>2, <2>1
<1>8. ASSUME n \notin wiped' PROVE Counted(n)' /\ Marked(n)'
  <2>1. /\ r.ref = References(n)' /\ (~Linked(n)' => r.del)
        /\ Closers(n) \subseteq {p}
        /\ Deleters(n)' # {} => Linked(n)' /\ r.del
        /\ \A q1, q2 \in Deleters(n)' : q1 = q2
    BY <1>4, <1>8
  <2>2. Closers(n)' = IF asks THEN {p} ELSE {}
    BY <1>4, <2>1
  <2>3. CASE r.ref = 0 /\ r.handle
    <3>1. node'[n] = r /\ ~Linked(n)' /\ r.del /\ Closers(n)' = {p} /\ Deleters(n)' = {}
      BY <1>2, <1>4, <1>6, <2>1, <2>2, <2>3
    <3>2. Counted(n)'
      BY <1>4, <2>1, <3>1 DEF Counted
    <3>3. Marked(n)'
      BY <1>3, <2>3, <3>1 DEF Marked
    <3> QED
      BY <3>2, <3>3
  <2>4. CASE r.ref = 0 /\ ~r.handle
    <3>1. node'[n] = Gone /\ ~Linked(n)' /\ Closers(n)' = {} /\ Deleters(n)' = {} /\ Users(n)' = {}
      BY <1>2, <1>4, <1>6, <2>1, <2>2, <2>4
    <3>2. Counted(n)' /\ Marked(n)'
      BY <2>1, <2>4, <3>1 DEF Counted, Marked, Gone
    <3> QED
      BY <3>2
  <2>5. CASE r.ref # 0
    <3>1. node'[n] = r /\ Closers(n)' = {}
      BY <1>2, <2>2, <2>5
    <3> QED
      BY <2>1, <2>5, <3>1 DEF Counted, Marked
  <2> QED
    BY <1>1, <2>3, <2>4, <2>5
<1> QED
  BY <1>7, <1>8 DEF Sound

\* It leaves the other nodes, and the types of nodes and calls
LEMMA LeavingOthers ==
  ASSUME VfsTypeOK, NEW p \in Procs, NEW n \in Addresses, NEW r \in NodeType, Leave(p, n, r)
  PROVE  /\ node' \in [Addresses -> NodeType] /\ call' \in [Procs -> Call]
         /\ \A m \in Addresses \ {n} : node'[m] = node[m]
         /\ \A q \in Procs \ {p} : call'[q] = call[q]
         /\ \A m \in Addresses : p \in Users(m)' => m = n
         /\ p \notin Holders(n)'
<1>1. node \in [Addresses -> NodeType] /\ call \in [Procs -> Call] /\ call[p] \in Call /\ r.del \in BOOLEAN
  BY DEF VfsTypeOK, NodeType
<1>2. Gone \in NodeType /\ Idle \in Call
  BY VfsAssumption DEF Gone, Idle, NodeType, Call
<1>3. node' \in [Addresses -> NodeType] /\ \A m \in Addresses \ {n} : node'[m] = node[m]
  BY <1>1, <1>2 DEF Leave
<1>4. PICK c : c = (IF r.ref = 0 /\ r.handle THEN [call[p] EXCEPT !.at = "close", !.n = n, !.deleting = r.del] ELSE Idle)
  OBVIOUS
<1>5. c \in Call /\ ((c.at = "close" /\ c.n = n) \/ c.at = "idle")
  BY <1>1, <1>2, <1>4 DEF Call, Idle
<1>6. call' = [call EXCEPT ![p] = c]
  BY <1>4 DEF Leave
<1>7. call' \in [Procs -> Call] /\ call'[p] = c /\ \A q \in Procs \ {p} : call'[q] = call[q]
  BY <1>1, <1>5, <1>6
<1> QED
  BY <1>3, <1>5, <1>7 DEF Users, Holders

LEMMA LessFacts ==
  ASSUME NEW r \in NodeType, NEW k \in Nat
  PROVE  /\ Less(r, k) \in NodeType
         /\ Less(r, k).alive = r.alive /\ Less(r, k).del = r.del /\ Less(r, k).handle = r.handle
         /\ r.ref >= k => Less(r, k).ref = r.ref - k
BY DEF Less, NodeType

\* Bringing a node up to date keeps what the tree and the references say of it
LEMMA UpdatedFacts ==
  ASSUME VfsTypeOK, NEW n \in Addresses, NEW d \in BOOLEAN
  PROVE  /\ Updated(n, d) \in NodeType
         /\ Updated(n, d).alive = node[n].alive /\ Updated(n, d).ref = node[n].ref
         /\ Linked(n) /\ d => Updated(n, d).del
         /\ ~d /\ Updated(n, d).del => node[n].del
<1>1. node[n] \in NodeType /\ onDisk \in BOOLEAN
  BY DEF VfsTypeOK, NodeType
<1> QED
  BY <1>1 DEF Updated, NodeType
\* What a call waits in, and for which node
LEMMA CallFacts ==
  ASSUME VfsTypeOK, NEW p \in Procs
  PROVE  /\ call[p] \in Call /\ call[p].n \in Addresses /\ call[p].deleting \in BOOLEAN
         /\ node \in [Addresses -> NodeType] /\ node[call[p].n] \in NodeType
         /\ \A m \in Addresses : p \in Users(m) => m = call[p].n
BY DEF VfsTypeOK, Call, NodeType, Users, Holders

\* A step of a call of p that concerns at most the node n
LEMMA OneNode ==
  ASSUME VInv, NEW p \in Procs, NEW n \in Addresses, Sound(n)',
         \A m \in Addresses \ {n} : node'[m] = node[m] /\ Linked(m)' = Linked(m) /\ Opened(m)' = Opened(m),
         \A q \in Procs \ {p} : call'[q] = call[q],
         \A m \in Addresses \ {n} : p \notin Users(m) /\ p \notin Users(m)',
         wiped \subseteq wiped'
  PROVE  \A m \in Addresses : Sound(m)'
<1> SUFFICES ASSUME NEW m \in Addresses, m # n PROVE Sound(m)'
  OBVIOUS
<1> QED
  BY Untouched DEF VInv

LEMMA BeginStep ==
  ASSUME VInv, NEW p \in Procs, NEW op \in {"open", "create", "unlink"}, Begin(p, op)
  PROVE  VInv'
<1>1. call[p].at = "idle" /\ UNCHANGED <<node, children, onDisk, fds, wiped>>
  BY DEF Begin
<1>2. PICK c : c = [Idle EXCEPT !.at = "walk", !.op = op]
  OBVIOUS
<1>3. c \in Call /\ c.at = "walk"
  BY <1>2, VfsAssumption DEF Call, Idle
<1>4. call' = [call EXCEPT ![p] = c]
  BY <1>2 DEF Begin
<1>5. call' \in [Procs -> Call] /\ call'[p] = c /\ \A q \in Procs \ {p} : call'[q] = call[q]
  BY <1>3, <1>4 DEF VInv, VfsTypeOK
<1>6. \A m \in Addresses : p \notin Users(m) /\ p \notin Users(m)'
  BY <1>1, <1>3, <1>5 DEF Users, Holders
<1>7. VfsTypeOK'
  BY <1>1, <1>5 DEF VInv, VfsTypeOK
<1> QED
  BY <1>1, <1>5, <1>6, <1>7, NobodyTouched DEF VInv

LEMMA MkFileStep ==
  ASSUME VInv, NEW p \in Procs, MkFile(p)
  PROVE  VInv'
<1>1. call[p].at = "mkfile" /\ onDisk' = TRUE /\ UNCHANGED <<node, children, fds, wiped>>
  BY DEF MkFile
<1>2. call \in [Procs -> Call] /\ call[p] \in Call
  BY DEF VInv, VfsTypeOK
<1>3. PICK c : c = [call[p] EXCEPT !.at = "walk", !.op = "open"]
  OBVIOUS
<1>4. c \in Call /\ c.at = "walk"
  BY <1>2, <1>3 DEF Call
<1>5. call' = [call EXCEPT ![p] = c]
  BY <1>2, <1>3 DEF MkFile
<1>6. call' \in [Procs -> Call] /\ call'[p] = c /\ \A q \in Procs \ {p} : call'[q] = call[q]
  BY <1>2, <1>4, <1>5
<1>7. \A m \in Addresses : p \notin Users(m) /\ p \notin Users(m)'
  BY <1>1, <1>4, <1>6 DEF Users, Holders
<1>8. VfsTypeOK'
  BY <1>1, <1>6 DEF VInv, VfsTypeOK
<1> QED
  BY <1>1, <1>6, <1>7, <1>8, NobodyTouched DEF VInv

LEMMA OpenStatStep ==
  ASSUME VInv, NEW p \in Procs, OpenStat(p)
  PROVE  VInv'
<1>n. PICK n \in Addresses : n = call[p].n
  BY CallFacts DEF VInv
<1>r. PICK r : r = Updated(n, call[p].deleting)
  OBVIOUS
<1>1. /\ call[p].at = "stat" /\ node[n].alive
      /\ node' = [node EXCEPT ![n] = r] /\ wiped' = WipedBy(n, r)
      /\ call' = [call EXCEPT ![p].at = "update", ![p].deleting = r.del]
      /\ UNCHANGED <<children, onDisk, fds>>
  BY <1>n, <1>r DEF OpenStat
<1>2. /\ VfsTypeOK /\ Sound(n) /\ n \in Addresses /\ call[p].deleting \in BOOLEAN /\ node \in [Addresses -> NodeType]
      /\ \A m \in Addresses : p \in Users(m) => m = n
      /\ call \in [Procs -> Call] /\ call[p] \in Call
  BY <1>n, CallFacts DEF VInv, VfsTypeOK
<1>3. r \in NodeType /\ r.alive = node[n].alive /\ r.ref = node[n].ref
  BY <1>2, <1>r, UpdatedFacts
<1>4. PICK c : c = [call[p] EXCEPT !.at = "update", !.deleting = r.del]
  OBVIOUS
<1>5. c \in Call /\ c.at = "update" /\ c.n = n
  BY <1>2, <1>3, <1>4, <1>n DEF Call, NodeType
<1>6. call' = [call EXCEPT ![p] = c]
  BY <1>1, <1>2, <1>4
<1>7. call' \in [Procs -> Call] /\ call'[p] = c /\ \A q \in Procs \ {p} : call'[q] = call[q]
  BY <1>2, <1>5, <1>6
<1>8. /\ node' \in [Addresses -> NodeType] /\ node'[n] = r
      /\ \A m \in Addresses \ {n} : node'[m] = node[m]
  BY <1>1, <1>2, <1>3
<1>9. /\ wiped \subseteq wiped' /\ wiped' \subseteq Addresses
      /\ n \notin wiped' => (node[n].del => r.del)
  BY <1>1, <1>2 DEF WipedBy, VfsTypeOK
<1>10. VfsTypeOK'
  BY <1>1, <1>2, <1>7, <1>8, <1>9 DEF VfsTypeOK, NodeType
<1>11. p \in Holders(n) /\ p \in Holders(n)' /\ \A m \in Addresses \ {n} : p \notin Users(m) /\ p \notin Users(m)'
  BY <1>1, <1>2, <1>5, <1>7, <1>n DEF Holders, Users
<1>12. \A m \in Addresses : Linked(m)' = Linked(m) /\ Opened(m)' = Opened(m)
  BY <1>1, DescriptorsSame DEF Linked
<1>13. /\ References(n)' = References(n)
       /\ Deleters(n)' = Deleters(n) /\ Closers(n)' = Closers(n) /\ Users(n)' = Users(n)
       /\ \A q \in Closers(n) : call'[q] = call[q]
  <2>1. Holders(n)' = Holders(n) /\ Cardinality(Holders(n))' = Cardinality(Holders(n))
    BY <1>7, <1>11, HoldersSame
  <2>2. Deleters(n)' = Deleters(n) /\ Closers(n)' = Closers(n) /\ p \notin Closers(n)
    BY <1>1, <1>5, <1>7 DEF Deleters, Closers
  <2> QED
    BY <1>2, <1>7, <1>12, <2>1, <2>2 DEF References, Users, Closers
<1>14. Sound(n)'
  <2>1. n \notin wiped' => Counted(n)'
    BY <1>2, <1>3, <1>8, <1>9, <1>13 DEF Sound, Counted
  <2>2. n \notin wiped' => Marked(n)'
    BY <1>2, <1>3, <1>8, <1>9, <1>12, <1>13 DEF Sound, Marked
  <2> QED
    BY <1>2, <1>3, <1>8, <1>12, <1>13, <2>1, <2>2 DEF Sound
<1> QED
  BY <1>2, <1>7, <1>8, <1>9, <1>10, <1>11, <1>12, <1>14, OneNode DEF VInv
\* A step of a call that ends in vfs_close
LEMMA LeavingStep ==
  ASSUME VInv, NEW p \in Procs, NEW n \in Addresses, NEW r \in NodeType, r.alive, Leave(p, n, r),
         children' \in Seq(Addresses), onDisk' \in BOOLEAN, fds' \in [Procs -> [Addresses -> 0..MaxFds]],
         wiped \subseteq wiped', wiped' \subseteq Addresses,
         \A m \in Addresses \ {n} : Linked(m)' = Linked(m) /\ Opened(m)' = Opened(m) /\ p \notin Users(m),
         Linked(n)' => r.ref = References(n)',
         n \notin wiped' => /\ r.ref = References(n)'
                            /\ ~Linked(n)' => r.del
                            /\ Closers(n) \subseteq {p}
                            /\ Deleters(n) \ {p} # {} => Linked(n)' /\ r.del
                            /\ \A q1, q2 \in Deleters(n) \ {p} : q1 = q2
  PROVE  VInv'
<1>1. /\ node' \in [Addresses -> NodeType] /\ call' \in [Procs -> Call]
      /\ \A m \in Addresses \ {n} : node'[m] = node[m]
      /\ \A q \in Procs \ {p} : call'[q] = call[q]
      /\ \A m \in Addresses \ {n} : p \notin Users(m)'
  BY LeavingOthers DEF VInv
<1>2. VfsTypeOK'
  BY <1>1 DEF VfsTypeOK, NodeType
<1>3. Sound(n)'
  BY Leaving DEF VInv
<1>4. \A m \in Addresses : Sound(m)'
  BY <1>1, <1>3, OneNode
<1> QED
  BY <1>2, <1>4 DEF VInv

\* A call that counts itself, and leaves, takes its reference along
LEMMA LeavingHolder ==
  ASSUME VInv, NEW p \in Procs, NEW n \in Addresses, NEW r \in NodeType, Leave(p, n, r), p \in Holders(n)
  PROVE  /\ Cardinality(Holders(n)) = Cardinality(Holders(n))' + 1
         /\ Cardinality(Holders(n))' \in Nat
BY LeavingOthers, HoldersFewer DEF VInv

\* While somebody counts on a node, nobody waits to free it
LEMMA HeldNotClosed ==
  ASSUME VInv, NEW n \in Addresses, n \notin wiped, node[n].alive, Holders(n) # {} \/ Opened(n) > 0
  PROVE  Closers(n) = {}
<1>1. node[n].ref = References(n) /\ (Closers(n) # {} => node[n].ref = 0)
  BY DEF VInv, Sound, Counted, Marked
<1>2. References(n) > 0
  BY CountsOfNodes DEF References
<1> QED
  BY <1>1, <1>2

LEMMA OpenUpdateStep ==
  ASSUME VInv, NEW p \in Procs, OpenUpdate(p)
  PROVE  VInv'
<1>n. PICK n \in Addresses : n = call[p].n
  BY CallFacts DEF VInv
<1>r. PICK r : r = Updated(n, call[p].deleting)
  OBVIOUS
<1>1. /\ call[p].at = "update" /\ node[n].alive /\ wiped' = WipedBy(n, r)
      /\ UNCHANGED <<children, onDisk>>
      /\ \/ /\ r.handle /\ fds[p][n] < MaxFds /\ fds' = [fds EXCEPT ![p][n] = @ + 1]
            /\ node' = [node EXCEPT ![n] = r] /\ call' = [call EXCEPT ![p] = Idle]
         \/ /\ ~r.handle /\ Leave(p, n, Less(r, 1)) /\ UNCHANGED fds
  BY <1>n, <1>r DEF OpenUpdate
<1>2. /\ VfsTypeOK /\ Sound(n) /\ call[p].deleting \in BOOLEAN /\ node \in [Addresses -> NodeType]
      /\ \A m \in Addresses : p \in Users(m) => m = n
      /\ call \in [Procs -> Call] /\ call[p] \in Call
      /\ fds \in [Procs -> [Addresses -> 0..MaxFds]]
  BY <1>n, CallFacts DEF VInv, VfsTypeOK
<1>3. r \in NodeType /\ r.alive = node[n].alive /\ r.ref = node[n].ref /\ r.ref \in Nat
  BY <1>2, <1>r, UpdatedFacts DEF NodeType
<1>4. /\ wiped \subseteq wiped' /\ wiped' \subseteq Addresses
      /\ n \notin wiped' => n \notin wiped /\ (node[n].del => r.del)
  BY <1>1, <1>2 DEF WipedBy, VfsTypeOK
<1>5. p \in Holders(n) /\ p \notin Deleters(n) /\ p \notin Closers(n)
  BY <1>1, <1>n DEF Holders, Deleters, Closers
<1>6. \A m \in Addresses : Linked(m)' = Linked(m)
  BY <1>1 DEF Linked
<1>7. n \notin wiped' => Closers(n) = {}
  BY <1>1, <1>4, <1>5, HeldNotClosed
<1>8. Opened(n) \in Nat /\ Opened(n)' \in Nat /\ Cardinality(Holders(n)) \in Nat
  BY CountsOfNodes
<1>9. CASE /\ r.handle /\ fds[p][n] < MaxFds /\ fds' = [fds EXCEPT ![p][n] = @ + 1]
           /\ node' = [node EXCEPT ![n] = r] /\ call' = [call EXCEPT ![p] = Idle]
  <2>1. /\ call' \in [Procs -> Call] /\ call'[p].at = "idle" /\ \A q \in Procs \ {p} : call'[q] = call[q]
        /\ node' \in [Addresses -> NodeType] /\ node'[n] = r /\ \A m \in Addresses \ {n} : node'[m] = node[m]
        /\ fds' \in [Procs -> [Addresses -> 0..MaxFds]]
    <3>1. Idle \in Call /\ Idle.at = "idle"
      BY VfsAssumption DEF Idle, Call
    <3>2. fds[p][n] + 1 \in 0..MaxFds
      BY <1>2, <1>9, VfsAssumption
    <3> QED
      BY <1>2, <1>3, <1>9, <3>1, <3>2
  <2>2. VfsTypeOK'
    BY <1>1, <1>2, <1>4, <2>1 DEF VfsTypeOK, NodeType
  <2>3. Opened(n)' = Opened(n) + 1 /\ \A m \in Addresses \ {n} : Opened(m)' = Opened(m)
    BY <1>2, <1>9, DescriptorsMore
  <2>4. \A m \in Addresses : p \notin Users(m)'
    BY <2>1 DEF Users, Holders
  <2>5. Deleters(n)' = Deleters(n) /\ Closers(n)' = Closers(n)
    BY <1>5, <2>1 DEF Deleters, Closers
  <2>6. Cardinality(Holders(n)) = Cardinality(Holders(n))' + 1 /\ Cardinality(Holders(n))' \in Nat
    BY <1>5, <2>1, <2>4, HoldersFewer DEF Users
  <2>7. References(n)' = References(n) /\ References(n) > 0
    BY <1>6, <1>8, <2>3, <2>6 DEF References
  <2>8. n \notin wiped' => Counted(n)' /\ Marked(n)'
    <3>1. ASSUME n \notin wiped' PROVE Counted(n)'
      <4>1. node[n].ref = References(n)
        BY <1>1, <1>2, <1>4, <3>1 DEF Sound, Counted
      <4>2. node'[n] = r /\ r.alive /\ r.ref = References(n)
        BY <1>1, <1>3, <2>1, <4>1
      <4>3. node'[n].alive /\ node'[n].ref = References(n)' /\ References(n)' # 0
        BY <2>7, <4>2
      <4> QED
        BY <4>3 DEF Counted
    <3>2. n \notin wiped' => Marked(n)'
      BY <1>1, <1>2, <1>3, <1>4, <1>6, <1>7, <2>1, <2>5 DEF Sound, Marked
    <3> QED
      BY <3>1, <3>2
  <2>9. Sound(n)'
    BY <1>2, <1>3, <1>6, <2>1, <2>7, <2>8 DEF Sound
  <2>10. \A m \in Addresses \ {n} : p \notin Users(m) /\ p \notin Users(m)'
    BY <1>2, <2>4
  <2>11. \A m \in Addresses : Sound(m)'
    BY <1>4, <1>6, <2>1, <2>3, <2>9, <2>10, OneNode
  <2> QED
    BY <2>2, <2>11 DEF VInv
<1>10. CASE ~r.handle /\ Leave(p, n, Less(r, 1)) /\ UNCHANGED fds
  <2>1. PICK r2 : r2 = Less(r, 1)
    OBVIOUS
  <2>2. r2 \in NodeType /\ r2.alive /\ r2.del = r.del /\ (r.ref >= 1 => r2.ref = r.ref - 1)
    BY <1>1, <1>3, <2>1, LessFacts
  <2>3. Leave(p, n, r2)
    BY <1>10, <2>1
  <2>4. Cardinality(Holders(n)) = Cardinality(Holders(n))' + 1 /\ Cardinality(Holders(n))' \in Nat
    BY <1>5, <2>2, <2>3, LeavingHolder
  <2>5. \A m \in Addresses : Opened(m)' = Opened(m)
    BY <1>10, DescriptorsSame
  <2>6. References(n) = References(n)' + 1 /\ References(n)' \in Nat
    BY <1>6, <1>8, <2>4, <2>5 DEF References
  <2>7. ASSUME Linked(n)' PROVE r2.ref = References(n)'
    <3>1. Linked(n)
      BY <1>6, <2>7
    <3>2. r.ref = References(n)
      BY <1>2, <1>3, <3>1 DEF Sound
    <3> QED
      BY <2>2, <2>6, <3>2
  <2>8. ASSUME n \notin wiped'
        PROVE  /\ r2.ref = References(n)' /\ (~Linked(n)' => r2.del)
               /\ Closers(n) \subseteq {p}
               /\ Deleters(n) \ {p} # {} => Linked(n)' /\ r2.del
               /\ \A q1, q2 \in Deleters(n) \ {p} : q1 = q2
    <3>1. Counted(n) /\ Marked(n) /\ Closers(n) = {} /\ (node[n].del => r2.del)
      BY <1>2, <1>4, <1>7, <2>2, <2>8 DEF Sound
    <3>2. r2.ref = References(n)'
      BY <1>1, <1>3, <2>2, <2>6, <3>1 DEF Counted
    <3> QED
      BY <1>1, <1>6, <3>1, <3>2 DEF Marked
  <2>9. /\ children' \in Seq(Addresses) /\ onDisk' \in BOOLEAN /\ fds' \in [Procs -> [Addresses -> 0..MaxFds]]
        /\ \A m \in Addresses \ {n} : Linked(m)' = Linked(m) /\ Opened(m)' = Opened(m) /\ p \notin Users(m)
    BY <1>1, <1>2, <1>6, <1>10, <2>5 DEF VfsTypeOK
  <2> QED
    BY <1>4, <2>2, <2>3, <2>7, <2>8, <2>9, LeavingStep
<1> QED
  BY <1>1, <1>9, <1>10
\* A step that keeps a call counted for its node and leaves the lists and the descriptors alone
LEMMA StayingStep ==
  ASSUME VInv, NEW p \in Procs, NEW n \in Addresses, NEW r \in NodeType, NEW c \in Call,
         \A m \in Addresses \ {n} : p \notin Users(m),
         node' = [node EXCEPT ![n] = r], call' = [call EXCEPT ![p] = c], c.n = n \/ c.at = "idle",
         UNCHANGED <<children, onDisk, fds>>, wiped \subseteq wiped', wiped' \subseteq Addresses,
         Sound(n)'
  PROVE  VInv'
<1>1. VfsTypeOK /\ node \in [Addresses -> NodeType] /\ call \in [Procs -> Call]
  BY DEF VInv, VfsTypeOK, NodeType
<1>2. /\ call' \in [Procs -> Call] /\ call'[p] = c /\ \A q \in Procs \ {p} : call'[q] = call[q]
      /\ node' \in [Addresses -> NodeType] /\ \A m \in Addresses \ {n} : node'[m] = node[m]
  BY <1>1
<1>3. VfsTypeOK'
  BY <1>1, <1>2 DEF VfsTypeOK, NodeType
<1>4. \A m \in Addresses \ {n} : p \notin Users(m)'
  BY <1>2 DEF Users, Holders
<1>5. \A m \in Addresses : Linked(m)' = Linked(m) /\ Opened(m)' = Opened(m)
  BY DescriptorsSame DEF Linked
<1>6. \A m \in Addresses : Sound(m)'
  BY <1>2, <1>4, <1>5, OneNode
<1> QED
  BY <1>3, <1>6 DEF VInv

LEMMA UnlinkStatStep ==
  ASSUME VInv, NEW p \in Procs, UnlinkStat(p)
  PROVE  VInv'
<1>n. PICK n \in Addresses : n = call[p].n
  BY CallFacts DEF VInv
<1>r. PICK r : r = Updated(n, FALSE)
  OBVIOUS
<1>1. /\ call[p].at = "stat" /\ node[n].alive /\ wiped' = WipedBy(n, r)
      /\ UNCHANGED <<children, onDisk, fds>>
      /\ \/ r.del /\ Leave(p, n, Less(r, 1))
         \/ ~r.del /\ ~Linked(n) /\ node' = [node EXCEPT ![n] = r] /\ call' = [call EXCEPT ![p] = Idle]
         \/ /\ ~r.del /\ Linked(n) /\ node' = [node EXCEPT ![n] = [r EXCEPT !.del = TRUE]]
            /\ call' = [call EXCEPT ![p].at = IF r.handle THEN "delete" ELSE "redo", ![p].deleting = TRUE]
  BY <1>n, <1>r DEF UnlinkStat
<1>2. /\ VfsTypeOK /\ Sound(n) /\ node \in [Addresses -> NodeType]
      /\ \A m \in Addresses : p \in Users(m) => m = n
      /\ call \in [Procs -> Call] /\ call[p] \in Call
      /\ fds \in [Procs -> [Addresses -> 0..MaxFds]]
  BY <1>n, CallFacts DEF VInv, VfsTypeOK
<1>3. /\ r \in NodeType /\ r.alive /\ r.ref = node[n].ref /\ r.ref \in Nat
      /\ r.del => node[n].del
  BY <1>1, <1>2, <1>r, UpdatedFacts DEF NodeType
<1>4. /\ wiped \subseteq wiped' /\ wiped' \subseteq Addresses
      /\ n \notin wiped' => n \notin wiped /\ (node[n].del => r.del)
  BY <1>1, <1>2 DEF WipedBy, VfsTypeOK
<1>5. p \in Holders(n) /\ p \notin Deleters(n) /\ p \notin Closers(n)
  BY <1>1, <1>n DEF Holders, Deleters, Closers
<1>6. \A m \in Addresses : Linked(m)' = Linked(m) /\ Opened(m)' = Opened(m)
  BY <1>1, DescriptorsSame DEF Linked
<1>7. n \notin wiped' => Closers(n) = {}
  BY <1>1, <1>4, <1>5, HeldNotClosed
<1>8. /\ \A m \in Addresses \ {n} : p \notin Users(m)
      /\ Opened(n) \in Nat /\ Opened(n)' \in Nat /\ Cardinality(Holders(n)) \in Nat
  BY <1>2, CountsOfNodes
<1>9. CASE r.del /\ Leave(p, n, Less(r, 1))
  <2>1. PICK r2 : r2 = Less(r, 1)
    OBVIOUS
  <2>2. r2 \in NodeType /\ r2.alive /\ r2.del /\ (r.ref >= 1 => r2.ref = r.ref - 1)
    BY <1>3, <1>9, <2>1, LessFacts
  <2>3. Leave(p, n, r2)
    BY <1>9, <2>1
  <2>4. Cardinality(Holders(n)) = Cardinality(Holders(n))' + 1 /\ Cardinality(Holders(n))' \in Nat
    BY <1>5, <2>2, <2>3, LeavingHolder
  <2>5. References(n) = References(n)' + 1 /\ References(n)' \in Nat
    BY <1>6, <1>8, <2>4 DEF References
  <2>6. r.ref = References(n) => r2.ref = References(n)'
    BY <2>2, <2>5
  <2>7. Linked(n)' => r2.ref = References(n)'
    BY <1>2, <1>3, <1>6, <2>6 DEF Sound
  <2>8. ASSUME n \notin wiped'
        PROVE  /\ r2.ref = References(n)' /\ (~Linked(n)' => r2.del)
               /\ Closers(n) \subseteq {p}
               /\ Deleters(n) \ {p} # {} => Linked(n)' /\ r2.del
               /\ \A q1, q2 \in Deleters(n) \ {p} : q1 = q2
    <3>1. Counted(n) /\ Marked(n) /\ Closers(n) = {}
      BY <1>2, <1>4, <1>7, <2>8 DEF Sound
    <3>2. r2.ref = References(n)'
      BY <1>1, <1>3, <2>6, <3>1 DEF Counted
    <3> QED
      BY <1>6, <2>2, <3>1, <3>2 DEF Marked
  <2>9. children' \in Seq(Addresses) /\ onDisk' \in BOOLEAN /\ fds' \in [Procs -> [Addresses -> 0..MaxFds]]
    BY <1>1, <1>2 DEF VfsTypeOK
  <2> QED
    BY <1>4, <1>6, <1>8, <2>2, <2>3, <2>7, <2>8, <2>9, LeavingStep
<1>10. CASE ~r.del /\ ~Linked(n) /\ node' = [node EXCEPT ![n] = r] /\ call' = [call EXCEPT ![p] = Idle]
  <2>1. n \in wiped'
    BY <1>1, <1>2, <1>4, <1>10 DEF Sound, Marked
  <2>2. Sound(n)'
    BY <1>6, <1>10, <2>1 DEF Sound
  <2>3. Idle \in Call /\ Idle.at = "idle"
    BY VfsAssumption DEF Idle, Call
  <2> QED
    BY <1>1, <1>3, <1>4, <1>8, <1>10, <2>2, <2>3, StayingStep
<1>11. CASE /\ ~r.del /\ Linked(n) /\ node' = [node EXCEPT ![n] = [r EXCEPT !.del = TRUE]]
            /\ call' = [call EXCEPT ![p].at = IF r.handle THEN "delete" ELSE "redo", ![p].deleting = TRUE]
  <2>1. PICK r2 : r2 = [r EXCEPT !.del = TRUE]
    OBVIOUS
  <2>2. r2 \in NodeType /\ r2.alive /\ r2.del /\ r2.ref = node[n].ref
    BY <1>3, <2>1 DEF NodeType
  <2>3. PICK c : c = [call[p] EXCEPT !.at = IF r.handle THEN "delete" ELSE "redo", !.deleting = TRUE]
    OBVIOUS
  <2>4. c \in Call /\ c.at \in {"delete", "redo"} /\ c.n = n
    BY <1>2, <1>n, <2>3 DEF Call
  <2>5. node' = [node EXCEPT ![n] = r2] /\ call' = [call EXCEPT ![p] = c]
    BY <1>2, <1>11, <2>1, <2>3
  <2>6. call'[p] = c /\ (\A q \in Procs \ {p} : call'[q] = call[q]) /\ node'[n] = r2
    BY <1>2, <2>5
  <2>7. p \in Holders(n)' /\ Closers(n)' = Closers(n) /\ Deleters(n)' = Deleters(n) \cup {p}
    BY <1>5, <2>4, <2>6 DEF Holders, Closers, Deleters
  <2>8. References(n)' = References(n)
    BY <1>5, <1>6, <2>6, <2>7, HoldersSame DEF References
  <2>9. node[n].ref = References(n) /\ References(n) # 0
    BY <1>2, <1>8, <1>11 DEF Sound, References
  <2>10. ASSUME n \notin wiped' PROVE Counted(n)' /\ Marked(n)'
    <3>1. Deleters(n) = {}
      BY <1>2, <1>4, <1>11, <2>10 DEF Sound, Marked
    <3>2. Closers(n)' = {} /\ Deleters(n)' = {p}
      BY <1>7, <2>7, <2>10, <3>1
    <3> QED
      BY <1>6, <1>11, <2>2, <2>6, <2>8, <2>9, <3>2 DEF Counted, Marked
  <2>11. Sound(n)'
    BY <2>2, <2>6, <2>8, <2>9, <2>10 DEF Sound
  <2> QED
    BY <1>1, <1>4, <1>8, <2>2, <2>4, <2>5, <2>11, StayingStep
<1> QED
  BY <1>1, <1>9, <1>10, <1>11
\* The end of an unlink that fails: no other call relies on the mark that is taken back
LEMMA DeleteFailsStep ==
  ASSUME VInv, NEW p \in Procs, NEW n \in Addresses, NEW r \in NodeType, n = call[p].n, p \in Deleters(n),
         r.alive, node[n].alive, r.ref = node[n].ref, DeleteFails(p, n, r),
         UNCHANGED <<children, onDisk, fds, wiped>>
  PROVE  VInv'
<1>1. /\ VfsTypeOK /\ Sound(n) /\ fds \in [Procs -> [Addresses -> 0..MaxFds]] /\ wiped \subseteq Addresses
      /\ \A m \in Addresses \ {n} : p \notin Users(m)
  BY CallFacts DEF VInv, VfsTypeOK
<1>2. PICK r1 : r1 = [r EXCEPT !.del = FALSE]
  OBVIOUS
<1>3. r1 \in NodeType /\ r1.alive /\ r1.ref = node[n].ref /\ r1.ref \in Nat
  BY <1>2 DEF NodeType
<1>4. PICK r2 : r2 = Less(r1, 1)
  OBVIOUS
<1>5. r2 \in NodeType /\ r2.alive /\ (r1.ref >= 1 => r2.ref = r1.ref - 1)
  BY <1>3, <1>4, LessFacts
<1>6. Leave(p, n, r2)
  BY <1>2, <1>4 DEF DeleteFails
<1>7. p \in Holders(n)
  BY DEF Holders, Deleters
<1>8. Cardinality(Holders(n)) = Cardinality(Holders(n))' + 1 /\ Cardinality(Holders(n))' \in Nat
  BY <1>5, <1>6, <1>7, LeavingHolder
<1>9. \A m \in Addresses : Linked(m)' = Linked(m) /\ Opened(m)' = Opened(m)
  BY DescriptorsSame DEF Linked
<1>10. References(n) = References(n)' + 1 /\ References(n)' \in Nat
  BY <1>8, <1>9, CountsOfNodes DEF References
<1>11. r1.ref = References(n) => r2.ref = References(n)'
  BY <1>5, <1>10
<1>12. Linked(n)' => r2.ref = References(n)'
  BY <1>1, <1>3, <1>9, <1>11 DEF Sound
<1>13. ASSUME n \notin wiped'
       PROVE  /\ r2.ref = References(n)' /\ (~Linked(n)' => r2.del)
              /\ Closers(n) \subseteq {p}
              /\ Deleters(n) \ {p} # {} => Linked(n)' /\ r2.del
              /\ \A q1, q2 \in Deleters(n) \ {p} : q1 = q2
  <2>1. n \notin wiped /\ Counted(n) /\ Marked(n)
    BY <1>1, <1>13 DEF Sound
  <2>2. Closers(n) = {}
    BY <1>7, <2>1, HeldNotClosed
  <2>3. r2.ref = References(n)'
    BY <1>3, <1>11, <2>1 DEF Counted
  <2>4. Linked(n)' /\ Deleters(n) \ {p} = {}
    BY <1>9, <2>1 DEF Marked
  <2> QED
    BY <2>2, <2>3, <2>4
<1>14. children' \in Seq(Addresses) /\ onDisk' \in BOOLEAN
  BY <1>1 DEF VfsTypeOK
<1> QED
  BY <1>1, <1>5, <1>6, <1>9, <1>12, <1>13, <1>14, LeavingStep

LEMMA UnlinkFailsStep ==
  ASSUME VInv, NEW p \in Procs, UnlinkFails(p)
  PROVE  VInv'
<1>n. PICK n \in Addresses : n = call[p].n
  BY CallFacts DEF VInv
<1>1. /\ call[p].at = "delete" /\ node[n].alive /\ DeleteFails(p, n, node[n])
      /\ UNCHANGED <<children, onDisk, fds, wiped>>
  BY <1>n DEF UnlinkFails
<1>2. PICK r : r = node[n]
  OBVIOUS
<1>3. r \in NodeType /\ r.alive /\ r.ref = node[n].ref /\ DeleteFails(p, n, r) /\ p \in Deleters(n)
  BY <1>n, <1>1, <1>2 DEF VInv, VfsTypeOK, NodeType, Deleters
<1> QED
  BY <1>n, <1>1, <1>3, DeleteFailsStep

LEMMA UnlinkRedoStep ==
  ASSUME VInv, NEW p \in Procs, UnlinkRedo(p)
  PROVE  VInv'
<1>n. PICK n \in Addresses : n = call[p].n
  BY CallFacts DEF VInv
<1>r. PICK r : r = Updated(n, TRUE)
  OBVIOUS
<1>1. /\ call[p].at = "redo" /\ node[n].alive
      /\ \/ r.handle /\ node' = [node EXCEPT ![n] = r] /\ call' = [call EXCEPT ![p].at = "delete"]
         \/ DeleteFails(p, n, r)
      /\ UNCHANGED <<children, onDisk, fds, wiped>>
  BY <1>n, <1>r DEF UnlinkRedo
<1>2. /\ VfsTypeOK /\ Sound(n) /\ call \in [Procs -> Call] /\ call[p] \in Call
      /\ node \in [Addresses -> NodeType] /\ wiped' \subseteq Addresses
      /\ \A m \in Addresses \ {n} : p \notin Users(m)
  BY <1>n, <1>1, CallFacts DEF VInv, VfsTypeOK
<1>3. r \in NodeType /\ r.alive /\ r.ref = node[n].ref /\ (Linked(n) => r.del)
  BY <1>1, <1>2, <1>r, UpdatedFacts
<1>4. p \in Deleters(n) /\ p \in Holders(n) /\ p \notin Closers(n)
  BY <1>n, <1>1 DEF Deleters, Holders, Closers
<1>5. CASE DeleteFails(p, n, r)
  BY <1>n, <1>1, <1>3, <1>4, <1>5, DeleteFailsStep
<1>6. CASE r.handle /\ node' = [node EXCEPT ![n] = r] /\ call' = [call EXCEPT ![p].at = "delete"]
  <2>1. PICK c : c = [call[p] EXCEPT !.at = "delete"]
    OBVIOUS
  <2>2. c \in Call /\ c.at = "delete" /\ c.n = n
    BY <1>2, <1>n, <2>1 DEF Call
  <2>3. call' = [call EXCEPT ![p] = c]
    BY <1>2, <1>6, <2>1
  <2>4. call'[p] = c /\ (\A q \in Procs \ {p} : call'[q] = call[q]) /\ node'[n] = r
    BY <1>2, <1>6, <2>3
  <2>5. p \in Holders(n)' /\ Closers(n)' = Closers(n) /\ Deleters(n)' = Deleters(n)
    BY <1>4, <2>2, <2>4 DEF Holders, Closers, Deleters
  <2>6. Linked(n)' = Linked(n) /\ Opened(n)' = Opened(n)
    BY <1>1, DescriptorsSame DEF Linked
  <2>7. References(n)' = References(n)
    BY <1>4, <2>4, <2>5, <2>6, HoldersSame DEF References
  <2>8. References(n) # 0
    BY <1>4, CountsOfNodes DEF References
  <2>9. ASSUME n \notin wiped PROVE Counted(n)' /\ Marked(n)'
    <3>1. Counted(n) /\ Marked(n) /\ Linked(n) /\ r.del /\ Closers(n) = {}
      BY <1>1, <1>2, <1>3, <1>4, <2>9, HeldNotClosed DEF Sound, Marked
    <3>2. Counted(n)'
      BY <1>1, <1>3, <2>4, <2>7, <2>8, <3>1 DEF Counted
    <3>3. Marked(n)'
      BY <2>4, <2>5, <2>6, <3>1 DEF Marked
    <3> QED
      BY <3>2, <3>3
  <2>10. Sound(n)'
    BY <1>1, <1>2, <1>3, <2>4, <2>6, <2>7, <2>9 DEF Sound
  <2> QED
    BY <1>1, <1>2, <1>3, <1>6, <2>2, <2>3, <2>10, StayingStep
<1> QED
  BY <1>1, <1>5, <1>6

\* The list without one node
LEMMA Unlinked ==
  ASSUME VfsTypeOK, NEW n \in Addresses, children' = Without(children, {n})
  PROVE  /\ children' \in Seq(Addresses) /\ ~Linked(n)'
         /\ \A m \in Addresses \ {n} : Linked(m)' = Linked(m)
<1>1. children \in Seq(Addresses)
  BY DEF VfsTypeOK
<1>2. children' \in Seq(Addresses) /\ Range(children') = Range(children) \ {n}
  BY <1>1, WithoutLeaves
<1>3. \A m \in Addresses : Linked(m)' <=> Linked(m) /\ m # n
  BY <1>2 DEF Linked
<1>4. \A m \in Addresses : Linked(m) \in BOOLEAN /\ Linked(m)' \in BOOLEAN
  BY DEF Linked
<1> QED
  BY <1>2, <1>3, <1>4

LEMMA UnlinkDoneStep ==
  ASSUME VInv, NEW p \in Procs, UnlinkDone(p)
  PROVE  VInv'
<1>n. PICK n \in Addresses : n = call[p].n
  BY CallFacts DEF VInv
<1>r. PICK r : r = Less(node[n], 2)
  OBVIOUS
<1>s. PICK r2 : r2 = IF r.ref = 0 THEN [r EXCEPT !.del = TRUE] ELSE r
  OBVIOUS
<1>1. /\ call[p].at = "delete" /\ node[n].alive /\ onDisk' = FALSE
      /\ children' = Without(children, {n}) /\ Leave(p, n, r2) /\ UNCHANGED <<fds, wiped>>
  BY <1>n, <1>r, <1>s DEF UnlinkDone
<1>2. /\ VfsTypeOK /\ Sound(n) /\ node[n] \in NodeType /\ node[n].ref \in Nat
      /\ fds' \in [Procs -> [Addresses -> 0..MaxFds]] /\ wiped' \subseteq Addresses
      /\ \A m \in Addresses \ {n} : p \notin Users(m)
  BY <1>n, <1>1, CallFacts DEF VInv, VfsTypeOK, NodeType
<1>3. /\ r \in NodeType /\ r.alive /\ r.del = node[n].del
      /\ node[n].ref >= 2 => r.ref = node[n].ref - 2
  BY <1>1, <1>2, <1>r, LessFacts
<1>4. r2 \in NodeType /\ r2.alive /\ r2.ref = r.ref /\ (r.del => r2.del)
  BY <1>3, <1>s DEF NodeType
<1>5. p \in Deleters(n) /\ p \in Holders(n)
  BY <1>n, <1>1 DEF Deleters, Holders
<1>6. Cardinality(Holders(n)) = Cardinality(Holders(n))' + 1 /\ Cardinality(Holders(n))' \in Nat
  BY <1>1, <1>4, <1>5, LeavingHolder
<1>7. /\ children' \in Seq(Addresses) /\ ~Linked(n)'
      /\ \A m \in Addresses \ {n} : Linked(m)' = Linked(m)
      /\ \A m \in Addresses : Opened(m)' = Opened(m)
  BY <1>1, <1>2, Unlinked, DescriptorsSame
<1>8. ASSUME n \notin wiped'
      PROVE  /\ r2.ref = References(n)' /\ (~Linked(n)' => r2.del)
             /\ Closers(n) \subseteq {p}
             /\ Deleters(n) \ {p} # {} => Linked(n)' /\ r2.del
             /\ \A q1, q2 \in Deleters(n) \ {p} : q1 = q2
  <2>1. n \notin wiped /\ Counted(n) /\ Marked(n) /\ Linked(n) /\ node[n].del /\ Deleters(n) \ {p} = {}
    BY <1>1, <1>2, <1>5, <1>8 DEF Sound, Marked
  <2>2. Closers(n) = {}
    BY <1>1, <1>5, <2>1, HeldNotClosed
  <2>3. References(n) = References(n)' + 2 /\ References(n)' \in Nat
    BY <1>6, <1>7, <2>1, CountsOfNodes DEF References
  <2>4. node[n].ref = References(n)
    BY <1>1, <2>1 DEF Counted
  <2>5. r2.ref = References(n)'
    BY <1>3, <1>4, <2>3, <2>4
  <2>6. r2.del
    BY <1>3, <1>4, <2>1
  <2> QED
    BY <2>1, <2>2, <2>5, <2>6
<1> QED
  BY <1>1, <1>2, <1>4, <1>7, <1>8, LeavingStep
LEMMA CloseStep ==
  ASSUME VInv, NEW p \in Procs, NEW n \in Addresses, Close(p, n)
  PROVE  VInv'
<1>r. PICK r : r = Less(node[n], 1)
  OBVIOUS
<1>1. /\ call[p].at = "idle" /\ fds[p][n] > 0 /\ node[n].alive
      /\ fds' = [fds EXCEPT ![p][n] = @ - 1] /\ Leave(p, n, r)
      /\ UNCHANGED <<children, onDisk, wiped>>
  BY <1>r DEF Close
<1>2. /\ VfsTypeOK /\ Sound(n) /\ node[n] \in NodeType /\ node[n].ref \in Nat
      /\ fds \in [Procs -> [Addresses -> 0..MaxFds]] /\ wiped' \subseteq Addresses
      /\ children' \in Seq(Addresses) /\ onDisk' \in BOOLEAN
  BY <1>1 DEF VInv, VfsTypeOK, NodeType
<1>3. /\ r \in NodeType /\ r.alive /\ r.del = node[n].del
      /\ node[n].ref >= 1 => r.ref = node[n].ref - 1
  BY <1>1, <1>2, <1>r, LessFacts
<1>4. \A m \in Addresses : p \notin Users(m) /\ p \notin Deleters(m)
  BY <1>1 DEF Users, Holders, Deleters
<1>5. p \notin Holders(n) /\ p \notin Holders(n)' /\ \A q \in Procs \ {p} : call'[q] = call[q]
  BY <1>1, <1>2, <1>3, <1>4, LeavingOthers DEF Users
<1>6. /\ Opened(n) = Opened(n)' + 1
      /\ \A m \in Addresses \ {n} : Opened(m)' = Opened(m)
      /\ \A m \in Addresses : Linked(m)' = Linked(m)
  BY <1>1, <1>2, DescriptorsFewer DEF Linked
<1>7. References(n) = References(n)' + 1 /\ References(n)' \in Nat
  BY <1>5, <1>6, HoldersSame, CountsOfNodes DEF References
<1>8. node[n].ref = References(n) => r.ref = References(n)'
  BY <1>3, <1>7
<1>9. Linked(n)' => r.ref = References(n)'
  BY <1>2, <1>6, <1>8 DEF Sound
<1>10. ASSUME n \notin wiped'
       PROVE  /\ r.ref = References(n)' /\ (~Linked(n)' => r.del)
              /\ Closers(n) \subseteq {p}
              /\ Deleters(n) \ {p} # {} => Linked(n)' /\ r.del
              /\ \A q1, q2 \in Deleters(n) \ {p} : q1 = q2
  <2>1. n \notin wiped /\ Counted(n) /\ Marked(n)
    BY <1>1, <1>2, <1>10 DEF Sound
  <2>2. Closers(n) = {}
    BY <1>1, <1>2, <2>1, DescriptorCounted, HeldNotClosed
  <2>3. r.ref = References(n)'
    BY <1>1, <1>8, <2>1 DEF Counted
  <2> QED
    BY <1>1, <1>3, <1>6, <2>1, <2>2, <2>3 DEF Marked
<1>11. fds' \in [Procs -> [Addresses -> 0..MaxFds]]
  <2>1. fds[p][n] - 1 \in 0..MaxFds
    BY <1>1, <1>2, VfsAssumption
  <2> QED
    BY <1>1, <1>2, <2>1
<1> QED
  BY <1>1, <1>2, <1>3, <1>4, <1>6, <1>9, <1>10, <1>11, LeavingStep

LEMMA ClosedStep ==
  ASSUME VInv, NEW p \in Procs, Closed(p)
  PROVE  VInv'
<1>n. PICK n \in Addresses : n = call[p].n
  BY CallFacts DEF VInv
<1>r. PICK r : r = IF call[p].deleting THEN Gone ELSE [node[n] EXCEPT !.handle = FALSE]
  OBVIOUS
<1>1. /\ call[p].at = "close" /\ node[n].alive
      /\ node' = [node EXCEPT ![n] = r]
      /\ children' = IF call[p].deleting THEN Without(children, {n}) ELSE children
      /\ call' = [call EXCEPT ![p] = Idle]
      /\ UNCHANGED <<onDisk, fds, wiped>>
  BY <1>n, <1>r DEF Closed
<1>2. /\ VfsTypeOK /\ Sound(n) /\ node \in [Addresses -> NodeType] /\ node[n] \in NodeType
      /\ call \in [Procs -> Call]
      /\ \A m \in Addresses \ {n} : p \notin Users(m)
  BY <1>n, CallFacts DEF VInv, VfsTypeOK
<1>3. r \in NodeType
  BY <1>2, <1>r DEF NodeType, Gone
<1>4. /\ children' \in Seq(Addresses)
      /\ \A m \in Addresses \ {n} : Linked(m)' = Linked(m)
      /\ call[p].deleting => ~Linked(n)'
      /\ ~call[p].deleting => Linked(n)' = Linked(n)
  <2>1. CASE call[p].deleting
    BY <1>1, <1>2, <2>1, Unlinked
  <2>2. CASE ~call[p].deleting
    BY <1>1, <1>2, <2>2 DEF VfsTypeOK, Linked
  <2> QED
    BY <2>1, <2>2
<1>5. /\ call' \in [Procs -> Call] /\ call'[p].at = "idle" /\ \A q \in Procs \ {p} : call'[q] = call[q]
      /\ node' \in [Addresses -> NodeType] /\ node'[n] = r /\ \A m \in Addresses \ {n} : node'[m] = node[m]
  <2>1. Idle \in Call /\ Idle.at = "idle"
    BY VfsAssumption DEF Idle, Call
  <2> QED
    BY <1>1, <1>2, <1>3, <2>1
<1>6. VfsTypeOK'
  BY <1>1, <1>2, <1>4, <1>5 DEF VfsTypeOK, NodeType
<1>7. /\ p \in Closers(n) /\ p \notin Holders(n) /\ p \notin Deleters(n)
      /\ \A m \in Addresses : p \notin Users(m)' /\ p \notin Holders(m)'
  BY <1>n, <1>1, <1>5 DEF Closers, Holders, Users, Deleters
<1>8. \A m \in Addresses : Opened(m)' = Opened(m)
  BY <1>1, DescriptorsSame
<1>9. Holders(n)' = Holders(n) /\ Cardinality(Holders(n))' = Cardinality(Holders(n))
  BY <1>5, <1>7, HoldersSame
<1>10. Linked(n)' => node'[n].alive /\ node'[n].ref = References(n)'
  <2> SUFFICES ASSUME Linked(n)' PROVE node'[n].alive /\ node'[n].ref = References(n)'
    OBVIOUS
  <2>1. ~call[p].deleting /\ Linked(n)
    BY <1>4
  <2>2. References(n)' = References(n)
    BY <1>8, <1>9, <2>1 DEF References
  <2>3. r.alive /\ r.ref = node[n].ref
    BY <1>1, <1>2, <1>r, <2>1 DEF NodeType
  <2> QED
    BY <1>2, <1>5, <2>1, <2>2, <2>3 DEF Sound
<1>11. ASSUME n \notin wiped' PROVE Counted(n)' /\ Marked(n)'
  <2>1. n \notin wiped /\ Counted(n) /\ Marked(n)
    BY <1>1, <1>2, <1>11 DEF Sound
  <2>2. node[n].ref = 0 /\ call[p].deleting /\ Closers(n) = {p}
    BY <1>7, <2>1 DEF Marked
  <2>3. References(n) = 0
    BY <1>1, <2>1, <2>2 DEF Counted
  <2>4. Holders(n) = {} /\ Opened(n) = 0 /\ ~Linked(n)
    BY <2>3, CountsOfNodes DEF References
  <2>5. Closers(n)' = {} /\ Deleters(n)' = {} /\ Users(n)' = {}
    BY <1>5, <1>7, <1>9, <2>2, <2>4 DEF Closers, Deleters, Users, Holders
  <2>6. References(n)' = 0
    BY <1>4, <1>8, <1>9, <2>2, <2>3, <2>4 DEF References
  <2>7. node'[n] = Gone
    BY <1>5, <1>r, <2>2
  <2> QED
    BY <2>5, <2>6, <2>7 DEF Counted, Marked, Gone
<1>12. Sound(n)'
  BY <1>10, <1>11 DEF Sound
<1>13. \A m \in Addresses \ {n} : p \notin Users(m) /\ p \notin Users(m)'
  BY <1>2, <1>7
<1>14. \A m \in Addresses : Sound(m)'
  BY <1>1, <1>4, <1>5, <1>8, <1>12, <1>13, OneNode
<1> QED
  BY <1>6, <1>14 DEF VInv

LEMMA FdDupStep ==
  ASSUME VInv, NEW p \in Procs, NEW q \in Procs, NEW n \in Addresses, FdDup(p, q, n)
  PROVE  VInv'
<1>1. /\ call[p].at = "idle" /\ fds[p][n] > 0 /\ fds[q][n] < MaxFds /\ node[n].alive
      /\ fds' = [fds EXCEPT ![q][n] = @ + 1]
      /\ node' = [node EXCEPT ![n].ref = @ + 1]
      /\ UNCHANGED <<children, onDisk, call, wiped>>
  BY DEF FdDup
<1>2. /\ VfsTypeOK /\ Sound(n) /\ node \in [Addresses -> NodeType] /\ node[n] \in NodeType /\ node[n].ref \in Nat
      /\ fds \in [Procs -> [Addresses -> 0..MaxFds]]
  BY DEF VInv, VfsTypeOK, NodeType
<1>3. PICK r : r = [node[n] EXCEPT !.ref = @ + 1]
  OBVIOUS
<1>4. r \in NodeType /\ r.alive /\ r.ref = node[n].ref + 1 /\ r.del = node[n].del
  BY <1>1, <1>2, <1>3 DEF NodeType
<1>5. /\ node' \in [Addresses -> NodeType] /\ node'[n] = r /\ \A m \in Addresses \ {n} : node'[m] = node[m]
  BY <1>1, <1>2, <1>3, <1>4
<1>6. fds' \in [Procs -> [Addresses -> 0..MaxFds]]
  <2>1. fds[q][n] + 1 \in 0..MaxFds
    BY <1>1, <1>2, VfsAssumption
  <2> QED
    BY <1>1, <1>2, <2>1
<1>7. VfsTypeOK'
  BY <1>1, <1>2, <1>5, <1>6 DEF VfsTypeOK, NodeType
<1>8. /\ Opened(n)' = Opened(n) + 1
      /\ \A m \in Addresses \ {n} : Opened(m)' = Opened(m)
      /\ \A m \in Addresses : Linked(m)' = Linked(m)
  BY <1>1, <1>2, DescriptorsMore DEF Linked
<1>9. /\ \A m \in Addresses : p \notin Users(m) /\ p \notin Users(m)'
      /\ Holders(n)' = Holders(n) /\ Users(n)' = Users(n)
      /\ Deleters(n)' = Deleters(n) /\ Closers(n)' = Closers(n)
  BY <1>1 DEF Users, Holders, Deleters, Closers
<1>10. References(n)' = References(n) + 1 /\ References(n) > 0
  <2>1. Opened(n) > 0
    BY <1>1, <1>2, DescriptorCounted
  <2> QED
    BY <1>8, <1>9, <2>1, CountsOfNodes DEF References
<1>11. ASSUME n \notin wiped' PROVE Counted(n)' /\ Marked(n)'
  <2>1. n \notin wiped /\ Counted(n) /\ Marked(n) /\ Closers(n) = {}
    BY <1>1, <1>2, <1>11, DescriptorCounted, HeldNotClosed DEF Sound
  <2>2. node'[n].alive /\ node'[n].ref = References(n)' /\ References(n)' # 0
    <3>1. node[n].ref = References(n)
      BY <1>1, <2>1 DEF Counted
    <3>2. node'[n] = r /\ r.alive /\ r.ref = References(n) + 1
      BY <1>4, <1>5, <3>1
    <3> QED
      BY <1>2, <1>10, <3>1, <3>2
  <2>3. Marked(n)'
    BY <1>1, <1>4, <1>5, <1>8, <1>9, <2>1 DEF Marked
  <2> QED
    BY <2>2, <2>3 DEF Counted
<1>12. Sound(n)'
  <2>1. Linked(n)' => node'[n].alive /\ node'[n].ref = References(n)'
    BY <1>2, <1>4, <1>5, <1>8, <1>10 DEF Sound
  <2> QED
    BY <1>11, <2>1 DEF Sound
<1>13. \A m \in Addresses : Sound(m)'
  BY <1>1, <1>5, <1>8, <1>9, <1>12, OneNode
<1> QED
  BY <1>7, <1>13 DEF VInv
-----------------------------------------------------------------------------
(***************************************************************************)
(* Refreshing the directory. In dir, N are nodes that are new, the others  *)
(* are as before or have been pruned.                                      *)
(***************************************************************************)
Renewed(dir, N) ==
  /\ dir.node \in [Addresses -> NodeType] /\ dir.children \in Seq(Addresses) /\ N \subseteq Unused
  /\ \A m \in N : dir.node[m] = Fresh /\ m \in Range(dir.children)
  /\ \A m \in Addresses \ N :
       IF Prunable(m) THEN dir.node[m] = Gone /\ m \notin Range(dir.children)
       ELSE dir.node[m] = node[m] /\ (m \in Range(dir.children) <=> Linked(m))

LEMMA ConsRange ==
  ASSUME NEW A, NEW s \in Seq(A), NEW a \in A
  PROVE  <<a>> \o s \in Seq(A) /\ Range(<<a>> \o s) = Range(s) \cup {a}
<1> DEFINE t == <<a>> \o s
<1>1. t \in Seq(A)
  OBVIOUS
<1>2. /\ DOMAIN t = 1..(Len(s) + 1) /\ DOMAIN s = 1..Len(s) /\ Len(s) \in Nat
      /\ t[1] = a /\ \A i \in 1..Len(s) : t[i + 1] = s[i]
  BY ConcatProperties, LenProperties
<1> HIDE DEF t
<1>3. \A i \in DOMAIN t \ {1} : i - 1 \in 1..Len(s) /\ t[i] = s[i - 1]
  <2> SUFFICES ASSUME NEW i \in DOMAIN t \ {1} PROVE i - 1 \in 1..Len(s) /\ t[i] = s[i - 1]
    OBVIOUS
  <2>1. i - 1 \in 1..Len(s) /\ (i - 1) + 1 = i
    BY <1>2
  <2> QED
    BY <1>2, <2>1
<1>4. \A i \in 1..Len(s) : i + 1 \in DOMAIN t
  BY <1>2
<1>5. 1 \in DOMAIN t
  BY <1>2
<1>6. Range(t) = Range(s) \cup {a}
  <2>1. \A x \in Range(t) : x \in Range(s) \cup {a}
    BY <1>2, <1>3 DEF Range
  <2>2. \A x \in Range(s) \cup {a} : x \in Range(t)
    BY <1>2, <1>4, <1>5 DEF Range
  <2> QED
    BY <2>1, <2>2
<1> QED
  BY <1>1, <1>6 DEF t

\* vfs_node_alloc and list_append
LEMMA Append1Renews ==
  ASSUME NEW dir, NEW N, Renewed(dir, N), \E n \in Unused : ~dir.node[n].alive
  PROVE  \E a \in Unused : Renewed(Append1(dir), N \cup {a})
<1>1. PICK a : a = CHOOSE n \in Unused : ~dir.node[n].alive
  OBVIOUS
<1>2. a \in Unused /\ ~dir.node[a].alive /\ a \in Addresses
  BY <1>1 DEF Unused
<1>3. PICK new : new = Append1(dir)
  OBVIOUS
<1>4. new.node = [dir.node EXCEPT ![a] = Fresh] /\ new.children = <<a>> \o dir.children
  BY <1>1, <1>3 DEF Append1
<1>5. Fresh \in NodeType
  BY DEF Fresh, NodeType
<1>6. /\ new.node \in [Addresses -> NodeType] /\ new.node[a] = Fresh
      /\ \A m \in Addresses \ {a} : new.node[m] = dir.node[m]
  BY <1>2, <1>4, <1>5 DEF Renewed
<1>7. new.children \in Seq(Addresses) /\ Range(new.children) = Range(dir.children) \cup {a}
  BY <1>2, <1>4, ConsRange DEF Renewed
<1>8. N \cup {a} \subseteq Unused /\ N \subseteq Addresses
  BY <1>2 DEF Renewed, Unused
<1>9. Renewed(new, N \cup {a})
  BY <1>6, <1>7, <1>8 DEF Renewed
<1> QED
  BY <1>2, <1>3, <1>9

\* There is room for two nodes
LEMMA RoomForTwo ==
  ASSUME Room, NEW a
  PROVE  \E n \in Unused : n # a
<1>1. IsFiniteSet(Unused)
  BY VfsAssumption, FS_Subset DEF Unused
<1> SUFFICES ASSUME Unused \subseteq {a} PROVE FALSE
  OBVIOUS
<1>2. Cardinality({a}) = 1 /\ IsFiniteSet({a})
  BY FS_Singleton
<1>3. Cardinality(Unused) <= 1 /\ Cardinality(Unused) \in Nat
  BY <1>1, <1>2, FS_Subset, FS_CardinalityType
<1> QED
  BY <1>3 DEF Room

\* fatfs_stat of the directory makes at most one node
LEMMA RefreshedRenews ==
  ASSUME VfsTypeOK, Room
  PROVE  \E N : Renewed(Refreshed, N) /\ (N = {} \/ \E a : N = {a})
<1>1. PICK pruned : pruned = [node     |-> [n \in Addresses |-> IF Prunable(n) THEN Gone ELSE node[n]],
                              children |-> Without(children, {n \in Addresses : Prunable(n)})]
  OBVIOUS
<1>2. node \in [Addresses -> NodeType] /\ children \in Seq(Addresses) /\ Gone \in NodeType
  BY DEF VfsTypeOK, NodeType, Gone
<1>3. /\ pruned.node \in [Addresses -> NodeType]
      /\ \A m \in Addresses : pruned.node[m] = IF Prunable(m) THEN Gone ELSE node[m]
  BY <1>1, <1>2
<1>4. /\ pruned.children \in Seq(Addresses)
      /\ Range(pruned.children) = Range(children) \ {n \in Addresses : Prunable(n)}
  BY <1>1, <1>2, WithoutLeaves
<1>5. Renewed(pruned, {})
  BY <1>3, <1>4 DEF Renewed, Linked
<1>6. \E n \in Unused : ~pruned.node[n].alive
  <2>1. PICK n \in Unused : TRUE
    BY RoomForTwo
  <2> QED
    BY <1>3, <2>1 DEF Unused, Gone
<1>7. PICK a : Renewed(Append1(pruned), {} \cup {a})
  BY <1>5, <1>6, Append1Renews
<1>8. Refreshed = pruned \/ Refreshed = Append1(pruned)
  BY <1>1 DEF Refreshed
<1>9. {} \cup {a} = {a}
  OBVIOUS
<1> QED
  BY <1>5, <1>7, <1>8, <1>9
\* After it every node is sound, and so is the one that the call of p has found
LEMMA RenewedSound ==
  ASSUME VInv, VfsTypeOK', NEW p \in Procs, NEW dir, NEW N, Renewed(dir, N),
         call[p].at \in {"walk", "parent"}, \A q \in Procs \ {p} : call'[q] = call[q],
         UNCHANGED fds, children' = dir.children, wiped' = wiped \ Unused,
         \A m \in Addresses :
           /\ p \notin Closers(m)' /\ p \notin Deleters(m)'
           /\ p \in Holders(m)' => m \in Range(dir.children) /\ node'[m] = [dir.node[m] EXCEPT !.ref = @ + 1]
           /\ p \notin Holders(m)' => node'[m] = dir.node[m]
  PROVE  \A m \in Addresses : Sound(m)'
<1> SUFFICES ASSUME NEW m \in Addresses PROVE Sound(m)'
  OBVIOUS
<1>1. p \notin Users(m) /\ p \notin Holders(m) /\ p \notin Closers(m) /\ p \notin Deleters(m)
  BY DEF Users, Holders, Closers, Deleters
<1>2. /\ Closers(m)' = Closers(m) /\ Deleters(m)' = Deleters(m)
      /\ \A q \in Closers(m) : call'[q] = call[q]
      /\ Users(m)' = Holders(m)' \cup Closers(m)'
      /\ Users(m) = Holders(m) \cup Closers(m) /\ Deleters(m) \subseteq Holders(m)
      /\ p \notin Users(m)' <=> p \notin Holders(m)'
  <2>1. Closers(m)' = Closers(m) /\ Deleters(m)' = Deleters(m)
    <3>1. p \notin Closers(m)' /\ p \notin Deleters(m)'
      OBVIOUS
    <3>2. Closers(m)' = Closers(m)
      BY <1>1, <3>1 DEF Closers
    <3>3. Deleters(m)' = Deleters(m)
      BY <1>1, <3>1 DEF Deleters
    <3> QED
      BY <3>2, <3>3
  <2>2. \A q \in Closers(m) : call'[q] = call[q]
    BY <1>1 DEF Closers
  <2>3. /\ Users(m)' = Holders(m)' \cup Closers(m)'
        /\ Users(m) = Holders(m) \cup Closers(m) /\ Deleters(m) \subseteq Holders(m)
    BY DEF Users, Holders, Closers, Deleters
  <2> QED
    BY <2>1, <2>2, <2>3
<1>3. /\ Opened(m)' = Opened(m) /\ Opened(m) \in Nat
      /\ Cardinality(Holders(m)) \in Nat /\ (Cardinality(Holders(m)) = 0 <=> Holders(m) = {})
      /\ Cardinality(Holders(m))' = Cardinality(Holders(m)) + (IF p \in Holders(m)' THEN 1 ELSE 0)
      /\ p \notin Holders(m)' => Holders(m)' = Holders(m)
  BY <1>1, CountsOfNodes, DescriptorsSame, HoldersMore, HoldersSame
<1>4. Linked(m)' <=> m \in Range(dir.children)
  BY DEF Linked
<1>5. Sound(m) /\ node[m] \in NodeType /\ dir.node[m] \in NodeType
  BY DEF VInv, VfsTypeOK, NodeType, Renewed
<1>6. m \in Unused => ~node[m].alive /\ ~Linked(m) /\ Users(m) = {} /\ Holders(m) = {} /\ Opened(m) = 0
  BY <1>2, <1>5 DEF Unused, Sound
<1>7. CASE m \in N
  <2>1. m \in Unused /\ dir.node[m] = Fresh /\ Linked(m)'
    BY <1>4, <1>7 DEF Renewed
  <2>2. Closers(m)' = {} /\ Deleters(m)' = {}
    BY <1>2, <1>6, <2>1
  <2>3. References(m)' = IF p \in Holders(m)' THEN 2 ELSE 1
    BY <1>3, <1>6, <2>1, FS_EmptySet DEF References
  <2>4. node'[m].alive /\ node'[m].ref = References(m)'
    <3>1. Fresh.alive /\ Fresh.ref = 1 /\ Fresh \in NodeType
      BY DEF Fresh, NodeType
    <3>2. CASE p \in Holders(m)'
      <4>1. node'[m] = [Fresh EXCEPT !.ref = @ + 1]
        BY <2>1, <3>2
      <4>2. node'[m].alive /\ node'[m].ref = 2
        BY <3>1, <4>1 DEF NodeType
      <4> QED
        BY <2>3, <3>2, <4>2
    <3>3. CASE p \notin Holders(m)'
      <4>1. node'[m] = Fresh
        BY <2>1, <3>3
      <4> QED
        BY <2>3, <3>1, <3>3, <4>1
    <3> QED
      BY <3>2, <3>3
  <2>5. References(m)' # 0
    BY <2>3
  <2> QED
    BY <2>1, <2>2, <2>4, <2>5 DEF Sound, Counted, Marked
<1>8. CASE m \notin N /\ Prunable(m)
  <2>1. dir.node[m] = Gone /\ ~Linked(m)' /\ p \notin Holders(m)' /\ node'[m] = Gone
    BY <1>4, <1>8 DEF Renewed
  <2>2. Linked(m) /\ node[m].alive /\ node[m].ref = References(m) /\ node[m].ref <= 1
    BY <1>5, <1>8 DEF Prunable, Sound
  <2>3. node[m].ref = 1 /\ Opened(m) = 0 /\ Holders(m) = {}
    BY <1>3, <2>2 DEF References
  <2>4. ASSUME m \notin wiped' PROVE Counted(m)' /\ Marked(m)'
    <3>1. m \notin wiped /\ Marked(m)
      BY <1>5, <2>2, <2>4 DEF Sound, Unused
    <3>2. Closers(m) = {}
      BY <2>3, <3>1 DEF Marked
    <3>3. Holders(m)' = {} /\ Closers(m)' = {} /\ Users(m)' = {} /\ Deleters(m)' = {}
      BY <1>2, <1>3, <2>1, <2>3, <3>2
    <3>4. References(m)' = 0
      BY <1>3, <2>1, <2>3 DEF References
    <3> QED
      BY <2>1, <3>3, <3>4 DEF Counted, Marked, Gone
  <2> QED
    BY <2>1, <2>4 DEF Sound
<1>9. CASE m \notin N /\ ~Prunable(m)
  <2>1. dir.node[m] = node[m] /\ (Linked(m)' <=> Linked(m))
    BY <1>4, <1>9 DEF Renewed
  <2>2. Linked(m)' = Linked(m)
    BY <2>1 DEF Linked
  <2>3. CASE p \notin Holders(m)'
    <3>1. node'[m] = node[m] /\ p \notin Users(m)' /\ References(m)' = References(m)
      BY <1>2, <1>3, <2>1, <2>2, <2>3 DEF References
    <3>2. CASE m \in Unused
      <4>1. ~node'[m].alive /\ ~Linked(m)' /\ Users(m)' = {} /\ Closers(m)' = {} /\ Deleters(m)' = {}
        BY <1>2, <1>3, <1>6, <2>1, <2>3, <3>1, <3>2
      <4>2. References(m)' = 0
        BY <1>3, <1>6, <2>3, <3>2, <4>1, FS_EmptySet DEF References
      <4> QED
        BY <4>1, <4>2 DEF Sound, Counted, Marked
    <3>3. CASE m \notin Unused
      BY <1>1, <1>3, <2>2, <3>1, <3>3, Untouched DEF VInv
    <3> QED
      BY <3>2, <3>3
  <2>4. CASE p \in Holders(m)'
    <3>1. Linked(m) /\ Linked(m)' /\ node[m].alive /\ node[m].ref = References(m)
      BY <1>4, <1>5, <2>1, <2>4 DEF Sound
    <3>2. References(m)' = References(m) + 1 /\ References(m) \in Nat /\ References(m) > 0
      BY <1>3, <2>4, <3>1 DEF References
    <3>3. node'[m] = [node[m] EXCEPT !.ref = @ + 1]
      BY <2>1, <2>4
    <3>4. node'[m].alive /\ node'[m].del = node[m].del /\ node'[m].ref = References(m)'
      BY <1>5, <3>1, <3>2, <3>3 DEF NodeType
    <3>5. ASSUME m \notin wiped' PROVE Counted(m)' /\ Marked(m)'
      <4>1. m \notin wiped /\ Marked(m)
        BY <1>5, <1>6, <3>1, <3>5 DEF Sound
      <4>2. Closers(m) = {}
        BY <3>1, <3>2, <4>1 DEF Marked
      <4>3. Marked(m)'
        BY <1>2, <3>1, <3>4, <4>1, <4>2 DEF Marked
      <4>4. Counted(m)'
        BY <3>2, <3>4 DEF Counted
      <4> QED
        BY <4>3, <4>4
    <3> QED
      BY <3>1, <3>4, <3>5 DEF Sound
  <2> QED
    BY <2>3, <2>4
<1> QED
  BY <1>7, <1>8, <1>9
\* A step that changes what the call of p waits in
LEMMA CallChanges ==
  ASSUME VfsTypeOK, NEW p \in Procs, NEW c \in Call, call' = [call EXCEPT ![p] = c]
  PROVE  call' \in [Procs -> Call] /\ call'[p] = c /\ \A q \in Procs \ {p} : call'[q] = call[q]
BY DEF VfsTypeOK

LEMMA WalkStep ==
  ASSUME VInv, NEW p \in Procs, Walk(p)
  PROVE  VInv'
<1>d. PICK dir : dir = Refreshed
  OBVIOUS
<1>v. PICK visible : visible = Without(dir.children, {n \in Addresses : dir.node[n].del})
  OBVIOUS
<1>1. /\ call[p].at = "walk" /\ Room /\ children' = dir.children
      /\ \/ /\ visible = <<>> /\ node' = dir.node
            /\ \/ call' = [call EXCEPT ![p] = [@ EXCEPT !.at = "parent"]]
               \/ call' = [call EXCEPT ![p] = Idle]
         \/ /\ visible # <<>> /\ node' = [dir.node EXCEPT ![Head(visible)].ref = @ + 1]
            /\ call' = [call EXCEPT ![p].at = "stat", ![p].n = Head(visible), ![p].deleting = FALSE]
      /\ wiped' = wiped \ Unused /\ UNCHANGED <<onDisk, fds>>
  BY <1>d, <1>v DEF Walk
<1>2. /\ VfsTypeOK /\ call \in [Procs -> Call] /\ call[p] \in Call
      /\ fds \in [Procs -> [Addresses -> 0..MaxFds]] /\ onDisk \in BOOLEAN /\ wiped \subseteq Addresses
  BY DEF VInv, VfsTypeOK
<1>3. PICK N : Renewed(dir, N)
  BY <1>d, <1>1, <1>2, RefreshedRenews
<1>4. dir.node \in [Addresses -> NodeType] /\ dir.children \in Seq(Addresses)
  BY <1>3 DEF Renewed
<1>5. visible \in Seq(Addresses) /\ Range(visible) \subseteq Range(dir.children)
  BY <1>v, <1>4, WithoutLeaves
<1>6. CASE visible = <<>>
  <2>1. PICK c : /\ c \in {[call[p] EXCEPT !.at = "parent"], Idle}
                 /\ call' = [call EXCEPT ![p] = c]
    <3>1. \/ call' = [call EXCEPT ![p] = [call[p] EXCEPT !.at = "parent"]]
          \/ call' = [call EXCEPT ![p] = Idle]
      BY <1>1, <1>2, <1>6
    <3> QED
      BY <3>1
  <2>2. c \in Call /\ c.at \in {"parent", "idle"}
    <3>1. CASE c = [call[p] EXCEPT !.at = "parent"]
      BY <1>2, <3>1 DEF Call
    <3>2. CASE c = Idle
      BY <3>2, VfsAssumption DEF Call, Idle
    <3> QED
      BY <2>1, <3>1, <3>2
  <2>3. call' \in [Procs -> Call] /\ call'[p] = c /\ \A q \in Procs \ {p} : call'[q] = call[q]
    BY <1>2, <2>1, <2>2, CallChanges
  <2>4. node' = dir.node
    BY <1>1, <1>6
  <2>5. VfsTypeOK'
    BY <1>1, <1>2, <1>4, <2>3, <2>4 DEF VfsTypeOK, NodeType
  <2>6. \A m \in Addresses : p \notin Closers(m)' /\ p \notin Deleters(m)' /\ p \notin Holders(m)'
    BY <2>2, <2>3 DEF Closers, Deleters, Holders
  <2>7. \A m \in Addresses : Sound(m)'
    BY <1>1, <1>3, <2>3, <2>4, <2>5, <2>6, RenewedSound
  <2> QED
    BY <2>5, <2>7 DEF VInv
<1>7. CASE visible # <<>>
  <2>1. PICK v : v = Head(visible)
    OBVIOUS
  <2>2. v \in Addresses /\ v \in Range(dir.children)
    <3>1. v \in Addresses /\ v = visible[1] /\ 1 \in DOMAIN visible
      BY <1>5, <1>7, <2>1, HeadTailProperties, EmptySeq, LenProperties
    <3> QED
      BY <1>5, <3>1 DEF Range
  <2>3. PICK c : c = [call[p] EXCEPT !.at = "stat", !.n = v, !.deleting = FALSE]
    OBVIOUS
  <2>4. c \in Call /\ c.at = "stat" /\ c.n = v
    BY <1>2, <2>2, <2>3 DEF Call
  <2>5. call' = [call EXCEPT ![p] = c]
    BY <1>1, <1>2, <1>7, <2>1, <2>3
  <2>6. call' \in [Procs -> Call] /\ call'[p] = c /\ \A q \in Procs \ {p} : call'[q] = call[q]
    BY <1>2, <2>4, <2>5, CallChanges
  <2>7. PICK r : r = [dir.node[v] EXCEPT !.ref = @ + 1]
    OBVIOUS
  <2>8. r \in NodeType
    BY <1>4, <2>2, <2>7 DEF NodeType
  <2>9. node' = [dir.node EXCEPT ![v] = r]
    BY <1>1, <1>4, <1>7, <2>1, <2>2, <2>7
  <2>10. node' \in [Addresses -> NodeType] /\ node'[v] = r /\ \A m \in Addresses \ {v} : node'[m] = dir.node[m]
    BY <1>4, <2>2, <2>8, <2>9
  <2>11. VfsTypeOK'
    BY <1>1, <1>2, <1>4, <2>6, <2>10 DEF VfsTypeOK, NodeType
  <2>12. \A m \in Addresses : /\ p \notin Closers(m)' /\ p \notin Deleters(m)'
                              /\ p \in Holders(m)' <=> m = v
    BY <2>4, <2>6 DEF Closers, Deleters, Holders
  <2>13. \A m \in Addresses :
           /\ p \notin Closers(m)' /\ p \notin Deleters(m)'
           /\ p \in Holders(m)' => m \in Range(dir.children) /\ node'[m] = [dir.node[m] EXCEPT !.ref = @ + 1]
           /\ p \notin Holders(m)' => node'[m] = dir.node[m]
    BY <2>2, <2>7, <2>10, <2>12
  <2>14. /\ call[p].at \in {"walk", "parent"} /\ UNCHANGED fds
         /\ children' = dir.children /\ wiped' = wiped \ Unused
         /\ \A q \in Procs \ {p} : call'[q] = call[q]
    BY <1>1, <2>6
  <2>15. \A m \in Addresses : Sound(m)'
    BY <1>3, <2>11, <2>13, <2>14, RenewedSound
  <2> QED
    BY <2>11, <2>15 DEF VInv
<1> QED
  BY <1>6, <1>7

LEMMA MkNodeStep ==
  ASSUME VInv, NEW p \in Procs, MkNode(p)
  PROVE  VInv'
<1>d. PICK dir : dir = Refreshed
  OBVIOUS
<1>a. PICK added : added = Append1(dir)
  OBVIOUS
<1>1. /\ call[p].at = "parent" /\ Room /\ node' = added.node /\ children' = added.children
      /\ call' = [call EXCEPT ![p].at = "mkfile"]
      /\ wiped' = wiped \ Unused /\ UNCHANGED <<onDisk, fds>>
  BY <1>d, <1>a DEF MkNode
<1>2. /\ VfsTypeOK /\ call \in [Procs -> Call] /\ call[p] \in Call
      /\ fds \in [Procs -> [Addresses -> 0..MaxFds]] /\ onDisk \in BOOLEAN /\ wiped \subseteq Addresses
  BY DEF VInv, VfsTypeOK
<1>3. PICK N : Renewed(dir, N) /\ (N = {} \/ \E a : N = {a})
  BY <1>d, <1>1, <1>2, RefreshedRenews
<1>4. \E n \in Unused : ~dir.node[n].alive
  <2>1. PICK n \in Unused : n \notin N
    BY <1>1, <1>3, RoomForTwo
  <2>2. n \in Addresses \ N /\ ~node[n].alive
    BY <2>1 DEF Unused
  <2>3. dir.node[n] \in {Gone, node[n]}
    BY <1>3, <2>2 DEF Renewed
  <2> QED
    BY <2>1, <2>2, <2>3 DEF Gone
<1>5. PICK a : Renewed(added, N \cup {a})
  BY <1>a, <1>3, <1>4, Append1Renews
<1>6. added.node \in [Addresses -> NodeType] /\ added.children \in Seq(Addresses)
  BY <1>5 DEF Renewed
<1>7. PICK c : c = [call[p] EXCEPT !.at = "mkfile"]
  OBVIOUS
<1>8. c \in Call /\ c.at = "mkfile"
  BY <1>2, <1>7 DEF Call
<1>9. call' = [call EXCEPT ![p] = c]
  BY <1>1, <1>2, <1>7
<1>10. call' \in [Procs -> Call] /\ call'[p] = c /\ \A q \in Procs \ {p} : call'[q] = call[q]
  BY <1>2, <1>8, <1>9, CallChanges
<1>11. VfsTypeOK'
  BY <1>1, <1>2, <1>6, <1>10 DEF VfsTypeOK, NodeType
<1>12. \A m \in Addresses : p \notin Closers(m)' /\ p \notin Deleters(m)' /\ p \notin Holders(m)'
  BY <1>8, <1>10 DEF Closers, Deleters, Holders
<1>13. \A m \in Addresses : Sound(m)'
  BY <1>1, <1>5, <1>10, <1>11, <1>12, RenewedSound
<1> QED
  BY <1>11, <1>13 DEF VInv
-----------------------------------------------------------------------------
\* In the first state there is no node
LEMMA VInit ==
  VfsInit => VInv
<1> SUFFICES ASSUME VfsInit PROVE VInv
  OBVIOUS
<1>1. VfsTypeOK
  BY VfsAssumption DEF VfsInit, VfsTypeOK, Gone, Idle, Call
<1>2. ASSUME NEW n \in Addresses PROVE Sound(n)
  <2>1. ~node[n].alive /\ ~Linked(n)
    BY DEF VfsInit, Gone, Linked, Range
  <2>2. Users(n) = {} /\ Holders(n) = {} /\ Closers(n) = {} /\ Deleters(n) = {}
    BY DEF VfsInit, Idle, Users, Holders, Closers, Deleters
  <2>3. Descriptors(n) = {}
    BY VfsAssumption DEF VfsInit, Descriptors
  <2>4. References(n) = 0
    BY <2>1, <2>2, <2>3, FS_EmptySet DEF References, Opened
  <2> QED
    BY <2>1, <2>2, <2>4 DEF Sound, Counted, Marked
<1> QED
  BY <1>1, <1>2 DEF VInv

LEMMA VNext ==
  VInv /\ [VfsNext]_vfsVars => VInv'
<1> SUFFICES ASSUME VInv, [VfsNext]_vfsVars PROVE VInv'
  OBVIOUS
<1>1. CASE UNCHANGED vfsVars
  <2>1. VfsTypeOK'
    BY <1>1 DEF VInv, VfsTypeOK, vfsVars
  <2>2. ASSUME NEW m \in Addresses PROVE Sound(m)'
    <3>1. /\ Holders(m)' = Holders(m) /\ Users(m)' = Users(m) /\ Deleters(m)' = Deleters(m) /\ Closers(m)' = Closers(m)
      BY <1>1 DEF Holders, Users, Deleters, Closers, vfsVars
    <3>2. Linked(m)' = Linked(m) /\ Opened(m)' = Opened(m)
      BY <1>1, DescriptorsSame DEF Linked, vfsVars
    <3>3. References(m)' = References(m)
      BY <3>1, <3>2 DEF References
    <3> QED
      BY <1>1, <3>1, <3>2, <3>3 DEF VInv, Sound, Counted, Marked, vfsVars
  <2> QED
    BY <2>1, <2>2 DEF VInv
<1>2. ASSUME NEW p \in Procs, NEW op \in {"open", "create", "unlink"}, Begin(p, op) PROVE VInv'
  BY <1>2, BeginStep
<1>3. ASSUME NEW p \in Procs, Walk(p) \/ MkNode(p) \/ MkFile(p) PROVE VInv'
  BY <1>3, WalkStep, MkNodeStep, MkFileStep
<1>4. ASSUME NEW p \in Procs, OpenStat(p) \/ OpenUpdate(p) PROVE VInv'
  BY <1>4, OpenStatStep, OpenUpdateStep
<1>5. ASSUME NEW p \in Procs, UnlinkStat(p) \/ UnlinkRedo(p) \/ UnlinkDone(p) \/ UnlinkFails(p) PROVE VInv'
  BY <1>5, UnlinkStatStep, UnlinkRedoStep, UnlinkDoneStep, UnlinkFailsStep
<1>6. ASSUME NEW p \in Procs, NEW n \in Addresses, Close(p, n) PROVE VInv'
  BY <1>6, CloseStep
<1>7. ASSUME NEW p \in Procs, NEW n \in Addresses, NEW q \in Procs \ {p}, FdDup(p, q, n) PROVE VInv'
  BY <1>7, FdDupStep
<1>8. ASSUME NEW p \in Procs, Closed(p) PROVE VInv'
  BY <1>8, ClosedStep
<1> QED
  BY <1>1, <1>2, <1>3, <1>4, <1>5, <1>6, <1>7, <1>8 DEF VfsNext

LEMMA VImplies ==
  VInv => VfsTypeOK /\ NodesAlive
BY DEF VInv, Sound, Counted, NodesAlive

(***************************************************************************)
(* Every variable of the node model keeps its type: struct vfs_node and    *)
(* the calls on the way.                                                   *)
(***************************************************************************)
THEOREM VfsTypeThm == VfsSpec => []VfsTypeOK
<1> QED
  BY VInit, VNext, VImplies, PTL DEF VfsSpec

(***************************************************************************)
(* A node lives exactly as long as the tree, a descriptor or a call refers *)
(* to it, and its count says how many do, whatever opens, unlinks, closes, *)
(* forks and disk failures are interleaved (vfs.cpp:465), unless a refresh *)
(* has wiped its mark out.                                                 *)
(***************************************************************************)
THEOREM NodesAliveThm == VfsSpec => []NodesAlive
<1> QED
  BY VInit, VNext, VImplies, PTL DEF VfsSpec
-----------------------------------------------------------------------------
(***************************************************************************)
(* The inductive invariant of the stack pool. A section is split as a      *)
(* whole and, in a slot, the guard's section first; a slot that somebody   *)
(* holds has its stack and a guard of its own, a free one nothing that the *)
(* pool wrote except cleared pages, and a leaked one nothing at all.       *)
(***************************************************************************)
Uniform(e) == \A p \in Pages : \A q \in Section(p) : e[p] = "section" <=> e[q] = "section"

GuardFirst(s, e) == (\E p \in Stack(s) : e[p] # "section") => e[Guard(s)] # "section"

HeldSlot(s) ==
  /\ \A p \in Stack(s) : entry[p] = "own"
  /\ entry[Guard(s)] # "section"
  /\ s \in bare \/ Guard(s) \notin cached

FreeSlot(s) ==
  \A p \in SlotPages(s) : entry[p] \in {"section", "identity", "none"} /\ (entry[p] = "none" => p \notin cached)

LeakedSlot(s) ==
  /\ taken = tables /\ entry[Guard(s)] = "section"
  /\ \A p \in SlotPages(s) : entry[p] \in {"section", "identity"}

StackInv ==
  /\ StackTypeOK
  /\ Uniform(entry) /\ \A s \in SlotNos : GuardFirst(s, entry)
  /\ Accessible(entry) \subseteq cached
  /\ \A s \in handed : HeldSlot(s)
  /\ \A s \in SlotNos \ bitmap : FreeSlot(s)
  /\ \A s \in bitmap \ handed : LeakedSlot(s)
-----------------------------------------------------------------------------
\* Where pages are

LEMMA SlotOrder ==
  ASSUME NEW s \in SlotNos, NEW t \in SlotNos, s < t, NEW p \in SlotPages(s)
  PROVE  p < Guard(t)
<1>1. s \in Nat /\ t \in Nat /\ StackPages \in Nat
  BY StackAssumption DEF SlotNos
<1>2. PICK k \in Nat : k = StackPages + 1
  BY <1>1
<1>3. Guard(s) = s * k /\ Guard(t) = t * k
  BY <1>2 DEF Guard
<1>4. PICK d \in Nat : t = s + 1 + d
  <2>1. t - s - 1 \in Nat /\ t = s + 1 + (t - s - 1)
    BY <1>1
  <2> QED
    BY <2>1
<1>5. t * k = s * k + k + d * k /\ d * k \in Nat /\ s * k \in Nat
  BY <1>1, <1>2, <1>4
<1>6. p <= s * k + StackPages
  <2>1. p = s * k \/ p \in (s * k + 1)..(s * k + StackPages)
    BY <1>3 DEF SlotPages, Stack
  <2> QED
    BY <1>1, <1>5, <2>1
<1>7. p \in Int
  BY <1>1, <1>3, <1>5 DEF SlotPages, Stack
<1> QED
  BY <1>1, <1>2, <1>3, <1>5, <1>6, <1>7

LEMMA SlotFacts ==
  ASSUME NEW s \in SlotNos
  PROVE  /\ Guard(s) \in Nat /\ Guard(s) \in Pages /\ Stack(s) \subseteq Pages /\ SlotPages(s) \subseteq Pages
         /\ Guard(s) \in SlotPages(s) /\ Stack(s) \subseteq SlotPages(s) /\ SlotPages(s) = Stack(s) \cup {Guard(s)}
         /\ \A p \in Stack(s) : Guard(s) < p /\ p \in Nat
<1>1. s \in Nat /\ StackPages \in Nat /\ Guard(s) \in Nat
  BY StackAssumption DEF SlotNos, Guard
<1>2. \A p \in Stack(s) : Guard(s) < p /\ p \in Nat
  BY <1>1 DEF Stack
<1>3. SlotPages(s) \subseteq Pages
  BY DEF Pages
<1> QED
  BY <1>1, <1>2, <1>3 DEF SlotPages

LEMMA PagesFacts ==
  /\ Pages \subseteq Nat
  /\ \A p \in Pages : \E s \in SlotNos : p \in SlotPages(s)
<1>1. \A p \in Pages : \E s \in SlotNos : p \in SlotPages(s)
  BY DEF Pages
<1> QED
  BY <1>1, SlotFacts

\* Two slots have no page in common
LEMMA SlotsApart ==
  ASSUME NEW s \in SlotNos, NEW t \in SlotNos, s # t
  PROVE  SlotPages(s) \cap SlotPages(t) = {}
<1> SUFFICES ASSUME NEW p \in SlotPages(s), p \in SlotPages(t) PROVE FALSE
  OBVIOUS
<1>1. s \in Nat /\ t \in Nat /\ p \in Nat
  BY SlotFacts, PagesFacts DEF SlotNos
<1>2. Guard(s) <= p /\ Guard(t) <= p /\ Guard(s) \in Nat /\ Guard(t) \in Nat
  BY <1>1, SlotFacts
<1>3. CASE s < t
  BY <1>1, <1>2, <1>3, SlotOrder
<1>4. CASE t < s
  BY <1>1, <1>2, <1>4, SlotOrder
<1> QED
  BY <1>1, <1>3, <1>4

\* Sections are intervals
LEMMA DivUp ==
  ASSUME NEW a \in Nat, NEW b \in Nat, NEW m \in Nat \ {0}, a <= b
  PROVE  a \div m <= b \div m /\ a \div m \in Nat
<1>1. /\ a = m * (a \div m) + (a % m) /\ a % m \in 0..(m - 1) /\ a \div m \in Int
      /\ b = m * (b \div m) + (b % m) /\ b % m \in 0..(m - 1) /\ b \div m \in Int
  BY SMTT(30)
<1> DEFINE x == a \div m
           y == b \div m
           u == a % m
           v == b % m
<1>2. a = m * x + u /\ b = m * y + v /\ u \in 0..(m - 1) /\ v \in 0..(m - 1) /\ x \in Int /\ y \in Int
  BY <1>1
<1> HIDE DEF x, y, u, v
<1>3. x <= y
  <2> SUFFICES ASSUME x >= y + 1 PROVE FALSE
    BY <1>2
  <2>1. m * x >= m * (y + 1)
    BY <1>2
  <2> QED
    BY <1>2, <2>1
<1>4. x \in Nat
  BY <1>2
<1> QED
  BY <1>3, <1>4 DEF x, y

LEMMA SectionFacts ==
  ASSUME StackTypeOK, NEW p \in Pages, NEW q \in Section(p)
  PROVE  /\ q \in Pages /\ p \in Section(q) /\ p \in Section(p)
         /\ \A r \in Pages : p <= r /\ r <= q => r \in Section(p)
<1>1. p \in Nat /\ q \in Nat /\ q \in Pages /\ offset \in Nat /\ SectionPages \in Nat \ {0}
  BY PagesFacts, StackAssumption DEF StackTypeOK, Section
<1>2. (q + offset) \div SectionPages = (p + offset) \div SectionPages
  BY DEF Section
<1>3. ASSUME NEW r \in Pages, p <= r, r <= q PROVE r \in Section(p)
  <2>1. r \in Nat
    BY PagesFacts
  <2>2. (p + offset) \div SectionPages <= (r + offset) \div SectionPages
    BY <1>1, <1>3, <2>1, DivUp
  <2>3. (r + offset) \div SectionPages <= (q + offset) \div SectionPages
    BY <1>1, <1>3, <2>1, DivUp
  <2>4. /\ (p + offset) \div SectionPages \in Nat /\ (r + offset) \div SectionPages \in Nat
    BY <1>1, <2>1, DivUp
  <2>5. (r + offset) \div SectionPages = (p + offset) \div SectionPages
    BY <1>2, <2>2, <2>3, <2>4
  <2> QED
    BY <2>5 DEF Section
<1> QED
  BY <1>1, <1>2, <1>3 DEF Section
-----------------------------------------------------------------------------
(***************************************************************************)
(* The functions of vmap.c and kstack.c, as relations between the tables   *)
(* before and after. Fit tables are as the invariant has them; for the     *)
(* slot t everything below is split already, or no table is left; and a    *)
(* change of P leaves other pages as they are, except that a split may     *)
(* take them out of their section.                                         *)
(***************************************************************************)
VM == [entry : [Pages -> Entries], taken : 0..tables, err : {"ok", "no_l2", "already", "not_mapped", "is_section"}]

Fit(vm) == vm \in VM /\ Uniform(vm.entry) /\ \A s \in SlotNos : GuardFirst(s, vm.entry)

BelowSplit(t, vm) == vm.taken = tables \/ \A s \in SlotNos : s < t => vm.entry[Guard(s)] # "section"

Change(vm, new, P) ==
  /\ vm.taken <= new.taken
  /\ \A q \in Pages : vm.entry[q] # "section" => new.entry[q] # "section"
  /\ \A q \in Pages \ P : \/ new.entry[q] = vm.entry[q]
                          \/ vm.entry[q] = "section" /\ new.entry[q] = "identity" /\ vm.taken < tables

Same(vm, new) == new.entry = vm.entry /\ new.taken = vm.taken

LEMMA VMFields ==
  ASSUME StackTypeOK, NEW vm \in VM
  PROVE  /\ vm.entry \in [Pages -> Entries] /\ vm.taken \in 0..tables /\ vm.taken \in Nat /\ tables \in Nat
BY StackAssumption DEF VM, StackTypeOK

LEMMA FailFacts ==
  ASSUME NEW vm \in VM, NEW err \in {"ok", "no_l2", "already", "not_mapped", "is_section"}
  PROVE  /\ Fail(vm, err) \in VM /\ Same(vm, Fail(vm, err)) /\ Fail(vm, err).err = err
         /\ Fit(vm) => Fit(Fail(vm, err))
<1>1. Fail(vm, err) \in VM /\ Same(vm, Fail(vm, err)) /\ Fail(vm, err).err = err
  BY DEF Fail, VM, Same
<1> QED
  BY <1>1 DEF Fit, Same, GuardFirst, Uniform

LEMMA SameIsChange ==
  ASSUME StackTypeOK, NEW vm \in VM, NEW new, Same(vm, new), NEW P
  PROVE  Change(vm, new, P)
BY VMFields DEF Same, Change

LEMMA ChangeTrans ==
  ASSUME StackTypeOK, NEW a \in VM, NEW b \in VM, NEW c \in VM, NEW P, NEW Q,
         Change(a, b, P), Change(b, c, Q)
  PROVE  Change(a, c, P \cup Q)
<1>1. /\ a.taken \in Nat /\ b.taken \in Nat /\ c.taken \in Nat /\ tables \in Nat
  BY VMFields
<1>2. a.taken <= c.taken
  BY <1>1 DEF Change
<1>3. \A q \in Pages : a.entry[q] # "section" => c.entry[q] # "section"
  BY DEF Change
<1>4. ASSUME NEW q \in Pages \ (P \cup Q)
      PROVE  \/ c.entry[q] = a.entry[q]
             \/ a.entry[q] = "section" /\ c.entry[q] = "identity" /\ a.taken < tables
  <2>1. \/ b.entry[q] = a.entry[q]
        \/ a.entry[q] = "section" /\ b.entry[q] = "identity" /\ a.taken < tables
    BY DEF Change
  <2>2. \/ c.entry[q] = b.entry[q]
        \/ b.entry[q] = "section" /\ c.entry[q] = "identity" /\ b.taken < tables
    BY DEF Change
  <2>3. a.taken <= b.taken
    BY DEF Change
  <2> QED
    BY <1>1, <2>1, <2>2, <2>3
<1> QED
  BY <1>2, <1>3, <1>4 DEF Change

LEMMA ChangeWider ==
  ASSUME NEW a, NEW b, NEW P, NEW Q, Change(a, b, P), P \subseteq Q
  PROVE  Change(a, b, Q)
BY DEF Change

LEMMA BelowStays ==
  ASSUME StackTypeOK, NEW a \in VM, NEW b \in VM, NEW P, Change(a, b, P), NEW t \in SlotNos, BelowSplit(t, a)
  PROVE  BelowSplit(t, b)
<1>1. a.taken \in 0..tables /\ b.taken \in 0..tables /\ tables \in Nat
  BY VMFields
<1>2. CASE a.taken = tables
  BY <1>1, <1>2 DEF Change, BelowSplit
<1>3. CASE \A s \in SlotNos : s < t => a.entry[Guard(s)] # "section"
  BY <1>3, SlotFacts DEF Change, BelowSplit
<1> QED
  BY <1>2, <1>3 DEF BelowSplit

\* Writing one entry of a table
LEMMA PutFacts ==
  ASSUME StackTypeOK, NEW vm, Fit(vm), NEW p \in Pages, vm.entry[p] # "section",
         NEW e \in {"own", "noaccess", "none"}
  PROVE  /\ Fit(Put(vm, p, e)) /\ Put(vm, p, e).err = "ok" /\ Put(vm, p, e).entry[p] = e
         /\ Change(vm, Put(vm, p, e), {p})
<1>1. PICK new : new = Put(vm, p, e)
  OBVIOUS
<1>2. vm \in VM
  BY DEF Fit
<1>3. new.entry = [vm.entry EXCEPT ![p] = e] /\ new.taken = vm.taken /\ new.err = "ok" /\ new \in VM
  BY <1>1, <1>2 DEF Put, VM, Entries
<1>4. /\ new.entry[p] = e /\ \A q \in Pages : q # p => new.entry[q] = vm.entry[q]
      /\ \A q \in Pages : new.entry[q] = "section" <=> vm.entry[q] = "section"
  BY <1>2, <1>3, VMFields
<1>5. Uniform(new.entry)
  BY <1>4, SectionFacts DEF Fit, Uniform
<1>6. \A s \in SlotNos : GuardFirst(s, new.entry)
  BY <1>4, SlotFacts DEF Fit, GuardFirst
<1>7. Change(vm, new, {p})
  BY <1>2, <1>3, <1>4, VMFields DEF Change
<1> QED
  BY <1>1, <1>3, <1>4, <1>5, <1>6, <1>7 DEF Fit

\* Splitting the section of a page of the slot t, the guard's first
LEMMA SplitFacts ==
  ASSUME StackTypeOK, NEW vm, Fit(vm), NEW t \in SlotNos, NEW p \in SlotPages(t),
         vm.entry[p] = "section" => BelowSplit(t, vm), p = Guard(t) \/ vm.entry[Guard(t)] # "section"
  PROVE  /\ Fit(Split(vm, p)) /\ Change(vm, Split(vm, p), {})
         /\ vm.entry[p] # "section" => Split(vm, p).err = "ok" /\ Same(vm, Split(vm, p))
         /\ Split(vm, p).err = "ok" => Split(vm, p).entry[p] # "section"
         /\ Split(vm, p).err # "ok" => /\ Split(vm, p).err = "no_l2" /\ Same(vm, Split(vm, p))
                                       /\ vm.taken = tables /\ vm.entry[p] = "section"
<1>0. vm \in VM /\ vm.entry \in [Pages -> Entries] /\ vm.taken \in 0..tables /\ vm.taken \in Nat /\ tables \in Nat /\ p \in Pages
  BY VMFields, SlotFacts DEF Fit
<1>1. CASE vm.entry[p] # "section"
  <2>1. Split(vm, p) = Fail(vm, "ok")
    BY <1>1 DEF Split
  <2> QED
    BY <1>0, <1>1, <2>1, FailFacts, SameIsChange DEF Same
<1>2. CASE vm.entry[p] = "section" /\ vm.taken >= tables
  <2>1. Split(vm, p) = Fail(vm, "no_l2")
    BY <1>2 DEF Split
  <2> QED
    BY <1>0, <1>2, <2>1, FailFacts, SameIsChange
<1>3. CASE vm.entry[p] = "section" /\ ~(vm.taken >= tables)
  <2>1. PICK new : new = Split(vm, p)
    OBVIOUS
  <2>2. /\ new.entry = [q \in Pages |-> IF q \in Section(p) THEN "identity" ELSE vm.entry[q]]
        /\ new.taken = vm.taken + 1 /\ new.err = "ok"
        /\ new = [entry |-> new.entry, taken |-> new.taken, err |-> new.err]
    BY <1>3, <2>1 DEF Split
  <2>3. new \in VM
    BY <1>0, <1>3, <2>2 DEF VM, Entries
  <2>4. /\ \A q \in Section(p) : q \in Pages /\ vm.entry[q] = "section" /\ new.entry[q] = "identity"
        /\ \A q \in Pages \ Section(p) : new.entry[q] = vm.entry[q]
        /\ p \in Section(p)
    BY <1>0, <1>3, <2>2, SectionFacts DEF Fit, Uniform, Section
  <2>5. Change(vm, new, {})
    BY <1>0, <1>3, <2>2, <2>4 DEF Change
  <2>6. Uniform(new.entry)
    <3>1. \A q, r \in Pages : r \in Section(q) /\ q \in Section(p) => r \in Section(p)
      BY DEF Section
    <3>2. \A q, r \in Pages : r \in Section(q) => q \in Section(r)
      BY DEF Section
    <3> QED
      BY <2>4, <3>1, <3>2 DEF Fit, Uniform, Section
  <2>7. ASSUME NEW s \in SlotNos PROVE GuardFirst(s, new.entry)
    <3> SUFFICES ASSUME NEW q \in Stack(s), new.entry[q] # "section" PROVE new.entry[Guard(s)] # "section"
      BY DEF GuardFirst
    <3>1. Guard(s) \in Pages /\ q \in Pages /\ Guard(s) < q /\ s \in Int /\ t \in Int
      BY SlotFacts DEF SlotNos
    <3>2. CASE vm.entry[q] # "section"
      BY <2>5, <3>1, <3>2 DEF Fit, GuardFirst, Change
    <3>3. CASE vm.entry[q] = "section"
      <4>1. q \in Section(p)
        BY <2>4, <3>1, <3>3
      <4>2. CASE s < t
        BY <1>0, <1>3, <2>5, <3>1, <4>2 DEF BelowSplit, Change
      <4>3. CASE s = t
        BY <1>3, <2>4, <2>5, <3>1, <4>3 DEF Change
      <4>4. CASE t < s
        <5>1. p <= Guard(s) /\ Guard(s) <= q
          <6>1. p < Guard(s)
            BY <4>4, SlotOrder
          <6>2. p \in Nat /\ Guard(s) \in Nat /\ q \in Nat
            <7>1. \A x \in Pages : x \in Nat
              BY PagesFacts
            <7> QED
              BY <1>0, <3>1, <7>1
          <6> QED
            BY <3>1, <6>1, <6>2
        <5> QED
          BY <1>0, <2>4, <3>1, <4>1, <5>1, SectionFacts
      <4> QED
        BY <3>1, <4>2, <4>3, <4>4
    <3> QED
      BY <3>2, <3>3
  <2>8. Fit(new)
    BY <2>3, <2>6, <2>7 DEF Fit
  <2> QED
    BY <1>3, <2>1, <2>2, <2>4, <2>5, <2>8
<1> QED
  BY <1>0, <1>1, <1>2, <1>3

LEMMA UnmapFacts ==
  ASSUME StackTypeOK, NEW vm, Fit(vm), NEW p \in Pages
  PROVE  /\ Fit(Unmap(vm, p)) /\ Change(vm, Unmap(vm, p), {p})
         /\ vm.entry[p] = "none" => Unmap(vm, p).err = "not_mapped" /\ Same(vm, Unmap(vm, p))
         /\ vm.entry[p] = "section" => Unmap(vm, p).err = "is_section" /\ Same(vm, Unmap(vm, p))
         /\ vm.entry[p] \notin {"none", "section"} => Unmap(vm, p).err = "ok" /\ Unmap(vm, p).entry[p] = "none"
<1>1. vm \in VM
  BY DEF Fit
<1>2. CASE vm.entry[p] = "none"
  <2>1. Unmap(vm, p) = Fail(vm, "not_mapped")
    BY <1>2 DEF Unmap
  <2> QED
    BY <1>1, <1>2, <2>1, FailFacts, SameIsChange
<1>3. CASE vm.entry[p] = "section"
  <2>1. Unmap(vm, p) = Fail(vm, "is_section")
    BY <1>3 DEF Unmap
  <2> QED
    BY <1>1, <1>3, <2>1, FailFacts, SameIsChange
<1>4. CASE vm.entry[p] \notin {"none", "section"}
  <2>1. Unmap(vm, p) = Put(vm, p, "none")
    BY <1>4 DEF Unmap
  <2> QED
    BY <1>4, <2>1, PutFacts
<1> QED
  BY <1>2, <1>3, <1>4

LEMMA TolerateFacts ==
  ASSUME NEW vm, Fit(vm), NEW errs
  PROVE  /\ Fit(Tolerate(vm, errs)) /\ Same(vm, Tolerate(vm, errs))
         /\ Tolerate(vm, errs).err = IF vm.err \in errs THEN "ok" ELSE vm.err
<1>1. vm \in VM
  BY DEF Fit
<1> QED
  BY <1>1, FailFacts DEF Tolerate, Same

LEMMA ChangeSame ==
  ASSUME NEW a, NEW b, NEW c, NEW P, Change(a, b, P), Same(b, c)
  PROVE  Change(a, c, P)
BY DEF Change, Same

\* Clearing a guard page: it fails only where its section is still whole and no table is left
LEMMA GuardUnmapFacts ==
  ASSUME StackTypeOK, NEW vm, Fit(vm), NEW t \in SlotNos, NEW g, g = Guard(t),
         vm.entry[g] = "section" => BelowSplit(t, vm)
  PROVE  /\ Fit(GuardUnmap(vm, g)) /\ Change(vm, GuardUnmap(vm, g), {g})
         /\ vm.entry[g] # "section" => GuardUnmap(vm, g).err = "ok"
         /\ GuardUnmap(vm, g).err = "ok" => GuardUnmap(vm, g).entry[g] = "none"
         /\ GuardUnmap(vm, g).err # "ok" => /\ GuardUnmap(vm, g).err = "no_l2" /\ Same(vm, GuardUnmap(vm, g))
                                            /\ vm.taken = tables /\ vm.entry[g] = "section"
<1>1. g \in Pages /\ g \in SlotPages(t)
  BY SlotFacts
<1>2. PICK first : first = Unmap(vm, g)
  OBVIOUS
<1>3. PICK opened : opened = Split(vm, g)
  OBVIOUS
<1>4. PICK last : last = IF first.err # "is_section" THEN first
                         ELSE IF opened.err # "ok" THEN opened ELSE Unmap(opened, g)
  OBVIOUS
<1>5. GuardUnmap(vm, g) = Tolerate(last, {"not_mapped"})
  BY <1>2, <1>3, <1>4 DEF GuardUnmap
<1>6. /\ Fit(first) /\ Change(vm, first, {g})
      /\ vm.entry[g] = "none" => first.err = "not_mapped" /\ Same(vm, first)
      /\ vm.entry[g] = "section" => first.err = "is_section" /\ Same(vm, first)
      /\ vm.entry[g] \notin {"none", "section"} => first.err = "ok" /\ first.entry[g] = "none"
  BY <1>1, <1>2, UnmapFacts
<1>7. /\ Fit(opened) /\ Change(vm, opened, {})
      /\ opened.err = "ok" => opened.entry[g] # "section"
      /\ opened.err # "ok" => opened.err = "no_l2" /\ Same(vm, opened) /\ vm.taken = tables /\ vm.entry[g] = "section"
  BY <1>1, <1>3, SplitFacts
<1>8. CASE vm.entry[g] # "section"
  <2>1. last = first
    BY <1>4, <1>6, <1>8
  <2>2. CASE vm.entry[g] = "none"
    BY <1>5, <1>6, <2>1, <2>2, TolerateFacts, ChangeSame DEF Same
  <2>3. CASE vm.entry[g] # "none"
    BY <1>5, <1>6, <1>8, <2>1, <2>3, TolerateFacts, ChangeSame DEF Same
  <2> QED
    BY <1>8, <2>2, <2>3
<1>9. CASE vm.entry[g] = "section" /\ opened.err # "ok"
  <2>1. last = opened
    BY <1>4, <1>6, <1>9
  <2>2. Change(vm, opened, {g})
    BY <1>7, ChangeWider
  <2> QED
    BY <1>5, <1>7, <1>9, <2>1, <2>2, TolerateFacts, ChangeSame DEF Same
<1>10. CASE vm.entry[g] = "section" /\ opened.err = "ok"
  <2>1. last = Unmap(opened, g)
    BY <1>4, <1>6, <1>10
  <2>2. /\ Fit(last) /\ Change(opened, last, {g})
        /\ opened.entry[g] = "none" => last.err = "not_mapped" /\ Same(opened, last)
        /\ opened.entry[g] # "none" => last.err = "ok" /\ last.entry[g] = "none"
    BY <1>1, <1>7, <1>10, <2>1, UnmapFacts
  <2>3. Change(vm, last, {g})
    <3>1. Change(vm, last, {} \cup {g})
      BY <1>7, <2>2, ChangeTrans DEF Fit
    <3>2. {} \cup {g} = {g}
      OBVIOUS
    <3> QED
      BY <3>1, <3>2
  <2>4. last.entry[g] = "none" /\ last.err \in {"ok", "not_mapped"}
    BY <2>2 DEF Same
  <2> QED
    BY <1>5, <1>10, <2>2, <2>3, <2>4, TolerateFacts, ChangeSame DEF Same
<1> QED
  BY <1>8, <1>9, <1>10

\* Making a guard of either kind
LEMMA GuardApplyFacts ==
  ASSUME StackTypeOK, NEW vm, Fit(vm), NEW t \in SlotNos, NEW g, g = Guard(t),
         vm.entry[g] = "section" => BelowSplit(t, vm)
  PROVE  /\ Fit(GuardApply(vm, g)) /\ Change(vm, GuardApply(vm, g), {g})
         /\ GuardApply(vm, g).err = "ok" => GuardApply(vm, g).entry[g] \in {"none", "noaccess"}
         /\ GuardApply(vm, g).err # "ok" => /\ Same(vm, GuardApply(vm, g))
                                            /\ vm.taken = tables /\ vm.entry[g] = "section"
<1>1. g \in Pages /\ g \in SlotPages(t)
  BY SlotFacts
<1>2. CASE kind # "ap_none"
  BY <1>2, GuardUnmapFacts DEF GuardApply
<1>3. CASE kind = "ap_none"
  <2>1. PICK opened : opened = Split(vm, g)
    OBVIOUS
  <2>2. GuardApply(vm, g) = IF opened.err # "ok" THEN opened
                            ELSE IF opened.entry[g] = "none" THEN Map(opened, g, "noaccess")
                            ELSE SetAttr(opened, g, "noaccess")
    BY <1>3, <2>1 DEF GuardApply
  <2>3. /\ Fit(opened) /\ Change(vm, opened, {})
        /\ opened.err = "ok" => opened.entry[g] # "section"
        /\ opened.err # "ok" => opened.err = "no_l2" /\ Same(vm, opened) /\ vm.taken = tables /\ vm.entry[g] = "section"
    BY <1>1, <2>1, SplitFacts
  <2>4. CASE opened.err # "ok"
    BY <2>2, <2>3, <2>4, ChangeWider
  <2>5. CASE opened.err = "ok"
    <3>1. GuardApply(vm, g) = Put(opened, g, "noaccess")
      <4>1. CASE opened.entry[g] = "none"
        <5>1. Split(opened, g) = Fail(opened, "ok") /\ Fail(opened, "ok").err = "ok"
          BY <2>3, <4>1, FailFacts DEF Split, Fit
        <5>2. Map(opened, g, "noaccess") = Put(Fail(opened, "ok"), g, "noaccess")
          BY <4>1, <5>1 DEF Map
        <5>3. Fail(opened, "ok") = opened
          BY <2>3, <2>5 DEF Fail, Fit, VM
        <5> QED
          BY <2>2, <2>5, <4>1, <5>2, <5>3
      <4>2. CASE opened.entry[g] # "none"
        BY <2>2, <2>3, <2>5, <4>2 DEF SetAttr
      <4> QED
        BY <4>1, <4>2
    <3>2. /\ Fit(GuardApply(vm, g)) /\ GuardApply(vm, g).err = "ok" /\ GuardApply(vm, g).entry[g] = "noaccess"
          /\ Change(opened, GuardApply(vm, g), {g})
      BY <1>1, <2>3, <2>5, <3>1, PutFacts
    <3>3. Change(vm, GuardApply(vm, g), {} \cup {g})
      BY <2>3, <3>2, ChangeTrans DEF Fit
    <3>4. {} \cup {g} = {g}
      OBVIOUS
    <3> QED
      BY <3>2, <3>3, <3>4
  <2> QED
    BY <2>4, <2>5
<1> QED
  BY <1>2, <1>3

\* Claiming a stack page of a slot whose guard is set
LEMMA PageClaimFacts ==
  ASSUME StackTypeOK, NEW vm, Fit(vm), NEW t \in SlotNos, BelowSplit(t, vm), vm.entry[Guard(t)] # "section",
         NEW p \in Stack(t)
  PROVE  /\ Fit(PageClaim(vm, p)) /\ Change(vm, PageClaim(vm, p), {p})
         /\ PageClaim(vm, p).err = "ok" => PageClaim(vm, p).entry[p] = "own"
<1>1. p \in Pages /\ p \in SlotPages(t)
  BY SlotFacts
<1>2. PICK opened : opened = Split(vm, p)
  OBVIOUS
<1>3. PICK bare1 : bare1 = Unmap(opened, p)
  OBVIOUS
<1>4. PICK cleared : cleared = Tolerate(bare1, {"not_mapped"})
  OBVIOUS
<1>5. PageClaim(vm, p) = IF opened.err # "ok" THEN opened
                         ELSE IF cleared.err # "ok" THEN cleared ELSE Map(cleared, p, "own")
  BY <1>2, <1>3, <1>4 DEF PageClaim
<1>6. /\ Fit(opened) /\ Change(vm, opened, {})
      /\ opened.err = "ok" => opened.entry[p] # "section"
  BY <1>1, <1>2, SplitFacts
<1>7. CASE opened.err # "ok"
  BY <1>5, <1>6, <1>7, ChangeWider
<1>8. CASE opened.err = "ok"
  <2>1. /\ Fit(bare1) /\ Change(opened, bare1, {p})
        /\ opened.entry[p] = "none" => bare1.err = "not_mapped" /\ Same(opened, bare1)
        /\ opened.entry[p] # "none" => bare1.err = "ok" /\ bare1.entry[p] = "none"
    BY <1>1, <1>3, <1>6, <1>8, UnmapFacts
  <2>2. bare1.entry[p] = "none" /\ bare1.err \in {"ok", "not_mapped"}
    BY <2>1 DEF Same
  <2>3. Fit(cleared) /\ Same(bare1, cleared) /\ cleared.err = "ok" /\ cleared.entry[p] = "none"
    BY <1>4, <2>1, <2>2, TolerateFacts DEF Same
  <2>4. PageClaim(vm, p) = Put(cleared, p, "own")
    <3>1. Split(cleared, p) = Fail(cleared, "ok") /\ Fail(cleared, "ok").err = "ok"
      BY <2>3, FailFacts DEF Split, Fit
    <3>2. Fail(cleared, "ok") = cleared
      BY <2>3 DEF Fail, Fit, VM
    <3>3. Map(cleared, p, "own") = Put(cleared, p, "own")
      BY <2>3, <3>1, <3>2 DEF Map
    <3> QED
      BY <1>5, <1>8, <2>3, <3>3
  <2>5. /\ Fit(PageClaim(vm, p)) /\ PageClaim(vm, p).entry[p] = "own" /\ Change(cleared, PageClaim(vm, p), {p})
    BY <1>1, <2>3, <2>4, PutFacts
  <2>6. Change(opened, cleared, {p})
    BY <2>1, <2>3, ChangeSame
  <2>7. Change(opened, PageClaim(vm, p), {p} \cup {p})
    BY <1>6, <2>3, <2>5, <2>6, ChangeTrans DEF Fit
  <2>8. {p} \cup {p} = {p} /\ {} \cup {p} = {p}
    OBVIOUS
  <2>9. Change(vm, PageClaim(vm, p), {} \cup {p})
    BY <1>6, <2>5, <2>7, <2>8, ChangeTrans DEF Fit
  <2> QED
    BY <2>5, <2>8, <2>9
<1> QED
  BY <1>7, <1>8

\* Claiming the stack, page by page
LEMMA ClaimStackFacts ==
  ASSUME StackTypeOK, NEW vm, Fit(vm), vm.err = "ok", NEW t \in SlotNos, BelowSplit(t, vm),
         vm.entry[Guard(t)] # "section"
  PROVE  /\ Fit(ClaimStack(vm, t)) /\ Change(vm, ClaimStack(vm, t), Stack(t))
         /\ ClaimStack(vm, t).err = "ok" => \A p \in Stack(t) : ClaimStack(vm, t).entry[p] = "own"
<1> DEFINE L == StackPages
           Next1(g, i) == IF g.err # "ok" THEN g ELSE PageClaim(g, Guard(t) + i)
           Claim(f, i) == IF i = 0 THEN vm ELSE IF f[i - 1].err # "ok" THEN f[i - 1]
                          ELSE PageClaim(f[i - 1], Guard(t) + i)
           claim == CHOOSE f : f = [i \in 0..L |-> Claim(f, i)]
<1>1. L \in Nat
  BY StackAssumption
<1>2. ClaimStack(vm, t) = claim[L]
  BY DEF ClaimStack
<1> HIDE DEF L
<1>3. \A n \in 0..L : \E f : f = [i \in 0..n |-> Claim(f, i)]
  <2> DEFINE S == {n \in 0..L : \E f : f = [i \in 0..n |-> Claim(f, i)]}
  <2>1. 0 \in S
    <3> DEFINE f == [i \in 0..0 |-> vm]
    <3>1. \A i \in 0..0 : i = 0
      OBVIOUS
    <3>2. f = [i \in 0..0 |-> Claim(f, i)]
      BY <3>1
    <3> HIDE DEF f
    <3> QED
      BY <1>1, <3>2
  <2>2. ASSUME NEW n \in 1..L, n - 1 \in S PROVE n \in S
    <3>1. PICK g : g = [i \in 0..(n - 1) |-> Claim(g, i)]
      BY <2>2
    <3> DEFINE f == [i \in 0..n |-> IF i = n THEN Claim(g, n) ELSE g[i]]
    <3>2. \A i \in 0..n : i # 0 => i - 1 \in 0..n /\ i - 1 # n /\ f[i - 1] = g[i - 1]
      BY <1>1
    <3>3. \A i \in 0..n : Claim(f, i) = Claim(g, i)
      <4> HIDE DEF f
      <4> QED
        BY <3>2
    <3>4. \A i \in 0..(n - 1) : g[i] = Claim(g, i)
      <4> HIDE DEF Claim
      <4> QED
        BY <3>1
    <3>5. \A i \in 0..n : f[i] = Claim(f, i)
      <4>1. \A i \in 0..n : f[i] = Claim(g, i)
        <5> HIDE DEF Claim
        <5>1. \A i \in 0..n : i # n => i \in 0..(n - 1)
          BY <1>1
        <5> QED
          BY <3>4, <5>1
      <4> HIDE DEF Claim, f
      <4> QED
        BY <3>3, <4>1
    <3>6. f = [i \in 0..n |-> Claim(f, i)]
      <4>1. f = [i \in 0..n |-> f[i]]
        OBVIOUS
      <4> HIDE DEF f, Claim
      <4> QED
        BY <3>5, <4>1
    <3> HIDE DEF f, Claim
    <3> QED
      BY <3>6
  <2> HIDE DEF S
  <2>3. 0..L \subseteq S
    BY <1>1, <2>1, <2>2, UpTo
  <2> QED
    BY <2>3 DEF S
<1>4. claim = [i \in 0..L |-> Claim(claim, i)]
  <2>1. \E f : f = [i \in 0..L |-> Claim(f, i)]
    BY <1>1, <1>3
  <2> HIDE DEF Claim
  <2> QED
    BY <2>1
<1> HIDE DEF claim
<1>5. \A i \in 0..L : claim[i] = Claim(claim, i)
  <2> HIDE DEF Claim
  <2> QED
    BY <1>4
<1>6. claim[0] = vm /\ \A i \in 1..L : i - 1 \in 0..L /\ claim[i] = Next1(claim[i - 1], i)
  BY <1>1, <1>5
<1> HIDE DEF Claim
<1>7. Guard(t) \in Nat /\ Stack(t) = {Guard(t) + i : i \in 1..L}
  <2>1. Guard(t) \in Nat
    BY SlotFacts
  <2>2. ASSUME NEW p \in Stack(t) PROVE p - Guard(t) \in 1..L /\ p = Guard(t) + (p - Guard(t))
    BY <1>1, <2>1 DEF Stack, L
  <2>3. \A i \in 1..L : Guard(t) + i \in Stack(t)
    BY <1>1, <2>1 DEF Stack, L
  <2> QED
    BY <2>1, <2>2, <2>3
<1> DEFINE Good(i) == /\ Fit(claim[i]) /\ Change(vm, claim[i], Stack(t))
                      /\ claim[i].err = "ok" => \A j \in 1..i : claim[i].entry[Guard(t) + j] = "own"
           G == {i \in 0..L : Good(i)}
<1>8. 0 \in G
  <2>1. Change(vm, vm, Stack(t))
    BY SameIsChange DEF Same, Fit
  <2> QED
    BY <1>1, <1>6, <2>1
<1>9. ASSUME NEW i \in 1..L, i - 1 \in G PROVE i \in G
  <2>1. PICK g : g = claim[i - 1]
    OBVIOUS
  <2>2. /\ Fit(g) /\ Change(vm, g, Stack(t))
        /\ g.err = "ok" => \A j \in 1..(i - 1) : g.entry[Guard(t) + j] = "own"
    BY <1>9, <2>1
  <2>3. PICK new : new = claim[i]
    OBVIOUS
  <2>4. new = IF g.err # "ok" THEN g ELSE PageClaim(g, Guard(t) + i)
    BY <1>6, <2>1, <2>3
  <2>5. CASE g.err # "ok"
    <3>1. claim[i] = g
      BY <2>3, <2>4, <2>5
    <3>2. Good(i)
      BY <2>2, <2>5, <3>1
    <3> QED
      BY <1>1, <3>2
  <2>6. CASE g.err = "ok"
    <3>1. PICK p : p = Guard(t) + i
      OBVIOUS
    <3>2. p \in Stack(t) /\ Guard(t) \in Pages /\ Guard(t) \notin Stack(t) /\ p \in Pages
      BY <1>7, <3>1, SlotFacts
    <3>3. g.entry[Guard(t)] # "section" /\ BelowSplit(t, g)
      BY <2>2, <3>2, BelowStays DEF Change, Fit
    <3>4. Fit(new) /\ Change(g, new, {p}) /\ (new.err = "ok" => new.entry[p] = "own")
      BY <2>2, <2>4, <2>6, <3>1, <3>2, <3>3, PageClaimFacts
    <3>5. Change(vm, new, Stack(t))
      <4>1. Change(vm, new, Stack(t) \cup {p})
        BY <2>2, <3>4, ChangeTrans DEF Fit
      <4>2. Stack(t) \cup {p} = Stack(t)
        BY <3>2
      <4> QED
        BY <4>1, <4>2
    <3>6. ASSUME new.err = "ok", NEW j \in 1..i PROVE new.entry[Guard(t) + j] = "own"
      <4>1. CASE j = i
        BY <3>1, <3>4, <3>6, <4>1
      <4>2. CASE j # i
        <5>1. j \in 1..(i - 1) /\ j \in 1..L /\ Guard(t) + j # p
          BY <1>1, <1>7, <3>1, <4>2
        <5>2. g.entry[Guard(t) + j] = "own" /\ Guard(t) + j \in Pages \ {p}
          BY <1>7, <2>2, <2>6, <5>1, SlotFacts
        <5> QED
          BY <3>4, <5>2 DEF Change
      <4> QED
        BY <4>1, <4>2
    <3> QED
      BY <1>1, <2>3, <3>4, <3>5, <3>6
  <2> QED
    BY <2>5, <2>6
<1> HIDE DEF G
<1>10. L \in G
  <2>1. 0..L \subseteq G
    BY <1>1, <1>8, <1>9, UpTo
  <2> QED
    BY <1>1, <2>1
<1>11. Good(L)
  BY <1>10 DEF G
<1> QED
  BY <1>2, <1>7, <1>11

\* Setting a slot up as a whole
LEMMA SlotSetupFacts ==
  ASSUME StackTypeOK, NEW vm, Fit(vm), NEW t \in SlotNos, BelowSplit(t, vm)
  PROVE  /\ Fit(SlotSetup(vm, t)) /\ Change(vm, SlotSetup(vm, t), SlotPages(t)) /\ BelowSplit(t, SlotSetup(vm, t))
         /\ SlotSetup(vm, t).err = "ok" => /\ \A p \in Stack(t) : SlotSetup(vm, t).entry[p] = "own"
                                           /\ SlotSetup(vm, t).entry[Guard(t)] \in {"none", "noaccess"}
         /\ SlotSetup(vm, t).entry[Guard(t)] = "section" => Same(vm, SlotSetup(vm, t)) /\ vm.taken = tables
<1>1. PICK guarded : guarded = GuardApply(vm, Guard(t))
  OBVIOUS
<1>2. PICK new : new = SlotSetup(vm, t)
  OBVIOUS
<1>3. new = IF guarded.err # "ok" THEN guarded ELSE ClaimStack(guarded, t)
  BY <1>1, <1>2 DEF SlotSetup
<1>4. /\ Fit(guarded) /\ Change(vm, guarded, {Guard(t)})
      /\ guarded.err = "ok" => guarded.entry[Guard(t)] \in {"none", "noaccess"}
      /\ guarded.err # "ok" => Same(vm, guarded) /\ vm.taken = tables
  BY <1>1, GuardApplyFacts
<1>5. BelowSplit(t, guarded)
  BY <1>4, BelowStays DEF Fit
<1>6. /\ SlotPages(t) = Stack(t) \cup {Guard(t)} /\ Guard(t) \in Pages
      /\ Guard(t) \notin Stack(t)
  BY SlotFacts
<1>7. CASE guarded.err # "ok"
  <2>1. Change(vm, new, SlotPages(t))
    BY <1>3, <1>4, <1>6, <1>7, ChangeWider
  <2> QED
    BY <1>2, <1>3, <1>4, <1>5, <1>7, <2>1
<1>8. CASE guarded.err = "ok"
  <2>1. guarded.entry[Guard(t)] # "section"
    BY <1>4, <1>8
  <2>2. /\ Fit(new) /\ Change(guarded, new, Stack(t))
        /\ new.err = "ok" => \A p \in Stack(t) : new.entry[p] = "own"
    BY <1>3, <1>4, <1>5, <1>8, <2>1, ClaimStackFacts
  <2>3. new.entry[Guard(t)] = guarded.entry[Guard(t)]
    BY <1>6, <2>1, <2>2 DEF Change
  <2>4. Change(vm, new, {Guard(t)} \cup Stack(t)) /\ BelowSplit(t, new)
    BY <1>4, <1>5, <2>2, ChangeTrans, BelowStays DEF Fit
  <2>5. {Guard(t)} \cup Stack(t) = SlotPages(t)
    BY <1>6
  <2> QED
    BY <1>2, <1>4, <1>8, <2>1, <2>2, <2>3, <2>4, <2>5
<1> QED
  BY <1>7, <1>8

\* Rolling a slot back: everything is cleared, or the guard's section cannot be split
LEMMA SlotReleaseFacts ==
  ASSUME StackTypeOK, NEW vm, Fit(vm), NEW t \in SlotNos, vm.entry[Guard(t)] = "section" => BelowSplit(t, vm)
  PROVE  /\ Fit(SlotRelease(vm, t)) /\ Change(vm, SlotRelease(vm, t), SlotPages(t))
         /\ vm.entry[Guard(t)] # "section" => SlotRelease(vm, t).err = "ok"
         /\ SlotRelease(vm, t).err = "ok" => /\ SlotRelease(vm, t).entry[Guard(t)] = "none"
                                             /\ \A p \in Stack(t) : SlotRelease(vm, t).entry[p] \in {"none", "section"}
         /\ SlotRelease(vm, t).err # "ok" => /\ Same(vm, SlotRelease(vm, t)) /\ vm.taken = tables
                                             /\ \A p \in SlotPages(t) : vm.entry[p] = "section"
<1>1. PICK guarded : guarded = GuardUnmap(vm, Guard(t))
  OBVIOUS
<1>2. PICK new : new = SlotRelease(vm, t)
  OBVIOUS
<1>3. /\ new.entry = [p \in Pages |-> IF p \in Stack(t) /\ guarded.entry[p] # "section" THEN "none" ELSE guarded.entry[p]]
      /\ new = [guarded EXCEPT !.entry = new.entry]
  BY <1>1, <1>2 DEF SlotRelease
<1>4. /\ Fit(guarded) /\ Change(vm, guarded, {Guard(t)})
      /\ vm.entry[Guard(t)] # "section" => guarded.err = "ok"
      /\ guarded.err = "ok" => guarded.entry[Guard(t)] = "none"
      /\ guarded.err # "ok" => Same(vm, guarded) /\ vm.taken = tables /\ vm.entry[Guard(t)] = "section"
  BY <1>1, GuardUnmapFacts
<1>5. guarded \in VM /\ vm \in VM
  BY <1>4 DEF Fit
<1>6. new.taken = guarded.taken /\ new.err = guarded.err /\ new \in VM
  BY <1>3, <1>5 DEF VM, Entries
<1>7. /\ SlotPages(t) = Stack(t) \cup {Guard(t)} /\ Guard(t) \in Pages /\ Stack(t) \subseteq Pages
      /\ Guard(t) \notin Stack(t)
  BY SlotFacts
<1>8. /\ \A q \in Pages : new.entry[q] = "section" <=> guarded.entry[q] = "section"
      /\ \A q \in Pages \ Stack(t) : new.entry[q] = guarded.entry[q]
      /\ \A q \in Stack(t) : new.entry[q] \in {"none", "section"}
  BY <1>3, <1>7
<1>9. Fit(new)
  <2>1. Uniform(new.entry)
    BY <1>4, <1>8, SectionFacts DEF Fit, Uniform
  <2>2. \A s \in SlotNos : GuardFirst(s, new.entry)
    BY <1>4, <1>8, SlotFacts DEF Fit, GuardFirst
  <2> QED
    BY <1>6, <2>1, <2>2 DEF Fit
<1>10. Change(vm, new, SlotPages(t))
  <2>1. Change(guarded, new, Stack(t))
    BY <1>5, <1>6, <1>8, VMFields DEF Change
  <2>2. Change(vm, new, {Guard(t)} \cup Stack(t))
    BY <1>4, <1>5, <1>6, <2>1, ChangeTrans
  <2>3. {Guard(t)} \cup Stack(t) = SlotPages(t)
    BY <1>7
  <2> QED
    BY <2>2, <2>3
<1>11. ASSUME new.err # "ok" PROVE Same(vm, new) /\ vm.taken = tables /\ \A p \in SlotPages(t) : vm.entry[p] = "section"
  <2>1. Same(vm, guarded) /\ vm.taken = tables /\ vm.entry[Guard(t)] = "section"
    BY <1>4, <1>6, <1>11
  <2>2. \A p \in SlotPages(t) : vm.entry[p] = "section"
    BY <1>7, <2>1 DEF Fit, GuardFirst
  <2>3. \A q \in Pages : new.entry[q] = vm.entry[q]
    BY <1>3, <1>7, <2>1, <2>2 DEF Same
  <2>4. new.entry = vm.entry
    BY <1>3, <1>5, <2>3, VMFields
  <2> QED
    BY <1>6, <2>1, <2>2, <2>4 DEF Same
<1> QED
  BY <1>2, <1>4, <1>6, <1>7, <1>8, <1>9, <1>10, <1>11
-----------------------------------------------------------------------------
\* Steps

LEMMA NowFit ==
  ASSUME StackInv
  PROVE  StackTypeOK /\ Fit(Now) /\ Now \in VM /\ Now.entry = entry /\ Now.taken = taken /\ Now.err = "ok"
BY DEF StackInv, StackTypeOK, Now, VM, Fit

\* What a call on the slot t leaves of the other slots, and what it keeps anyway
LEMMA OtherSlots ==
  ASSUME StackInv, NEW t \in SlotNos, NEW new, Fit(new), Change(Now, new, SlotPages(t)),
         NEW flushed, Become(new, flushed), UNCHANGED fixed
  PROVE  /\ entry' \in [Pages -> Entries] /\ taken' \in 0..tables' /\ cached' \subseteq Pages
         /\ Uniform(entry)' /\ (\A s \in SlotNos : GuardFirst(s, entry)') /\ Accessible(entry)' \subseteq cached'
         /\ \A s \in SlotNos \ {t} :
              /\ HeldSlot(s) /\ (s \in bare => s \in bare') => HeldSlot(s)'
              /\ FreeSlot(s) => FreeSlot(s)'
              /\ LeakedSlot(s) => LeakedSlot(s)'
<1>1. StackTypeOK /\ Now \in VM /\ Now.entry = entry /\ Now.taken = taken
  BY NowFit
<1>2. /\ entry' = new.entry /\ taken' = new.taken /\ tables' = tables /\ offset' = offset
      /\ cached' = (cached \ flushed) \cup Accessible(new.entry)
  BY DEF Become, fixed
<1>3. entry' \in [Pages -> Entries] /\ taken' \in 0..tables /\ tables \in Nat /\ taken \in 0..tables
  BY <1>1, <1>2, VMFields DEF Fit, StackTypeOK
<1>4. cached \subseteq Pages /\ Accessible(entry) \subseteq cached /\ cached' \subseteq Pages
  BY <1>2 DEF StackInv, StackTypeOK, Accessible
<1>5. Accessible(entry)' \subseteq cached'
  BY <1>2 DEF Accessible
<1>6. Uniform(entry)'
  BY <1>2 DEF Fit, Uniform, Section
<1>7. \A s \in SlotNos : GuardFirst(s, entry)'
  BY <1>2 DEF Fit, GuardFirst
<1>8. ASSUME NEW s \in SlotNos \ {t}
      PROVE  /\ HeldSlot(s) /\ (s \in bare => s \in bare') => HeldSlot(s)'
             /\ FreeSlot(s) => FreeSlot(s)'
             /\ LeakedSlot(s) => LeakedSlot(s)'
  <2>1. \A q \in SlotPages(s) : q \in Pages \ SlotPages(t)
    BY SlotsApart, SlotFacts
  <2>2. \A q \in SlotPages(s) : \/ entry'[q] = entry[q]
                                \/ entry[q] = "section" /\ entry'[q] = "identity" /\ taken < tables
    BY <1>1, <1>2, <2>1 DEF Change
  <2>3. \A q \in SlotPages(s) : entry[q] \notin {"section", "identity", "own"} /\ q \notin cached => q \notin cached'
    BY <1>2, <2>2 DEF Accessible
  <2>4. /\ Guard(s) \in SlotPages(s) /\ Stack(s) \subseteq SlotPages(s) /\ SlotPages(s) \subseteq Pages
    BY SlotFacts
  <2>5. \A q \in SlotPages(s) : entry[q] \in {"section", "identity", "own"} => q \in cached
    BY <1>4, <2>4 DEF Accessible
  <2>6. ASSUME HeldSlot(s), s \in bare => s \in bare' PROVE HeldSlot(s)'
    BY <2>2, <2>3, <2>4, <2>5, <2>6 DEF HeldSlot
  <2>7. ASSUME FreeSlot(s) PROVE FreeSlot(s)'
    BY <2>2, <2>3, <2>7 DEF FreeSlot
  <2>8. ASSUME LeakedSlot(s) PROVE LeakedSlot(s)'
    <3>1. taken = tables
      BY <2>8 DEF LeakedSlot
    <3>2. taken' = tables'
      BY <1>1, <1>2, <1>3, <3>1 DEF Change
    <3>3. \A q \in SlotPages(s) : entry'[q] = entry[q]
      BY <1>3, <2>2, <3>1
    <3> QED
      BY <2>4, <2>8, <3>2, <3>3 DEF LeakedSlot
  <2> QED
    BY <2>6, <2>7, <2>8
<1> QED
  BY <1>2, <1>3, <1>4, <1>5, <1>6, <1>7, <1>8

LEMMA KstackAllocStep ==
  ASSUME StackInv, KstackAlloc
  PROVE  StackInv'
<1>1. PICK t \in SlotNos \ bitmap :
        LET done == SlotSetup(Now, t)
            back == SlotRelease(done, t)
        IN /\ \A q \in SlotNos \ bitmap : t <= q
           /\ IF done.err = "ok"
              THEN Become(done, SlotPages(t)) /\ handed' = handed \cup {t} /\ bitmap' = bitmap \cup {t}
              ELSE /\ Become(back, SlotPages(t)) /\ UNCHANGED handed
                   /\ bitmap' = IF back.err = "ok" THEN bitmap ELSE bitmap \cup {t}
           /\ UNCHANGED <<fixed, bare>>
  BY DEF KstackAlloc
<1>2. PICK done : done = SlotSetup(Now, t)
  OBVIOUS
<1>3. PICK back : back = SlotRelease(done, t)
  OBVIOUS
<1>4. /\ \A q \in SlotNos \ bitmap : t <= q
      /\ IF done.err = "ok"
         THEN Become(done, SlotPages(t)) /\ handed' = handed \cup {t} /\ bitmap' = bitmap \cup {t}
         ELSE /\ Become(back, SlotPages(t)) /\ UNCHANGED handed
              /\ bitmap' = IF back.err = "ok" THEN bitmap ELSE bitmap \cup {t}
      /\ UNCHANGED <<fixed, bare>>
  BY <1>1, <1>2, <1>3
<1>5. /\ StackTypeOK /\ Fit(Now) /\ Now \in VM /\ Now.entry = entry /\ Now.taken = taken
      /\ t \in SlotNos /\ t \notin bitmap /\ t \notin handed /\ t \notin bare
      /\ bitmap \subseteq SlotNos /\ handed \subseteq bitmap /\ bare \subseteq handed
  BY NowFit DEF StackInv, StackTypeOK
<1>6. BelowSplit(t, Now)
  <2> SUFFICES ASSUME taken # tables, NEW s \in SlotNos, s < t PROVE entry[Guard(s)] # "section"
    BY <1>5 DEF BelowSplit
  <2>1. s \in bitmap
    <3>1. s \in Int /\ t \in Int
      BY DEF SlotNos
    <3> QED
      BY <1>4, <3>1
  <2>2. s \in handed
    BY <2>1 DEF StackInv, LeakedSlot
  <2> QED
    BY <2>2 DEF StackInv, HeldSlot
<1>7. /\ Fit(done) /\ Change(Now, done, SlotPages(t)) /\ BelowSplit(t, done)
      /\ done.err = "ok" => /\ \A p \in Stack(t) : done.entry[p] = "own"
                            /\ done.entry[Guard(t)] \in {"none", "noaccess"}
      /\ done.entry[Guard(t)] = "section" => Same(Now, done) /\ taken = tables
  BY <1>2, <1>5, <1>6, SlotSetupFacts
<1>8. /\ Fit(back) /\ Change(done, back, SlotPages(t))
      /\ done.entry[Guard(t)] # "section" => back.err = "ok"
      /\ back.err = "ok" => /\ back.entry[Guard(t)] = "none"
                            /\ \A p \in Stack(t) : back.entry[p] \in {"none", "section"}
      /\ back.err # "ok" => /\ Same(done, back)
                            /\ \A p \in SlotPages(t) : done.entry[p] = "section"
  BY <1>3, <1>5, <1>7, SlotReleaseFacts
<1>9. Change(Now, back, SlotPages(t))
  <2>1. Change(Now, back, SlotPages(t) \cup SlotPages(t))
    BY <1>5, <1>7, <1>8, ChangeTrans DEF Fit
  <2>2. SlotPages(t) \cup SlotPages(t) = SlotPages(t)
    OBVIOUS
  <2> QED
    BY <2>1, <2>2
<1>10. /\ SlotPages(t) = Stack(t) \cup {Guard(t)} /\ SlotPages(t) \subseteq Pages
  BY SlotFacts
<1>11. CASE done.err = "ok"
  <2>1. Become(done, SlotPages(t)) /\ handed' = handed \cup {t} /\ bitmap' = bitmap \cup {t} /\ UNCHANGED fixed /\ bare' = bare
    BY <1>4, <1>11
  <2>2. /\ entry' \in [Pages -> Entries] /\ taken' \in 0..tables' /\ cached' \subseteq Pages
        /\ Uniform(entry)' /\ (\A s \in SlotNos : GuardFirst(s, entry)') /\ Accessible(entry)' \subseteq cached'
        /\ \A s \in SlotNos \ {t} :
              /\ HeldSlot(s) => HeldSlot(s)'
              /\ FreeSlot(s) => FreeSlot(s)'
              /\ LeakedSlot(s) => LeakedSlot(s)'
    BY <1>7, <2>1, OtherSlots
  <2>3. HeldSlot(t)'
    BY <1>7, <1>10, <1>11, <2>1 DEF HeldSlot, Become, Accessible
  <2>4. StackTypeOK'
    BY <1>5, <2>1, <2>2 DEF StackTypeOK, fixed
  <2>5. /\ \A s \in handed' : HeldSlot(s)'
        /\ \A s \in SlotNos \ bitmap' : FreeSlot(s)'
        /\ \A s \in bitmap' \ handed' : LeakedSlot(s)'
    BY <1>5, <2>1, <2>2, <2>3 DEF StackInv
  <2> QED
    BY <2>2, <2>4, <2>5 DEF StackInv
<1>12. CASE done.err # "ok"
  <2>1. /\ Become(back, SlotPages(t)) /\ handed' = handed /\ UNCHANGED fixed /\ bare' = bare
        /\ bitmap' = IF back.err = "ok" THEN bitmap ELSE bitmap \cup {t}
    BY <1>4, <1>12
  <2>2. /\ entry' \in [Pages -> Entries] /\ taken' \in 0..tables' /\ cached' \subseteq Pages
        /\ Uniform(entry)' /\ (\A s \in SlotNos : GuardFirst(s, entry)') /\ Accessible(entry)' \subseteq cached'
        /\ \A s \in SlotNos \ {t} :
              /\ HeldSlot(s) => HeldSlot(s)'
              /\ FreeSlot(s) => FreeSlot(s)'
              /\ LeakedSlot(s) => LeakedSlot(s)'
    BY <1>8, <1>9, <2>1, OtherSlots
  <2>3. StackTypeOK'
    BY <1>5, <2>1, <2>2 DEF StackTypeOK, fixed
  <2>4. back.err = "ok" => FreeSlot(t)'
    BY <1>8, <1>10, <2>1 DEF FreeSlot, Become, Accessible
  <2>5. back.err # "ok" => LeakedSlot(t)'
    <3> SUFFICES ASSUME back.err # "ok" PROVE LeakedSlot(t)'
      OBVIOUS
    <3>1. Same(done, back) /\ (\A p \in SlotPages(t) : done.entry[p] = "section") /\ Same(Now, done) /\ taken = tables
      BY <1>7, <1>8, <1>10
    <3>2. entry' = done.entry /\ taken' = taken /\ tables' = tables
      BY <1>5, <2>1, <3>1 DEF Become, Same, fixed
    <3> QED
      BY <1>10, <3>1, <3>2 DEF LeakedSlot
  <2>6. /\ \A s \in handed' : HeldSlot(s)'
        /\ \A s \in SlotNos \ bitmap' : FreeSlot(s)'
        /\ \A s \in bitmap' \ handed' : LeakedSlot(s)'
    BY <1>5, <2>1, <2>2, <2>4, <2>5 DEF StackInv
  <2> QED
    BY <2>2, <2>3, <2>6 DEF StackInv
<1> QED
  BY <1>11, <1>12

LEMMA HeldFacts ==
  ASSUME StackInv, NEW t \in handed
  PROVE  /\ t \in SlotNos /\ t \in bitmap /\ StackTypeOK /\ Fit(Now) /\ Now \in VM
         /\ Now.entry = entry /\ Now.taken = taken /\ HeldSlot(t)
         /\ entry[Guard(t)] # "section" /\ Guard(t) \in Pages /\ Guard(t) \notin Stack(t)
         /\ SlotPages(t) = Stack(t) \cup {Guard(t)} /\ Stack(t) \subseteq Pages
<1>1. t \in SlotNos /\ t \in bitmap
  BY DEF StackInv, StackTypeOK
<1>2. HeldSlot(t) /\ entry[Guard(t)] # "section"
  BY DEF StackInv, HeldSlot
<1> QED
  BY <1>1, <1>2, NowFit, SlotFacts

\* A call that changes the guard of a slot that somebody holds
LEMMA GuardStep ==
  ASSUME StackInv, NEW t \in handed, NEW new, Fit(new), Change(Now, new, {Guard(t)}),
         Become(new, {Guard(t)}), UNCHANGED <<fixed, bitmap, handed>>,
         bare' \subseteq handed, \A s \in SlotNos \ {t} : s \in bare => s \in bare',
         t \in bare' \/ new.entry[Guard(t)] \in {"none", "noaccess"}
  PROVE  StackInv'
<1>1. /\ t \in SlotNos /\ t \in bitmap /\ StackTypeOK /\ Now.entry = entry /\ HeldSlot(t)
      /\ entry[Guard(t)] # "section" /\ Guard(t) \in Pages /\ Guard(t) \notin Stack(t)
      /\ SlotPages(t) = Stack(t) \cup {Guard(t)} /\ Stack(t) \subseteq Pages
  BY HeldFacts
<1>2. Change(Now, new, SlotPages(t))
  BY <1>1, ChangeWider
<1>3. /\ entry' \in [Pages -> Entries] /\ taken' \in 0..tables' /\ cached' \subseteq Pages
      /\ Uniform(entry)' /\ (\A s \in SlotNos : GuardFirst(s, entry)') /\ Accessible(entry)' \subseteq cached'
      /\ \A s \in SlotNos \ {t} :
            /\ HeldSlot(s) /\ (s \in bare => s \in bare') => HeldSlot(s)'
            /\ FreeSlot(s) => FreeSlot(s)'
            /\ LeakedSlot(s) => LeakedSlot(s)'
  BY <1>1, <1>2, OtherSlots
<1>4. HeldSlot(t)'
  <2>1. entry' = new.entry /\ cached' = (cached \ {Guard(t)}) \cup Accessible(new.entry)
    BY DEF Become
  <2>2. \A p \in Stack(t) : entry'[p] = "own"
    BY <1>1, <2>1 DEF Change, HeldSlot
  <2>3. entry'[Guard(t)] # "section"
    BY <1>1, <2>1 DEF Change
  <2>4. t \in bare' \/ Guard(t) \notin cached'
    BY <1>1, <2>1 DEF Accessible
  <2> QED
    BY <2>2, <2>3, <2>4 DEF HeldSlot
<1>5. StackTypeOK'
  BY <1>1, <1>3 DEF StackTypeOK, fixed
<1>6. /\ \A s \in handed' : HeldSlot(s)'
      /\ \A s \in SlotNos \ bitmap' : FreeSlot(s)'
      /\ \A s \in bitmap' \ handed' : LeakedSlot(s)'
  BY <1>1, <1>3, <1>4 DEF StackInv, StackTypeOK
<1> QED
  BY <1>3, <1>5, <1>6 DEF StackInv

LEMMA KstackFreeStep ==
  ASSUME StackInv, NEW t \in SlotNos, KstackFree(t)
  PROVE  StackInv'
<1>1. PICK back : back = SlotRelease(Now, t)
  OBVIOUS
<1>2. /\ t \in handed /\ Become(back, SlotPages(t)) /\ UNCHANGED fixed
      /\ IF back.err = "ok"
         THEN bitmap' = bitmap \ {t} /\ handed' = handed \ {t} /\ bare' = bare \ {t}
         ELSE UNCHANGED <<bitmap, handed, bare>>
  BY <1>1 DEF KstackFree
<1>3. /\ t \in bitmap /\ StackTypeOK /\ Fit(Now) /\ Now.entry = entry
      /\ entry[Guard(t)] # "section"
      /\ SlotPages(t) = Stack(t) \cup {Guard(t)} /\ SlotPages(t) \subseteq Pages
      /\ bitmap \subseteq SlotNos /\ handed \subseteq bitmap /\ bare \subseteq handed
  BY <1>2, HeldFacts, SlotFacts DEF StackTypeOK
<1>4. /\ Fit(back) /\ Change(Now, back, SlotPages(t)) /\ back.err = "ok"
      /\ back.entry[Guard(t)] = "none"
      /\ \A p \in Stack(t) : back.entry[p] \in {"none", "section"}
  BY <1>1, <1>3, SlotReleaseFacts
<1>5. bitmap' = bitmap \ {t} /\ handed' = handed \ {t} /\ bare' = bare \ {t}
  BY <1>2, <1>4
<1>6. /\ entry' \in [Pages -> Entries] /\ taken' \in 0..tables' /\ cached' \subseteq Pages
      /\ Uniform(entry)' /\ (\A s \in SlotNos : GuardFirst(s, entry)') /\ Accessible(entry)' \subseteq cached'
      /\ \A s \in SlotNos \ {t} :
            /\ HeldSlot(s) /\ (s \in bare => s \in bare') => HeldSlot(s)'
            /\ FreeSlot(s) => FreeSlot(s)'
            /\ LeakedSlot(s) => LeakedSlot(s)'
  BY <1>2, <1>4, OtherSlots
<1>7. FreeSlot(t)'
  BY <1>2, <1>3, <1>4 DEF FreeSlot, Become, Accessible
<1>8. StackTypeOK'
  BY <1>2, <1>3, <1>5, <1>6 DEF StackTypeOK, fixed
<1>9. /\ \A s \in handed' : HeldSlot(s)'
      /\ \A s \in SlotNos \ bitmap' : FreeSlot(s)'
      /\ \A s \in bitmap' \ handed' : LeakedSlot(s)'
  BY <1>3, <1>5, <1>6, <1>7 DEF StackInv
<1> QED
  BY <1>6, <1>8, <1>9 DEF StackInv

LEMMA KstackGuardDisableStep ==
  ASSUME StackInv, NEW t \in SlotNos, KstackGuardDisable(t)
  PROVE  StackInv'
<1>1. PICK g : g = Guard(t)
  OBVIOUS
<1>2. PICK done : done = IF entry[g] = "section" THEN Split(Now, g)
                         ELSE IF entry[g] = "none" THEN Map(Now, g, "own") ELSE SetAttr(Now, g, "own")
  OBVIOUS
<1>3. /\ t \in handed /\ Become(done, {g}) /\ bare' = bare \cup {t} /\ UNCHANGED <<fixed, bitmap, handed>>
  BY <1>1, <1>2 DEF KstackGuardDisable
<1>4. /\ StackTypeOK /\ Fit(Now) /\ Now \in VM /\ Now.entry = entry /\ entry[g] # "section" /\ g \in Pages
      /\ Now.err = "ok" /\ bare \subseteq handed
  BY <1>1, <1>3, HeldFacts, NowFit DEF StackTypeOK
<1>5. done = Put(Now, g, "own")
  <2>1. CASE entry[g] = "none"
    <3>1. Split(Now, g) = Fail(Now, "ok") /\ Fail(Now, "ok").err = "ok"
      BY <1>4, FailFacts DEF Split
    <3>2. Fail(Now, "ok") = Now
      BY <1>4 DEF Fail, VM
    <3> QED
      BY <1>2, <1>4, <2>1, <3>1, <3>2 DEF Map
  <2>2. CASE entry[g] # "none"
    BY <1>2, <1>4, <2>2 DEF SetAttr
  <2> QED
    BY <2>1, <2>2
<1>6. Fit(done) /\ Change(Now, done, {g})
  BY <1>4, <1>5, PutFacts
<1> QED
  BY <1>1, <1>3, <1>4, <1>6, GuardStep

LEMMA KstackGuardEnableStep ==
  ASSUME StackInv, NEW t \in SlotNos, KstackGuardEnable(t)
  PROVE  StackInv'
<1>1. PICK g : g = Guard(t)
  OBVIOUS
<1>2. PICK done : done = GuardApply(Now, g)
  OBVIOUS
<1>3. /\ t \in handed /\ done.err = "ok" /\ Become(done, {g}) /\ bare' = bare \ {t}
      /\ UNCHANGED <<fixed, bitmap, handed>>
  BY <1>1, <1>2 DEF KstackGuardEnable
<1>4. StackTypeOK /\ Fit(Now) /\ Now.entry = entry /\ entry[g] # "section" /\ bare \subseteq handed
  BY <1>1, <1>3, HeldFacts DEF StackTypeOK
<1>5. Fit(done) /\ Change(Now, done, {g}) /\ done.entry[g] \in {"none", "noaccess"}
  BY <1>1, <1>2, <1>3, <1>4, GuardApplyFacts
<1> QED
  BY <1>1, <1>3, <1>4, <1>5, GuardStep
-----------------------------------------------------------------------------

LEMMA StackInitInv ==
  StackInit => StackInv
<1> SUFFICES ASSUME StackInit PROVE StackInv
  OBVIOUS
<1>1. \A p \in Pages : entry[p] = "section"
  BY DEF StackInit
<1>2. StackTypeOK
  <2>1. tables \in Nat
    BY StackAssumption DEF StackInit
  <2> QED
    BY <2>1 DEF StackInit, StackTypeOK, Entries
<1>3. Uniform(entry) /\ \A s \in SlotNos : GuardFirst(s, entry)
  BY <1>1, SlotFacts DEF Uniform, Section, GuardFirst
<1>4. \A s \in SlotNos : FreeSlot(s)
  BY <1>1, SlotFacts DEF FreeSlot
<1>5. Accessible(entry) \subseteq cached
  BY DEF StackInit, Accessible
<1> QED
  BY <1>2, <1>3, <1>4, <1>5 DEF StackInv, StackInit

LEMMA StackNextInv ==
  StackInv /\ [StackNext]_stackVars => StackInv'
<1> SUFFICES ASSUME StackInv, [StackNext]_stackVars PROVE StackInv'
  OBVIOUS
<1>1. CASE UNCHANGED stackVars
  <2>1. Uniform(entry)' /\ (\A s \in SlotNos : GuardFirst(s, entry)') /\ Accessible(entry)' \subseteq cached'
    BY <1>1 DEF StackInv, stackVars, Uniform, Section, GuardFirst, Accessible
  <2>2. \A s \in SlotNos : /\ HeldSlot(s) => HeldSlot(s)'
                           /\ FreeSlot(s) => FreeSlot(s)'
                           /\ LeakedSlot(s) => LeakedSlot(s)'
    BY <1>1 DEF stackVars, HeldSlot, FreeSlot, LeakedSlot
  <2>3. StackTypeOK'
    BY <1>1 DEF StackInv, StackTypeOK, stackVars
  <2>4. handed \subseteq SlotNos /\ bitmap \subseteq SlotNos
    BY DEF StackInv, StackTypeOK
  <2> QED
    BY <1>1, <2>1, <2>2, <2>3, <2>4 DEF StackInv, stackVars
<1>2. ASSUME NEW s \in SlotNos, KstackFree(s) \/ KstackGuardDisable(s) \/ KstackGuardEnable(s) PROVE StackInv'
  BY <1>2, KstackFreeStep, KstackGuardDisableStep, KstackGuardEnableStep
<1> QED
  BY <1>1, <1>2, KstackAllocStep DEF StackNext

LEMMA StackInvImplies ==
  StackInv => StackTypeOK /\ GuardsHold /\ FailuresLeaveNoTrace
<1> SUFFICES ASSUME StackInv PROVE StackTypeOK /\ GuardsHold /\ FailuresLeaveNoTrace
  OBVIOUS
<1>1. GuardsHold
  BY DEF StackInv, GuardsHold, HeldSlot
<1>2. FailuresLeaveNoTrace
  BY DEF StackInv, FailuresLeaveNoTrace, FreeSlot, LeakedSlot
<1> QED
  BY <1>1, <1>2 DEF StackInv

(***************************************************************************)
(* Every variable of the stack pool keeps its type; at most the configured *)
(* number of second-level tables is taken (vmap.c:196).                    *)
(***************************************************************************)
THEOREM StackTypeThm == StackSpec => []StackTypeOK
<1> QED
  BY StackInitInv, StackNextInv, StackInvImplies, PTL DEF StackSpec

(***************************************************************************)
(* A stack that was handed out keeps all its pages, and a guard that       *)
(* neither the tables nor the TLB give access to unless it was switched    *)
(* off, for any number of slots, pages and tables, wherever the pool lies  *)
(* in a section, and through every failure (kstack.c:217, 505).            *)
(***************************************************************************)
THEOREM GuardsHoldThm == StackSpec => []GuardsHold
<1> QED
  BY StackInitInv, StackNextInv, StackInvImplies, PTL DEF StackSpec

(***************************************************************************)
(* A failed kstack_alloc leaves a slot free with nothing of the pool's in  *)
(* it, or marked for good with nothing changed (kstack.c:474).             *)
(***************************************************************************)
THEOREM FailuresLeaveNoTraceThm == StackSpec => []FailuresLeaveNoTrace
<1> QED
  BY StackInitInv, StackNextInv, StackInvImplies, PTL DEF StackSpec
-----------------------------------------------------------------------------
(***************************************************************************)
(* The frame allocator                                                     *)
(***************************************************************************)
\* What order_to_pages computes: the doubling function exists, and is what the definition says
LEMMA OrderToPagesDef ==
  \A n \in Nat : OrderToPages[n] = IF n = 0 THEN 1 ELSE 2 * OrderToPages[n - 1]
<1> DEFINE Twice(f, i) == IF i = 0 THEN 1 ELSE 2 * f[i - 1]
           Upto(n, f) == f = [i \in 0..n |-> Twice(f, i)]
           pages == CHOOSE f : f = [i \in Nat |-> Twice(f, i)]
<1>1. OrderToPages = pages
  BY DEF OrderToPages
<1>2. ASSUME NEW L \in Nat PROVE \E f : Upto(L, f)
  <2> DEFINE S == {n \in 0..L : \E f : Upto(n, f)}
  <2>1. 0 \in S
    <3> DEFINE f == [i \in 0..0 |-> 1]
    <3>1. \A i \in 0..0 : i = 0
      OBVIOUS
    <3>2. f = [i \in 0..0 |-> Twice(f, i)]
      BY <3>1
    <3> HIDE DEF f
    <3> QED
      BY <3>2
  <2>2. ASSUME NEW n \in 1..L, n - 1 \in S PROVE n \in S
    <3>1. PICK g : g = [i \in 0..(n - 1) |-> Twice(g, i)]
      BY <2>2
    <3> DEFINE f == [i \in 0..n |-> IF i = n THEN Twice(g, n) ELSE g[i]]
    <3>2. \A i \in 0..n : i # 0 => i - 1 \in 0..n /\ i - 1 # n /\ f[i - 1] = g[i - 1]
      OBVIOUS
    <3>3. \A i \in 0..n : Twice(f, i) = Twice(g, i)
      <4> HIDE DEF f
      <4> QED
        BY <3>2
    <3>4. \A i \in 0..(n - 1) : g[i] = Twice(g, i)
      <4> HIDE DEF Twice
      <4> QED
        BY <3>1
    <3>5. \A i \in 0..n : f[i] = Twice(f, i)
      <4>1. \A i \in 0..n : f[i] = Twice(g, i)
        <5> HIDE DEF Twice
        <5>1. \A i \in 0..n : i # n => i \in 0..(n - 1)
          OBVIOUS
        <5> QED
          BY <3>4, <5>1
      <4> HIDE DEF Twice, f
      <4> QED
        BY <3>3, <4>1
    <3>6. f = [i \in 0..n |-> Twice(f, i)]
      <4>1. f = [i \in 0..n |-> f[i]]
        OBVIOUS
      <4> HIDE DEF f, Twice
      <4> QED
        BY <3>5, <4>1
    <3> HIDE DEF f, Twice
    <3> QED
      BY <3>6
  <2> HIDE DEF S
  <2>3. 0..L \subseteq S
    BY <2>1, <2>2, UpTo
  <2> QED
    BY <2>3 DEF S
<1> DEFINE first(n) == CHOOSE f : Upto(n, f)
<1>3. ASSUME NEW n \in Nat PROVE \A i \in 0..n : first(n)[i] = Twice(first(n), i)
  <2>1. Upto(n, first(n))
    <3> HIDE DEF Upto
    <3> QED
      BY <1>2
  <2>2. PICK g : g = first(n)
    OBVIOUS
  <2>3. g = [i \in 0..n |-> Twice(g, i)]
    BY <2>1, <2>2
  <2> HIDE DEF Twice, first
  <2> QED
    BY <2>2, <2>3
<1>4. ASSUME NEW n \in Nat \ {0} PROVE \A i \in 0..(n - 1) : first(n)[i] = first(n - 1)[i]
  <2>1. PICK f, g : f = first(n) /\ g = first(n - 1)
    OBVIOUS
  <2>2. /\ n - 1 \in Nat
        /\ \A i \in 0..n : f[i] = Twice(f, i)
        /\ \A i \in 0..(n - 1) : g[i] = Twice(g, i)
    <3> HIDE DEF first, Twice
    <3> QED
      BY <1>3, <2>1
  <2> HIDE DEF first
  <2> DEFINE S == {i \in 0..(n - 1) : f[i] = g[i]}
  <2>3. 0 \in S
    BY <2>2
  <2>4. ASSUME NEW i \in 1..(n - 1), i - 1 \in S PROVE i \in S
    BY <2>2, <2>4
  <2> HIDE DEF S
  <2>5. 0..(n - 1) \subseteq S
    BY <2>2, <2>3, <2>4, UpTo
  <2> QED
    BY <2>1, <2>5 DEF S
<1> DEFINE all == [n \in Nat |-> first(n)[n]]
<1>5. ASSUME NEW n \in Nat PROVE all[n] = Twice(all, n)
  <2>1. first(n)[n] = Twice(first(n), n)
    <3> HIDE DEF first, Twice
    <3> QED
      BY <1>3
  <2>2. CASE n = 0
    <3> HIDE DEF first
    <3> QED
      BY <2>1, <2>2
  <2>3. CASE n # 0
    <3>1. n - 1 \in Nat /\ n - 1 \in 0..(n - 1)
      BY <2>3
    <3>2. first(n)[n - 1] = first(n - 1)[n - 1]
      <4> HIDE DEF first
      <4> QED
        BY <1>4, <2>3, <3>1
    <3> HIDE DEF first
    <3> QED
      BY <2>1, <2>3, <3>1, <3>2
  <2> QED
    BY <2>2, <2>3
<1>6. all = [i \in Nat |-> Twice(all, i)]
  <2>1. all = [i \in Nat |-> all[i]]
    <3> HIDE DEF first
    <3> QED
      OBVIOUS
  <2> HIDE DEF all, Twice
  <2> QED
    BY <1>5, <2>1
<1>7. pages = [i \in Nat |-> Twice(pages, i)]
  <2> HIDE DEF all, Twice
  <2> QED
    BY <1>6
<1> HIDE DEF pages
<1>8. \A n \in Nat : pages[n] = Twice(pages, n)
  <2> HIDE DEF Twice
  <2> QED
    BY <1>7
<1> QED
  BY <1>1, <1>8

LEMMA OrderToPagesFacts ==
  /\ \A n \in Nat : OrderToPages[n] \in Nat \ {0}
  /\ OrderToPages[0] = 1
  /\ \A n \in Nat : OrderToPages[n + 1] = 2 * OrderToPages[n]
<1>1. OrderToPages[0] = 1
  BY OrderToPagesDef
<1>2. ASSUME NEW n \in Nat PROVE OrderToPages[n + 1] = 2 * OrderToPages[n]
  <2>1. n + 1 \in Nat /\ n + 1 # 0 /\ (n + 1) - 1 = n
    OBVIOUS
  <2> QED
    BY <2>1, OrderToPagesDef
<1>3. ASSUME NEW n \in Nat PROVE OrderToPages[n] \in Nat \ {0}
  <2> DEFINE S == {i \in 0..n : OrderToPages[i] \in Nat \ {0}}
  <2>1. 0 \in S
    BY <1>1
  <2>2. ASSUME NEW i \in 1..n, i - 1 \in S PROVE i \in S
    <3>1. i - 1 \in Nat /\ (i - 1) + 1 = i
      BY <2>2
    <3>2. OrderToPages[i] = 2 * OrderToPages[i - 1]
      BY <1>2, <3>1
    <3> QED
      BY <2>2, <3>2
  <2> HIDE DEF S
  <2>3. 0..n \subseteq S
    BY <2>1, <2>2, UpTo
  <2> QED
    BY <2>3 DEF S
<1> QED
  BY <1>1, <1>2, <1>3

\* Orders divide each other
LEMMA OrderToPagesGrows ==
  \A i, j \in Nat : i <= j => /\ OrderToPages[i] <= OrderToPages[j]
                              /\ \E k \in Nat : OrderToPages[j] = k * OrderToPages[i]
<1> SUFFICES ASSUME NEW i \in Nat, NEW j \in Nat, i <= j
             PROVE  /\ OrderToPages[i] <= OrderToPages[j]
                    /\ \E k \in Nat : OrderToPages[j] = k * OrderToPages[i]
  OBVIOUS
<1> DEFINE w == OrderToPages[i]
           Over(n) == OrderToPages[i + n] >= w /\ \E k \in Nat : OrderToPages[i + n] = k * w
           S == {n \in 0..(j - i) : Over(n)}
<1>1. w \in Nat \ {0}
  BY OrderToPagesFacts
<1>2. 0 \in S
  <2>1. i + 0 = i /\ w = 1 * w /\ w >= w
    BY <1>1
  <2> QED
    BY <2>1
<1>3. ASSUME NEW n \in 1..(j - i), n - 1 \in S PROVE n \in S
  <2>1. PICK k \in Nat : OrderToPages[i + (n - 1)] = k * w
    BY <1>3
  <2>2. i + (n - 1) \in Nat /\ (i + (n - 1)) + 1 = i + n
    OBVIOUS
  <2>3. OrderToPages[i + n] = 2 * OrderToPages[i + (n - 1)] /\ OrderToPages[i + (n - 1)] \in Nat
    BY <2>2, OrderToPagesFacts
  <2>4. OrderToPages[i + n] = (2 * k) * w
    <3> HIDE DEF w
    <3> QED
      BY <1>1, <2>1, <2>3
  <2>5. OrderToPages[i + n] >= w
    <3>1. OrderToPages[i + (n - 1)] >= w
      BY <1>3
    <3> HIDE DEF w
    <3> QED
      BY <1>1, <2>3, <3>1
  <2> QED
    BY <2>4, <2>5
<1> HIDE DEF S
<1>4. 0..(j - i) \subseteq S
  <2>1. j - i \in Nat
    OBVIOUS
  <2> QED
    BY <1>2, <1>3, <2>1, UpTo
<1>5. Over(j - i)
  BY <1>4 DEF S
<1>6. i + (j - i) = j
  OBVIOUS
<1>7. PICK k \in Nat : OrderToPages[i + (j - i)] = k * w
  BY <1>5
<1>8. OrderToPages[i + (j - i)] >= w /\ OrderToPages[j] \in Nat
  BY <1>5, OrderToPagesFacts
<1> QED
  BY <1>1, <1>6, <1>7, <1>8

LEMMA Quotients ==
  ASSUME NEW w \in Nat \ {0}
  PROVE  /\ \A k \in Nat : k * w \in Nat /\ (k * w) \div w = k /\ (k * w) % w = 0
         /\ \A base \in Nat : base % w = 0 => \E k \in Nat : base = k * w
<1>1. ASSUME NEW k \in Nat PROVE k * w \in Nat /\ (k * w) \div w = k /\ (k * w) % w = 0
  BY SMTT(30)
<1>2. ASSUME NEW base \in Nat, base % w = 0 PROVE \E k \in Nat : base = k * w
  <2>1. base = w * (base \div w) + (base % w) /\ base \div w \in Int
    BY SMTT(30)
  <2>2. base \div w \in Nat
    BY <1>2, <2>1, SMTT(30)
  <2>3. base = (base \div w) * w
    BY <1>2, <2>1, SMTT(30)
  <2> QED
    BY <2>2, <2>3
<1> QED
  BY <1>1, <1>2

LEMMA MinOfTwo ==
  ASSUME NEW x \in Int, NEW y \in Int
  PROVE  Min({x, y}) = IF x <= y THEN x ELSE y
<1>1. PICK m \in {x, y} : \A n \in {x, y} : m <= n
  OBVIOUS
<1>2. Min({x, y}) \in {x, y} /\ \A n \in {x, y} : Min({x, y}) <= n
  BY <1>1 DEF Min
<1> QED
  BY <1>2

LEMMA ZoneOfIs ==
  ASSUME NEW z \in ZoneNos, NEW p \in Zones[z]
  PROVE  ZoneOf(p) = z
BY FramesAssumption DEF ZoneOf, ZoneNos

BlockRec == [base : Nat, order : Nat]
Aligned(b) == b.base % OrderToPages[b.order] = 0

LEMMA FramesOfFacts ==
  ASSUME NEW b, b.base \in Nat, b.order \in Nat
  PROVE  /\ b.base \in FramesOf(b) /\ FramesOf(b) \subseteq Nat
         /\ \A p \in Int : p \in FramesOf(b) <=> b.base <= p /\ p < b.base + OrderToPages[b.order]
         /\ IsFiniteSet(FramesOf(b)) /\ Cardinality(FramesOf(b)) = OrderToPages[b.order]
<1> DEFINE w == OrderToPages[b.order]
<1>1. w \in Nat \ {0}
  BY OrderToPagesFacts
<1> HIDE DEF w
<1>2. FramesOf(b) = b.base..(b.base + w - 1)
  BY DEF FramesOf, w
<1>3. IsFiniteSet(FramesOf(b)) /\ Cardinality(FramesOf(b)) = w
  <2>1. PICK a \in Int : a = b.base
    OBVIOUS
  <2>2. PICK e \in Int : e = b.base + w - 1
    BY <1>1
  <2>3. IsFiniteSet(a..e) /\ Cardinality(a..e) = IF a > e THEN 0 ELSE e - a + 1
    BY FS_Interval
  <2>4. FramesOf(b) = a..e
    BY <1>2, <2>1, <2>2
  <2> QED
    BY <1>1, <2>1, <2>2, <2>3, <2>4
<1>4. b.base \in FramesOf(b) /\ FramesOf(b) \subseteq Nat
  BY <1>1, <1>2
<1>5. \A p \in Int : p \in FramesOf(b) <=> b.base <= p /\ p < b.base + w
  BY <1>1, <1>2
<1> QED
  BY <1>3, <1>4, <1>5 DEF w

\* A buddy is its buddy's buddy, and both are the two halves of the block they merge into
LEMMA BuddyFacts ==
  ASSUME NEW b \in BlockRec, Aligned(b)
  PROVE  /\ Buddy(b) \in BlockRec /\ Buddy(b).order = b.order /\ Aligned(Buddy(b))
         /\ Buddy(Buddy(b)) = b
         /\ Merged(b) \in BlockRec /\ Merged(b).order = b.order + 1 /\ Aligned(Merged(b))
         /\ FramesOf(Merged(b)) = FramesOf(b) \cup FramesOf(Buddy(b))
         /\ FramesOf(b) \cap FramesOf(Buddy(b)) = {}
<1> DEFINE w == OrderToPages[b.order]
           d == Buddy(b)
           m == Merged(b)
<1>1. /\ w \in Nat \ {0} /\ OrderToPages[b.order + 1] = 2 * w
      /\ b.base \in Nat /\ b.order \in Nat /\ b = Block(b.base, b.order)
  BY OrderToPagesFacts DEF BlockRec, Block
<1>2. PICK k \in Nat : b.base = k * w
  BY <1>1, Quotients DEF Aligned
<1>3. b.base \div w = k
  BY <1>1, <1>2, Quotients
<1>4. d = Block(IF k % 2 = 0 THEN b.base + w ELSE b.base - w, b.order)
  BY <1>3 DEF Buddy
<1>5. m = Block(Min({b.base, d.base}), b.order + 1)
  BY DEF Merged
<1>6. /\ d.order = b.order /\ m.order = b.order + 1
      /\ d.base = IF k % 2 = 0 THEN b.base + w ELSE b.base - w
      /\ m.base = Min({b.base, d.base})
  BY <1>4, <1>5 DEF Block
<1> DEFINE l == IF k % 2 = 0 THEN k + 1 ELSE k - 1
           j == k \div 2
<1>7. /\ l \in Nat /\ j \in Nat
      /\ k % 2 = 0 => k = 2 * j /\ l = 2 * j + 1
      /\ k % 2 # 0 => k = 2 * j + 1 /\ l = 2 * j
      /\ (l % 2 = 0) <=> (k % 2 # 0)
  OBVIOUS
<1> HIDE DEF w, d, m, l, j
<1>8. d.base = l * w
  <2>1. CASE k % 2 = 0
    <3>1. l = k + 1 /\ d.base = b.base + w
      BY <1>6, <1>7, <2>1
    <3>2. (k + 1) * w = k * w + w
      BY <1>1
    <3> QED
      BY <1>2, <3>1, <3>2
  <2>2. CASE k % 2 # 0
    <3>1. l = k - 1 /\ d.base = b.base - w
      BY <1>6, <1>7, <2>2
    <3>2. (k - 1) * w = k * w - w
      BY <1>1
    <3> QED
      BY <1>2, <3>1, <3>2
  <2> QED
    BY <2>1, <2>2
<1>9. d.base \in Nat /\ d.base \div w = l /\ d.base % w = 0
  BY <1>1, <1>7, <1>8, Quotients
<1>10. d \in BlockRec /\ Aligned(d) /\ d = Block(d.base, b.order)
  BY <1>1, <1>4, <1>6, <1>9 DEF BlockRec, Block, Aligned, w
<1>11. Buddy(d) = b
  <2>1. Buddy(d) = Block(IF l % 2 = 0 THEN d.base + w ELSE d.base - w, d.order)
    BY <1>6, <1>9 DEF Buddy, w
  <2>2. (IF l % 2 = 0 THEN d.base + w ELSE d.base - w) = b.base
    BY <1>1, <1>6, <1>7, <1>9
  <2> QED
    BY <1>1, <1>6, <2>1, <2>2
<1>12. m.base = IF k % 2 = 0 THEN b.base ELSE d.base
  <2>1. m.base = IF b.base <= d.base THEN b.base ELSE d.base
    BY <1>1, <1>6, <1>9, MinOfTwo
  <2> QED
    BY <1>1, <1>6, <1>9, <2>1
<1>13. m.base = (2 * j) * w
  BY <1>2, <1>7, <1>8, <1>12
<1>14. m.base = j * (2 * w)
  <2>1. (2 * j) * w = j * (2 * w)
    BY <1>1, <1>7
  <2> QED
    BY <1>13, <2>1
<1>15. m.base \in Nat /\ m.base % (2 * w) = 0
  <2>1. PICK v \in Nat \ {0} : v = 2 * w
    BY <1>1
  <2>2. m.base = j * v
    BY <1>14, <2>1
  <2>3. m.base \in Nat /\ m.base % v = 0
    BY <1>7, <2>2, Quotients
  <2> QED
    BY <2>1, <2>3
<1>16. m \in BlockRec /\ Aligned(m)
  BY <1>1, <1>5, <1>6, <1>15 DEF BlockRec, Block, Aligned
<1>17. /\ \A p \in Int : p \in FramesOf(b) <=> b.base <= p /\ p < b.base + w
       /\ \A p \in Int : p \in FramesOf(d) <=> d.base <= p /\ p < d.base + w
       /\ \A p \in Int : p \in FramesOf(m) <=> m.base <= p /\ p < m.base + 2 * w
       /\ FramesOf(b) \subseteq Int /\ FramesOf(d) \subseteq Int /\ FramesOf(m) \subseteq Int
  <2>1. Nat \subseteq Int
    OBVIOUS
  <2> QED
    BY <1>1, <1>6, <1>9, <1>15, <2>1, FramesOfFacts DEF w
<1>18. \A p \in Int : /\ p \in FramesOf(m) <=> p \in FramesOf(b) \/ p \in FramesOf(d)
                      /\ ~(p \in FramesOf(b) /\ p \in FramesOf(d))
  <2>1. CASE k % 2 = 0
    <3>1. m.base = b.base /\ d.base = b.base + w
      BY <1>6, <1>12, <2>1
    <3> QED
      BY <1>1, <1>17, <3>1
  <2>2. CASE k % 2 # 0
    <3>1. m.base = d.base /\ b.base = d.base + w
      BY <1>1, <1>6, <1>9, <1>12, <2>2
    <3> QED
      BY <1>1, <1>9, <1>17, <3>1
  <2> QED
    BY <2>1, <2>2
<1> QED
  BY <1>6, <1>10, <1>11, <1>16, <1>17, <1>18 DEF d, m

\* The halves that buddy_alloc_zone pushes, and the block it keeps, make up the block
LEMMA HalvesFacts ==
  ASSUME NEW b \in BlockRec, NEW order \in Nat, order <= b.order
  PROVE  /\ FramesOf(b) = FramesOf(Block(b.base, order)) \cup UNION {FramesOf(h) : h \in RightHalves(b, order)}
         /\ \A h \in RightHalves(b, order) :
              /\ h \in BlockRec /\ order <= h.order /\ h.order < b.order
              /\ h.base = b.base + OrderToPages[h.order]
              /\ FramesOf(h) \cap FramesOf(Block(b.base, order)) = {}
         /\ \A g, h \in RightHalves(b, order) : g # h => FramesOf(g) \cap FramesOf(h) = {}
<1> DEFINE kept == Block(b.base, order)
           w(o) == OrderToPages[o]
           half(o) == Block(b.base + w(o), o)
           H == RightHalves(b, order)
<1>1. /\ b.base \in Nat /\ b.order \in Nat
      /\ kept.base = b.base /\ kept.order = order
  BY DEF BlockRec, Block
<1>2. /\ \A o \in Nat : w(o) \in Nat \ {0} /\ w(o + 1) = 2 * w(o)
      /\ \A i, j \in Nat : i <= j => w(i) <= w(j)
  BY OrderToPagesFacts, OrderToPagesGrows
<1>3. \A p \in Int : /\ p \in FramesOf(b) <=> b.base <= p /\ p < b.base + w(b.order)
                     /\ p \in FramesOf(kept) <=> b.base <= p /\ p < b.base + w(order)
  BY <1>1, FramesOfFacts
<1>4. FramesOf(b) \subseteq Int /\ FramesOf(kept) \subseteq Int
  BY <1>1, FramesOfFacts
<1> HIDE DEF w
<1>5. ASSUME NEW o \in order..(b.order - 1)
      PROVE  /\ o \in Nat /\ half(o).base = b.base + w(o) /\ half(o).order = o
             /\ half(o) \in BlockRec /\ FramesOf(half(o)) \subseteq Int
             /\ \A p \in Int : p \in FramesOf(half(o)) <=> b.base + w(o) <= p /\ p < b.base + w(o + 1)
  <2>1. o \in Nat
    BY <1>1
  <2>2. half(o).base = b.base + w(o) /\ half(o).order = o
    BY DEF Block
  <2>3. b.base + w(o) \in Nat /\ w(o + 1) = 2 * w(o) /\ w(o) \in Nat
    <3> HIDE DEF half
    <3>1. w(o) \in Nat /\ w(o + 1) = 2 * w(o)
      BY <1>2, <2>1
    <3> QED
      BY <1>1, <3>1
  <2>4. half(o) \in BlockRec
    BY <2>1, <2>3 DEF BlockRec, Block
  <2>5. /\ FramesOf(half(o)) \subseteq Int
        /\ \A p \in Int : p \in FramesOf(half(o)) <=> half(o).base <= p /\ p < half(o).base + w(half(o).order)
    <3>1. half(o).base \in Nat /\ half(o).order \in Nat
      BY <2>1, <2>2, <2>3
    <3> HIDE DEF half
    <3>2. Nat \subseteq Int
      OBVIOUS
    <3> QED
      BY <3>1, <3>2, FramesOfFacts DEF w
  <2> HIDE DEF half
  <2>6. \A p \in Int : p \in FramesOf(half(o)) <=> b.base + w(o) <= p /\ p < b.base + w(o) + w(o)
    BY <2>2, <2>5
  <2>7. b.base + w(o) + w(o) = b.base + w(o + 1)
    BY <2>3, <1>1
  <2> QED
    BY <2>1, <2>2, <2>4, <2>5, <2>6, <2>7
<1>6. H = {half(o) : o \in order..(b.order - 1)}
  BY DEF RightHalves, w
<1> HIDE DEF half, H, kept
<1>7. ASSUME NEW o \in order..(b.order - 1)
      PROVE  FramesOf(half(o)) \subseteq FramesOf(b) /\ FramesOf(half(o)) \cap FramesOf(kept) = {}
  <2>1. o \in Nat /\ o + 1 \in Nat /\ order <= o /\ o + 1 <= b.order
    BY <1>1
  <2>2. w(order) <= w(o) /\ w(o + 1) <= w(b.order)
    BY <1>1, <1>2, <2>1
  <2>3. w(o) \in Nat /\ w(o + 1) \in Nat /\ w(order) \in Nat /\ w(b.order) \in Nat
    BY <1>1, <1>2, <2>1
  <2>4. \A p \in Int : p \in FramesOf(half(o)) => p \in FramesOf(b) /\ p \notin FramesOf(kept)
    BY <1>1, <1>3, <1>5, <2>2, <2>3
  <2> QED
    BY <1>5, <2>4
<1>8. ASSUME NEW o \in order..(b.order - 1), NEW q \in order..(b.order - 1), o < q
      PROVE  FramesOf(half(o)) \cap FramesOf(half(q)) = {}
  <2>1. o \in Nat /\ q \in Nat /\ o + 1 \in Nat /\ o + 1 <= q
    BY <1>1, <1>8
  <2>2. w(o + 1) <= w(q) /\ w(o + 1) \in Nat /\ w(q) \in Nat
    BY <1>2, <2>1
  <2>3. \A p \in Int : ~(p \in FramesOf(half(o)) /\ p \in FramesOf(half(q)))
    BY <1>1, <1>5, <2>2
  <2> QED
    BY <1>5, <2>3
<1>9. ASSUME NEW p \in FramesOf(b), p \notin FramesOf(kept)
      PROVE  \E o \in order..(b.order - 1) : p \in FramesOf(half(o))
  <2> DEFINE q == p - b.base
             Found(i) == q < w(i) => q < w(order) \/ \E o \in order..(i - 1) : w(o) <= q /\ q < w(o + 1)
             S == {i \in 0..b.order : Found(i)}
  <2>1. p \in Int /\ q \in Nat /\ q < w(b.order) /\ ~(q < w(order))
    <3>1. p \in Int /\ b.base <= p /\ p < b.base + w(b.order) /\ ~(p < b.base + w(order))
      BY <1>3, <1>4, <1>9
    <3>2. w(b.order) \in Nat /\ w(order) \in Nat
      BY <1>1, <1>2
    <3> QED
      BY <1>1, <3>1, <3>2
  <2> HIDE DEF q
  <2>2. 0 \in S
    <3>1. w(0) <= w(order) /\ w(0) \in Nat /\ w(order) \in Nat
      BY <1>2
    <3> QED
      BY <1>1, <2>1, <3>1
  <2>3. ASSUME NEW i \in 1..b.order, i - 1 \in S PROVE i \in S
    <3> SUFFICES ASSUME q < w(i) PROVE \E o \in order..(i - 1) : w(o) <= q /\ q < w(o + 1)
      BY <2>1
    <3>1. i \in Nat /\ i - 1 \in Nat /\ (i - 1) + 1 = i
      BY <1>1
    <3>2. w(i) \in Nat /\ w(i - 1) \in Nat /\ w(order) \in Nat
      BY <1>2, <3>1
    <3>3. CASE q < w(i - 1)
      <4>1. \E o \in order..((i - 1) - 1) : w(o) <= q /\ q < w(o + 1)
        BY <2>1, <2>3, <3>3
      <4> QED
        BY <3>1, <4>1
    <3>4. CASE ~(q < w(i - 1))
      <4>1. CASE order <= i - 1
        BY <2>1, <3>1, <3>2, <3>4, <4>1
      <4>2. CASE ~(order <= i - 1)
        <5>1. i <= order
          BY <3>1, <4>2
        <5>2. w(i) <= w(order)
          BY <1>2, <3>1, <5>1
        <5> QED
          BY <2>1, <3>2, <5>2
      <4> QED
        BY <4>1, <4>2
    <3> QED
      BY <3>3, <3>4
  <2> HIDE DEF S
  <2>4. 0..b.order \subseteq S
    BY <1>1, <2>2, <2>3, UpTo
  <2>5. Found(b.order)
    BY <1>1, <2>4 DEF S
  <2>6. PICK o \in order..(b.order - 1) : w(o) <= q /\ q < w(o + 1)
    BY <2>1, <2>5
  <2>7. o \in Nat /\ w(o) \in Nat /\ w(o + 1) \in Nat
    <3>1. o \in Nat /\ o + 1 \in Nat
      BY <1>1
    <3> QED
      BY <1>2, <3>1
  <2>8. b.base + w(o) <= p /\ p < b.base + w(o + 1)
    BY <1>1, <2>1, <2>6, <2>7 DEF q
  <2> QED
    BY <1>5, <2>1, <2>6, <2>8
<1>10. FramesOf(kept) \subseteq FramesOf(b)
  <2>1. w(order) <= w(b.order) /\ w(order) \in Nat /\ w(b.order) \in Nat
    BY <1>1, <1>2
  <2> QED
    BY <1>1, <1>3, <1>4, <2>1
<1>11. FramesOf(b) = FramesOf(kept) \cup UNION {FramesOf(h) : h \in H}
  BY <1>6, <1>7, <1>9, <1>10
<1>12. ASSUME NEW h \in H
       PROVE  /\ h \in BlockRec /\ order <= h.order /\ h.order < b.order
              /\ h.base = b.base + w(h.order)
              /\ FramesOf(h) \cap FramesOf(kept) = {}
  <2>1. PICK o \in order..(b.order - 1) : h = half(o)
    BY <1>6
  <2> QED
    BY <1>1, <1>5, <1>7, <2>1
<1>13. ASSUME NEW g \in H, NEW h \in H, g # h PROVE FramesOf(g) \cap FramesOf(h) = {}
  <2>1. PICK o, q \in order..(b.order - 1) : g = half(o) /\ h = half(q)
    BY <1>6
  <2>2. o \in Int /\ q \in Int /\ (o < q \/ q < o)
    BY <1>13, <2>1
  <2> QED
    BY <1>8, <2>1, <2>2
<1> QED
  BY <1>11, <1>12, <1>13 DEF H, kept, w

\* A block as the lists hold it, and lists as buddy.cpp keeps them
WholeBlock(b) ==
  /\ b \in [base : Nat, order : Orders] /\ Aligned(b)
  /\ \E z \in ZoneNos : FramesOf(b) \subseteq Zones[z]

InLists(l) == UNION {FramesOf(b) : b \in l}

Merges(b) == b.order + 1 < MaxOrder /\ FramesOf(Buddy(b)) \subseteq Zones[ZoneOf(b.base)]

Listing(l) ==
  /\ \A b \in l : WholeBlock(b)
  /\ \A b, d \in l : b # d => FramesOf(b) \cap FramesOf(d) = {}
  /\ \A b \in l : Merges(b) => Buddy(b) \notin l

LEMMA WholeBlockFacts ==
  ASSUME NEW b, WholeBlock(b)
  PROVE  /\ b \in BlockRec /\ b.base \in Nat /\ b.order \in Nat /\ b.order \in Orders /\ Aligned(b)
         /\ b.base \in FramesOf(b)
         /\ ZoneOf(b.base) \in ZoneNos /\ FramesOf(b) \subseteq Zones[ZoneOf(b.base)]
<1>1. Orders \subseteq Nat
  BY FramesAssumption DEF Orders
<1>2. /\ b \in BlockRec /\ b.base \in Nat /\ b.order \in Nat /\ b.order \in Orders /\ Aligned(b)
  BY <1>1 DEF WholeBlock, BlockRec
<1>3. PICK z \in ZoneNos : FramesOf(b) \subseteq Zones[z]
  BY DEF WholeBlock
<1>4. b.base \in FramesOf(b)
  BY <1>2, FramesOfFacts
<1>5. ZoneOf(b.base) = z
  BY <1>3, <1>4, ZoneOfIs
<1> QED
  BY <1>2, <1>3, <1>4, <1>5

\* One round of the loop in buddy_free_zone: the buddy leaves its list, and both are one block
LEMMA MergeFacts ==
  ASSUME NEW l, Listing(l), NEW b, WholeBlock(b), FramesOf(b) \cap InLists(l) = {}, Mergeable(l, b)
  PROVE  /\ Listing(l \ {Buddy(b)}) /\ WholeBlock(Merged(b)) /\ Merged(b).order = b.order + 1
         /\ FramesOf(Merged(b)) \cap InLists(l \ {Buddy(b)}) = {}
         /\ InLists(l \ {Buddy(b)}) \cup FramesOf(Merged(b)) = InLists(l) \cup FramesOf(b)
<1> DEFINE d == Buddy(b)
           m == Merged(b)
<1>1. /\ d.order = b.order /\ m \in BlockRec /\ m.order = b.order + 1 /\ Aligned(m)
      /\ FramesOf(m) = FramesOf(b) \cup FramesOf(d) /\ b.order \in Nat
  BY WholeBlockFacts, BuddyFacts
<1>2. d \in l /\ FramesOf(d) \subseteq Zones[ZoneOf(b.base)] /\ b.order + 1 < MaxOrder
  BY DEF Mergeable
<1> HIDE DEF d, m
<1>3. m.order \in Orders /\ m \in [base : Nat, order : Orders]
  BY <1>1, <1>2, FramesAssumption DEF Orders, BlockRec
<1>4. WholeBlock(m)
  <2>1. FramesOf(m) \subseteq Zones[ZoneOf(b.base)] /\ ZoneOf(b.base) \in ZoneNos
    BY <1>1, <1>2, WholeBlockFacts
  <2> QED
    BY <1>1, <1>3, <2>1 DEF WholeBlock
<1>5. Listing(l \ {d})
  BY DEF Listing
<1>6. FramesOf(d) \cap InLists(l \ {d}) = {} /\ InLists(l) = InLists(l \ {d}) \cup FramesOf(d)
  BY <1>2 DEF Listing, InLists
<1>7. FramesOf(m) \cap InLists(l \ {d}) = {}
  BY <1>1, <1>6
<1> QED
  BY <1>1, <1>4, <1>5, <1>6, <1>7 DEF d, m

\* push_block of a block that has nothing to merge with
LEMMA PushFacts ==
  ASSUME NEW l, Listing(l), NEW b, WholeBlock(b), FramesOf(b) \cap InLists(l) = {}, ~Mergeable(l, b)
  PROVE  Listing(l \cup {b}) /\ InLists(l \cup {b}) = InLists(l) \cup FramesOf(b)
<1>1. InLists(l \cup {b}) = InLists(l) \cup FramesOf(b)
  BY DEF InLists
<1>2. \A x \in l : FramesOf(x) \subseteq InLists(l) /\ WholeBlock(x)
  BY DEF InLists, Listing
<1>3. \A x, y \in l \cup {b} : x # y => FramesOf(x) \cap FramesOf(y) = {}
  BY <1>2 DEF Listing
<1>4. ASSUME NEW x \in l \cup {b}, Merges(x), Buddy(x) \in l \cup {b} PROVE FALSE
  <2>1. CASE x \in l /\ Buddy(x) \in l
    BY <1>4, <2>1 DEF Listing
  <2>2. CASE x \in l /\ Buddy(x) = b
    <3>1. Buddy(b) = x /\ b.order = x.order
      BY <1>2, <2>2, WholeBlockFacts, BuddyFacts
    <3>2. FramesOf(b) \subseteq Zones[ZoneOf(x.base)] /\ ZoneOf(x.base) \in ZoneNos
      BY <1>2, <1>4, <2>2, WholeBlockFacts DEF Merges
    <3>3. ZoneOf(b.base) = ZoneOf(x.base)
      BY <3>2, WholeBlockFacts, ZoneOfIs
    <3>4. FramesOf(x) \subseteq Zones[ZoneOf(b.base)]
      BY <1>2, <2>2, <3>3, WholeBlockFacts
    <3> QED
      BY <1>4, <2>2, <3>1, <3>4 DEF Mergeable, Merges
  <2>3. CASE x = b /\ Buddy(b) \in l
    BY <1>4, <2>3 DEF Mergeable, Merges
  <2>4. CASE x = b /\ Buddy(b) = b
    BY <2>4, WholeBlockFacts, BuddyFacts
  <2> QED
    BY <1>4, <2>1, <2>2, <2>3, <2>4
<1> QED
  BY <1>1, <1>2, <1>3, <1>4 DEF Listing

\* buddy_free_zone adds the frames of a block to the lists, and nothing can be merged afterwards
LEMMA FreeIntoFacts ==
  ASSUME NEW list, Listing(list), NEW block, WholeBlock(block), FramesOf(block) \cap InLists(list) = {}
  PROVE  Listing(FreeInto(list, block)) /\ InLists(FreeInto(list, block)) = InLists(list) \cup FramesOf(block)
<1> DEFINE L == MaxOrder - 1
           Next1(g, o) == IF o <= block.order THEN <<list, block>>
                          ELSE IF g[2].order = o - 1 /\ Mergeable(g[1], g[2])
                               THEN <<g[1] \ {Buddy(g[2])}, Merged(g[2])>>
                               ELSE g
           Round(f, o) == IF o <= block.order THEN <<list, block>>
                          ELSE IF f[o - 1][2].order = o - 1 /\ Mergeable(f[o - 1][1], f[o - 1][2])
                               THEN <<f[o - 1][1] \ {Buddy(f[o - 1][2])}, Merged(f[o - 1][2])>>
                               ELSE f[o - 1]
           merge == CHOOSE f : f = [o \in Orders |-> Round(f, o)]
<1>1. L \in Nat /\ Orders = 0..L /\ block.order \in Nat /\ block.order <= L
  BY FramesAssumption, WholeBlockFacts DEF Orders
<1>2. FreeInto(list, block) = merge[L][1] \cup {merge[L][2]}
  BY DEF FreeInto
<1> HIDE DEF L
<1>3. \A n \in 0..L : \E f : f = [o \in 0..n |-> Round(f, o)]
  <2> DEFINE S == {n \in 0..L : \E f : f = [o \in 0..n |-> Round(f, o)]}
  <2>1. 0 \in S
    <3> DEFINE f == [o \in 0..0 |-> <<list, block>>]
    <3>1. \A o \in 0..0 : o <= block.order
      BY <1>1
    <3>2. f = [o \in 0..0 |-> Round(f, o)]
      BY <3>1
    <3> HIDE DEF f
    <3> QED
      BY <1>1, <3>2
  <2>2. ASSUME NEW n \in 1..L, n - 1 \in S PROVE n \in S
    <3>1. PICK g : g = [o \in 0..(n - 1) |-> Round(g, o)]
      BY <2>2
    <3> DEFINE f == [o \in 0..n |-> IF o = n THEN Round(g, n) ELSE g[o]]
    <3>2. \A o \in 0..n : ~(o <= block.order) => o - 1 \in 0..n /\ o - 1 # n /\ f[o - 1] = g[o - 1]
      BY <1>1
    <3>3. \A o \in 0..n : Round(f, o) = Round(g, o)
      <4> HIDE DEF f
      <4> QED
        BY <3>2
    <3>4. \A o \in 0..(n - 1) : g[o] = Round(g, o)
      <4> HIDE DEF Round
      <4> QED
        BY <3>1
    <3>5. \A o \in 0..n : f[o] = Round(f, o)
      <4>1. \A o \in 0..n : f[o] = Round(g, o)
        <5> HIDE DEF Round
        <5>1. \A o \in 0..n : o # n => o \in 0..(n - 1)
          BY <1>1
        <5> QED
          BY <3>4, <5>1
      <4> HIDE DEF Round, f
      <4> QED
        BY <3>3, <4>1
    <3>6. f = [o \in 0..n |-> Round(f, o)]
      <4>1. f = [o \in 0..n |-> f[o]]
        OBVIOUS
      <4> HIDE DEF f, Round
      <4> QED
        BY <3>5, <4>1
    <3> HIDE DEF f, Round
    <3> QED
      BY <3>6
  <2> HIDE DEF S
  <2>3. 0..L \subseteq S
    BY <1>1, <2>1, <2>2, UpTo
  <2> QED
    BY <2>3 DEF S
<1>4. merge = [o \in Orders |-> Round(merge, o)]
  <2> HIDE DEF Round
  <2>1. L \in 0..L
    BY <1>1
  <2>2. \E f : f = [o \in 0..L |-> Round(f, o)]
    BY <1>3, <2>1
  <2>3. \E f : f = [o \in Orders |-> Round(f, o)]
    BY <1>1, <2>2
  <2> QED
    BY <2>3
<1> HIDE DEF merge
<1>5. \A o \in 0..L : merge[o] = Round(merge, o)
  <2> HIDE DEF Round
  <2> QED
    BY <1>1, <1>4
<1>6. merge[0] = <<list, block>> /\ \A o \in 1..L : o - 1 \in 0..L /\ merge[o] = Next1(merge[o - 1], o)
  <2>1. merge[0] = Round(merge, 0) /\ 0 <= block.order
    BY <1>1, <1>5
  <2>2. Round(merge, 0) = <<list, block>>
    BY <2>1
  <2>3. ASSUME NEW o \in 1..L PROVE o - 1 \in 0..L /\ merge[o] = Next1(merge[o - 1], o)
    <3>1. o - 1 \in 0..L /\ o \in 0..L
      BY <1>1
    <3>2. merge[o] = Round(merge, o)
      <4> HIDE DEF Round
      <4> QED
        BY <1>5, <3>1
    <3>3. Round(merge, o) = Next1(merge[o - 1], o)
      OBVIOUS
    <3> QED
      BY <3>1, <3>2, <3>3
  <2> QED
    BY <2>1, <2>2, <2>3
<1> HIDE DEF Round
<1> DEFINE Good(g, o) ==
             \E l, b :
               /\ g = <<l, b>>
               /\ Listing(l) /\ WholeBlock(b) /\ FramesOf(b) \cap InLists(l) = {}
               /\ InLists(l) \cup FramesOf(b) = InLists(list) \cup FramesOf(block)
               /\ o <= block.order => b = block
               /\ block.order <= o => b.order <= o
               /\ b.order < o => ~Mergeable(l, b)
           G == {o \in 0..L : Good(merge[o], o)}
<1>7. ASSUME NEW o \in 0..L, o <= block.order PROVE Good(<<list, block>>, o)
  <2>1. ~(block.order < o) /\ (block.order <= o => block.order <= o)
    BY <1>1, <1>7
  <2> QED
    BY <2>1
<1>8. 0 \in G
  BY <1>1, <1>6, <1>7
<1>9. ASSUME NEW o \in 1..L, o - 1 \in G PROVE o \in G
  <2>1. PICK g : g = merge[o - 1]
    OBVIOUS
  <2>2. Good(g, o - 1) /\ merge[o] = Next1(g, o) /\ o \in 0..L
    BY <1>1, <1>6, <1>9, <2>1
  <2>3. CASE o <= block.order
    <3>1. merge[o] = <<list, block>>
      BY <2>2, <2>3
    <3>2. Good(<<list, block>>, o)
      BY <1>7, <2>2, <2>3
    <3> HIDE DEF Good, Next1
    <3> QED
      BY <2>2, <3>1, <3>2
  <2>4. CASE ~(o <= block.order)
    <3>1. PICK l, b :
            /\ g = <<l, b>>
            /\ Listing(l) /\ WholeBlock(b) /\ FramesOf(b) \cap InLists(l) = {}
            /\ InLists(l) \cup FramesOf(b) = InLists(list) \cup FramesOf(block)
            /\ o - 1 <= block.order => b = block
            /\ block.order <= o - 1 => b.order <= o - 1
            /\ b.order < o - 1 => ~Mergeable(l, b)
      BY <2>2
    <3>2. g[1] = l /\ g[2] = b /\ b.order \in Nat /\ b.order <= o - 1
      BY <1>1, <2>4, <3>1, WholeBlockFacts
    <3>3. merge[o] = IF b.order = o - 1 /\ Mergeable(l, b) THEN <<l \ {Buddy(b)}, Merged(b)>> ELSE <<l, b>>
      BY <2>2, <2>4, <3>1, <3>2
    <3>4. CASE b.order = o - 1 /\ Mergeable(l, b)
      <4>1. PICK k, m : k = l \ {Buddy(b)} /\ m = Merged(b)
        OBVIOUS
      <4>2. /\ Listing(k) /\ WholeBlock(m) /\ m.order = b.order + 1
            /\ FramesOf(m) \cap InLists(k) = {}
            /\ InLists(k) \cup FramesOf(m) = InLists(list) \cup FramesOf(block)
        BY <3>1, <3>4, <4>1, MergeFacts
      <4>3. m.order = o
        BY <3>4, <4>2
      <4>4. merge[o] = <<k, m>>
        BY <3>3, <3>4, <4>1
      <4>5. Good(merge[o], o)
        <5>1. ~(m.order < o) /\ m.order <= o
          BY <4>3
        <5> QED
          BY <2>4, <4>2, <4>4, <5>1
      <4> HIDE DEF Good
      <4> QED
        BY <2>2, <4>5
    <3>5. CASE ~(b.order = o - 1 /\ Mergeable(l, b))
      <4>1. merge[o] = <<l, b>>
        BY <3>3, <3>5
      <4>2. ~Mergeable(l, b) /\ b.order <= o
        BY <3>1, <3>2, <3>5
      <4>3. Good(merge[o], o)
        BY <2>4, <3>1, <4>1, <4>2
      <4> HIDE DEF Good
      <4> QED
        BY <2>2, <4>3
    <3> QED
      BY <3>4, <3>5
  <2> QED
    BY <2>3, <2>4
<1> HIDE DEF G, Good, Next1
<1>10. 0..L \subseteq G
  BY <1>1, <1>8, <1>9, UpTo
<1>11. Good(merge[L], L)
  BY <1>1, <1>10 DEF G
<1>12. PICK l, b :
         /\ merge[L] = <<l, b>>
         /\ Listing(l) /\ WholeBlock(b) /\ FramesOf(b) \cap InLists(l) = {}
         /\ InLists(l) \cup FramesOf(b) = InLists(list) \cup FramesOf(block)
         /\ block.order <= L => b.order <= L
         /\ b.order < L => ~Mergeable(l, b)
  BY <1>11 DEF Good
<1>13. ~Mergeable(l, b)
  <2>1. b.order \in Nat /\ L + 1 = MaxOrder /\ MaxOrder \in Nat
    BY <1>12, WholeBlockFacts, FramesAssumption DEF L
  <2>2. CASE b.order < L
    BY <1>12, <2>2
  <2>3. CASE ~(b.order < L)
    BY <1>1, <2>1, <2>3 DEF Mergeable
  <2> QED
    BY <2>2, <2>3
<1>14. FreeInto(list, block) = l \cup {b}
  BY <1>2, <1>12
<1> QED
  BY <1>12, <1>13, <1>14, PushFacts

\* buddy_alloc_zone: the frames of the left end leave the lists, and no half has its buddy there
LEMMA SplitBlockFacts ==
  ASSUME NEW l, Listing(l), NEW b \in l, NEW order \in Nat, order <= b.order
  PROVE  /\ WholeBlock(Block(b.base, order))
         /\ FramesOf(Block(b.base, order)) \subseteq FramesOf(b)
         /\ Listing((l \ {b}) \cup RightHalves(b, order))
         /\ InLists((l \ {b}) \cup RightHalves(b, order)) = InLists(l) \ FramesOf(Block(b.base, order))
<1> DEFINE kept == Block(b.base, order)
           H == RightHalves(b, order)
           k == l \ {b}
<1>1. WholeBlock(b)
  BY DEF Listing
<1>2. b \in BlockRec /\ b.base \in Nat /\ b.order \in Nat /\ b.order < MaxOrder /\ Aligned(b)
  BY <1>1, WholeBlockFacts, FramesAssumption DEF Orders
<1>3. /\ FramesOf(b) = FramesOf(kept) \cup InLists(H)
      /\ \A h \in H :
              /\ h \in BlockRec /\ order <= h.order /\ h.order < b.order
              /\ h.base = b.base + OrderToPages[h.order]
              /\ FramesOf(h) \cap FramesOf(kept) = {}
      /\ \A g, h \in H : g # h => FramesOf(g) \cap FramesOf(h) = {}
  BY <1>2, HalvesFacts DEF InLists
<1>4. kept.base = b.base /\ kept.order = order
  BY DEF Block
<1>5. ASSUME NEW o \in Nat, o < b.order
      PROVE  \E q \in Nat : b.base = (2 * q) * OrderToPages[o]
  <2>1. PICK v \in Nat \ {0} : v = OrderToPages[b.order]
    BY <1>2, OrderToPagesFacts
  <2>2. PICK x \in Nat : b.base = x * v
    BY <1>2, <2>1, Quotients DEF Aligned
  <2>3. o + 1 \in Nat /\ o + 1 <= b.order
    BY <1>2, <1>5
  <2>4. PICK y \in Nat : OrderToPages[b.order] = y * OrderToPages[o + 1]
    BY <1>2, <2>3, OrderToPagesGrows
  <2>5. PICK w \in Nat : w = OrderToPages[o] /\ OrderToPages[o + 1] = 2 * w
    BY OrderToPagesFacts
  <2>6. b.base = x * (y * (2 * w))
    BY <2>1, <2>2, <2>4, <2>5
  <2>7. x * (y * (2 * w)) = (2 * (x * y)) * w /\ x * y \in Nat
    BY <2>5
  <2> QED
    BY <2>5, <2>6, <2>7
<1>6. WholeBlock(kept)
  <2>1. b.base % OrderToPages[order] = 0
    <3>1. CASE order = b.order
      BY <1>2, <3>1 DEF Aligned
    <3>2. CASE order < b.order
      <4>1. PICK q \in Nat : b.base = (2 * q) * OrderToPages[order]
        BY <1>5, <3>2
      <4>2. PICK w \in Nat \ {0} : w = OrderToPages[order]
        BY OrderToPagesFacts
      <4>3. PICK r \in Nat : r = 2 * q
        OBVIOUS
      <4> QED
        BY <4>1, <4>2, <4>3, Quotients
    <3> QED
      BY <1>2, <3>1, <3>2
  <2>2. order \in Orders
    BY <1>2, FramesAssumption DEF Orders
  <2>3. kept \in [base : Nat, order : Orders] /\ Aligned(kept)
    BY <1>2, <1>4, <2>1, <2>2 DEF Aligned, Block
  <2> QED
    BY <1>1, <1>3, <2>3 DEF WholeBlock
<1> HIDE DEF kept, H
<1>7. ASSUME NEW h \in H
      PROVE  WholeBlock(h) /\ FramesOf(Buddy(h)) \cap FramesOf(kept) # {} /\ FramesOf(h) \subseteq FramesOf(b)
  <2>1. PICK w \in Nat \ {0} : w = OrderToPages[h.order]
    BY <1>3, OrderToPagesFacts DEF BlockRec
  <2>2. h.order \in Nat /\ h.base \in Nat
    BY <1>3 DEF BlockRec
  <2>3. PICK q \in Nat : b.base = (2 * q) * w
    BY <1>3, <1>5, <2>1, <2>2
  <2>4. PICK r \in Nat : r = 2 * q + 1
    OBVIOUS
  <2>5. h.base = r * w
    <3>1. r * w = (2 * q) * w + w
      BY <2>4
    <3> QED
      BY <1>3, <2>1, <2>3, <3>1
  <2>6. h.base \div w = r /\ h.base % w = 0
    BY <2>5, Quotients
  <2>7. Buddy(h) = Block(b.base, h.order)
    <3>1. r % 2 # 0
      BY <2>4
    <3>2. h.base - w = b.base
      BY <1>2, <1>3, <2>1
    <3> QED
      BY <2>1, <2>6, <3>1, <3>2 DEF Buddy
  <2>8. Buddy(h).base = b.base /\ Buddy(h).order = h.order
    BY <2>7 DEF Block
  <2>9. b.base \in FramesOf(Buddy(h)) /\ b.base \in FramesOf(kept)
    BY <1>2, <1>4, <2>2, <2>8, FramesOfFacts DEF kept
  <2>10. FramesOf(h) \subseteq FramesOf(b)
    BY <1>3 DEF InLists
  <2>11. h \in [base : Nat, order : Orders] /\ Aligned(h)
    BY <1>2, <1>3, <2>1, <2>2, <2>6, FramesAssumption DEF Orders, Aligned, BlockRec
  <2> QED
    BY <1>1, <2>9, <2>10, <2>11 DEF WholeBlock
<1>8. \A x \in k : WholeBlock(x) /\ FramesOf(x) \cap FramesOf(b) = {}
  BY DEF Listing
<1>9. InLists(k \cup H) = InLists(l) \ FramesOf(kept)
  <2>1. InLists(k \cup H) = InLists(k) \cup InLists(H) /\ InLists(l) = InLists(k) \cup FramesOf(b)
    BY DEF InLists
  <2>2. InLists(k) \cap FramesOf(b) = {}
    BY <1>8 DEF InLists
  <2>3. InLists(H) \cap FramesOf(kept) = {}
    BY <1>3 DEF InLists
  <2> QED
    BY <1>3, <2>1, <2>2, <2>3
<1>10. \A x, y \in k \cup H : x # y => FramesOf(x) \cap FramesOf(y) = {}
  BY <1>3, <1>7, <1>8 DEF Listing
<1>11. ASSUME NEW x \in k \cup H, Merges(x), Buddy(x) \in k \cup H PROVE FALSE
  <2>1. \A y \in k \cup H : FramesOf(y) \cap FramesOf(kept) = {} /\ WholeBlock(y)
    BY <1>3, <1>7, <1>8
  <2>2. x \notin H
    BY <1>7, <1>11, <2>1
  <2>3. Buddy(x) \notin H
    <3>1. Buddy(Buddy(x)) = x
      BY <2>1, WholeBlockFacts, BuddyFacts
    <3> QED
      BY <1>7, <2>1, <3>1
  <2> QED
    BY <1>11, <2>2, <2>3 DEF Listing
<1>12. Listing(k \cup H)
  BY <1>7, <1>8, <1>10, <1>11 DEF Listing
<1>13. FramesOf(kept) \subseteq FramesOf(b)
  BY <1>3
<1> QED
  BY <1>6, <1>9, <1>12, <1>13 DEF kept, H
-----------------------------------------------------------------------------
(***************************************************************************)
(* The inductive invariant of the frame allocator.                         *)
(***************************************************************************)
CallRec == [at : {"idle", "search", "mark", "give", "clear"}, zone : ZoneNos, base : Nat, order : Nat,
            todo : SUBSET Frames, loaded : BOOLEAN, byte : SUBSET Frames]

FrameTypes ==
  /\ freePages \in [ZoneNos -> Int] /\ bits \subseteq Frames /\ refs \in [Frames -> Int]
  /\ lock \in [ZoneNos -> Callers \cup {Unlocked}] /\ cpu \in [Callers -> CallRec]
  /\ boot \in [region : Nat, start : Nat]
  /\ owned \subseteq Frames /\ lost \subseteq Frames /\ stale \subseteq Frames

\* Until boot is over it is inside of a region, and no processor calls
Booting ==
  ~Booted => /\ boot.region \in 1..Len(Regions)
             /\ Regions[boot.region][1] <= boot.start /\ boot.start < Regions[boot.region][2]
             /\ \A c \in Callers : cpu[c].at = "idle"

\* The block of a call in flight
Mine(c) == Block(cpu[c].base, cpu[c].order)

\* What a call has in its hands: the bits it has set stay set or are wiped out; it clears under the zone's lock
CallOK(c) ==
  /\ cpu[c].at \in {"mark", "give", "clear"} =>
       /\ WholeBlock(Mine(c)) /\ FramesOf(Mine(c)) \subseteq Zones[cpu[c].zone]
       /\ cpu[c].todo \subseteq FramesOf(Mine(c))
  /\ cpu[c].at = "mark" => \A p \in FramesOf(Mine(c)) : p \in cpu[c].todo \/ p \in bits \/ p \in stale
  /\ cpu[c].at = "clear" => lock[cpu[c].zone] = c /\ FramesOf(Mine(c)) \subseteq InLists(free)
  /\ cpu[c].loaded => cpu[c].at \in {"mark", "clear"} /\ cpu[c].byte \subseteq Byte(Min(cpu[c].todo))

\* Whose each frame is: in the lists, a client's, refused, not yet added, or on its way
Accounts(L, O, X, P, T) ==
  /\ L \cap O = {} /\ L \cap X = {} /\ L \cap P = {} /\ O \cap X = {} /\ O \cap P = {} /\ X \cap P = {}
  /\ \A c \in Callers : T[c] \cap L = {} /\ T[c] \cap O = {} /\ T[c] \cap X = {} /\ T[c] \cap P = {}
  /\ \A c, d \in Callers : c # d => T[c] \cap T[d] = {}
  /\ Given = L \cup O \cup X \cup P \cup UNION {T[c] : c \in Callers}

Transit == [c \in Callers |-> InTransit(c)]

PagesIn(S, z) == Cardinality(S \cap Zones[z])

PagesCounted == \A z \in ZoneNos : freePages[z] = PagesIn(InLists(free), z)

\* A frame that no client has is not referred to
Unreferred == \A p \in Frames : p \notin owned /\ p \notin lost => refs[p] = 0

FramesInv ==
  /\ FrameTypes /\ Listing(free) /\ Booting /\ \A c \in Callers : CallOK(c)
  /\ Accounts(InLists(free), owned, lost, Pending, Transit)
  /\ PagesCounted /\ Unreferred /\ BitsOfOwners

LEMMA AccountsTake ==       \* buddy_alloc_zone
  ASSUME NEW L, NEW O, NEW X, NEW P, NEW T, T = [c \in Callers |-> T[c]], Accounts(L, O, X, P, T),
         NEW c \in Callers, T[c] = {}, NEW B, B \subseteq L
  PROVE  Accounts(L \ B, O, X, P, [T EXCEPT ![c] = B])
<1> DEFINE U == [T EXCEPT ![c] = B]
<1>1. U[c] = B /\ \A d \in Callers : d # c => U[d] = T[d]
  OBVIOUS
<1> HIDE DEF U
<1>2. UNION {U[d] : d \in Callers} = B \cup UNION {T[d] : d \in Callers}
  BY <1>1
<1>3. L \cup UNION {T[d] : d \in Callers} = (L \ B) \cup UNION {U[d] : d \in Callers}
  BY <1>2
<1>4. Given = (L \ B) \cup O \cup X \cup P \cup UNION {U[d] : d \in Callers}
  BY <1>3 DEF Accounts
<1>5. ASSUME NEW d \in Callers
      PROVE  U[d] \cap (L \ B) = {} /\ U[d] \cap O = {} /\ U[d] \cap X = {} /\ U[d] \cap P = {}
  BY <1>1 DEF Accounts
<1>6. ASSUME NEW d \in Callers, NEW e \in Callers, d # e PROVE U[d] \cap U[e] = {}
  <2>1. \A x \in Callers : T[x] \cap B = {}
    BY DEF Accounts
  <2> QED
    BY <1>1, <1>6, <2>1 DEF Accounts
<1>7. Accounts(L \ B, O, X, P, U)
  BY <1>4, <1>5, <1>6 DEF Accounts
<1> QED
  BY <1>7 DEF U

LEMMA AccountsGive ==       \* buddy_free_zone
  ASSUME NEW L, NEW O, NEW X, NEW P, NEW T, T = [c \in Callers |-> T[c]], Accounts(L, O, X, P, T),
         NEW c \in Callers
  PROVE  Accounts(L \cup T[c], O, X, P, [T EXCEPT ![c] = {}])
<1> DEFINE U == [T EXCEPT ![c] = {}]
<1>1. U[c] = {} /\ \A d \in Callers : d # c => U[d] = T[d]
  OBVIOUS
<1> HIDE DEF U
<1>2. T[c] \cup UNION {U[d] : d \in Callers} = UNION {T[d] : d \in Callers}
  BY <1>1
<1>3. Given = (L \cup T[c]) \cup O \cup X \cup P \cup UNION {U[d] : d \in Callers}
  BY <1>2 DEF Accounts
<1>4. ASSUME NEW d \in Callers
      PROVE  U[d] \cap (L \cup T[c]) = {} /\ U[d] \cap O = {} /\ U[d] \cap X = {} /\ U[d] \cap P = {}
  BY <1>1 DEF Accounts
<1>5. ASSUME NEW d \in Callers, NEW e \in Callers, d # e PROVE U[d] \cap U[e] = {}
  BY <1>1, <1>5 DEF Accounts
<1>6. Accounts(L \cup T[c], O, X, P, U)
  BY <1>3, <1>4, <1>5 DEF Accounts
<1> QED
  BY <1>6 DEF U

LEMMA AccountsClient ==     \* alloc_frames returns
  ASSUME NEW L, NEW O, NEW X, NEW P, NEW T, T = [c \in Callers |-> T[c]], Accounts(L, O, X, P, T),
         NEW c \in Callers
  PROVE  Accounts(L, O \cup T[c], X, P, [T EXCEPT ![c] = {}])
<1> DEFINE U == [T EXCEPT ![c] = {}]
<1>1. U[c] = {} /\ \A d \in Callers : d # c => U[d] = T[d]
  OBVIOUS
<1> HIDE DEF U
<1>2. T[c] \cup UNION {U[d] : d \in Callers} = UNION {T[d] : d \in Callers}
  BY <1>1
<1>3. Given = L \cup (O \cup T[c]) \cup X \cup P \cup UNION {U[d] : d \in Callers}
  BY <1>2 DEF Accounts
<1>4. ASSUME NEW d \in Callers
      PROVE  U[d] \cap L = {} /\ U[d] \cap (O \cup T[c]) = {} /\ U[d] \cap X = {} /\ U[d] \cap P = {}
  BY <1>1 DEF Accounts
<1>5. ASSUME NEW d \in Callers, NEW e \in Callers, d # e PROVE U[d] \cap U[e] = {}
  BY <1>1, <1>5 DEF Accounts
<1>6. Accounts(L, O \cup T[c], X, P, U)
  BY <1>3, <1>4, <1>5 DEF Accounts
<1> QED
  BY <1>6 DEF U

LEMMA AccountsFree ==       \* free_frames, before the zone
  ASSUME NEW L, NEW O, NEW X, NEW P, NEW T, T = [c \in Callers |-> T[c]], Accounts(L, O, X, P, T),
         NEW c \in Callers, T[c] = {}, NEW B, B \subseteq O
  PROVE  Accounts(L, O \ B, X, P, [T EXCEPT ![c] = B])
<1> DEFINE U == [T EXCEPT ![c] = B]
<1>1. U[c] = B /\ \A d \in Callers : d # c => U[d] = T[d]
  OBVIOUS
<1> HIDE DEF U
<1>2. UNION {U[d] : d \in Callers} = B \cup UNION {T[d] : d \in Callers}
  BY <1>1
<1>3. Given = L \cup (O \ B) \cup X \cup P \cup UNION {U[d] : d \in Callers}
  BY <1>2 DEF Accounts
<1>4. ASSUME NEW d \in Callers
      PROVE  U[d] \cap L = {} /\ U[d] \cap (O \ B) = {} /\ U[d] \cap X = {} /\ U[d] \cap P = {}
  BY <1>1 DEF Accounts
<1>5. ASSUME NEW d \in Callers, NEW e \in Callers, d # e PROVE U[d] \cap U[e] = {}
  <2>1. \A x \in Callers : T[x] \cap B = {}
    BY DEF Accounts
  <2> QED
    BY <1>1, <1>5, <2>1 DEF Accounts
<1>6. Accounts(L, O \ B, X, P, U)
  BY <1>3, <1>4, <1>5 DEF Accounts
<1> QED
  BY <1>6 DEF U

LEMMA AccountsLose ==       \* free_frames gives up
  ASSUME NEW L, NEW O, NEW X, NEW P, NEW T, Accounts(L, O, X, P, T), NEW B, B \subseteq O
  PROVE  Accounts(L, O \ B, X \cup B, P, T)
BY DEF Accounts

LEMMA AccountsAdd ==        \* add_memory_region
  ASSUME NEW L, NEW O, NEW X, NEW P, NEW T, Accounts(L, O, X, P, T), NEW B, B \subseteq P
  PROVE  Accounts(L \cup B, O, X, P \ B, T)
BY DEF Accounts

\* The frames of a block enter the count of its zone alone
LEMMA ZoneCounts ==
  ASSUME NEW b, WholeBlock(b), NEW R, FramesOf(b) \cap R = {}, NEW S, S = R \cup FramesOf(b), NEW z \in ZoneNos
  PROVE  /\ z = ZoneOf(b.base) => PagesIn(S, z) = PagesIn(R, z) + OrderToPages[b.order]
         /\ z # ZoneOf(b.base) => PagesIn(S, z) = PagesIn(R, z)
         /\ PagesIn(S, z) \in Nat /\ PagesIn(R, z) \in Nat /\ OrderToPages[b.order] \in Nat
<1> DEFINE F == FramesOf(b)
           Z == Zones[z]
           y == ZoneOf(b.base)
<1>1. IsFiniteSet(Z)
  BY FramesAssumption DEF ZoneNos
<1>2. /\ F \subseteq Zones[y] /\ y \in ZoneNos
      /\ IsFiniteSet(F) /\ Cardinality(F) = OrderToPages[b.order]
  BY WholeBlockFacts, FramesOfFacts
<1>3. z # y => F \cap Z = {}
  BY <1>2, FramesAssumption DEF ZoneNos
<1> HIDE DEF F, Z, y
<1>4. \A Q : IsFiniteSet(Q \cap Z) /\ Cardinality(Q \cap Z) \in Nat
  <2>1. ASSUME NEW Q PROVE IsFiniteSet(Q \cap Z)
    BY <1>1, FS_Subset
  <2> QED
    BY <2>1, FS_CardinalityType
<1>5. ASSUME z = y
      PROVE  Cardinality(S \cap Z) = Cardinality(R \cap Z) + OrderToPages[b.order]
  <2>1. S \cap Z = (R \cap Z) \cup F
    BY <1>2, <1>5 DEF Z, F
  <2>2. (R \cap Z) \cap F = {}
    BY DEF F
  <2>3. Cardinality({}) = 0
    BY FS_EmptySet
  <2>4. Cardinality((R \cap Z) \cup F) = Cardinality(R \cap Z) + Cardinality(F) - Cardinality((R \cap Z) \cap F)
    BY <1>2, <1>4, FS_Union
  <2>5. Cardinality(F) \in Nat
    BY <1>2, FS_CardinalityType
  <2>6. PICK k \in Nat : k = Cardinality(R \cap Z)
    BY <1>4
  <2>7. PICK v \in Nat : v = OrderToPages[b.order]
    BY <1>2, <2>5
  <2>8. Cardinality((R \cap Z) \cup F) = k + v - 0
    BY <1>2, <2>2, <2>3, <2>4, <2>6, <2>7
  <2>9. k + v - 0 = k + v
    OBVIOUS
  <2> QED
    BY <2>1, <2>6, <2>7, <2>8, <2>9
<1>6. ASSUME z # y PROVE S \cap Z = R \cap Z
  BY <1>3, <1>6 DEF F
<1>7. OrderToPages[b.order] \in Nat
  BY <1>2, FS_CardinalityType
<1> QED
  BY <1>4, <1>5, <1>6, <1>7 DEF Z, y, PagesIn

LEMMA LeastOfSome ==
  ASSUME NEW S \in SUBSET Nat, S # {}
  PROVE  \E m \in S : \A j \in S : m <= j
<1> DEFINE R == OpToRel(<, Nat)
<1>1. IsWellFoundedOn(R, Nat)
  BY NatLessThanWellFounded
<1>2. \A i, j \in Nat : i < j => <<i, j>> \in R
  BY DEF OpToRel
<1> HIDE DEF R
<1>3. PICK m \in S : \A j \in S : ~(<<j, m>> \in R)
  BY <1>1, WFMin
<1>4. ASSUME NEW j \in S PROVE m <= j
  <2>1. j \in Nat /\ m \in Nat
    OBVIOUS
  <2>2. ~(j < m)
    BY <1>2, <1>3, <2>1
  <2> QED
    BY <2>1, <2>2
<1> QED
  BY <1>4

LEMMA MinOfSome ==
  ASSUME NEW S \in SUBSET Nat, S # {}
  PROVE  Min(S) \in S
BY LeastOfSome DEF Min

LEMMA MaxOfSome ==
  ASSUME NEW n \in Nat, NEW S \in SUBSET (0..n), S # {}
  PROVE  Max(S) \in S
<1> DEFINE D == {n - i : i \in S}
<1>1. D \in SUBSET Nat /\ D # {}
  <2>1. \A i \in S : i \in 0..n
    OBVIOUS
  <2>2. \A i \in S : n - i \in Nat
    BY <2>1
  <2> QED
    BY <2>2
<1>2. PICK d \in D : \A e \in D : d <= e
  <2> HIDE DEF D
  <2> QED
    BY <1>1, LeastOfSome
<1>3. PICK i \in S : d = n - i
  OBVIOUS
<1>4. ASSUME NEW j \in S PROVE i >= j
  <2>1. d <= n - j
    BY <1>2
  <2>2. i \in 0..n /\ j \in 0..n
    OBVIOUS
  <2> QED
    BY <1>3, <2>1, <2>2
<1> QED
  BY <1>4 DEF Max

LEMMA FrameSets ==
  /\ Frames \subseteq Nat /\ Orders = 0..(MaxOrder - 1) /\ Orders \subseteq Nat
  /\ ZoneNos = 1..Len(Zones) /\ 1 \in ZoneNos
  /\ \A z \in ZoneNos : Zones[z] \subseteq Frames /\ Zones[z] \subseteq Nat
  /\ NoCall \in CallRec
<1>1. ZoneNos = 1..Len(Zones) /\ 1 \in ZoneNos /\ Len(Zones) \in Nat
  BY FramesAssumption, LenProperties DEF ZoneNos
<1>2. \A z \in ZoneNos : Zones[z] \in SUBSET Nat
  BY <1>1, FramesAssumption, ElementOfSeq
<1>3. \A z \in ZoneNos : Zones[z] \subseteq Frames
  BY DEF Frames
<1>4. Frames \subseteq Nat
  BY <1>2 DEF Frames
<1>5. NoCall \in CallRec
  BY <1>1 DEF NoCall, CallRec
<1>6. Orders = 0..(MaxOrder - 1) /\ Orders \subseteq Nat
  BY FramesAssumption DEF Orders
<1> QED
  BY <1>1, <1>2, <1>3, <1>4, <1>5, <1>6

LEMMA CallFields ==
  ASSUME FrameTypes, NEW c \in Callers
  PROVE  /\ cpu[c] \in CallRec /\ cpu[c].at \in {"idle", "search", "mark", "give", "clear"}
         /\ cpu[c].zone \in ZoneNos /\ cpu[c].base \in Nat /\ cpu[c].order \in Nat
         /\ cpu[c].todo \subseteq Frames /\ cpu[c].loaded \in BOOLEAN /\ cpu[c].byte \subseteq Frames
         /\ Mine(c).base = cpu[c].base /\ Mine(c).order = cpu[c].order
<1>1. cpu[c] \in CallRec
  BY DEF FrameTypes
<1>2. Mine(c).base = cpu[c].base /\ Mine(c).order = cpu[c].order
  BY DEF Mine, Block
<1> QED
  BY <1>1, <1>2 DEF CallRec

LEMMA TransitIs ==
  ASSUME NEW c \in Callers
  PROVE  /\ Transit[c] = IF cpu[c].at \in {"mark", "give"} THEN FramesOf(Mine(c)) ELSE {}
         /\ Transit = [d \in Callers |-> Transit[d]]
BY DEF Transit, InTransit, Mine

LEMMA TransitStep ==
  ASSUME NEW c \in Callers, \A d \in Callers : d # c => cpu'[d] = cpu[d]
  PROVE  Transit' = [Transit EXCEPT ![c] = Transit'[c]]
<1>1. Transit' = [d \in Callers |-> Transit'[d]]
  BY DEF Transit
<1>2. \A d \in Callers : d # c => Transit'[d] = Transit[d]
  BY DEF Transit, InTransit
<1>3. Transit = [d \in Callers |-> Transit[d]]
  BY DEF Transit
<1> HIDE DEF Transit
<1> QED
  BY <1>1, <1>2, <1>3

LEMMA TransitSame ==
  ASSUME NEW c \in Callers, \A d \in Callers : d # c => cpu'[d] = cpu[d], Transit'[c] = Transit[c]
  PROVE  Transit' = Transit
<1>1. PICK T, U : T = Transit /\ U = Transit'
  OBVIOUS
<1>2. T = [d \in Callers |-> T[d]] /\ U = [d \in Callers |-> U[d]]
  BY <1>1 DEF Transit
<1>3. \A d \in Callers : U[d] = T[d]
  BY <1>1 DEF Transit, InTransit
<1> QED
  BY <1>1, <1>2, <1>3

\* A processor that is not acting keeps what it has
LEMMA OthersOK ==
  ASSUME NEW d \in Callers, CallOK(d), cpu'[d] = cpu[d],
         cpu[d].at = "mark" =>
           \A p \in FramesOf(Mine(d)) : p \in bits \/ p \in stale => p \in bits' \/ p \in stale',
         cpu[d].at = "clear" =>
           lock'[cpu[d].zone] = lock[cpu[d].zone] /\ FramesOf(Mine(d)) \subseteq InLists(free')
  PROVE  CallOK(d)'
<1>1. Mine(d)' = Mine(d)
  BY DEF Mine
<1> QED
  BY <1>1 DEF CallOK

LEMMA FramesInitInv == FramesInit => FramesInv
<1> SUFFICES ASSUME FramesInit PROVE FramesInv
  OBVIOUS
<1>1. Len(Regions) \in Nat \ {0} /\ Regions[1] \in Nat \X Nat
  BY FramesAssumption, LenProperties, ElementOfSeq
<1>2. FrameTypes
  BY <1>1, FrameSets DEF FramesInit, FrameTypes
<1>3. Listing(free) /\ InLists(free) = {}
  BY DEF FramesInit, Listing, InLists
<1>4. Booting
  BY <1>1, FramesAssumption DEF FramesInit, Booting, NoCall
<1>5. \A c \in Callers : CallOK(c) /\ Transit[c] = {}
  BY DEF FramesInit, NoCall, CallOK, Transit, InTransit
<1>6. Pending = Given
  <2>1. ~Booted /\ boot.region = 1 /\ boot.start = Regions[1][1]
    BY <1>1 DEF FramesInit, Booted
  <2>2. 1..Len(Regions) = {1} \cup (1 + 1)..Len(Regions)
    BY <1>1
  <2> QED
    BY <2>1, <2>2 DEF Pending, Given
<1>7. Accounts(InLists(free), owned, lost, Pending, Transit)
  BY <1>3, <1>5, <1>6 DEF FramesInit, Accounts
<1>8. PagesCounted
  BY <1>3, FS_EmptySet DEF FramesInit, PagesCounted, PagesIn
<1>9. Unreferred /\ BitsOfOwners
  BY DEF FramesInit, Unreferred, BitsOfOwners
<1> QED
  BY <1>2, <1>3, <1>4, <1>5, <1>7, <1>8, <1>9 DEF FramesInv

LEMMA BuddyAllocZoneStep ==
  ASSUME FramesInv, NEW c \in Callers, BuddyAllocZone(c)
  PROVE  FramesInv'
<1> DEFINE z == cpu[c].zone
           order == cpu[c].order
           enough == {b \in free : b.base \in Zones[z] /\ b.order >= order}
<1>1. /\ FrameTypes /\ Listing(free) /\ Booting /\ \A d \in Callers : CallOK(d)
      /\ Accounts(InLists(free), owned, lost, Pending, Transit)
      /\ PagesCounted /\ Unreferred /\ BitsOfOwners
  BY DEF FramesInv
<1>2. /\ cpu[c].at = "search" /\ lock[z] = Unlocked /\ cpu[c].loaded = FALSE
      /\ z \in ZoneNos /\ order \in Nat
      /\ UNCHANGED <<bits, refs, lock, boot, owned, lost, stale>>
  BY <1>1, CallFields DEF BuddyAllocZone, CallOK
<1>3. Booted /\ Booted' /\ Booting' /\ Pending' = Pending
  BY <1>1, <1>2 DEF Booting, Booted, Pending
<1>4. Unreferred' /\ BitsOfOwners'
  BY <1>1, <1>2 DEF Unreferred, BitsOfOwners
<1>5. Transit[c] = {}
  BY <1>2, TransitIs
<1>6. CASE enough = {}
  <2>1. /\ UNCHANGED <<free, freePages>>
        /\ cpu' = [cpu EXCEPT ![c] = IF z < Len(Zones) THEN [cpu[c] EXCEPT !.zone = z + 1] ELSE NoCall]
    BY <1>6 DEF BuddyAllocZone
  <2>2. cpu'[c] \in CallRec /\ cpu'[c].at \in {"idle", "search"} /\ cpu'[c].loaded = FALSE
    <3>1. CASE z < Len(Zones)
      <4>1. z + 1 \in ZoneNos
        BY <1>2, <3>1, FrameSets, FramesAssumption, LenProperties
      <4>2. cpu'[c] = [cpu[c] EXCEPT !.zone = z + 1]
        BY <1>1, <2>1, <3>1 DEF FrameTypes
      <4> QED
        BY <1>1, <1>2, <4>1, <4>2, CallFields DEF CallRec
    <3>2. CASE ~(z < Len(Zones))
      <4>1. cpu'[c] = NoCall
        BY <1>1, <2>1, <3>2 DEF FrameTypes
      <4> QED
        BY <4>1, FrameSets DEF NoCall
    <3> QED
      BY <3>1, <3>2
  <2>3. \A d \in Callers : d # c => cpu'[d] = cpu[d]
    BY <1>1, <2>1 DEF FrameTypes
  <2>4. FrameTypes'
    BY <1>1, <1>2, <2>1, <2>2, <2>3 DEF FrameTypes
  <2>5. CallOK(c)'
    BY <2>2 DEF CallOK
  <2>6. ASSUME NEW d \in Callers, d # c PROVE CallOK(d)'
    BY <1>1, <1>2, <2>1, <2>3, <2>6, OthersOK DEF CallOK
  <2>7. Transit' = Transit
    <3>1. Transit'[c] = {}
      BY <2>2 DEF Transit, InTransit
    <3> QED
      BY <1>5, <2>3, <3>1, TransitSame
  <2>8. Accounts(InLists(free), owned, lost, Pending, Transit)'
    BY <1>1, <1>2, <1>3, <2>1, <2>7
  <2>9. PagesCounted'
    BY <1>1, <2>1 DEF PagesCounted
  <2> QED
    BY <1>1, <1>3, <1>4, <2>1, <2>4, <2>5, <2>6, <2>8, <2>9 DEF FramesInv
<1>7. CASE enough # {}
  <2>1. PICK b \in enough :
          /\ free' = (free \ {b}) \cup RightHalves(b, order)
          /\ freePages' = [freePages EXCEPT ![z] = freePages[z] - OrderToPages[order]]
          /\ cpu' = [cpu EXCEPT ![c].at = "mark", ![c].base = b.base,
                                ![c].todo = FramesOf(Block(b.base, order))]
    BY <1>7 DEF BuddyAllocZone
  <2> DEFINE kept == Block(b.base, order)
  <2>2. /\ b \in free /\ WholeBlock(b) /\ order <= b.order /\ b.base \in Zones[z]
        /\ b.base \in Nat /\ b.order \in Nat
    BY <1>1, <1>2, <2>1, WholeBlockFacts DEF Listing
  <2>3. /\ WholeBlock(kept) /\ FramesOf(kept) \subseteq FramesOf(b)
        /\ Listing(free') /\ InLists(free') = InLists(free) \ FramesOf(kept)
    <3>1. PICK l, o : l = free /\ o = order
      OBVIOUS
    <3>2. /\ WholeBlock(Block(b.base, o)) /\ FramesOf(Block(b.base, o)) \subseteq FramesOf(b)
          /\ Listing((l \ {b}) \cup RightHalves(b, o))
          /\ InLists((l \ {b}) \cup RightHalves(b, o)) = InLists(l) \ FramesOf(Block(b.base, o))
      <4>1. Listing(l) /\ b \in l /\ o \in Nat /\ o <= b.order
        BY <1>1, <1>2, <2>2, <3>1
      <4> QED
        BY <4>1, SplitBlockFacts
    <3>3. free' = (l \ {b}) \cup RightHalves(b, o)
      BY <2>1, <3>1
    <3> QED
      BY <3>1, <3>2, <3>3
  <2>4. FramesOf(b) \subseteq InLists(free) /\ FramesOf(b) \subseteq Zones[z] /\ ZoneOf(b.base) = z
    <3>1. ZoneOf(b.base) = z
      BY <1>2, <2>2, ZoneOfIs
    <3> QED
      BY <2>2, <3>1, WholeBlockFacts DEF InLists
  <2>5. kept.base = b.base /\ kept.order = order
    BY DEF Block
  <2>6. FramesOf(kept) \subseteq Zones[z] /\ FramesOf(kept) \subseteq Frames
    BY <1>2, <2>3, <2>4, FrameSets
  <2> HIDE DEF kept
  <2>7. cpu'[c] = [cpu[c] EXCEPT !.at = "mark", !.base = b.base, !.todo = FramesOf(kept)]
    BY <1>1, <2>1 DEF FrameTypes, kept
  <2>8. /\ cpu'[c] \in CallRec /\ cpu'[c].at = "mark" /\ cpu'[c].base = b.base /\ cpu'[c].order = order
        /\ cpu'[c].zone = z /\ cpu'[c].todo = FramesOf(kept) /\ cpu'[c].loaded = FALSE
    BY <1>1, <1>2, <2>2, <2>6, <2>7, CallFields DEF CallRec
  <2>9. \A d \in Callers : d # c => cpu'[d] = cpu[d]
    BY <1>1, <2>1 DEF FrameTypes
  <2>10. FrameTypes'
    <3>1. cpu' \in [Callers -> CallRec]
      BY <1>1, <2>1, <2>8, <2>9 DEF FrameTypes
    <3>2. freePages' \in [ZoneNos -> Int]
      <4>1. OrderToPages[order] \in Nat
        BY <1>2, OrderToPagesFacts
      <4> QED
        BY <1>1, <1>2, <2>1, <4>1 DEF FrameTypes
    <3> QED
      BY <1>1, <1>2, <3>1, <3>2 DEF FrameTypes
  <2>11. Mine(c)' = kept
    BY <2>8 DEF Mine, kept
  <2>12. CallOK(c)'
    BY <2>3, <2>6, <2>8, <2>11 DEF CallOK
  <2>13. ASSUME NEW d \in Callers, d # c PROVE CallOK(d)'
    <3>1. cpu[d].at = "clear" => FramesOf(Mine(d)) \subseteq InLists(free')
      <4> SUFFICES ASSUME cpu[d].at = "clear" PROVE FramesOf(Mine(d)) \subseteq InLists(free')
        OBVIOUS
      <4>1. /\ lock[cpu[d].zone] = d /\ FramesOf(Mine(d)) \subseteq InLists(free)
            /\ FramesOf(Mine(d)) \subseteq Zones[cpu[d].zone]
        BY <1>1 DEF CallOK
      <4>2. cpu[d].zone # z /\ cpu[d].zone \in ZoneNos
        BY <1>1, <1>2, <4>1, FramesAssumption, CallFields
      <4>3. Zones[cpu[d].zone] \cap Zones[z] = {}
        BY <1>2, <4>2, FramesAssumption DEF ZoneNos
      <4> QED
        BY <2>3, <2>6, <4>1, <4>3
    <3> QED
      BY <1>1, <1>2, <2>9, <2>13, <3>1, OthersOK
  <2>14. Transit' = [Transit EXCEPT ![c] = FramesOf(kept)]
    <3>1. Transit'[c] = FramesOf(kept)
      BY <2>8, <2>11 DEF Transit, InTransit, Mine
    <3> QED
      BY <2>9, <3>1, TransitStep
  <2>15. Accounts(InLists(free), owned, lost, Pending, Transit)'
    <3>1. FramesOf(kept) \subseteq InLists(free)
      BY <2>3, <2>4
    <3>2. Accounts(InLists(free) \ FramesOf(kept), owned, lost, Pending, [Transit EXCEPT ![c] = FramesOf(kept)])
      BY <1>1, <1>5, <3>1, AccountsTake, TransitIs
    <3> QED
      BY <1>2, <1>3, <2>3, <2>14, <3>2
  <2>16. PagesCounted'
    <3>1. ZoneOf(kept.base) = z /\ FramesOf(kept) \subseteq InLists(free)
      BY <2>3, <2>4, <2>5
    <3>2. PICK S, R : S = InLists(free) /\ R = InLists(free')
      OBVIOUS
    <3>3. FramesOf(kept) \cap R = {} /\ S = R \cup FramesOf(kept)
      BY <2>3, <3>1, <3>2
    <3>4. ASSUME NEW y \in ZoneNos, y # z PROVE freePages'[y] = PagesIn(R, y)
      <4>1. PagesIn(S, y) = PagesIn(R, y)
        BY <2>3, <3>1, <3>3, <3>4, ZoneCounts
      <4>2. freePages'[y] = freePages[y]
        BY <1>1, <2>1, <3>4 DEF FrameTypes
      <4> QED
        BY <1>1, <3>2, <4>1, <4>2 DEF PagesCounted
    <3>5. freePages'[z] = PagesIn(R, z)
      <4>1. PICK s, r, w \in Nat : s = PagesIn(S, z) /\ r = PagesIn(R, z) /\ w = OrderToPages[kept.order] /\ s = r + w
        BY <1>2, <2>3, <3>1, <3>3, ZoneCounts
      <4>2. freePages'[z] = freePages[z] - OrderToPages[order]
        BY <1>1, <1>2, <2>1 DEF FrameTypes
      <4>3. freePages[z] = s
        BY <1>1, <1>2, <3>2, <4>1 DEF PagesCounted
      <4> QED
        BY <2>5, <4>1, <4>2, <4>3
    <3> QED
      BY <3>2, <3>4, <3>5 DEF PagesCounted
  <2> QED
    BY <1>3, <1>4, <2>3, <2>10, <2>12, <2>13, <2>15, <2>16 DEF FramesInv
<1> QED
  BY <1>6, <1>7

LEMMA CountToOrderIs ==
  ASSUME NEW n \in Nat
  PROVE  CountToOrder(n) \in Nat
<1> DEFINE Enough == {o \in 0..n : OrderToPages[o] >= n}
           S == {i \in 0..n : OrderToPages[i] >= i + 1}
<1>1. 0 \in S
  BY OrderToPagesFacts
<1>2. ASSUME NEW i \in 1..n, i - 1 \in S PROVE i \in S
  <2>1. i - 1 \in Nat /\ (i - 1) + 1 = i
    OBVIOUS
  <2>2. OrderToPages[i] = 2 * OrderToPages[i - 1] /\ OrderToPages[i - 1] \in Nat
    BY <2>1, OrderToPagesFacts
  <2>3. OrderToPages[i - 1] >= i
    BY <1>2, <2>1
  <2> QED
    BY <2>2, <2>3
<1> HIDE DEF S
<1>3. 0..n \subseteq S
  BY <1>1, <1>2, UpTo
<1>4. n \in Enough
  <2>1. OrderToPages[n] >= n + 1 /\ OrderToPages[n] \in Nat
    BY <1>3, OrderToPagesFacts DEF S
  <2> QED
    BY <2>1
<1>5. PICK o \in Enough : \A q \in Enough : o <= q
  <2>1. Enough \in SUBSET Nat
    OBVIOUS
  <2> HIDE DEF Enough
  <2> QED
    BY <1>4, <2>1, LeastOfSome
<1>6. \A q \in 0..(o - 1) : OrderToPages[q] < n
  <2>1. ASSUME NEW q \in 0..(o - 1) PROVE OrderToPages[q] < n
    <3>1. q \in 0..n /\ ~(o <= q)
      OBVIOUS
    <3>2. OrderToPages[q] \in Nat
      BY <3>1, OrderToPagesFacts
    <3> QED
      BY <1>5, <3>1, <3>2
  <2> QED
    BY <2>1
<1>7. CountToOrder(n) \in 0..n
  <2>1. \E x \in 0..n : OrderToPages[x] >= n /\ \A q \in 0..(x - 1) : OrderToPages[q] < n
    BY <1>5, <1>6
  <2> QED
    BY <2>1 DEF CountToOrder
<1> QED
  BY <1>7

LEMMA AllocFramesStep ==
  ASSUME FramesInv, NEW c \in Callers, NEW n \in Counts, NEW z \in ZoneNos, AllocFrames(c, n, z)
  PROVE  FramesInv'
<1>1. /\ FrameTypes /\ Listing(free) /\ Booting /\ \A d \in Callers : CallOK(d)
      /\ Accounts(InLists(free), owned, lost, Pending, Transit)
      /\ PagesCounted /\ Unreferred /\ BitsOfOwners
  BY DEF FramesInv
<1>2. /\ cpu[c].at = "idle" /\ Booted
      /\ cpu' = [cpu EXCEPT ![c] = [NoCall EXCEPT !.at = "search", !.zone = z, !.order = CountToOrder(n)]]
      /\ UNCHANGED <<free, freePages, bits, refs, lock, boot, owned, lost, stale>>
  BY DEF AllocFrames
<1>3. CountToOrder(n) \in Nat
  BY CountToOrderIs, FramesAssumption
<1>4. cpu'[c] \in CallRec /\ cpu'[c].at = "search" /\ cpu'[c].loaded = FALSE
  <2>1. cpu'[c] = [NoCall EXCEPT !.at = "search", !.zone = z, !.order = CountToOrder(n)]
    BY <1>1, <1>2 DEF FrameTypes
  <2> QED
    BY <1>3, <2>1, FrameSets DEF NoCall, CallRec
<1>5. \A d \in Callers : d # c => cpu'[d] = cpu[d]
  BY <1>1, <1>2 DEF FrameTypes
<1>6. FrameTypes'
  BY <1>1, <1>2, <1>4, <1>5 DEF FrameTypes
<1>7. CallOK(c)'
  BY <1>4 DEF CallOK
<1>8. ASSUME NEW d \in Callers, d # c PROVE CallOK(d)'
  BY <1>1, <1>2, <1>5, <1>8, OthersOK DEF CallOK
<1>9. Transit' = Transit
  <2>1. Transit'[c] = {} /\ Transit[c] = {}
    BY <1>2, <1>4 DEF Transit, InTransit
  <2> QED
    BY <1>5, <2>1, TransitSame
<1>10. Booting' /\ Pending' = Pending
  BY <1>2 DEF Booting, Booted, Pending
<1>11. PagesCounted' /\ Unreferred' /\ BitsOfOwners'
  BY <1>1, <1>2 DEF PagesCounted, Unreferred, BitsOfOwners
<1>12. Accounts(InLists(free), owned, lost, Pending, Transit)'
  BY <1>1, <1>2, <1>9, <1>10
<1> QED
  BY <1>1, <1>2, <1>6, <1>7, <1>8, <1>10, <1>11, <1>12 DEF FramesInv

\* A load or a store of a byte: bits that are set stay set or are noted, but those that a free clears
LEMMA BitsStep ==
  ASSUME FramesInv, NEW c \in Callers, cpu[c].at \in {"mark", "clear"},
         UNCHANGED <<free, freePages, refs, lock, boot, owned, lost>>,
         bits' \subseteq Frames, stale' \subseteq Frames,
         \A d \in Callers : d # c => cpu'[d] = cpu[d],
         cpu' \in [Callers -> CallRec], cpu'[c].at = cpu[c].at, cpu'[c].zone = cpu[c].zone,
         cpu'[c].base = cpu[c].base, cpu'[c].order = cpu[c].order, cpu'[c].todo \subseteq cpu[c].todo,
         cpu'[c].loaded => cpu'[c].byte \subseteq Byte(Min(cpu'[c].todo)),
         \A q \in Frames : (q \in bits \/ q \in stale) /\ ~(cpu[c].at = "clear" /\ q \in cpu[c].todo)
                           => q \in bits' \/ q \in stale',
         cpu[c].at = "mark" =>
           \A q \in cpu[c].todo : q \in cpu'[c].todo \/ q \in bits' \/ q \in stale'
  PROVE  FramesInv'
<1>1. /\ FrameTypes /\ Listing(free) /\ Booting /\ \A d \in Callers : CallOK(d)
      /\ Accounts(InLists(free), owned, lost, Pending, Transit)
      /\ PagesCounted /\ Unreferred /\ BitsOfOwners
  BY DEF FramesInv
<1>2. Booted /\ Booting' /\ Pending' = Pending
  BY <1>1 DEF Booting, Booted, Pending
<1>3. FrameTypes'
  BY <1>1 DEF FrameTypes
<1>4. Mine(c)' = Mine(c)
  BY DEF Mine
<1>5. \A d \in Callers : cpu[d].at \in {"mark", "give", "clear"} => FramesOf(Mine(d)) \subseteq Frames
  <2>1. ASSUME NEW d \in Callers, cpu[d].at \in {"mark", "give", "clear"} PROVE FramesOf(Mine(d)) \subseteq Frames
    <3>1. FramesOf(Mine(d)) \subseteq Zones[cpu[d].zone] /\ cpu[d].zone \in ZoneNos
      BY <1>1, <2>1, CallFields DEF CallOK
    <3> QED
      BY <3>1, FrameSets
  <2> QED
    BY <2>1
<1>6. cpu[c].at = "clear" => cpu[c].todo \subseteq InLists(free)
  BY <1>1 DEF CallOK
<1>7. CallOK(c)'
  <2>1. /\ WholeBlock(Mine(c)) /\ FramesOf(Mine(c)) \subseteq Zones[cpu[c].zone]
        /\ cpu[c].todo \subseteq FramesOf(Mine(c))
    BY <1>1 DEF CallOK
  <2>2. WholeBlock(Mine(c))' /\ (FramesOf(Mine(c)) \subseteq Zones[cpu[c].zone])'
    BY <1>4, <2>1
  <2>3. (cpu[c].todo \subseteq FramesOf(Mine(c)))'
    BY <1>4, <2>1
  <2>4. cpu[c].at = "mark" => \A p \in FramesOf(Mine(c)) : p \in cpu'[c].todo \/ p \in bits' \/ p \in stale'
    BY <1>1, <1>5 DEF CallOK
  <2>5. cpu[c].at = "clear" => lock'[cpu'[c].zone] = c /\ FramesOf(Mine(c)) \subseteq InLists(free')
    BY <1>1 DEF CallOK
  <2> QED
    BY <1>4, <2>2, <2>3, <2>4, <2>5 DEF CallOK
<1>8. ASSUME NEW d \in Callers, d # c PROVE CallOK(d)'
  <2>1. ASSUME cpu[d].at = "mark", NEW p \in FramesOf(Mine(d)), p \in bits \/ p \in stale
        PROVE  p \in bits' \/ p \in stale'
    <3>1. Transit[d] = FramesOf(Mine(d))
      BY <2>1, TransitIs
    <3>2. p \notin InLists(free) /\ p \in Frames
      BY <1>1, <1>5, <2>1, <3>1 DEF Accounts
    <3> QED
      BY <1>6, <2>1, <3>2
  <2>2. cpu[d].at = "clear" => FramesOf(Mine(d)) \subseteq InLists(free)
    BY <1>1 DEF CallOK
  <2> QED
    BY <1>1, <1>8, <2>1, <2>2, OthersOK
<1>9. Transit' = Transit
  <2>1. Transit'[c] = Transit[c]
    BY DEF Transit, InTransit
  <2> QED
    BY <2>1, TransitSame
<1>10. PagesCounted' /\ Unreferred'
  BY <1>1 DEF PagesCounted, Unreferred
<1>11. BitsOfOwners'
  <2>1. ASSUME NEW p \in owned PROVE refs'[p] = 1 /\ (p \in bits' \/ p \in stale')
    <3>1. p \in Frames /\ p \notin InLists(free)
      BY <1>1 DEF FrameTypes, Accounts
    <3>2. refs[p] = 1 /\ (p \in bits \/ p \in stale)
      BY <1>1 DEF BitsOfOwners
    <3> QED
      BY <1>6, <3>1, <3>2
  <2> QED
    BY <2>1 DEF BitsOfOwners
<1>12. Accounts(InLists(free), owned, lost, Pending, Transit)'
  BY <1>1, <1>2, <1>9
<1> QED
  BY <1>1, <1>2, <1>3, <1>7, <1>8, <1>10, <1>11, <1>12 DEF FramesInv

LEMMA UpdatingFacts ==
  ASSUME FramesInv, NEW c \in Callers, Updating(c)
  PROVE  /\ FrameTypes /\ CallOK(c) /\ cpu[c].at \in {"mark", "clear"}
         /\ Min(cpu[c].todo) \in cpu[c].todo /\ Min(cpu[c].todo) \in Frames
         /\ \A p \in Frames : p \in Byte(p) /\ Byte(p) \subseteq Frames
<1>1. FrameTypes /\ CallOK(c) /\ cpu[c].at \in {"mark", "clear"} /\ cpu[c].todo # {}
  BY DEF FramesInv, Updating
<1>2. cpu[c].todo \in SUBSET Nat /\ cpu[c].todo \subseteq Frames
  BY <1>1, CallFields, FrameSets
<1>3. Min(cpu[c].todo) \in cpu[c].todo
  BY <1>1, <1>2, MinOfSome
<1> QED
  BY <1>1, <1>2, <1>3 DEF Byte

LEMMA StoreByteStep ==
  ASSUME FramesInv, NEW c \in Callers, StoreByte(c)
  PROVE  FramesInv'
<1> DEFINE p == Min(cpu[c].todo)
<1>1. /\ Updating(c) /\ cpu[c].loaded = FALSE /\ Byte(p) \subseteq cpu[c].todo
      /\ bits' = Changed(c, bits, Byte(p))
      /\ cpu' = [cpu EXCEPT ![c].todo = cpu[c].todo \ Byte(p)]
      /\ UNCHANGED <<free, freePages, refs, lock, boot, owned, lost, stale>>
  <2>1. cpu[c].loaded \in BOOLEAN
    BY CallFields DEF FramesInv
  <2> QED
    BY <2>1 DEF StoreByte
<1>2. /\ FrameTypes /\ cpu[c].at \in {"mark", "clear"} /\ Byte(p) \subseteq Frames
  BY <1>1, UpdatingFacts
<1> HIDE DEF p
<1>3. cpu'[c] = [cpu[c] EXCEPT !.todo = cpu[c].todo \ Byte(p)] /\ \A d \in Callers : d # c => cpu'[d] = cpu[d]
  BY <1>1, <1>2 DEF FrameTypes
<1>4. /\ cpu'[c] \in CallRec /\ cpu'[c].at = cpu[c].at /\ cpu'[c].zone = cpu[c].zone
      /\ cpu'[c].base = cpu[c].base /\ cpu'[c].order = cpu[c].order
      /\ cpu'[c].todo = cpu[c].todo \ Byte(p) /\ cpu'[c].loaded = FALSE
  BY <1>1, <1>2, <1>3, CallFields DEF CallRec
<1>5. cpu' \in [Callers -> CallRec]
  BY <1>1, <1>2, <1>3, <1>4 DEF FrameTypes
<1>6. bits' \subseteq Frames /\ stale' \subseteq Frames
  BY <1>1, <1>2 DEF FrameTypes, Changed
<1>7. \A q \in Frames : (q \in bits \/ q \in stale) /\ ~(cpu[c].at = "clear" /\ q \in cpu[c].todo)
                         => q \in bits' \/ q \in stale'
  BY <1>1, <1>2 DEF Changed
<1>8. cpu[c].at = "mark" => \A q \in cpu[c].todo : q \in cpu'[c].todo \/ q \in bits' \/ q \in stale'
  BY <1>1, <1>4 DEF Changed
<1>9. cpu'[c].loaded => cpu'[c].byte \subseteq Byte(Min(cpu'[c].todo))
  BY <1>4
<1>10. cpu'[c].todo \subseteq cpu[c].todo
  BY <1>4
<1> QED
  BY <1>1, <1>2, <1>3, <1>4, <1>5, <1>6, <1>7, <1>8, <1>9, <1>10, BitsStep

LEMMA LoadByteStep ==
  ASSUME FramesInv, NEW c \in Callers, LoadByte(c)
  PROVE  FramesInv'
<1> DEFINE p == Min(cpu[c].todo)
<1>1. /\ Updating(c)
      /\ cpu' = [cpu EXCEPT ![c].loaded = TRUE, ![c].byte = bits \cap Byte(p)]
      /\ UNCHANGED <<free, freePages, bits, refs, lock, boot, owned, lost, stale>>
  BY DEF LoadByte
<1>2. /\ FrameTypes /\ cpu[c].at \in {"mark", "clear"} /\ Byte(p) \subseteq Frames
  BY <1>1, UpdatingFacts
<1>3. /\ cpu'[c] = [cpu[c] EXCEPT !.loaded = TRUE, !.byte = bits \cap Byte(p)]
      /\ \A d \in Callers : d # c => cpu'[d] = cpu[d]
  BY <1>1, <1>2 DEF FrameTypes
<1>4. /\ cpu'[c] \in CallRec /\ cpu'[c].at = cpu[c].at /\ cpu'[c].zone = cpu[c].zone
      /\ cpu'[c].base = cpu[c].base /\ cpu'[c].order = cpu[c].order
      /\ cpu'[c].todo = cpu[c].todo /\ cpu'[c].byte = bits \cap Byte(p)
  <2>1. cpu[c] \in CallRec /\ bits \cap Byte(p) \in SUBSET Frames
    BY <1>2, CallFields
  <2> HIDE DEF p
  <2>2. PICK r, s : r = cpu[c] /\ s = bits \cap Byte(p)
    OBVIOUS
  <2>3. r \in CallRec /\ s \in SUBSET Frames /\ cpu'[c] = [r EXCEPT !.loaded = TRUE, !.byte = s]
    BY <1>3, <2>1, <2>2
  <2> QED
    BY <2>2, <2>3 DEF CallRec
<1>5. cpu' \in [Callers -> CallRec]
  BY <1>1, <1>2, <1>3, <1>4 DEF FrameTypes
<1>6. bits' \subseteq Frames /\ stale' \subseteq Frames
  BY <1>1, <1>2 DEF FrameTypes
<1>7. cpu'[c].byte \subseteq Byte(Min(cpu'[c].todo))
  BY <1>4
<1>8. \A q \in Frames : (q \in bits \/ q \in stale) /\ ~(cpu[c].at = "clear" /\ q \in cpu[c].todo)
                         => q \in bits' \/ q \in stale'
  BY <1>1
<1>9. cpu[c].at = "mark" => \A q \in cpu[c].todo : q \in cpu'[c].todo \/ q \in bits' \/ q \in stale'
  BY <1>4
<1>10. cpu'[c].todo \subseteq cpu[c].todo
  BY <1>4
<1> QED
  BY <1>1, <1>2, <1>3, <1>4, <1>5, <1>6, <1>7, <1>8, <1>9, <1>10, BitsStep

LEMMA StoreBitStep ==
  ASSUME FramesInv, NEW c \in Callers, StoreBit(c)
  PROVE  FramesInv'
<1> DEFINE p      == Min(cpu[c].todo)
           before == bits \cap Byte(p)
           stored == Changed(c, cpu[c].byte, {p})
<1>1. /\ Updating(c) /\ cpu[c].loaded
      /\ bits' = (bits \ Byte(p)) \cup stored
      /\ stale' = (stale \cup (before \ stored)) \ (stored \cup {p})
      /\ cpu' = [cpu EXCEPT ![c].todo = cpu[c].todo \ {p}, ![c].loaded = FALSE, ![c].byte = {}]
      /\ UNCHANGED <<free, freePages, refs, lock, boot, owned, lost>>
  BY DEF StoreBit
<1>2. /\ FrameTypes /\ cpu[c].at \in {"mark", "clear"} /\ Byte(p) \subseteq Frames
      /\ p \in cpu[c].todo /\ p \in Byte(p) /\ p \in Frames /\ cpu[c].byte \subseteq Byte(p)
  BY <1>1, UpdatingFacts DEF CallOK
<1>3. /\ stored \subseteq Byte(p)
      /\ cpu[c].at = "mark" => p \in stored
  BY <1>2 DEF Changed
<1> HIDE DEF p, stored
<1>4. /\ cpu'[c] = [cpu[c] EXCEPT !.todo = cpu[c].todo \ {p}, !.loaded = FALSE, !.byte = {}]
      /\ \A d \in Callers : d # c => cpu'[d] = cpu[d]
  BY <1>1, <1>2 DEF FrameTypes
<1>5. /\ cpu'[c] \in CallRec /\ cpu'[c].at = cpu[c].at /\ cpu'[c].zone = cpu[c].zone
      /\ cpu'[c].base = cpu[c].base /\ cpu'[c].order = cpu[c].order
      /\ cpu'[c].todo = cpu[c].todo \ {p} /\ cpu'[c].loaded = FALSE
  <2>1. PICK r, s : r = cpu[c] /\ s = cpu[c].todo \ {p}
    OBVIOUS
  <2>2. r \in CallRec /\ s \in SUBSET Frames /\ cpu'[c] = [r EXCEPT !.todo = s, !.loaded = FALSE, !.byte = {}]
    BY <1>2, <1>4, <2>1, CallFields
  <2> QED
    BY <2>1, <2>2 DEF CallRec
<1>6. cpu' \in [Callers -> CallRec]
  BY <1>1, <1>2, <1>4, <1>5 DEF FrameTypes
<1>7. bits' \subseteq Frames /\ stale' \subseteq Frames
  BY <1>1, <1>2, <1>3 DEF FrameTypes
<1>8. \A q \in Frames : (q \in bits \/ q \in stale) /\ ~(cpu[c].at = "clear" /\ q \in cpu[c].todo)
                         => q \in bits' \/ q \in stale'
  BY <1>1, <1>2, <1>3
<1>9. cpu[c].at = "mark" => \A q \in cpu[c].todo : q \in cpu'[c].todo \/ q \in bits' \/ q \in stale'
  BY <1>1, <1>3, <1>5
<1>10. cpu'[c].loaded => cpu'[c].byte \subseteq Byte(Min(cpu'[c].todo))
  BY <1>5
<1>11. cpu'[c].todo \subseteq cpu[c].todo
  BY <1>5
<1> QED
  BY <1>1, <1>2, <1>4, <1>5, <1>6, <1>7, <1>8, <1>9, <1>10, <1>11, BitsStep

LEMMA AllocReturnStep ==
  ASSUME FramesInv, NEW c \in Callers, AllocReturn(c)
  PROVE  FramesInv'
<1> DEFINE got == FramesOf(Mine(c))
<1>1. /\ FrameTypes /\ Listing(free) /\ Booting /\ \A d \in Callers : CallOK(d)
      /\ Accounts(InLists(free), owned, lost, Pending, Transit)
      /\ PagesCounted /\ Unreferred /\ BitsOfOwners
  BY DEF FramesInv
<1>2. /\ cpu[c].at = "mark" /\ cpu[c].todo = {}
      /\ refs' = [p \in Frames |-> IF p \in got THEN refs[p] + 1 ELSE refs[p]]
      /\ owned' = owned \cup got
      /\ cpu' = [cpu EXCEPT ![c] = NoCall]
      /\ UNCHANGED <<free, freePages, bits, lock, boot, lost, stale>>
  BY DEF AllocReturn, Mine
<1>3. Booted /\ Booting' /\ Pending' = Pending
  BY <1>1, <1>2 DEF Booting, Booted, Pending
<1>4. /\ FramesOf(Mine(c)) \subseteq Zones[cpu[c].zone] /\ cpu[c].zone \in ZoneNos
      /\ \A p \in got : p \in bits \/ p \in stale
  BY <1>1, <1>2, CallFields DEF CallOK
<1>5. got \subseteq Frames
  BY <1>4, FrameSets
<1>6. Transit[c] = got
  BY <1>2, TransitIs
<1>7. got \cap owned = {} /\ got \cap lost = {}
  BY <1>1, <1>6 DEF Accounts
<1> HIDE DEF got
<1>8. cpu'[c] = NoCall /\ \A d \in Callers : d # c => cpu'[d] = cpu[d]
  BY <1>1, <1>2 DEF FrameTypes
<1>9. FrameTypes'
  <2>1. cpu' \in [Callers -> CallRec]
    BY <1>1, <1>2, FrameSets DEF FrameTypes
  <2>2. refs' \in [Frames -> Int]
    BY <1>1, <1>2 DEF FrameTypes
  <2> QED
    BY <1>1, <1>2, <1>5, <2>1, <2>2 DEF FrameTypes
<1>10. CallOK(c)'
  BY <1>8 DEF CallOK, NoCall
<1>11. ASSUME NEW d \in Callers, d # c PROVE CallOK(d)'
  BY <1>1, <1>2, <1>8, <1>11, OthersOK DEF CallOK
<1>12. Transit' = [Transit EXCEPT ![c] = {}]
  <2>1. Transit'[c] = {}
    BY <1>8 DEF Transit, InTransit, NoCall
  <2> QED
    BY <1>8, <2>1, TransitStep
<1>13. Accounts(InLists(free), owned, lost, Pending, Transit)'
  <2>1. Accounts(InLists(free), owned \cup got, lost, Pending, [Transit EXCEPT ![c] = {}])
    BY <1>1, <1>6, AccountsClient, TransitIs
  <2> QED
    BY <1>2, <1>3, <1>12, <2>1
<1>14. PagesCounted'
  BY <1>1, <1>2 DEF PagesCounted
<1>15. Unreferred'
  BY <1>1, <1>2 DEF Unreferred
<1>16. BitsOfOwners'
  <2>1. ASSUME NEW p \in owned' PROVE refs'[p] = 1 /\ (p \in bits' \/ p \in stale')
    <3>1. CASE p \in got
      <4>1. refs[p] = 0 /\ p \in Frames
        BY <1>1, <1>5, <1>7, <3>1 DEF Unreferred
      <4> QED
        BY <1>2, <1>4, <3>1, <4>1 DEF got
    <3>2. CASE p \notin got
      <4>1. p \in owned /\ p \in Frames
        BY <1>1, <1>2, <3>2 DEF FrameTypes
      <4> QED
        BY <1>1, <1>2, <3>2, <4>1 DEF BitsOfOwners
    <3> QED
      BY <3>1, <3>2
  <2> QED
    BY <2>1 DEF BitsOfOwners
<1> QED
  BY <1>1, <1>2, <1>3, <1>9, <1>10, <1>11, <1>13, <1>14, <1>15, <1>16 DEF FramesInv

LEMMA FreeFramesStep ==
  ASSUME FramesInv, NEW c \in Callers, NEW o \in Orders, NEW base \in Frames,
         base % OrderToPages[o] = 0, FreeFrames(c, Block(base, o))
  PROVE  FramesInv'
<1> DEFINE block == Block(base, o)
           given == FramesOf(block)
           left  == [p \in Frames |-> IF p \in given THEN refs[p] - 1 ELSE refs[p]]
<1>1. /\ FrameTypes /\ Listing(free) /\ Booting /\ \A d \in Callers : CallOK(d)
      /\ Accounts(InLists(free), owned, lost, Pending, Transit)
      /\ PagesCounted /\ Unreferred /\ BitsOfOwners
  BY DEF FramesInv
<1>2. /\ Booted /\ cpu[c].at = "idle" /\ given \subseteq owned
      /\ owned' = owned \ given
      /\ UNCHANGED <<free, freePages, bits, lock, boot, stale>>
  BY DEF FreeFrames
<1>3. block.base = base /\ block.order = o /\ base \in Nat /\ o \in Nat
  BY FrameSets DEF Block
<1>4. given \subseteq Frames /\ given \subseteq Given /\ base \in given
  BY <1>1, <1>2, <1>3, FramesOfFacts DEF FrameTypes, Accounts
<1>5. WholeBlock(block)
  <2>1. \E z \in ZoneNos : given \subseteq Zones[z]
    BY <1>3, <1>4, ZonesAligned
  <2>2. block \in [base : Nat, order : Orders]
    BY <1>3 DEF Block
  <2> QED
    BY <1>3, <2>1, <2>2 DEF WholeBlock, Aligned
<1>6. Booting' /\ Pending' = Pending
  BY <1>2 DEF Booting, Booted, Pending
<1>7. Transit[c] = {}
  BY <1>2, TransitIs
<1>8. PagesCounted'
  BY <1>1, <1>2 DEF PagesCounted
<1>9. CASE ~(given \subseteq bits)
  <2>1. lost' = lost \cup given /\ UNCHANGED <<refs, cpu>>
    BY <1>9 DEF FreeFrames
  <2>2. FrameTypes'
    BY <1>1, <1>2, <1>4, <2>1 DEF FrameTypes
  <2>3. \A d \in Callers : CallOK(d)'
    BY <1>1, <1>2, <2>1, OthersOK DEF CallOK
  <2>4. Transit' = Transit
    BY <2>1 DEF Transit, InTransit
  <2>5. Accounts(InLists(free), owned, lost, Pending, Transit)'
    BY <1>1, <1>2, <1>6, <2>1, <2>4, AccountsLose
  <2>6. Unreferred'
    BY <1>1, <1>2, <2>1 DEF Unreferred
  <2>7. BitsOfOwners'
    BY <1>1, <1>2, <2>1 DEF BitsOfOwners
  <2> QED
    BY <1>1, <1>2, <1>6, <1>8, <2>2, <2>3, <2>5, <2>6, <2>7 DEF FramesInv
<1>10. CASE given \subseteq bits
  <2>1. \A p \in given : left[p] = 0
    BY <1>1, <1>2, <1>4 DEF BitsOfOwners
  <2>2. ~(\E p \in given : left[p] > 0)
    <3> HIDE DEF given, left
    <3>1. ASSUME NEW p \in given PROVE ~(left[p] > 0)
      BY <2>1, <3>1
    <3> QED
      BY <3>1
  <2>3. /\ refs' = left
        /\ cpu' = [cpu EXCEPT ![c] = [NoCall EXCEPT !.at = "give", !.zone = ZoneOf(block.base),
                                                    !.base = block.base, !.order = block.order]]
        /\ UNCHANGED lost
    BY <1>10, <2>2 DEF FreeFrames
  <2> DEFINE z == ZoneOf(base)
  <2>4. z \in ZoneNos /\ given \subseteq Zones[z]
    BY <1>3, <1>5, WholeBlockFacts
  <2> HIDE DEF z, left
  <2>5. cpu'[c] = [NoCall EXCEPT !.at = "give", !.zone = z, !.base = base, !.order = o]
    BY <1>1, <1>3, <2>3 DEF FrameTypes, z
  <2>6. /\ cpu'[c] \in CallRec /\ cpu'[c].at = "give" /\ cpu'[c].zone = z /\ cpu'[c].base = base
        /\ cpu'[c].order = o /\ cpu'[c].todo = {} /\ cpu'[c].loaded = FALSE
    BY <1>3, <2>4, <2>5, FrameSets DEF NoCall, CallRec
  <2>7. \A d \in Callers : d # c => cpu'[d] = cpu[d]
    BY <1>1, <2>3 DEF FrameTypes
  <2>8. FrameTypes'
    <3>1. cpu' \in [Callers -> CallRec]
      BY <1>1, <2>3, <2>6, <2>7 DEF FrameTypes
    <3>2. refs' \in [Frames -> Int]
      BY <1>1, <2>3 DEF FrameTypes, left
    <3> QED
      BY <1>1, <1>2, <2>3, <3>1, <3>2 DEF FrameTypes
  <2>9. Mine(c)' = block
    BY <2>6 DEF Mine
  <2>10. CallOK(c)'
    BY <1>5, <2>4, <2>6, <2>9 DEF CallOK
  <2>11. ASSUME NEW d \in Callers, d # c PROVE CallOK(d)'
    BY <1>1, <1>2, <2>7, <2>11, OthersOK DEF CallOK
  <2>12. Transit' = [Transit EXCEPT ![c] = given]
    <3>1. Transit'[c] = given
      BY <2>6 DEF Transit, InTransit
    <3> QED
      BY <2>7, <3>1, TransitStep
  <2>13. Accounts(InLists(free), owned, lost, Pending, Transit)'
    <3>1. PICK B : B = given
      OBVIOUS
    <3>2. Accounts(InLists(free), owned \ B, lost, Pending, [Transit EXCEPT ![c] = B])
      BY <1>1, <1>2, <1>7, <3>1, AccountsFree, TransitIs
    <3> QED
      BY <1>2, <1>6, <2>3, <2>12, <3>1, <3>2
  <2>14. Unreferred'
    BY <1>1, <1>2, <2>1, <2>3 DEF Unreferred, left
  <2>15. BitsOfOwners'
    <3>1. ASSUME NEW p \in owned' PROVE refs'[p] = 1 /\ (p \in bits' \/ p \in stale')
      <4>1. p \in owned /\ p \notin given /\ p \in Frames
        BY <1>1, <1>2 DEF FrameTypes
      <4> QED
        BY <1>1, <1>2, <2>3, <4>1 DEF BitsOfOwners, left
    <3> QED
      BY <3>1 DEF BitsOfOwners
  <2> QED
    BY <1>1, <1>2, <1>6, <1>8, <2>8, <2>10, <2>11, <2>13, <2>14, <2>15 DEF FramesInv
<1> QED
  BY <1>9, <1>10

\* The count of a zone after a block has come into its lists
LEMMA PagesAdded ==
  ASSUME FrameTypes, PagesCounted, NEW b, WholeBlock(b), FramesOf(b) \cap InLists(free) = {},
         InLists(free') = InLists(free) \cup FramesOf(b),
         NEW z \in ZoneNos, z = ZoneOf(b.base),
         freePages' = [freePages EXCEPT ![z] = freePages[z] + OrderToPages[b.order]]
  PROVE  PagesCounted' /\ freePages' \in [ZoneNos -> Int]
<1>1. PICK S, R : R = InLists(free) /\ S = InLists(free')
  OBVIOUS
<1>2. FramesOf(b) \cap R = {} /\ S = R \cup FramesOf(b)
  BY <1>1
<1>3. ASSUME NEW y \in ZoneNos, y # z PROVE freePages'[y] = PagesIn(S, y)
  <2>1. PagesIn(S, y) = PagesIn(R, y)
    BY <1>2, <1>3, ZoneCounts
  <2>2. freePages'[y] = freePages[y]
    BY <1>3 DEF FrameTypes
  <2> QED
    BY <1>1, <2>1, <2>2 DEF PagesCounted
<1>4. PICK s, r, w \in Nat : s = PagesIn(S, z) /\ r = PagesIn(R, z) /\ w = OrderToPages[b.order] /\ s = r + w
  BY <1>2, ZoneCounts
<1>5. freePages'[z] = PagesIn(S, z)
  <2>1. freePages'[z] = freePages[z] + w /\ freePages[z] = r
    BY <1>1, <1>4 DEF FrameTypes, PagesCounted
  <2> QED
    BY <1>4, <2>1
<1>6. freePages' \in [ZoneNos -> Int]
  BY <1>4 DEF FrameTypes
<1> QED
  BY <1>1, <1>3, <1>5, <1>6 DEF PagesCounted

LEMMA BuddyFreeZoneStep ==
  ASSUME FramesInv, NEW c \in Callers, BuddyFreeZone(c)
  PROVE  FramesInv'
<1> DEFINE z == cpu[c].zone
           block == Mine(c)
<1>1. /\ FrameTypes /\ Listing(free) /\ Booting /\ \A d \in Callers : CallOK(d)
      /\ Accounts(InLists(free), owned, lost, Pending, Transit)
      /\ PagesCounted /\ Unreferred /\ BitsOfOwners
  BY DEF FramesInv
<1>2. /\ cpu[c].at = "give" /\ lock[z] = Unlocked
      /\ lock' = [lock EXCEPT ![z] = c]
      /\ free' = FreeInto(free, block)
      /\ freePages' = [freePages EXCEPT ![z] = freePages[z] + OrderToPages[block.order]]
      /\ cpu' = [cpu EXCEPT ![c].at = "clear", ![c].todo = FramesOf(block)]
      /\ UNCHANGED <<bits, refs, boot, owned, lost, stale>>
  BY DEF BuddyFreeZone, Mine
<1>3. Booted /\ Booting' /\ Pending' = Pending
  BY <1>1, <1>2 DEF Booting, Booted, Pending
<1>4. /\ WholeBlock(block) /\ FramesOf(block) \subseteq Zones[z] /\ z \in ZoneNos /\ cpu[c].loaded = FALSE
  BY <1>1, <1>2, CallFields DEF CallOK
<1>5. ZoneOf(block.base) = z /\ FramesOf(block) \subseteq Frames
  <2>1. block.base \in FramesOf(block)
    BY <1>4, WholeBlockFacts
  <2> QED
    BY <1>4, <2>1, ZoneOfIs, FrameSets
<1>6. Transit[c] = FramesOf(block)
  BY <1>2, TransitIs
<1> HIDE DEF block
<1>7. FramesOf(block) \cap InLists(free) = {}
  BY <1>1, <1>6 DEF Accounts
<1>8. Listing(free') /\ InLists(free') = InLists(free) \cup FramesOf(block)
  BY <1>1, <1>2, <1>4, <1>7, FreeIntoFacts
<1>9. PagesCounted' /\ freePages' \in [ZoneNos -> Int]
  BY <1>1, <1>2, <1>4, <1>5, <1>7, <1>8, PagesAdded
<1>10. /\ cpu'[c] = [cpu[c] EXCEPT !.at = "clear", !.todo = FramesOf(block)]
       /\ \A d \in Callers : d # c => cpu'[d] = cpu[d]
  BY <1>1, <1>2 DEF FrameTypes
<1>11. /\ cpu'[c] \in CallRec /\ cpu'[c].at = "clear" /\ cpu'[c].zone = z /\ cpu'[c].base = cpu[c].base
       /\ cpu'[c].order = cpu[c].order /\ cpu'[c].todo = FramesOf(block) /\ cpu'[c].loaded = FALSE
  <2>1. PICK r, s : r = cpu[c] /\ s = FramesOf(block)
    OBVIOUS
  <2>2. /\ r \in CallRec /\ s \in SUBSET Frames /\ r.loaded = FALSE
        /\ cpu'[c] = [r EXCEPT !.at = "clear", !.todo = s]
    BY <1>1, <1>4, <1>5, <1>10, <2>1, CallFields
  <2> QED
    BY <2>1, <2>2 DEF CallRec
<1>12. FrameTypes'
  <2>1. cpu' \in [Callers -> CallRec]
    BY <1>1, <1>2, <1>10, <1>11 DEF FrameTypes
  <2>2. lock' \in [ZoneNos -> Callers \cup {Unlocked}]
    BY <1>1, <1>2 DEF FrameTypes
  <2> QED
    BY <1>1, <1>2, <1>9, <2>1, <2>2 DEF FrameTypes
<1>13. Mine(c)' = block
  BY <1>11 DEF Mine, block
<1>14. CallOK(c)'
  <2>1. lock'[z] = c
    BY <1>1, <1>2, <1>4 DEF FrameTypes
  <2> QED
    BY <1>4, <1>8, <1>11, <1>13, <2>1 DEF CallOK
<1>15. ASSUME NEW d \in Callers, d # c PROVE CallOK(d)'
  <2>1. cpu[d].at = "clear" => lock'[cpu[d].zone] = lock[cpu[d].zone] /\ FramesOf(Mine(d)) \subseteq InLists(free')
    <3> SUFFICES ASSUME cpu[d].at = "clear"
                 PROVE  lock'[cpu[d].zone] = lock[cpu[d].zone] /\ FramesOf(Mine(d)) \subseteq InLists(free')
      OBVIOUS
    <3>1. lock[cpu[d].zone] = d /\ FramesOf(Mine(d)) \subseteq InLists(free) /\ cpu[d].zone \in ZoneNos
      BY <1>1, CallFields DEF CallOK
    <3>2. cpu[d].zone # z
      BY <1>2, <3>1, FramesAssumption
    <3> QED
      BY <1>1, <1>2, <1>8, <3>1, <3>2 DEF FrameTypes
  <2> QED
    BY <1>1, <1>2, <1>10, <1>15, <2>1, OthersOK
<1>16. Transit' = [Transit EXCEPT ![c] = {}]
  <2>1. Transit'[c] = {}
    BY <1>11 DEF Transit, InTransit
  <2> QED
    BY <1>10, <2>1, TransitStep
<1>17. Accounts(InLists(free), owned, lost, Pending, Transit)'
  <2>1. Accounts(InLists(free) \cup Transit[c], owned, lost, Pending, [Transit EXCEPT ![c] = {}])
    BY <1>1, AccountsGive, TransitIs
  <2> QED
    BY <1>2, <1>3, <1>6, <1>8, <1>16, <2>1
<1>18. Unreferred' /\ BitsOfOwners'
  BY <1>1, <1>2 DEF Unreferred, BitsOfOwners
<1> QED
  BY <1>3, <1>8, <1>9, <1>12, <1>14, <1>15, <1>17, <1>18 DEF FramesInv

LEMMA FreeReturnStep ==
  ASSUME FramesInv, NEW c \in Callers, FreeReturn(c)
  PROVE  FramesInv'
<1>1. /\ FrameTypes /\ Listing(free) /\ Booting /\ \A d \in Callers : CallOK(d)
      /\ Accounts(InLists(free), owned, lost, Pending, Transit)
      /\ PagesCounted /\ Unreferred /\ BitsOfOwners
  BY DEF FramesInv
<1>2. /\ cpu[c].at = "clear"
      /\ lock' = [z \in ZoneNos |-> IF lock[z] = c THEN Unlocked ELSE lock[z]]
      /\ cpu' = [cpu EXCEPT ![c] = NoCall]
      /\ UNCHANGED <<free, freePages, bits, refs, boot, owned, lost, stale>>
  BY DEF FreeReturn
<1>3. Booted /\ Booting' /\ Pending' = Pending
  BY <1>1, <1>2 DEF Booting, Booted, Pending
<1>4. cpu'[c] = NoCall /\ \A d \in Callers : d # c => cpu'[d] = cpu[d]
  BY <1>1, <1>2 DEF FrameTypes
<1>5. FrameTypes'
  <2>1. cpu' \in [Callers -> CallRec]
    BY <1>1, <1>2, FrameSets DEF FrameTypes
  <2>2. lock' \in [ZoneNos -> Callers \cup {Unlocked}]
    BY <1>1, <1>2 DEF FrameTypes
  <2> QED
    BY <1>1, <1>2, <2>1, <2>2 DEF FrameTypes
<1>6. CallOK(c)'
  BY <1>4 DEF CallOK, NoCall
<1>7. ASSUME NEW d \in Callers, d # c PROVE CallOK(d)'
  <2>1. cpu[d].at = "clear" => lock'[cpu[d].zone] = lock[cpu[d].zone]
    BY <1>1, <1>2, <1>7, CallFields DEF CallOK
  <2>2. cpu[d].at = "clear" => FramesOf(Mine(d)) \subseteq InLists(free')
    BY <1>1, <1>2 DEF CallOK
  <2> QED
    BY <1>1, <1>2, <1>4, <1>7, <2>1, <2>2, OthersOK
<1>8. Transit' = Transit
  <2>1. Transit'[c] = {} /\ Transit[c] = {}
    BY <1>2, <1>4 DEF Transit, InTransit, NoCall
  <2> QED
    BY <1>4, <2>1, TransitSame
<1>9. Accounts(InLists(free), owned, lost, Pending, Transit)'
  BY <1>1, <1>2, <1>3, <1>8
<1>10. PagesCounted' /\ Unreferred' /\ BitsOfOwners'
  BY <1>1, <1>2 DEF PagesCounted, Unreferred, BitsOfOwners
<1> QED
  BY <1>1, <1>2, <1>3, <1>5, <1>6, <1>7, <1>9, <1>10 DEF FramesInv
-----------------------------------------------------------------------------
\* What boot has still to add after region r
RegionOf(i) == Regions[i][1]..(Regions[i][2] - 1)
Later(r)    == UNION {RegionOf(i) : i \in (r + 1)..Len(Regions)}

LEMMA RegionFacts ==
  ASSUME NEW r \in 1..Len(Regions)
  PROVE  /\ Len(Regions) \in Nat /\ r \in Nat
         /\ Regions[r][1] \in Nat /\ Regions[r][2] \in Nat /\ Regions[r][1] < Regions[r][2]
         /\ \E z \in ZoneNos : RegionOf(r) \subseteq Zones[z]
         /\ RegionOf(r) \cap Later(r) = {}
         /\ r = Len(Regions) => Later(r) = {}
         /\ r < Len(Regions) => r + 1 \in 1..Len(Regions) /\ Later(r) = RegionOf(r + 1) \cup Later(r + 1)
<1>1. /\ Len(Regions) \in Nat /\ r \in Nat /\ Regions[r] \in Nat \X Nat
  BY FramesAssumption, LenProperties, ElementOfSeq
<1>2. /\ Regions[r][1] \in Nat /\ Regions[r][2] \in Nat /\ Regions[r][1] < Regions[r][2]
      /\ \E z \in ZoneNos : RegionOf(r) \subseteq Zones[z]
  BY <1>1, FramesAssumption DEF RegionOf, ZoneNos
<1>3. RegionOf(r) \cap Later(r) = {}
  <2>1. ASSUME NEW i \in (r + 1)..Len(Regions) PROVE RegionOf(r) \cap RegionOf(i) = {}
    <3>1. i \in 1..Len(Regions) /\ r < i
      BY <1>1
    <3> QED
      BY <3>1, FramesAssumption DEF RegionOf
  <2> QED
    BY <2>1 DEF Later
<1>4. r = Len(Regions) => Later(r) = {}
  BY <1>1 DEF Later
<1>5. ASSUME r < Len(Regions)
      PROVE  r + 1 \in 1..Len(Regions) /\ Later(r) = RegionOf(r + 1) \cup Later(r + 1)
  <2>1. (r + 1)..Len(Regions) = {r + 1} \cup ((r + 1) + 1)..Len(Regions)
    BY <1>1, <1>5
  <2> QED
    BY <1>1, <1>5, <2>1 DEF Later
<1> QED
  BY <1>1, <1>2, <1>3, <1>4, <1>5

LEMMA AddBlockStep ==
  ASSUME FramesInv, AddBlock
  PROVE  FramesInv'
<1> DEFINE r     == boot.region
           start == boot.start
           end   == Regions[r][2]
           fits  == {o \in Orders : o = 0 \/ (start % OrderToPages[o] = 0 /\ start + OrderToPages[o] <= end)}
           block == Block(start, Max(fits))
           z     == ZoneOf(start)
<1>1. /\ FrameTypes /\ Listing(free) /\ Booting /\ \A d \in Callers : CallOK(d)
      /\ Accounts(InLists(free), owned, lost, Pending, Transit)
      /\ PagesCounted /\ Unreferred /\ BitsOfOwners
  BY DEF FramesInv
<1>2. /\ ~Booted
      /\ free' = FreeInto(free, block)
      /\ freePages' = [freePages EXCEPT ![z] = freePages[z] + OrderToPages[block.order]]
      /\ boot' = IF start + OrderToPages[block.order] < end
                 THEN [boot EXCEPT !.start = start + OrderToPages[block.order]]
                 ELSE [region |-> r + 1, start |-> IF r = Len(Regions) THEN 0 ELSE Regions[r + 1][1]]
      /\ UNCHANGED <<bits, refs, lock, cpu, owned, lost, stale>>
  BY DEF AddBlock
<1>3. /\ r \in 1..Len(Regions) /\ Regions[r][1] <= start /\ start < end /\ start \in Nat
      /\ \A c \in Callers : cpu[c].at = "idle"
  BY <1>1, <1>2 DEF Booting, FrameTypes
<1>4. end \in Nat /\ r \in Nat /\ Len(Regions) \in Nat /\ Regions[r][1] \in Nat
  BY <1>3, RegionFacts
<1>5. PICK n \in Nat : n = MaxOrder - 1 /\ Orders = 0..n
  BY FramesAssumption DEF Orders
<1>6. Max(fits) \in fits
  <2>1. 0 \in fits
    BY <1>5
  <2>2. fits \in SUBSET (0..n) /\ fits # {}
    BY <1>5, <2>1
  <2> HIDE DEF fits
  <2> QED
    BY <2>2, MaxOfSome
<1>7. PICK o \in Orders : o = Max(fits) /\ (o = 0 \/ (start % OrderToPages[o] = 0 /\ start + OrderToPages[o] <= end))
  BY <1>6
<1> HIDE DEF fits
<1>8. PICK w \in Nat \ {0} : w = OrderToPages[o] /\ (o = 0 => w = 1)
  <2>1. o \in Nat
    BY <1>5
  <2> QED
    BY <2>1, OrderToPagesFacts
<1>9. start % w = 0 /\ start + w <= end
  <2>1. CASE o = 0
    BY <1>3, <1>4, <1>8, <2>1
  <2>2. CASE o # 0
    BY <1>7, <1>8, <2>2
  <2> QED
    BY <2>1, <2>2
<1>10. block.base = start /\ block.order = o /\ o \in Nat /\ block \in [base : Nat, order : Orders]
  BY <1>3, <1>5, <1>7 DEF Block
<1> HIDE DEF block
<1> DEFINE B == FramesOf(block)
<1>11. B = start..(start + w - 1)
  BY <1>8, <1>10 DEF FramesOf
<1>12. B \subseteq RegionOf(r) /\ B \subseteq start..(end - 1) /\ start \in B
  <2>1. PICK s, e, f \in Nat : s = start /\ e = end /\ f = Regions[r][1] /\ f <= s /\ s + w <= e
    BY <1>3, <1>4, <1>9
  <2>2. s..(s + w - 1) \subseteq s..(e - 1) /\ s..(s + w - 1) \subseteq f..(e - 1) /\ s \in s..(s + w - 1)
    BY <1>8, <2>1
  <2> QED
    BY <1>11, <2>1, <2>2 DEF RegionOf
<1>13. WholeBlock(block)
  <2>1. \E y \in ZoneNos : B \subseteq Zones[y]
    BY <1>3, <1>12, RegionFacts
  <2> QED
    BY <1>8, <1>9, <1>10, <2>1 DEF WholeBlock, Aligned
<1>14. ZoneOf(block.base) = z /\ z \in ZoneNos /\ B \subseteq Frames
  BY <1>10, <1>13, WholeBlockFacts, FrameSets
<1>15. Pending = start..(end - 1) \cup Later(r)
  BY <1>2 DEF Pending, Later, RegionOf
<1> HIDE DEF z, B
<1>16. B \subseteq Pending /\ B \cap InLists(free) = {}
  BY <1>1, <1>12, <1>15 DEF Accounts
<1>17. Listing(free') /\ InLists(free') = InLists(free) \cup B
  BY <1>1, <1>2, <1>13, <1>16, FreeIntoFacts DEF B
<1>18. PagesCounted' /\ freePages' \in [ZoneNos -> Int]
  BY <1>1, <1>2, <1>13, <1>14, <1>16, <1>17, PagesAdded DEF B
<1>19. RegionOf(r) \cap Later(r) = {} /\ start..(end - 1) \subseteq RegionOf(r)
  BY <1>3, <1>4, RegionFacts DEF RegionOf
<1>20. Booting' /\ Pending' = Pending \ B /\ boot' \in [region : Nat, start : Nat]
  <2>1. CASE start + w < end
    <3>1. boot' = [boot EXCEPT !.start = start + w]
      BY <1>2, <1>8, <1>10, <2>1
    <3>2. boot'.region = r /\ boot'.start = start + w /\ boot' \in [region : Nat, start : Nat]
      BY <1>1, <1>3, <1>8, <3>1 DEF FrameTypes
    <3> HIDE DEF start
    <3>3. ~Booted'
      BY <1>2, <3>2 DEF Booted
    <3>4. Booting'
      BY <1>2, <1>3, <1>4, <1>8, <2>1, <3>2 DEF Booting
    <3>5. Pending' = (start + w)..(end - 1) \cup Later(r)
      BY <3>2, <3>3 DEF Pending, Later, RegionOf
    <3>6. (start + w)..(end - 1) = (start..(end - 1)) \ B
      BY <1>3, <1>4, <1>8, <1>11, <2>1
    <3>7. Later(r) \cap B = {}
      BY <1>12, <1>19
    <3> QED
      BY <1>15, <3>2, <3>4, <3>5, <3>6, <3>7
  <2>2. CASE ~(start + w < end)
    <3>1. B = start..(end - 1)
      <4>1. PICK s, e \in Nat : s = start /\ e = end /\ s + w <= e /\ ~(s + w < e)
        BY <1>3, <1>4, <1>9, <2>2
      <4>2. s + w - 1 = e - 1
        BY <1>8, <4>1
      <4> QED
        BY <1>11, <4>1, <4>2
    <3>2. Pending \ B = Later(r)
      BY <1>15, <1>19, <3>1
    <3>3. boot' = [region |-> r + 1, start |-> IF r = Len(Regions) THEN 0 ELSE Regions[r + 1][1]]
      BY <1>2, <1>8, <1>10, <2>2
    <3>4. CASE r = Len(Regions)
      <4>1. boot'.region = r + 1 /\ boot' \in [region : Nat, start : Nat]
        BY <1>4, <3>3, <3>4
      <4>2. Booted'
        BY <1>4, <3>4, <4>1 DEF Booted
      <4>3. Later(r) = {}
        BY <1>3, <3>4, RegionFacts
      <4> QED
        BY <3>2, <4>1, <4>2, <4>3 DEF Booting, Pending
    <3>5. CASE r # Len(Regions)
      <4>1. r + 1 \in 1..Len(Regions) /\ Later(r) = RegionOf(r + 1) \cup Later(r + 1)
        BY <1>3, <1>4, <3>5, RegionFacts
      <4>2. Regions[r + 1][1] \in Nat /\ Regions[r + 1][2] \in Nat /\ Regions[r + 1][1] < Regions[r + 1][2]
        BY <4>1, RegionFacts
      <4>3. boot'.region = r + 1 /\ boot'.start = Regions[r + 1][1] /\ boot' \in [region : Nat, start : Nat]
        BY <1>4, <3>3, <3>5, <4>2
      <4>4. ~Booted'
        BY <1>4, <4>1, <4>3 DEF Booted
      <4>5. Booting'
        BY <1>2, <1>3, <4>1, <4>2, <4>3 DEF Booting
      <4>6. Pending' = RegionOf(r + 1) \cup Later(r + 1)
        BY <4>3, <4>4 DEF Pending, Later, RegionOf
      <4> QED
        BY <3>2, <4>1, <4>3, <4>5, <4>6
    <3> QED
      BY <3>4, <3>5
  <2> QED
    BY <2>1, <2>2
<1>21. FrameTypes'
  BY <1>1, <1>2, <1>18, <1>20 DEF FrameTypes
<1>22. ASSUME NEW d \in Callers PROVE CallOK(d)'
  BY <1>1, <1>2, <1>3, OthersOK
<1>23. Transit' = Transit
  BY <1>2 DEF Transit, InTransit
<1>24. Accounts(InLists(free), owned, lost, Pending, Transit)'
  <2>1. PICK P : P = Pending
    OBVIOUS
  <2>2. Accounts(InLists(free) \cup B, owned, lost, P \ B, Transit)
    BY <1>1, <1>16, <2>1, AccountsAdd
  <2> QED
    BY <1>2, <1>17, <1>20, <1>23, <2>1, <2>2
<1>25. Unreferred' /\ BitsOfOwners'
  BY <1>1, <1>2 DEF Unreferred, BitsOfOwners
<1> QED
  BY <1>17, <1>18, <1>20, <1>21, <1>22, <1>24, <1>25 DEF FramesInv

LEMMA FramesNextInv == FramesInv /\ [FramesNext]_framesVars => FramesInv'
<1> SUFFICES ASSUME FramesInv, [FramesNext]_framesVars PROVE FramesInv'
  OBVIOUS
<1>1. CASE AddBlock
  BY <1>1, AddBlockStep
<1>2. ASSUME NEW c \in Callers, NEW n \in Counts, NEW z \in ZoneNos, AllocFrames(c, n, z) PROVE FramesInv'
  BY <1>2, AllocFramesStep
<1>3. ASSUME NEW c \in Callers, NEW o \in Orders, NEW base \in Frames,
             base % OrderToPages[o] = 0, FreeFrames(c, Block(base, o))
      PROVE  FramesInv'
  BY <1>3, FreeFramesStep
<1>4. ASSUME NEW c \in Callers, Step(c) PROVE FramesInv'
  BY <1>4, BuddyAllocZoneStep, StoreByteStep, LoadByteStep, StoreBitStep, AllocReturnStep, BuddyFreeZoneStep,
     FreeReturnStep DEF Step
<1>5. CASE UNCHANGED framesVars
  <2>1. UNCHANGED <<free, freePages, bits, refs, lock, boot, cpu, owned, lost, stale>>
    BY <1>5 DEF framesVars
  <2>2. FrameTypes' /\ Listing(free') /\ Booting' /\ PagesCounted' /\ Unreferred' /\ BitsOfOwners'
    BY <2>1 DEF FramesInv, FrameTypes, Booting, Booted, PagesCounted, Unreferred, BitsOfOwners
  <2>3. ASSUME NEW c \in Callers PROVE CallOK(c)'
    <3>1. CallOK(c) /\ cpu'[c] = cpu[c]
      BY <2>1 DEF FramesInv
    <3>2. /\ bits' = bits /\ stale' = stale /\ lock' = lock
          /\ CallOK(c) => (cpu[c].at = "clear" => FramesOf(Mine(c)) \subseteq InLists(free'))
      BY <2>1 DEF CallOK
    <3> QED
      BY <3>1, <3>2, OthersOK
  <2>4. Pending' = Pending /\ Transit' = Transit
    BY <2>1 DEF Pending, Booted, Transit, InTransit
  <2>5. Accounts(InLists(free), owned, lost, Pending, Transit)'
    BY <2>1, <2>4 DEF FramesInv
  <2> QED
    BY <2>2, <2>3, <2>5 DEF FramesInv
<1> QED
  BY <1>1, <1>2, <1>3, <1>4, <1>5 DEF FramesNext

LEMMA FramesSpecInv == FramesSpec => []FramesInv
BY FramesInitInv, FramesNextInv, PTL DEF FramesSpec

(***************************************************************************)
(* Every variable keeps its type through boot, allocation and freeing on   *)
(* any number of processors, whatever the zones and the regions are: no    *)
(* block of buddy.cpp's lists has an order of its own beyond MAX_ORDER or  *)
(* reaches beyond the frames there are.                                    *)
(***************************************************************************)
THEOREM FramesTypeThm == FramesSpec => []FramesTypeOK
<1>1. FramesInv => FramesTypeOK
  <2> SUFFICES ASSUME FramesInv PROVE FramesTypeOK
    OBVIOUS
  <2>1. FrameTypes /\ Listing(free)
    BY DEF FramesInv
  <2>2. ASSUME NEW b \in free PROVE b \in Blocks
    <3>1. WholeBlock(b)
      BY <2>1 DEF Listing
    <3>2. FramesOf(b) \subseteq Frames /\ b.base \in FramesOf(b)
      BY <3>1, WholeBlockFacts, FrameSets
    <3>3. b \in [base : Frames, order : Orders]
      BY <3>1, <3>2 DEF WholeBlock
    <3> QED
      BY <3>2, <3>3 DEF Blocks
  <2>3. \A c \in Callers : cpu[c].at \in {"idle", "search", "mark", "give", "clear"} /\ cpu[c].todo \subseteq Frames
    BY <2>1, CallFields
  <2> QED
    BY <2>1, <2>2, <2>3 DEF FramesTypeOK, FrameTypes
<1> QED
  BY <1>1, FramesSpecInv, PTL

(***************************************************************************)
(* Nothing is handed out twice and nothing disappears, for any zones,      *)
(* regions, orders, counts and processors: each frame given by             *)
(* add_memory_region is in one free list, with one client, in one call, or *)
(* among those whose free was refused, and free_pages counts the lists.    *)
(***************************************************************************)
THEOREM FramesAccountedThm == FramesSpec => []FramesAccounted
<1>1. FramesInv => FramesAccounted
  <2> SUFFICES ASSUME FramesInv PROVE FramesAccounted
    OBVIOUS
  <2>1. /\ Listing(free) /\ PagesCounted
        /\ Accounts(InLists(free), owned, lost, Pending, Transit)
    BY DEF FramesInv
  <2>2. Listed = InLists(free) /\ \A c \in Callers : Transit[c] = InTransit(c)
    BY DEF Listed, InLists, Transit
  <2>3. \A b, d \in free : b # d => FramesOf(b) \cap FramesOf(d) = {}
    BY <2>1 DEF Listing
  <2>4. \A z \in ZoneNos : freePages[z] = Cardinality(Listed \cap Zones[z])
    BY <2>1, <2>2 DEF PagesCounted, PagesIn
  <2> DEFINE shares == <<Listed, owned, lost, Pending>>
  <2>5. 1..4 = {1, 2, 3, 4}
    OBVIOUS
  <2>6. shares[1] = Listed /\ shares[2] = owned /\ shares[3] = lost /\ shares[4] = Pending
    OBVIOUS
  <2> HIDE DEF shares
  <2>7. \A i, j \in 1..4 : i # j => shares[i] \cap shares[j] = {}
    <3>1. /\ shares[1] \cap shares[2] = {} /\ shares[1] \cap shares[3] = {} /\ shares[1] \cap shares[4] = {}
          /\ shares[2] \cap shares[3] = {} /\ shares[2] \cap shares[4] = {} /\ shares[3] \cap shares[4] = {}
      BY <2>1, <2>2, <2>6 DEF Accounts
    <3> QED
      BY <2>5, <3>1
  <2>8. /\ \A c \in Callers : \A i \in 1..4 : InTransit(c) \cap shares[i] = {}
        /\ \A c, d \in Callers : c # d => InTransit(c) \cap InTransit(d) = {}
    BY <2>1, <2>2, <2>5, <2>6 DEF Accounts
  <2>9. Given = UNION ({shares[i] : i \in 1..4} \cup {InTransit(c) : c \in Callers})
    <3>1. UNION {shares[i] : i \in 1..4} = Listed \cup owned \cup lost \cup Pending
      BY <2>5, <2>6
    <3>2. UNION {InTransit(c) : c \in Callers} = UNION {Transit[c] : c \in Callers}
      BY <2>2
    <3>3. Given = (Listed \cup owned \cup lost \cup Pending) \cup UNION {Transit[c] : c \in Callers}
      BY <2>1, <2>2 DEF Accounts
    <3> QED
      BY <3>1, <3>2, <3>3
  <2> QED
    BY <2>3, <2>4, <2>7, <2>8, <2>9 DEF FramesAccounted, shares
<1> QED
  BY <1>1, FramesSpecInv, PTL

(***************************************************************************)
(* buddy_free_zone's loop leaves nothing that could still be merged, and   *)
(* neither buddy_alloc_zone's splitting nor add_memory_region brings two   *)
(* buddies together: for every zone, order and order of calls.             *)
(***************************************************************************)
THEOREM FullyMergedThm == FramesSpec => []FullyMerged
<1>1. FramesInv => FullyMerged
  BY DEF FramesInv, Listing, Merges, FullyMerged
<1> QED
  BY <1>1, FramesSpecInv, PTL

(***************************************************************************)
(* A frame of a client has one reference, and its bit unless another       *)
(* processor's store of the same byte wiped it out: with any number of     *)
(* processors in alloc_frames and free_frames, and bytes of any size.      *)
(***************************************************************************)
THEOREM BitsOfOwnersThm == FramesSpec => []BitsOfOwners
<1>1. FramesInv => BitsOfOwners
  BY DEF FramesInv
<1> QED
  BY <1>1, FramesSpecInv, PTL
=============================================================================
