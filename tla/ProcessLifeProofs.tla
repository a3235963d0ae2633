-------------------------- MODULE ProcessLifeProofs --------------------------
(***************************************************************************)
(* The life of the processes for any number of them, with any threads, in  *)
(* any memory that malloc hands out again.                                 *)
(***************************************************************************)
EXTENDS ProcessLife, FiniteSetTheorems, SequenceTheorems, WellFoundedInduction, TLAPS

----------------------------------------------------------------------------
(* Lists and queues: what is in them after an insertion or a removal.       *)

Elements(q) == {q[i] : i \in 1..Len(q)}
Distinct(q) == \A i, j \in 1..Len(q) : q[i] = q[j] => i = j

(* Some numbers have a least one.                                          *)
LEMMA Least ==
    ASSUME NEW n \in Nat, NEW I \in SUBSET (1..n), I # {}
    PROVE  Min(I) \in I /\ \A j \in I : Min(I) <= j
<1>. DEFINE R == OpToRel(<, Nat)
<1>1. IsWellFoundedOn(R, Nat)
  BY NatLessThanWellFounded
<1>2. I \subseteq Nat
  OBVIOUS
<1>3. \A i, j \in Nat : i < j => <<i, j>> \in R
  BY DEF OpToRel
<1>. HIDE DEF R
<1>4. PICK i \in I : \A j \in I : ~(<<j, i>> \in R)
  BY <1>1, <1>2, WFMin
<1>5. ASSUME NEW j \in I
      PROVE  i <= j
  <2>1. j < i => <<j, i>> \in R
    BY <1>2, <1>3
  <2>2. i \in Nat /\ j \in Nat
    BY <1>2
  <2>. QED  BY <1>4, <2>1, <2>2
<1>. QED  BY <1>5 DEF Min

LEMMA ElementsOf ==
    ASSUME NEW S, NEW q \in Seq(S)
    PROVE  Elements(q) \subseteq S
  BY ElementOfSeq DEF Elements

LEMMA Empty == Elements(<<>>) = {} /\ Distinct(<<>>)
  BY DEF Elements, Distinct

LEMMA Appended ==
    ASSUME NEW S, NEW q \in Seq(S), NEW e \in S
    PROVE  /\ Append(q, e) \in Seq(S) /\ Elements(Append(q, e)) = Elements(q) \cup {e}
           /\ Distinct(q) /\ e \notin Elements(q) => Distinct(Append(q, e))
<1>1. /\ Append(q, e) \in Seq(S) /\ Len(q) \in Nat /\ Len(Append(q, e)) = Len(q) + 1
      /\ \A i \in 1..Len(q) : Append(q, e)[i] = q[i]
      /\ Append(q, e)[Len(q) + 1] = e
  BY AppendProperties, LenProperties
<1>2. 1..Len(q) + 1 = 1..Len(q) \cup {Len(q) + 1} /\ Len(q) + 1 \notin 1..Len(q)
  BY <1>1
<1>3. Elements(Append(q, e)) = Elements(q) \cup {e}
  BY <1>1, <1>2 DEF Elements
<1>4. ASSUME Distinct(q), e \notin Elements(q) PROVE Distinct(Append(q, e))
  BY <1>1, <1>2, <1>4 DEF Elements, Distinct
<1>. QED  BY <1>1, <1>3, <1>4

(* q without its place i, the two parts in either order.                   *)
LEMMA Parts ==
    ASSUME NEW S, NEW q \in Seq(S), NEW i \in 1..Len(q)
    PROVE  /\ SubSeq(q, 1, i - 1) \in Seq(S) /\ Len(SubSeq(q, 1, i - 1)) = i - 1
           /\ \A j \in 1..i - 1 : SubSeq(q, 1, i - 1)[j] = q[j]
           /\ SubSeq(q, i + 1, Len(q)) \in Seq(S) /\ Len(SubSeq(q, i + 1, Len(q))) = Len(q) - i
           /\ \A j \in 1..Len(q) - i : SubSeq(q, i + 1, Len(q))[j] = q[i + j]
<1>1. Len(q) \in Nat /\ \A j \in 1..Len(q) : q[j] \in S
  BY LenProperties, ElementOfSeq
<1>2. /\ SubSeq(q, 1, i - 1) \in Seq(S)
      /\ Len(SubSeq(q, 1, i - 1)) = IF 1 <= i - 1 THEN (i - 1) - 1 + 1 ELSE 0
      /\ \A j \in 1..(i - 1) - 1 + 1 : SubSeq(q, 1, i - 1)[j] = q[1 + j - 1]
  BY <1>1, SubSeqProperties
<1>3. /\ SubSeq(q, i + 1, Len(q)) \in Seq(S)
      /\ Len(SubSeq(q, i + 1, Len(q))) = IF i + 1 <= Len(q) THEN Len(q) - (i + 1) + 1 ELSE 0
      /\ \A j \in 1..Len(q) - (i + 1) + 1 : SubSeq(q, i + 1, Len(q))[j] = q[(i + 1) + j - 1]
  BY <1>1, SubSeqProperties
<1>. QED  BY <1>1, <1>2, <1>3

LEMMA TakenElements ==
    ASSUME NEW S, NEW q \in Seq(S), NEW i \in 1..Len(q)
    PROVE  Taken(q, i) \in Seq(S) /\ Elements(Taken(q, i)) \subseteq Elements(q)
<1>. DEFINE a == SubSeq(q, 1, i - 1)
            b == SubSeq(q, i + 1, Len(q))
<1>1. Len(q) \in Nat
  BY LenProperties
<1>2. /\ a \in Seq(S) /\ Len(a) = i - 1 /\ \A j \in 1..i - 1 : a[j] = q[j]
      /\ b \in Seq(S) /\ Len(b) = Len(q) - i /\ \A j \in 1..Len(q) - i : b[j] = q[i + j]
  BY Parts
<1>. HIDE DEF a, b
<1>3. /\ b \o a \in Seq(S) /\ Len(b \o a) = Len(b) + Len(a)
      /\ \A j \in 1..Len(b) + Len(a) : (b \o a)[j] = IF j <= Len(b) THEN b[j] ELSE a[j - Len(b)]
  BY <1>2, ConcatProperties
<1>4. ASSUME NEW j \in 1..Len(b \o a)
      PROVE  \E l \in 1..Len(q) : (b \o a)[j] = q[l]
  <2>1. CASE j <= Len(b)
    <3>1. (b \o a)[j] = q[i + j] /\ i + j \in 1..Len(q)
      BY <1>1, <1>2, <1>3, <2>1
    <3>. QED  BY <3>1
  <2>2. CASE ~(j <= Len(b))
    <3>1. (b \o a)[j] = q[j - Len(b)] /\ j - Len(b) \in 1..Len(q)
      BY <1>1, <1>2, <1>3, <2>2
    <3>. QED  BY <3>1
  <2>. QED  BY <2>1, <2>2
<1>5. Taken(q, i) = b \o a
  BY DEF Taken, a, b
<1>6. Elements(b \o a) \subseteq Elements(q)
  BY <1>4 DEF Elements
<1>. QED  BY <1>3, <1>5, <1>6

LEMMA RemovedElements ==
    ASSUME NEW S, NEW q \in Seq(S), Distinct(q), NEW e \in Elements(q)
    PROVE  /\ RemoveFirst(q, e) \in Seq(S) /\ Distinct(RemoveFirst(q, e))
           /\ Elements(RemoveFirst(q, e)) = Elements(q) \ {e}
<1>. DEFINE I == {j \in 1..Len(q) : q[j] = e}
            i == Min(I)
            a == SubSeq(q, 1, i - 1)
            b == SubSeq(q, i + 1, Len(q))
<1>1. Len(q) \in Nat
  BY LenProperties
<1>2. I # {} /\ i \in I
  <2>1. I # {}
    BY DEF Elements
  <2>. QED  BY <1>1, <2>1, Least
<1>3. RemoveFirst(q, e) = a \o b
  BY <1>2 DEF RemoveFirst, RemoveAt, SelectInSeq
<1>4. i \in 1..Len(q) /\ q[i] = e
  BY <1>2
<1>. HIDE DEF i
<1>5. /\ a \in Seq(S) /\ Len(a) = i - 1 /\ \A j \in 1..i - 1 : a[j] = q[j]
      /\ b \in Seq(S) /\ Len(b) = Len(q) - i /\ \A j \in 1..Len(q) - i : b[j] = q[i + j]
  BY <1>4, Parts
<1>. DEFINE r == a \o b
            place(j) == IF j < i THEN j ELSE j + 1
<1>. HIDE DEF a, b
<1>6. /\ r \in Seq(S) /\ Len(r) = Len(q) - 1
      /\ \A j \in 1..Len(q) - 1 : r[j] = IF j <= i - 1 THEN a[j] ELSE b[j - (i - 1)]
  <2>1. /\ r \in Seq(S) /\ Len(r) = Len(a) + Len(b)
        /\ \A j \in 1..Len(a) + Len(b) : r[j] = IF j <= Len(a) THEN a[j] ELSE b[j - Len(a)]
    BY <1>5, ConcatProperties
  <2>2. Len(a) = i - 1 /\ Len(a) + Len(b) = Len(q) - 1
    BY <1>1, <1>4, <1>5
  <2>. QED  BY <2>1, <2>2
<1>. HIDE DEF r
<1>7. ASSUME NEW j \in 1..Len(q) - 1
      PROVE  place(j) \in 1..Len(q) /\ r[j] = q[place(j)] /\ place(j) # i
  <2>1. CASE j < i
    BY <1>1, <1>4, <1>5, <1>6, <2>1
  <2>2. CASE ~(j < i)
    <3>1. j - (i - 1) \in 1..Len(q) - i /\ ~(j <= i - 1)
      BY <1>1, <1>4, <2>2
    <3>2. r[j] = b[j - (i - 1)]
      BY <1>6, <3>1
    <3>3. b[j - (i - 1)] = q[i + (j - (i - 1))] /\ i + (j - (i - 1)) = j + 1
      BY <1>4, <1>5, <3>1
    <3>. QED  BY <1>1, <1>4, <2>2, <3>2, <3>3
  <2>. QED  BY <2>1, <2>2
<1>8. Distinct(r)
  <2>. SUFFICES ASSUME NEW j \in 1..Len(r), NEW k \in 1..Len(r), r[j] = r[k]
                PROVE  j = k
    BY DEF Distinct
  <2>1. q[place(j)] = q[place(k)] /\ place(j) \in 1..Len(q) /\ place(k) \in 1..Len(q)
    BY <1>6, <1>7
  <2>2. place(j) = place(k)
    BY <2>1 DEF Distinct
  <2>. QED  BY <1>1, <1>4, <1>6, <2>2
<1>9. Elements(r) \subseteq Elements(q) \ {e}
  <2>. SUFFICES ASSUME NEW j \in 1..Len(r)
                PROVE  r[j] \in Elements(q) \ {e}
    BY DEF Elements
  <2>1. place(j) \in 1..Len(q) /\ r[j] = q[place(j)] /\ place(j) # i
    BY <1>6, <1>7
  <2>. HIDE DEF place
  <2>. QED  BY <1>4, <2>1 DEF Elements, Distinct
<1>10. Elements(q) \ {e} \subseteq Elements(r)
  <2>. SUFFICES ASSUME NEW l \in 1..Len(q), q[l] # e
                PROVE  q[l] \in Elements(r)
    BY DEF Elements
  <2>. DEFINE j == IF l < i THEN l ELSE l - 1
  <2>1. j \in 1..Len(q) - 1 /\ place(j) = l
    BY <1>1, <1>4
  <2>2. r[j] = q[l] /\ j \in 1..Len(r)
    BY <1>6, <1>7, <2>1
  <2>. HIDE DEF j
  <2>. QED  BY <2>2 DEF Elements
<1>. QED  BY <1>3, <1>6, <1>8, <1>9, <1>10 DEF r

----------------------------------------------------------------------------
(* What the calls do to the PCBs and the threads.                           *)

KeepsFamily(a, b) ==
    b.pid = a.pid /\ b.ppid = a.ppid /\ b.parent = a.parent /\ b.child_pcb = a.child_pcb
KeepsState(a, b) ==
    /\ b.status = a.status /\ b.exit_code = a.exit_code
    /\ b.file_open = a.file_open /\ b.pagedir = a.pagedir
Keeps(a, b) == KeepsFamily(a, b) /\ KeepsState(a, b)

(* Messages only come from the queues of M or are m.                       *)
Delivers(from, to, M) ==
    \A x \in Slots : Elements(to[x].ipc_queue) \subseteq Elements(from[x].ipc_queue) \cup M

LEMMA SentWorks ==
    ASSUME NEW b \in [Slots -> ProcessControlBlock], NEW to, NEW m \in Message
    PROVE  /\ Sent(b, to, m) \in [Slots -> ProcessControlBlock]
           /\ \A x \in Slots : Keeps(b[x], Sent(b, to, m)[x])
           /\ Delivers(b, Sent(b, to, m), {m})
<1>1. CASE to \in Slots /\ b[to].status # "FREE"
  <2>1. Sent(b, to, m) = [b EXCEPT ![to].ipc_queue = Append(@, m)]
    BY <1>1 DEF Sent
  <2>2. /\ b[to].ipc_queue \in Seq(Message) /\ Append(b[to].ipc_queue, m) \in Seq(Message)
        /\ Elements(Append(b[to].ipc_queue, m)) = Elements(b[to].ipc_queue) \cup {m}
    <3>1. b[to].ipc_queue \in Seq(Message)
      BY <1>1 DEF ProcessControlBlock
    <3>. QED  BY <3>1, Appended
  <2>3. Sent(b, to, m) \in [Slots -> ProcessControlBlock]
    <3>1. \A u \in Seq(Message) : [b[to] EXCEPT !.ipc_queue = u] \in ProcessControlBlock
      BY <1>1 DEF ProcessControlBlock
    <3>2. Sent(b, to, m) = [b EXCEPT ![to] = [b[to] EXCEPT !.ipc_queue = Append(b[to].ipc_queue, m)]]
      BY <1>1, <2>1
    <3>. QED  BY <1>1, <2>2, <3>1, <3>2
  <2>4. \A x \in Slots : Keeps(b[x], Sent(b, to, m)[x])
    BY SMTT(30), <1>1, <2>1 DEF Keeps, KeepsFamily, KeepsState, ProcessControlBlock
  <2>5. \A x \in Slots : Sent(b, to, m)[x].ipc_queue =
            IF x = to THEN Append(b[to].ipc_queue, m) ELSE b[x].ipc_queue
    BY <1>1, <2>1 DEF ProcessControlBlock
  <2>. QED  BY <2>2, <2>3, <2>4, <2>5 DEF Delivers
<1>2. CASE ~(to \in Slots /\ b[to].status # "FREE")
  <2>1. Sent(b, to, m) = b
    BY <1>2 DEF Sent
  <2>. QED  BY <2>1 DEF Keeps, KeepsFamily, KeepsState, Delivers
<1>. QED  BY <1>1, <1>2

LEMMA ExitMessageFound ==
    ASSUME NEW q \in Seq(Message), NEW x, ExitMessage(q, x) # 0
    PROVE  /\ ExitMessage(q, x) \in 1..Len(q)
           /\ LET m == q[ExitMessage(q, x)] IN
              m \in Elements(q) /\ m.type = "EPID" /\ (x = AnyChild \/ m.pid = x)
<1>. DEFINE I == {i \in 1..Len(q) : q[i].type = "EPID" /\ (x = AnyChild \/ q[i].pid = x)}
<1>1. ExitMessage(q, x) = (IF I # {} THEN Min(I) ELSE 0)
  BY DEF ExitMessage, SelectInSeq
<1>2. I # {} /\ ExitMessage(q, x) = Min(I)
  BY <1>1
<1>3. Min(I) \in I
  <2>1. Len(q) \in Nat /\ I \in SUBSET (1..Len(q))
    BY LenProperties
  <2>. HIDE DEF I
  <2>. QED  BY <1>2, <2>1, Least
<1>. QED  BY <1>2, <1>3 DEF Elements

LEMMA DiscardedElements ==
    ASSUME NEW q \in Seq(Message), NEW x
    PROVE  Discarded(q, x) \in Seq(Message) /\ Elements(Discarded(q, x)) \subseteq Elements(q)
<1>1. CASE ExitMessage(q, x) = 0
  BY <1>1 DEF Discarded
<1>2. CASE ExitMessage(q, x) # 0
  <2>1. ExitMessage(q, x) \in 1..Len(q)
    BY <1>2, ExitMessageFound
  <2>2. Discarded(q, x) = Taken(q, ExitMessage(q, x))
    BY <1>2 DEF Discarded
  <2>. QED  BY <2>1, <2>2, TakenElements
<1>. QED  BY <1>1, <1>2

(* exec                                                                    *)
LEMMA ExecEffect ==
    ASSUME TypeOK, NEW s \in Slots, NEW k \in Tids, Exec(s, k), pcb[s].pid \in Pids
    PROVE  /\ pcb' \in [Slots -> ProcessControlBlock]
           /\ \A x \in Slots : /\ KeepsFamily(pcb[x], pcb'[x])
                               /\ x # s => KeepsState(pcb[x], pcb'[x])
           /\ pcb'[s].status = pcb[s].status /\ pcb'[s].exit_code = pcb[s].exit_code
           /\ pcb'[s].file_open = pcb[s].file_open /\ pcb'[s].pagedir = pcb[s].pid
           /\ Delivers(pcb, pcb', {ExecMessage(pcb[s].pid)})
<1>. DEFINE b == [pcb EXCEPT ![s].vfork = FALSE, ![s].pagedir = pcb[s].pid, ![s].ipc_queue = <<>>]
            m == ExecMessage(pcb[s].pid)
<1>1. b \in [Slots -> ProcessControlBlock]
  <2>1. <<>> \in Seq(Message) /\ pcb[s].pid \in 0..MaxPid
    BY EmptySeq DEF TypeOK, ProcessControlBlock
  <2>2. [pcb[s] EXCEPT !.vfork = FALSE, !.pagedir = pcb[s].pid, !.ipc_queue = <<>>]
            \in ProcessControlBlock
    BY ZenonT(40), <2>1 DEF TypeOK, ProcessControlBlock
  <2>3. b = [pcb EXCEPT ![s] =
                 [pcb[s] EXCEPT !.vfork = FALSE, !.pagedir = pcb[s].pid, !.ipc_queue = <<>>]]
    BY DEF TypeOK
  <2>. QED  BY <2>2, <2>3 DEF TypeOK
<1>2. /\ \A x \in Slots : KeepsFamily(pcb[x], b[x]) /\ (x # s => b[x] = pcb[x])
      /\ b[s].status = pcb[s].status /\ b[s].exit_code = pcb[s].exit_code
      /\ b[s].file_open = pcb[s].file_open /\ b[s].pagedir = pcb[s].pid /\ b[s].ipc_queue = <<>>
  BY DEF TypeOK, ProcessControlBlock, KeepsFamily
<1>3. m \in Message
  BY DEF Message, ExecMessage, AnyCode
<1>4. pcb' = b \/ pcb' = Sent(b, pcb[s].parent, m)
  BY DEF Exec, ParentToldOfExec
<1>. HIDE DEF b, m
<1>5. Delivers(pcb, b, {m})
  BY <1>2, Empty DEF Delivers
<1>6. CASE pcb' = b
  BY <1>1, <1>2, <1>5, <1>6 DEF KeepsState, m
<1>7. CASE pcb' = Sent(b, pcb[s].parent, m)
  <2>1. /\ pcb' \in [Slots -> ProcessControlBlock]
        /\ \A x \in Slots : Keeps(b[x], pcb'[x])
        /\ Delivers(b, pcb', {m})
    BY <1>1, <1>3, <1>7, SentWorks
  <2>2. Delivers(pcb, pcb', {m})
    BY <1>5, <2>1 DEF Delivers
  <2>. QED  BY <1>2, <2>1, <2>2 DEF Keeps, KeepsFamily, KeepsState, m
<1>. QED  BY <1>4, <1>6, <1>7

(* fork, vfork and clone of a process                                      *)
TableOf(s, kind) == IF kind = "files" THEN pcb[s].file_open ELSE nextPid

LEMMA ForkEffect ==
    ASSUME TypeOK, NEW s \in Slots, NEW k \in Tids, NEW kind, NEW n \in Slots,
           Fork(s, k, kind, n), Exists(s)
    PROVE  /\ n # s /\ ~Exists(n) /\ nextPid \in Pids
           /\ pcb[s].file_open # NoTable
           /\ pcb' \in [Slots -> ProcessControlBlock]
           /\ \A x \in Slots \ {n, s} : pcb'[x] = pcb[x]
           /\ KeepsState(pcb[s], pcb'[s])
           /\ pcb'[s].pid = pcb[s].pid /\ pcb'[s].ppid = pcb[s].ppid
           /\ pcb'[s].parent = pcb[s].parent /\ pcb'[s].ipc_queue = pcb[s].ipc_queue
           /\ pcb'[s].child_pcb = Append(pcb[s].child_pcb, n)
           /\ pcb'[n].pid = nextPid /\ pcb'[n].status = "START"
           /\ pcb'[n].parent = s /\ pcb'[n].ppid = pcb[s].pid
           /\ pcb'[n].child_pcb = <<>> /\ pcb'[n].ipc_queue = <<>>
           /\ pcb'[n].file_open = TableOf(s, kind)
           /\ pcb'[n].pagedir = (IF kind = "vfork" THEN pcb[s].pagedir ELSE nextPid)
<1>. DEFINE r == [Free EXCEPT
                   !.pid = nextPid, !.status = "START", !.parent = s, !.ppid = pcb[s].pid,
                   !.file_open = TableOf(s, kind), !.vfork = (kind = "vfork"),
                   !.pagedir = IF kind = "vfork" THEN pcb[s].pagedir ELSE nextPid]
            p == [pcb[s] EXCEPT !.child_pcb = Append(@, n)]
<1>1. n # s /\ ~Exists(n)
  <2>1. n \in Malloc({x \in Slots : ~Exists(x)})
    BY DEF Fork
  <2>2. {x \in Slots : ~Exists(x)} \in SUBSET Slots
    OBVIOUS
  <2>3. n \in {x \in Slots : ~Exists(x)}
    BY <2>1, <2>2, ProcessAssumption
  <2>. QED  BY <2>3
<1>2. nextPid \in Pids /\ pcb[s].file_open # NoTable
  BY DEF Fork, TypeOK, Pids
<1>3. pcb' = [pcb EXCEPT ![s] = p, ![n] = r]
  BY DEF Fork, TableOf, TypeOK
<1>4. p \in ProcessControlBlock
  <2>1. pcb[s].child_pcb \in Seq(Slots) /\ Append(pcb[s].child_pcb, n) \in Seq(Slots)
    <3>1. pcb[s].child_pcb \in Seq(Slots)
      BY DEF TypeOK, ProcessControlBlock
    <3>. QED  BY <3>1, Appended
  <2>2. \A q \in Seq(Slots) : [pcb[s] EXCEPT !.child_pcb = q] \in ProcessControlBlock
    BY ZenonT(40) DEF TypeOK, ProcessControlBlock
  <2>. QED  BY <2>1, <2>2
<1>5. r \in ProcessControlBlock
  <2>1. <<>> \in Seq(Slots) /\ <<>> \in Seq(Message)
    BY EmptySeq
  <2>2. Free \in ProcessControlBlock
    BY <2>1, ProcessAssumption DEF Free, ProcessControlBlock, AnyCode, NoTable
  <2>3. nextPid \in 0..MaxPid /\ pcb[s].pid \in 0..MaxPid /\ TableOf(s, kind) \in 0..MaxPid
        /\ pcb[s].pagedir \in 0..MaxPid
    BY <1>2 DEF TypeOK, ProcessControlBlock, TableOf, Pids
  <2>. QED  BY <2>2, <2>3 DEF ProcessControlBlock
<1>6. pcb' \in [Slots -> ProcessControlBlock]
  BY <1>3, <1>4, <1>5 DEF TypeOK
<1>7. pcb'[n] = r /\ pcb'[s] = p /\ \A x \in Slots \ {n, s} : pcb'[x] = pcb[x]
  BY <1>1, <1>3 DEF TypeOK
<1>8. /\ pcb'[n].pid = nextPid /\ pcb'[n].status = "START"
      /\ pcb'[n].parent = s /\ pcb'[n].ppid = pcb[s].pid
      /\ pcb'[n].child_pcb = <<>> /\ pcb'[n].ipc_queue = <<>>
      /\ pcb'[n].file_open = TableOf(s, kind)
      /\ pcb'[n].pagedir = (IF kind = "vfork" THEN pcb[s].pagedir ELSE nextPid)
  BY <1>7 DEF Free
<1>9. /\ KeepsState(pcb[s], pcb'[s])
      /\ pcb'[s].pid = pcb[s].pid /\ pcb'[s].ppid = pcb[s].ppid
      /\ pcb'[s].parent = pcb[s].parent /\ pcb'[s].ipc_queue = pcb[s].ipc_queue
      /\ pcb'[s].child_pcb = Append(pcb[s].child_pcb, n)
  BY <1>7 DEF TypeOK, ProcessControlBlock, KeepsState
<1>. QED  BY <1>1, <1>2, <1>6, <1>7, <1>8, <1>9

(* the parent's loop in vfork                                              *)
LEMMA VforkLookEffect ==
    ASSUME TypeOK, NEW s \in Slots, NEW k \in Tids, VforkLook(s, k)
    PROVE  /\ pcb' \in [Slots -> ProcessControlBlock]
           /\ \A x \in Slots : Keeps(pcb[x], pcb'[x])
           /\ Delivers(pcb, pcb', Elements(pcb[s].ipc_queue))
           /\ At(s, k, "vfork")
           /\ \/ UNCHANGED thread
              \/ /\ thread' = [thread EXCEPT ![s][k] = AtUser]
                 /\ \E m \in Elements(pcb[s].ipc_queue) : m.pid = thread[s][k].arg
<1>. DEFINE q == pcb[s].ipc_queue
            E == {i \in 1..Len(q) : q[i].type = "EXEC"}
            exec == SelectInSeq(q, LAMBDA m : m.type = "EXEC")
            i == IF exec # 0 THEN exec ELSE ExitMessage(q, AnyChild)
            b == [pcb EXCEPT ![s].ipc_queue = Taken(q, i)]
<1>1. q \in Seq(Message) /\ Len(q) \in Nat
  BY LenProperties DEF TypeOK, ProcessControlBlock
<1>2. i # 0 /\ At(s, k, "vfork")
  BY DEF VforkLook
<1>3. i \in 1..Len(q)
  <2>1. CASE exec # 0
    <3>1. E # {} /\ exec = Min(E)
      BY <2>1 DEF SelectInSeq
    <3>2. Min(E) \in E
      <4>1. E \in SUBSET (1..Len(q))
        OBVIOUS
      <4>. HIDE DEF E
      <4>. QED  BY <1>1, <3>1, <4>1, Least
    <3>. QED  BY <2>1, <3>1, <3>2
  <2>2. CASE exec = 0
    BY <1>1, <1>2, <2>2, ExitMessageFound
  <2>. QED  BY <2>1, <2>2
<1>4. IF q[i].pid = thread[s][k].arg
      THEN pcb' = b /\ thread' = [thread EXCEPT ![s][k] = AtUser]
      ELSE pcb' = Sent(b, pcb[s].parent, q[i]) /\ UNCHANGED thread
  BY DEF VforkLook, Go
<1>. HIDE DEF i
<1>5. /\ Taken(q, i) \in Seq(Message) /\ Elements(Taken(q, i)) \subseteq Elements(q)
      /\ q[i] \in Elements(q) /\ q[i] \in Message
  BY ZenonT(40), <1>1, <1>3, TakenElements, ElementOfSeq DEF Elements
<1>6. b \in [Slots -> ProcessControlBlock]
  <2>1. \A m \in Seq(Message) :
            [pcb EXCEPT ![s].ipc_queue = m] \in [Slots -> ProcessControlBlock]
    BY ZenonT(40) DEF TypeOK, ProcessControlBlock
  <2>. QED  BY <1>5, <2>1, Zenon
<1>7. \A x \in Slots : Keeps(pcb[x], b[x])
  BY DEF TypeOK, ProcessControlBlock, Keeps, KeepsFamily, KeepsState
<1>8. Delivers(pcb, b, Elements(q))
  <2>1. \A x \in Slots : b[x].ipc_queue = IF x = s THEN Taken(q, i) ELSE pcb[x].ipc_queue
    BY DEF TypeOK, ProcessControlBlock
  <2>. QED  BY <1>5, <2>1 DEF Delivers
<1>. HIDE DEF b
<1>9. CASE q[i].pid = thread[s][k].arg
  BY <1>2, <1>4, <1>5, <1>6, <1>7, <1>8, <1>9
<1>10. CASE q[i].pid # thread[s][k].arg
  <2>1. /\ pcb' \in [Slots -> ProcessControlBlock]
        /\ \A x \in Slots : Keeps(b[x], pcb'[x])
        /\ Delivers(b, pcb', {q[i]})
    BY <1>4, <1>5, <1>6, <1>10, SentWorks
  <2>2. \A x \in Slots : Keeps(pcb[x], pcb'[x])
    BY <1>7, <2>1 DEF Keeps, KeepsFamily, KeepsState
  <2>3. Delivers(pcb, pcb', Elements(q))
    BY <1>5, <1>8, <2>1 DEF Delivers
  <2>. QED  BY <1>2, <1>4, <1>10, <2>1, <2>2, <2>3
<1>. QED  BY <1>9, <1>10

(* the end of a process                                                    *)
Killed(s) == [j \in Tids |-> IF Live(s, j) THEN Dead ELSE thread[s][j]]

LEMMA ZombieEffect ==
    ASSUME TypeOK, NEW s \in Slots, NEW k \in Tids, NEW b \in [Slots -> ProcessControlBlock], NEW c,
           BecomeZombie(s, k, b, c), c \in AnyCode, b[s].pid \in Pids
    PROVE  /\ pcb' \in [Slots -> ProcessControlBlock]
           /\ \A x \in Slots : /\ KeepsFamily(b[x], pcb'[x])
                               /\ x # s => KeepsState(b[x], pcb'[x])
           /\ pcb'[s].status = "ZOMBIE" /\ pcb'[s].exit_code = b[s].exit_code
           /\ pcb'[s].file_open = b[s].file_open /\ pcb'[s].pagedir = b[s].pagedir
           /\ \E m \in Message : m.type = "EPID" /\ m.pid = b[s].pid /\ Delivers(b, pcb', {m})
           /\ thread' = [thread EXCEPT ![s] = Killed(s)]
           /\ torn' = torn \cup {thread[s][j].table : j \in {i \in Tids \ {k} : At(s, i, "closing")}}
           /\ deserted' = deserted \cup {thread[s][j].arg : j \in {i \in Tids : At(s, i, "vfork")}}
<1>. DEFINE z == [b EXCEPT ![s].status = "ZOMBIE"]
            m == [type |-> "EPID", pid |-> b[s].pid, code |-> c]
<1>1. m \in Message /\ m.type = "EPID" /\ m.pid = b[s].pid
  BY DEF Message
<1>2. z \in [Slots -> ProcessControlBlock]
  BY DEF ProcessControlBlock
<1>3. /\ \A x \in Slots : KeepsFamily(b[x], z[x]) /\ (x # s => z[x] = b[x])
      /\ z[s].status = "ZOMBIE" /\ z[s].exit_code = b[s].exit_code
      /\ z[s].file_open = b[s].file_open /\ z[s].pagedir = b[s].pagedir
      /\ \A x \in Slots : z[x].ipc_queue = b[x].ipc_queue
  BY DEF ProcessControlBlock, KeepsFamily
<1>4. pcb' = Sent(z, b[s].parent, m)
  BY DEF BecomeZombie
<1>. HIDE DEF z, m
<1>5. /\ pcb' \in [Slots -> ProcessControlBlock]
      /\ \A x \in Slots : Keeps(z[x], pcb'[x])
      /\ Delivers(z, pcb', {m})
  BY <1>1, <1>2, <1>4, SentWorks
<1>6. Delivers(b, pcb', {m})
  BY <1>3, <1>5 DEF Delivers
<1>7. /\ \A x \in Slots : /\ KeepsFamily(b[x], pcb'[x])
                          /\ x # s => KeepsState(b[x], pcb'[x])
      /\ pcb'[s].status = "ZOMBIE" /\ pcb'[s].exit_code = b[s].exit_code
      /\ pcb'[s].file_open = b[s].file_open /\ pcb'[s].pagedir = b[s].pagedir
  BY <1>3, <1>5 DEF Keeps, KeepsFamily, KeepsState
<1>8. /\ thread' = [thread EXCEPT ![s] = Killed(s)]
      /\ torn' = torn \cup {thread[s][j].table : j \in {i \in Tids \ {k} : At(s, i, "closing")}}
      /\ deserted' = deserted \cup {thread[s][j].arg : j \in {i \in Tids : At(s, i, "vfork")}}
  BY DEF BecomeZombie, ThreadsAfterKill, Killed
<1>. QED  BY <1>1, <1>5, <1>6, <1>7, <1>8

LEMMA DetachedWorks ==
    ASSUME TypeOK, NEW s \in Slots, NEW c \in AnyCode
    PROVE  /\ Detached(s, c) \in [Slots -> ProcessControlBlock]
           /\ \A x \in Slots : /\ KeepsFamily(pcb[x], Detached(s, c)[x])
                               /\ Detached(s, c)[x].ipc_queue = pcb[x].ipc_queue
                               /\ x # s => KeepsState(pcb[x], Detached(s, c)[x])
           /\ Detached(s, c)[s].status = pcb[s].status /\ Detached(s, c)[s].exit_code = c
           /\ Detached(s, c)[s].file_open = NoTable /\ Detached(s, c)[s].pagedir = pcb[s].pagedir
<1>1. Detached(s, c) = [pcb EXCEPT ![s] = [pcb[s] EXCEPT !.exit_code = c, !.file_open = NoTable]]
  BY DEF Detached, TypeOK
<1>2. [pcb[s] EXCEPT !.exit_code = c, !.file_open = NoTable] \in ProcessControlBlock
  <2>1. pcb[s] \in ProcessControlBlock /\ NoTable \in 0..MaxPid
    BY ProcessAssumption DEF TypeOK, NoTable
  <2>. QED  BY <2>1 DEF ProcessControlBlock
<1>3. Detached(s, c) \in [Slots -> ProcessControlBlock]
  BY <1>1, <1>2 DEF TypeOK
<1>4. Detached(s, c)[s] = [pcb[s] EXCEPT !.exit_code = c, !.file_open = NoTable]
  BY <1>1 DEF TypeOK
<1>5. \A x \in Slots : x # s => Detached(s, c)[x] = pcb[x]
  BY <1>1 DEF TypeOK
<1>6. /\ KeepsFamily(pcb[s], Detached(s, c)[s])
      /\ Detached(s, c)[s].ipc_queue = pcb[s].ipc_queue
      /\ Detached(s, c)[s].status = pcb[s].status /\ Detached(s, c)[s].exit_code = c
      /\ Detached(s, c)[s].file_open = NoTable /\ Detached(s, c)[s].pagedir = pcb[s].pagedir
  BY <1>4 DEF TypeOK, ProcessControlBlock, KeepsFamily
<1>7. \A x \in Slots : x # s => /\ KeepsFamily(pcb[x], Detached(s, c)[x])
                               /\ KeepsState(pcb[x], Detached(s, c)[x])
                               /\ Detached(s, c)[x].ipc_queue = pcb[x].ipc_queue
  BY <1>5 DEF KeepsFamily, KeepsState
<1>. QED  BY <1>3, <1>6, <1>7

(* adoption                                                                *)
LEMMA AdoptEffect ==
    ASSUME TypeOK, NEW s \in Slots, Adopt(s)
    PROVE  /\ pcb' \in [Slots -> ProcessControlBlock]
           /\ pcb[s].parent \in Slots /\ ~Exists(pcb[s].parent)
           /\ \A x \in Slots : KeepsState(pcb[x], pcb'[x]) /\ (x # s => KeepsFamily(pcb[x], pcb'[x]))
           /\ pcb'[s].pid = pcb[s].pid /\ pcb'[s].ppid = pcb[s].ppid
           /\ pcb'[s].child_pcb = pcb[s].child_pcb
           /\ Delivers(pcb, pcb', {})
<1>1. pcb' = [pcb EXCEPT ![s].parent = Kernel]
  BY DEF Adopt
<1>2. pcb' \in [Slots -> ProcessControlBlock]
  <2>1. [pcb[s] EXCEPT !.parent = Kernel] \in ProcessControlBlock
    BY ZenonT(40) DEF TypeOK, ProcessControlBlock
  <2>2. pcb' = [pcb EXCEPT ![s] = [pcb[s] EXCEPT !.parent = Kernel]]
    BY <1>1 DEF TypeOK
  <2>. QED  BY <2>1, <2>2 DEF TypeOK
<1>3. pcb[s].parent \in Slots /\ ~Exists(pcb[s].parent)
  BY DEF Adopt, TypeOK, ProcessControlBlock
<1>4. /\ \A x \in Slots : KeepsState(pcb[x], pcb'[x]) /\ (x # s => KeepsFamily(pcb[x], pcb'[x]))
      /\ pcb'[s].pid = pcb[s].pid /\ pcb'[s].ppid = pcb[s].ppid
      /\ pcb'[s].child_pcb = pcb[s].child_pcb
  BY <1>1 DEF TypeOK, ProcessControlBlock, KeepsState, KeepsFamily
<1>5. \A x \in Slots : pcb'[x].ipc_queue = pcb[x].ipc_queue
  BY <1>1 DEF TypeOK, ProcessControlBlock
<1>. QED  BY <1>2, <1>3, <1>4, <1>5 DEF Delivers

(* the collection of a child                                               *)
LEMMA ReapEffect ==
    ASSUME TypeOK, NEW s \in Slots, NEW k \in Tids, NEW c \in Slots, c # s,
           NEW q \in Seq(Message), NEW code,
           Elements(q) \subseteq Elements(pcb[s].ipc_queue),
           Distinct(pcb[s].child_pcb), c \in Elements(pcb[s].child_pcb),
           Reap(s, k, c, q, code)
    PROVE  /\ pcb' \in [Slots -> ProcessControlBlock]
           /\ pcb'[c] = Free
           /\ \A x \in Slots \ {s, c} : pcb'[x] = pcb[x]
           /\ KeepsState(pcb[s], pcb'[s])
           /\ pcb'[s].pid = pcb[s].pid /\ pcb'[s].ppid = pcb[s].ppid
           /\ pcb'[s].parent = pcb[s].parent
           /\ Elements(pcb'[s].child_pcb) = Elements(pcb[s].child_pcb) \ {c}
           /\ Distinct(pcb'[s].child_pcb)
           /\ Elements(pcb'[s].ipc_queue) \subseteq Elements(pcb[s].ipc_queue)
<1>. DEFINE kids == RemoveFirst(pcb[s].child_pcb, c)
            left == Discarded(q, pcb[c].pid)
            r == [pcb[s] EXCEPT !.ipc_queue = left, !.child_pcb = kids]
<1>1. /\ kids \in Seq(Slots) /\ Distinct(kids)
      /\ Elements(kids) = Elements(pcb[s].child_pcb) \ {c}
  <2>1. pcb[s].child_pcb \in Seq(Slots)
    BY DEF TypeOK, ProcessControlBlock
  <2>. QED  BY <2>1, RemovedElements
<1>2. left \in Seq(Message) /\ Elements(left) \subseteq Elements(pcb[s].ipc_queue)
  BY DiscardedElements
<1>3. pcb' = [pcb EXCEPT ![s] = r, ![c] = Free]
  BY DEF Reap, ChildrenAfterReap, TypeOK
<1>. HIDE DEF kids, left
<1>4. r \in ProcessControlBlock
  <2>1. kids \in Seq(Slots) /\ left \in Seq(Message)
    BY <1>1, <1>2
  <2>. QED  BY ZenonT(40), <2>1 DEF TypeOK, ProcessControlBlock
<1>5. Free \in ProcessControlBlock
  <2>1. <<>> \in Seq(Slots) /\ <<>> \in Seq(Message)
    BY EmptySeq
  <2>. QED  BY <2>1, ProcessAssumption DEF Free, ProcessControlBlock, AnyCode, NoTable
<1>6. pcb' \in [Slots -> ProcessControlBlock]
  BY <1>3, <1>4, <1>5 DEF TypeOK
<1>7. pcb'[c] = Free /\ pcb'[s] = r /\ \A x \in Slots \ {s, c} : pcb'[x] = pcb[x]
  BY <1>3 DEF TypeOK
<1>8. /\ KeepsState(pcb[s], pcb'[s])
      /\ pcb'[s].pid = pcb[s].pid /\ pcb'[s].ppid = pcb[s].ppid
      /\ pcb'[s].parent = pcb[s].parent
      /\ pcb'[s].child_pcb = kids /\ pcb'[s].ipc_queue = left
  BY <1>7 DEF TypeOK, ProcessControlBlock, KeepsState
<1>. QED  BY <1>1, <1>2, <1>6, <1>7, <1>8

----------------------------------------------------------------------------
(* The invariant.                                                           *)

(* A pid names one process, which is younger than its creator.             *)
PcbsNamed ==
    /\ \A s \in Slots : ~Exists(s) => /\ pcb[s].pid = 0 /\ pcb[s].file_open = NoTable
                                      /\ \A k \in Tids : thread[s][k] = NoThread
    /\ \A s \in Slots : Exists(s) =>
           pcb[s].pid \in 1..nextPid - 1 /\ pcb[s].ppid < pcb[s].pid
    /\ \A s, t \in Slots : Exists(s) /\ Exists(t) /\ pcb[s].pid = pcb[t].pid => s = t

(* Threads run in a process that has not ended, and only one that closes a *)
(* table remembers it: its process has already forgotten it.               *)
ThreadsPlaced ==
    \A s \in Slots :
        /\ pcb[s].file_open < nextPid
        /\ pcb[s].status = "ZOMBIE" => pcb[s].file_open = NoTable
        /\ \A k \in Tids :
               /\ Live(s, k) => pcb[s].status = "START"
               /\ thread[s][k].table # NoTable => At(s, k, "closing")
               /\ At(s, k, "closing") => /\ pcb[s].file_open = NoTable
                                         /\ thread[s][k].table \in 1..nextPid - 1
                                         /\ thread[s][k].arg \in AnyCode
               /\ At(s, k, "vfork") => thread[s][k].arg \in 1..nextPid - 1

(* What a message says of a process is so, wherever it was delivered.      *)
True(m) ==
    /\ m.pid < nextPid
    /\ \A c \in Slots : Exists(c) /\ pcb[c].pid = m.pid =>
           IF m.type = "EPID" THEN pcb[c].status = "ZOMBIE" ELSE pcb[c].pagedir = m.pid

MessagesTrue == \A s \in Slots : \A m \in Elements(pcb[s].ipc_queue) : True(m)

(* A process in a borrowed page directory was made by the one that waits   *)
(* for it in vfork, which is in the same page directory.                   *)
LentBy(t, s) ==
    /\ pcb[t].status = "START" /\ pcb[t].pid = pcb[s].ppid /\ pcb[t].pagedir = pcb[s].pagedir
    /\ \E k \in Tids : At(t, k, "vfork") /\ thread[t][k].arg = pcb[s].pid
Lent ==
    deserted = {} =>
        \A s \in Slots : pcb[s].status = "START" /\ pcb[s].pagedir # pcb[s].pid =>
            \E t \in Slots : LentBy(t, s)

Family ==
    \A s \in Slots : Exists(s) =>
        /\ Distinct(pcb[s].child_pcb)
        /\ Elements(pcb[s].child_pcb) = {c \in Slots : Exists(c) /\ pcb[c].ppid = pcb[s].pid}
        /\ \A c \in Elements(pcb[s].child_pcb) : pcb[c].parent = s

Users(d) == {s \in Slots : pcb[s].file_open = d}
Closers(d) == {s \in Slots : \E k \in Tids : thread[s][k].table = d}
Tables ==
    \A d \in Pids :
        /\ refs[d] = Cardinality(Users(d))
        /\ Users(d) # {} => files[d] = 1 /\ Closers(d) = {}
        /\ Users(d) = {} => files[d] = 0 \/ Closers(d) # {} \/ d \in torn

LifeInv == TypeOK /\ PcbsNamed /\ ThreadsPlaced /\ MessagesTrue /\ Lent /\ Family /\ Tables

LEMMA FamilyIsChildrenExact == Family <=> ChildrenExact
  BY DEF Family, ChildrenExact, Distinct, Elements

LEMMA TablesIsTablesAccounted == Tables <=> TablesAccounted
  BY DEF Tables, TablesAccounted, Users, Closers

(* Steps that neither make, end nor collect a process: messages come and   *)
(* go, a thread goes to another place, an orphan is adopted, a process     *)
(* whose threads do not wait in vfork moves to its own page directory.     *)
Quiet(s, k) ==
    /\ pcb' \in [Slots -> ProcessControlBlock]
    /\ \A x \in Slots :
           /\ pcb'[x].pid = pcb[x].pid /\ pcb'[x].ppid = pcb[x].ppid
           /\ pcb'[x].child_pcb = pcb[x].child_pcb
           /\ pcb'[x].status = pcb[x].status /\ pcb'[x].file_open = pcb[x].file_open
           /\ pcb'[x].exit_code = pcb[x].exit_code
           /\ pcb[x].parent \in Slots /\ Exists(pcb[x].parent) => pcb'[x].parent = pcb[x].parent
           /\ \/ pcb'[x].pagedir = pcb[x].pagedir
              \/ Exists(x) /\ pcb'[x].pagedir = pcb[x].pid /\ \A j \in Tids : ~At(x, j, "vfork")
    /\ \E M \in SUBSET Message : Delivers(pcb, pcb', M) /\ \A m \in M : True(m)'
    /\ \/ UNCHANGED thread
       \/ \E p \in Place :
              /\ thread' = [thread EXCEPT ![s][k] = p]
              /\ p.at \in {"user", "dead", "wait4"} /\ p.table = NoTable
              /\ pcb[s].status = "START"
              /\ ~At(s, k, "closing")
              /\ At(s, k, "vfork") => \A c \in Slots :
                     pcb[c].status = "START" /\ pcb[c].pid = thread[s][k].arg
                         => pcb[c].pagedir = pcb[c].pid
    /\ UNCHANGED <<nextPid, refs, files, told, torn, deserted>>

LEMMA QuietKeeps ==
    ASSUME LifeInv, NEW s \in Slots, NEW k \in Tids, Quiet(s, k)
    PROVE  LifeInv'
<1>1. /\ pcb' \in [Slots -> ProcessControlBlock] /\ nextPid' = nextPid
      /\ refs' = refs /\ files' = files /\ told' = told /\ torn' = torn /\ deserted' = deserted
  BY DEF Quiet
<1>2. \A x \in Slots :
          /\ pcb'[x].pid = pcb[x].pid /\ pcb'[x].ppid = pcb[x].ppid
          /\ pcb'[x].child_pcb = pcb[x].child_pcb
          /\ pcb'[x].status = pcb[x].status /\ pcb'[x].file_open = pcb[x].file_open
          /\ pcb[x].parent \in Slots /\ Exists(pcb[x].parent) => pcb'[x].parent = pcb[x].parent
  BY DEF Quiet
<1>3. \A x \in Slots :
          \/ pcb'[x].pagedir = pcb[x].pagedir
          \/ Exists(x) /\ pcb'[x].pagedir = pcb[x].pid /\ \A j \in Tids : ~At(x, j, "vfork")
  BY DEF Quiet
<1>4. /\ thread' \in [Slots -> [Tids -> Place]]
      /\ \A x \in Slots : \A j \in Tids :
             \/ thread'[x][j] = thread[x][j]
             \/ /\ thread'[x][j].at \in {"user", "dead", "wait4"} /\ thread'[x][j].table = NoTable
                /\ pcb[x].status = "START" /\ ~At(x, j, "closing")
                /\ At(x, j, "vfork") => \A c \in Slots :
                       pcb[c].status = "START" /\ pcb[c].pid = thread[x][j].arg
                           => pcb[c].pagedir = pcb[c].pid
  <2>1. thread \in [Slots -> [Tids -> Place]]
    BY DEF LifeInv, TypeOK
  <2>2. CASE UNCHANGED thread
    BY <2>1, <2>2
  <2>3. ASSUME NEW p \in Place,
               /\ thread' = [thread EXCEPT ![s][k] = p]
               /\ p.at \in {"user", "dead", "wait4"} /\ p.table = NoTable
               /\ pcb[s].status = "START"
               /\ ~At(s, k, "closing")
               /\ At(s, k, "vfork") => \A c \in Slots :
                      pcb[c].status = "START" /\ pcb[c].pid = thread[s][k].arg
                          => pcb[c].pagedir = pcb[c].pid
        PROVE  <1>4!:
    <3>1. \A x \in Slots : \A j \in Tids :
              thread'[x][j] = IF x = s /\ j = k THEN p ELSE thread[x][j]
      BY <2>1, <2>3
    <3>2. thread' \in [Slots -> [Tids -> Place]]
      BY <2>1, <2>3
    <3>. QED  BY <2>3, <3>1, <3>2
  <2>. QED  BY <2>2, <2>3 DEF Quiet
<1>. USE DEF LifeInv, Exists, Live, At
<1>5. TypeOK'
  BY <1>1, <1>4 DEF TypeOK
<1>6. PcbsNamed'
  <2>1. ASSUME NEW x \in Slots, NEW j \in Tids, ~Exists(x)
        PROVE  thread'[x][j] = NoThread
    <3>1. thread[x][j] = NoThread
      BY <2>1 DEF PcbsNamed
    <3>2. thread'[x][j] = thread[x][j]
      BY <1>4, <2>1
    <3>. QED  BY <3>1, <3>2
  <2>2. \A x \in Slots : ~Exists(x) => pcb[x].pid = 0 /\ pcb[x].file_open = NoTable
    BY DEF PcbsNamed
  <2>3. \A x \in Slots : Exists(x) => pcb[x].pid \in 1..nextPid - 1 /\ pcb[x].ppid < pcb[x].pid
    BY DEF PcbsNamed
  <2>4. \A x, y \in Slots : Exists(x) /\ Exists(y) /\ pcb[x].pid = pcb[y].pid => x = y
    BY DEF PcbsNamed
  <2>. QED  BY <1>1, <1>2, <2>1, <2>2, <2>3, <2>4 DEF PcbsNamed
<1>7. ThreadsPlaced'
  <2>1. ASSUME NEW x \in Slots, NEW j \in Tids
        PROVE  /\ Live(x, j)' => pcb[x].status = "START"
               /\ thread'[x][j].table # NoTable => At(x, j, "closing")'
               /\ At(x, j, "closing")' => /\ pcb[x].file_open = NoTable
                                          /\ thread'[x][j].table \in 1..nextPid - 1
                                          /\ thread'[x][j].arg \in AnyCode
               /\ At(x, j, "vfork")' => thread'[x][j].arg \in 1..nextPid - 1
    <3>1. CASE thread'[x][j] = thread[x][j]
      BY <3>1 DEF ThreadsPlaced
    <3>2. CASE thread'[x][j] # thread[x][j]
      BY <1>4, <3>2
    <3>. QED  BY <3>1, <3>2
  <2>2. \A x \in Slots : /\ pcb[x].file_open < nextPid
                         /\ pcb[x].status = "ZOMBIE" => pcb[x].file_open = NoTable
    BY DEF ThreadsPlaced
  <2>. QED  BY <1>1, <1>2, <2>1, <2>2 DEF ThreadsPlaced
<1>8. MessagesTrue'
  <2>1. PICK M \in SUBSET Message : Delivers(pcb, pcb', M) /\ \A m \in M : True(m)'
    BY DEF Quiet
  <2>2. ASSUME NEW x \in Slots, NEW m \in Elements(pcb[x].ipc_queue)
        PROVE  True(m)'
    <3>1. True(m)
      BY DEF MessagesTrue
    <3>. QED  BY <1>1, <1>2, <1>3, <3>1 DEF True
  <2>. QED  BY <2>1, <2>2 DEF MessagesTrue, Delivers
<1>9. Lent'
  <2>. SUFFICES ASSUME deserted = {}, NEW x \in Slots,
                       pcb[x].status = "START", pcb'[x].pagedir # pcb[x].pid
                PROVE  \E t \in Slots : LentBy(t, x)'
    BY <1>1, <1>2 DEF Lent
  <2>1. pcb'[x].pagedir = pcb[x].pagedir
    BY <1>3
  <2>2. PICK t \in Slots : LentBy(t, x)
    BY <2>1 DEF Lent
  <2>3. PICK j \in Tids : At(t, j, "vfork") /\ thread[t][j].arg = pcb[x].pid
    BY <2>2 DEF LentBy
  <2>4. thread'[t][j] = thread[t][j]
    BY <1>4, <2>1, <2>3
  <2>5. pcb'[t].pagedir = pcb[t].pagedir
    BY <1>3, <2>3
  <2>6. LentBy(t, x)'
    BY <1>2, <2>1, <2>2, <2>3, <2>4, <2>5 DEF LentBy
  <2>. QED  BY <2>6
<1>10. Family'
  <2>. SUFFICES ASSUME NEW x \in Slots, Exists(x)
                PROVE  /\ Distinct(pcb'[x].child_pcb)
                       /\ Elements(pcb'[x].child_pcb) = {c \in Slots : Exists(c)' /\ pcb'[c].ppid = pcb'[x].pid}
                       /\ \A c \in Elements(pcb'[x].child_pcb) : pcb'[c].parent = x
    BY <1>2 DEF Family
  <2>1. /\ Distinct(pcb[x].child_pcb)
        /\ Elements(pcb[x].child_pcb) = {c \in Slots : Exists(c) /\ pcb[c].ppid = pcb[x].pid}
        /\ \A c \in Elements(pcb[x].child_pcb) : pcb[c].parent = x
    BY DEF Family
  <2>. QED  BY <1>2, <2>1
<1>11. Tables'
  <2>1. ASSUME NEW d \in Pids
        PROVE  Users(d)' = Users(d) /\ Closers(d)' = Closers(d)
    <3>1. Users(d)' = Users(d)
      BY <1>2 DEF Users
    <3>2. \A x \in Slots : \A j \in Tids : thread'[x][j].table = d <=> thread[x][j].table = d
      BY <1>4 DEF ThreadsPlaced, NoTable, Pids
    <3>. QED  BY <3>1, <3>2 DEF Closers
  <2>. QED  BY <1>1, <2>1 DEF Tables
<1>. QED  BY <1>5, <1>6, <1>7, <1>8, <1>9, <1>10, <1>11

(* A thread that can take a step is in a process that has not ended.       *)
LEMMA Running ==
    ASSUME LifeInv, NEW s \in Slots, NEW k \in Tids, Live(s, k)
    PROVE  /\ pcb[s].status = "START" /\ Exists(s)
           /\ pcb[s].pid \in Pids /\ pcb[s].pid < nextPid /\ pcb[s].ppid < pcb[s].pid
<1>1. pcb[s].status = "START" /\ Exists(s)
  BY DEF LifeInv, ThreadsPlaced, Exists
<1>2. pcb[s].pid \in 1..nextPid - 1 /\ pcb[s].ppid < pcb[s].pid /\ nextPid \in 1..MaxPid + 1
  BY <1>1 DEF LifeInv, PcbsNamed, TypeOK
<1>. QED  BY <1>1, <1>2, ProcessAssumption DEF Pids

LEMMA QuietCalls ==
    ASSUME LifeInv, NEW s \in Slots, NEW k \in Tids,
           \/ Exec(s, k) \/ VforkLook(s, k) \/ WaitFails(s, k)
           \/ \E j \in Tids : Clone(s, k, j)
    PROVE  \E j \in Tids : Quiet(s, j)
<1>. USE DEF At, InUser, Live
<1>1. ASSUME UNCHANGED <<pcb, nextPid, fdVars, history>>, NEW j \in Tids, NEW p \in Place,
             thread' = [thread EXCEPT ![s][j] = p], pcb[s].status = "START",
             p.at \in {"user", "dead", "wait4"}, p.table = NoTable,
             ~At(s, j, "closing"), ~At(s, j, "vfork")
      PROVE  Quiet(s, j)
  <2>1. Delivers(pcb, pcb', {}) /\ {} \in SUBSET Message
    BY <1>1 DEF Delivers
  <2>2. \E M \in SUBSET Message : Delivers(pcb, pcb', M) /\ \A m \in M : True(m)'
    BY <2>1
  <2>. QED  BY <1>1, <2>2 DEF Quiet, fdVars, history, LifeInv, TypeOK
<1>2. AtUser \in Place /\ Dead \in Place
  BY ProcessAssumption DEF AtUser, Dead, Place, NoTable
<1>3. ASSUME NEW j \in Tids, Clone(s, k, j)
      PROVE  Quiet(s, j)
  <2>1. pcb[s].status = "START" /\ Exists(s)
    BY <1>3, Running DEF Clone
  <2>2. ~At(s, j, "closing") /\ ~At(s, j, "vfork")
    BY <1>3 DEF Clone, NoThread
  <2>3. thread' = [thread EXCEPT ![s][j] = AtUser] /\ UNCHANGED <<pcb, nextPid, fdVars, history>>
    BY <1>3 DEF Clone, Go
  <2>. QED  BY <1>1, <1>2, <2>1, <2>2, <2>3 DEF AtUser
<1>4. ASSUME WaitFails(s, k)
      PROVE  Quiet(s, k)
  <2>1. pcb[s].status = "START" /\ ~At(s, k, "closing") /\ ~At(s, k, "vfork")
    BY <1>4, Running DEF WaitFails
  <2>2. thread' = [thread EXCEPT ![s][k] = AtUser] /\ UNCHANGED <<pcb, nextPid, fdVars, history>>
    BY <1>4 DEF WaitFails, Go
  <2>. QED  BY <1>1, <1>2, <2>1, <2>2 DEF AtUser
<1>5. ASSUME Exec(s, k)
      PROVE  Quiet(s, k)
  <2>1. pcb[s].status = "START" /\ Exists(s) /\ pcb[s].pid \in Pids /\ pcb[s].pid < nextPid
    BY <1>5, Running DEF Exec
  <2>. PICK m \in Message : m = ExecMessage(pcb[s].pid)
    BY <2>1 DEF ExecMessage, Message, AnyCode
  <2>2. /\ pcb' \in [Slots -> ProcessControlBlock]
        /\ \A x \in Slots : /\ KeepsFamily(pcb[x], pcb'[x])
                            /\ x # s => KeepsState(pcb[x], pcb'[x])
        /\ pcb'[s].status = pcb[s].status /\ pcb'[s].exit_code = pcb[s].exit_code
        /\ pcb'[s].file_open = pcb[s].file_open /\ pcb'[s].pagedir = pcb[s].pid
        /\ Delivers(pcb, pcb', {m})
    BY <1>5, <2>1, ExecEffect DEF LifeInv
  <2>3. \A j \in Tids : ~At(s, j, "vfork")
    BY <1>5 DEF Exec, OtherLive
  <2>4. UNCHANGED <<thread, nextPid, refs, files, told, torn, deserted>>
    BY <1>5 DEF Exec, fdVars, history
  <2>5. m.type = "EXEC" /\ m.pid = pcb[s].pid
    BY DEF ExecMessage
  <2>6. ASSUME NEW c \in Slots, Exists(c)', pcb'[c].pid = pcb[s].pid
        PROVE  pcb'[c].pagedir = pcb[s].pid
    <3>1. Exists(c) /\ pcb[c].pid = pcb[s].pid
      BY <2>2, <2>6 DEF Exists, KeepsFamily, KeepsState
    <3>2. c = s
      BY <2>1, <3>1 DEF LifeInv, PcbsNamed
    <3>. QED  BY <2>2, <3>2
  <2>7. True(m)'
    BY <2>1, <2>4, <2>5, <2>6 DEF True
  <2>8. \E M \in SUBSET Message : Delivers(pcb, pcb', M) /\ \A n \in M : True(n)'
    <3>1. {m} \in SUBSET Message /\ \A n \in {m} : True(n)'
      BY <2>5, <2>7
    <3>. QED  BY <2>2, <3>1
  <2>9. \A x \in Slots :
            /\ pcb'[x].pid = pcb[x].pid /\ pcb'[x].ppid = pcb[x].ppid
            /\ pcb'[x].child_pcb = pcb[x].child_pcb
            /\ pcb'[x].status = pcb[x].status /\ pcb'[x].file_open = pcb[x].file_open
            /\ pcb'[x].exit_code = pcb[x].exit_code
            /\ pcb'[x].parent = pcb[x].parent
            /\ x # s => pcb'[x].pagedir = pcb[x].pagedir
    BY <2>2 DEF KeepsFamily, KeepsState
  <2>. QED  BY <2>1, <2>2, <2>3, <2>4, <2>8, <2>9 DEF Quiet
<1>6. ASSUME VforkLook(s, k)
      PROVE  Quiet(s, k)
  <2>. DEFINE M == Elements(pcb[s].ipc_queue)
  <2>1. /\ pcb' \in [Slots -> ProcessControlBlock]
        /\ \A x \in Slots : Keeps(pcb[x], pcb'[x])
        /\ Delivers(pcb, pcb', M)
        /\ At(s, k, "vfork")
        /\ \/ UNCHANGED thread
           \/ /\ thread' = [thread EXCEPT ![s][k] = AtUser]
              /\ \E m \in M : m.pid = thread[s][k].arg
    BY <1>6, VforkLookEffect DEF LifeInv
  <2>2. UNCHANGED <<nextPid, refs, files, told, torn, deserted>>
    BY <1>6 DEF VforkLook, fdVars, history
  <2>3. M \in SUBSET Message
    <3>1. pcb[s].ipc_queue \in Seq(Message)
      BY DEF LifeInv, TypeOK, ProcessControlBlock
    <3>. QED  BY <3>1, ElementsOf
  <2>4. \A m \in M : True(m)
    BY DEF LifeInv, MessagesTrue
  <2>. HIDE DEF M
  <2>5. \A x \in Slots :
            /\ pcb'[x].pid = pcb[x].pid /\ pcb'[x].ppid = pcb[x].ppid
            /\ pcb'[x].child_pcb = pcb[x].child_pcb
            /\ pcb'[x].status = pcb[x].status /\ pcb'[x].file_open = pcb[x].file_open
            /\ pcb'[x].exit_code = pcb[x].exit_code
            /\ pcb'[x].parent = pcb[x].parent /\ pcb'[x].pagedir = pcb[x].pagedir
    BY <2>1 DEF Keeps, KeepsFamily, KeepsState
  <2>6. \A m \in M : True(m)'
    BY <2>2, <2>4, <2>5 DEF True, Exists
  <2>7. ASSUME NEW m \in M, m.pid = thread[s][k].arg, NEW c \in Slots,
               pcb[c].status = "START", pcb[c].pid = thread[s][k].arg
        PROVE  pcb[c].pagedir = pcb[c].pid
    BY <2>4, <2>7 DEF True, Exists
  <2>8. pcb[s].status = "START" /\ ~At(s, k, "closing")
    BY <2>1, Running
  <2>9. CASE UNCHANGED thread
    BY <2>1, <2>2, <2>3, <2>5, <2>6, <2>9 DEF Quiet
  <2>10. CASE /\ thread' = [thread EXCEPT ![s][k] = AtUser]
              /\ \E m \in M : m.pid = thread[s][k].arg
    <3>1. \A c \in Slots : pcb[c].status = "START" /\ pcb[c].pid = thread[s][k].arg
                               => pcb[c].pagedir = pcb[c].pid
      BY <2>7, <2>10
    <3>2. \E M1 \in SUBSET Message : Delivers(pcb, pcb', M1) /\ \A m \in M1 : True(m)'
      BY <2>1, <2>3, <2>6
    <3>3. AtUser.at \in {"user", "dead", "wait4"} /\ AtUser.table = NoTable
      BY DEF AtUser
    <3>. QED  BY <1>2, <2>1, <2>2, <2>5, <2>8, <2>10, <3>1, <3>2, <3>3 DEF Quiet
  <2>. QED  BY <2>1, <2>9, <2>10
<1>. QED  BY <1>3, <1>4, <1>5, <1>6

LEMMA AdoptQuiet ==
    ASSUME LifeInv, NEW s \in Slots, Adopt(s)
    PROVE  \E k \in Tids : Quiet(s, k)
<1>1. PICK k \in Tids : Live(s, k)
  BY DEF Adopt
<1>2. /\ pcb' \in [Slots -> ProcessControlBlock]
      /\ pcb[s].parent \in Slots /\ ~Exists(pcb[s].parent)
      /\ \A x \in Slots : KeepsState(pcb[x], pcb'[x]) /\ (x # s => KeepsFamily(pcb[x], pcb'[x]))
      /\ pcb'[s].pid = pcb[s].pid /\ pcb'[s].ppid = pcb[s].ppid
      /\ pcb'[s].child_pcb = pcb[s].child_pcb
      /\ Delivers(pcb, pcb', {})
  BY AdoptEffect DEF LifeInv
<1>3. UNCHANGED <<thread, nextPid, refs, files, told, torn, deserted>>
  BY DEF Adopt, fdVars, history
<1>4. \E M \in SUBSET Message : Delivers(pcb, pcb', M) /\ \A m \in M : True(m)'
  <2>1. {} \in SUBSET Message /\ \A m \in {} : True(m)'
    OBVIOUS
  <2>. QED  BY <1>2, <2>1
<1>5. \A x \in Slots :
          /\ pcb'[x].pid = pcb[x].pid /\ pcb'[x].ppid = pcb[x].ppid
          /\ pcb'[x].child_pcb = pcb[x].child_pcb
          /\ pcb'[x].status = pcb[x].status /\ pcb'[x].file_open = pcb[x].file_open
          /\ pcb'[x].exit_code = pcb[x].exit_code
          /\ pcb'[x].pagedir = pcb[x].pagedir
          /\ x # s => pcb'[x].parent = pcb[x].parent
  BY <1>2 DEF KeepsState, KeepsFamily
<1>6. Quiet(s, k)
  BY <1>2, <1>3, <1>4, <1>5 DEF Quiet
<1>. QED  BY <1>6

(* wait4 goes on waiting, or collects a child that has ended; a message    *)
(* never leads to a child that the search for a zombie has missed.         *)
LEMMA LookEffect ==
    ASSUME LifeInv, NEW s \in Slots, NEW k \in Tids, NEW x \in Nat, Look(s, k, x),
           Live(s, k), ~At(s, k, "closing"), ~At(s, k, "vfork")
    PROVE  \/ Quiet(s, k)
           \/ \E c \in Elements(pcb[s].child_pcb) :
                  /\ pcb[c].status = "ZOMBIE"
                  /\ \E q \in Seq(Message) : /\ Elements(q) \subseteq Elements(pcb[s].ipc_queue)
                                             /\ Reap(s, k, c, q, pcb[c].exit_code)
                  /\ UNCHANGED <<nextPid, refs, files>>
<1>. DEFINE kids == pcb[s].child_pcb
            q == pcb[s].ipc_queue
            i == ExitMessage(q, x)
            Z == {l \in 1..Len(kids) : pcb[kids[l]].status = "ZOMBIE" /\ Matches(kids[l], x)}
            C == {l \in 1..Len(kids) : pcb[kids[l]].pid = q[i].pid}
            c == IF C # {} THEN Min(C) ELSE 0
<1>1. kids \in Seq(Slots) /\ q \in Seq(Message) /\ Len(kids) \in Nat
  BY LenProperties DEF LifeInv, TypeOK, ProcessControlBlock
<1>2. ZombieChild(s, x) = IF Z # {} THEN Min(Z) ELSE 0
  BY DEF ZombieChild, SelectInSeq
<1>3. /\ UNCHANGED <<nextPid, refs, files>>
      /\ IF ZombieChild(s, x) # 0
         THEN Reap(s, k, kids[ZombieChild(s, x)], q, pcb[kids[ZombieChild(s, x)]].exit_code)
         ELSE IF i = 0
         THEN Go(s, k, Waiting(x)) /\ UNCHANGED <<pcb, history>>
         ELSE IF c # 0
         THEN Reap(s, k, kids[c], Taken(q, i), q[i].code)
         ELSE /\ pcb' = [pcb EXCEPT ![s].ipc_queue = Taken(q, i)]
              /\ Go(s, k, Waiting(x))
              /\ UNCHANGED history
  BY DEF Look, SelectInSeq, fdVars
<1>4. pcb[s].status = "START" /\ Exists(s)
  BY Running
<1>5. Waiting(x) \in Place /\ Waiting(x).at = "wait4" /\ Waiting(x).table = NoTable
  BY ProcessAssumption DEF Waiting, Place, NoTable
<1>6. CASE Z # {}
  <2>. DEFINE z == Min(Z)
  <2>1. z \in Z
    <3>1. Z \in SUBSET (1..Len(kids))
      OBVIOUS
    <3>. HIDE DEF Z
    <3>. QED  BY <1>1, <1>6, <3>1, Least
  <2>2. ZombieChild(s, x) = z /\ z \in 1..Len(kids) /\ pcb[kids[z]].status = "ZOMBIE"
    BY <1>2, <1>6, <2>1
  <2>. HIDE DEF z, Z
  <2>3. kids[z] \in Elements(kids) /\ Reap(s, k, kids[z], q, pcb[kids[z]].exit_code)
    BY <1>1, <1>3, <2>2 DEF Elements
  <2>. QED  BY <1>1, <1>3, <2>2, <2>3
<1>7. CASE Z = {} /\ i = 0
  <2>1. Go(s, k, Waiting(x)) /\ UNCHANGED <<pcb, history>> /\ UNCHANGED <<nextPid, refs, files>>
    BY <1>2, <1>3, <1>7
  <2>2. \E M \in SUBSET Message : Delivers(pcb, pcb', M) /\ \A m \in M : True(m)'
    <3>1. {} \in SUBSET Message /\ Delivers(pcb, pcb', {})
      BY <2>1 DEF Delivers
    <3>. QED  BY <3>1
  <2>3. pcb' \in [Slots -> ProcessControlBlock]
    BY <2>1 DEF LifeInv, TypeOK
  <2>4. Quiet(s, k)
    BY <1>4, <1>5, <2>1, <2>2, <2>3 DEF Quiet, Go, history
  <2>. QED  BY <2>4
<1>8. CASE Z = {} /\ i # 0
  <2>1. /\ i \in 1..Len(q) /\ q[i] \in Elements(q) /\ q[i].type = "EPID"
        /\ x = AnyChild \/ q[i].pid = x
    BY <1>1, <1>8, ExitMessageFound
  <2>2. C = {}
    <3>. SUFFICES ASSUME NEW l \in 1..Len(kids), pcb[kids[l]].pid = q[i].pid
                  PROVE  l \in Z
      BY <1>8
    <3>1. kids[l] \in Slots /\ kids[l] \in Elements(kids)
      BY <1>1, ElementOfSeq DEF Elements
    <3>2. Exists(kids[l])
      BY <1>4, <3>1 DEF LifeInv, Family
    <3>3. True(q[i])
      BY <2>1 DEF LifeInv, MessagesTrue
    <3>4. pcb[kids[l]].status = "ZOMBIE"
      BY <2>1, <3>1, <3>2, <3>3 DEF True
    <3>. QED  BY <2>1, <3>4 DEF Matches
  <2>3. /\ pcb' = [pcb EXCEPT ![s].ipc_queue = Taken(q, i)]
        /\ Go(s, k, Waiting(x)) /\ UNCHANGED history /\ UNCHANGED <<nextPid, refs, files>>
    BY <1>2, <1>3, <1>8, <2>2
  <2>4. Taken(q, i) \in Seq(Message) /\ Elements(Taken(q, i)) \subseteq Elements(q)
    BY <1>1, <2>1, TakenElements
  <2>. HIDE DEF i
  <2>5. pcb' \in [Slots -> ProcessControlBlock]
    <3>1. \A u \in Seq(Message) : [pcb[s] EXCEPT !.ipc_queue = u] \in ProcessControlBlock
      BY ZenonT(40) DEF LifeInv, TypeOK, ProcessControlBlock
    <3>2. \A u : [pcb EXCEPT ![s].ipc_queue = u] = [pcb EXCEPT ![s] = [pcb[s] EXCEPT !.ipc_queue = u]]
      BY DEF LifeInv, TypeOK
    <3>3. pcb \in [Slots -> ProcessControlBlock]
      BY DEF LifeInv, TypeOK
    <3>. QED  BY <2>3, <2>4, <3>1, <3>2, <3>3
  <2>6. \A y \in Slots :
            /\ pcb'[y].pid = pcb[y].pid /\ pcb'[y].ppid = pcb[y].ppid
            /\ pcb'[y].child_pcb = pcb[y].child_pcb
            /\ pcb'[y].status = pcb[y].status /\ pcb'[y].file_open = pcb[y].file_open
            /\ pcb'[y].exit_code = pcb[y].exit_code
            /\ pcb'[y].parent = pcb[y].parent /\ pcb'[y].pagedir = pcb[y].pagedir
            /\ pcb'[y].ipc_queue = IF y = s THEN Taken(q, i) ELSE pcb[y].ipc_queue
    BY <2>3 DEF LifeInv, TypeOK, ProcessControlBlock
  <2>7. \E M \in SUBSET Message : Delivers(pcb, pcb', M) /\ \A m \in M : True(m)'
    <3>1. {} \in SUBSET Message /\ Delivers(pcb, pcb', {})
      BY <2>4, <2>6 DEF Delivers
    <3>. QED  BY <3>1
  <2>8. Quiet(s, k)
    BY <1>4, <1>5, <2>3, <2>5, <2>6, <2>7 DEF Quiet, Go, history
  <2>. QED  BY <2>8
<1>. QED  BY <1>6, <1>7, <1>8

LEMMA ForkKeeps ==
    ASSUME LifeInv, NEW s \in Slots, NEW k \in Tids, NEW kind \in {"fork", "vfork", "files"},
           NEW n \in Slots, Fork(s, k, kind, n)
    PROVE  LifeInv'
<1>. DEFINE table == TableOf(s, kind)
            fa == ForkerAfter(kind, nextPid)
<1>1. /\ pcb[s].status = "START" /\ Exists(s) /\ pcb[s].pid \in Pids /\ pcb[s].pid < nextPid
      /\ At(s, k, "user")
  <2>1. At(s, k, "user") /\ Live(s, k)
    BY DEF Fork, InUser, At, Live
  <2>. QED  BY <2>1, Running
<1>2. /\ n # s /\ ~Exists(n) /\ nextPid \in Pids
      /\ pcb[s].file_open # NoTable
      /\ pcb' \in [Slots -> ProcessControlBlock]
      /\ \A x \in Slots \ {n, s} : pcb'[x] = pcb[x]
      /\ KeepsState(pcb[s], pcb'[s])
      /\ pcb'[s].pid = pcb[s].pid /\ pcb'[s].ppid = pcb[s].ppid
      /\ pcb'[s].parent = pcb[s].parent /\ pcb'[s].ipc_queue = pcb[s].ipc_queue
      /\ pcb'[s].child_pcb = Append(pcb[s].child_pcb, n)
      /\ pcb'[n].pid = nextPid /\ pcb'[n].status = "START"
      /\ pcb'[n].parent = s /\ pcb'[n].ppid = pcb[s].pid
      /\ pcb'[n].child_pcb = <<>> /\ pcb'[n].ipc_queue = <<>>
      /\ pcb'[n].file_open = table
      /\ pcb'[n].pagedir = (IF kind = "vfork" THEN pcb[s].pagedir ELSE nextPid)
  BY <1>1, ForkEffect DEF LifeInv
<1>3. \A x \in Slots : x # n =>
          /\ pcb'[x].pid = pcb[x].pid /\ pcb'[x].ppid = pcb[x].ppid /\ pcb'[x].parent = pcb[x].parent
          /\ pcb'[x].status = pcb[x].status /\ pcb'[x].file_open = pcb[x].file_open
          /\ pcb'[x].pagedir = pcb[x].pagedir /\ pcb'[x].ipc_queue = pcb[x].ipc_queue
          /\ x # s => pcb'[x].child_pcb = pcb[x].child_pcb
  BY <1>2 DEF KeepsState
<1>4. /\ nextPid' = nextPid + 1 /\ UNCHANGED <<told, torn, deserted>>
      /\ refs' = [refs EXCEPT ![table] = @ + 1]
      /\ files' = IF kind = "files" THEN files
                  ELSE [files EXCEPT ![table] = files[pcb[s].file_open]]
      /\ thread' = [thread EXCEPT ![n] = Started(OneThread), ![s][k] = fa]
  BY DEF Fork, TableOf, RefsAfterFork, history
<1>5. /\ table \in Pids /\ pcb[s].file_open \in Pids
      /\ table = pcb[s].file_open \/ (table = nextPid /\ kind # "files")
      /\ kind = "files" => table = pcb[s].file_open
  BY <1>2 DEF TableOf, LifeInv, TypeOK, ProcessControlBlock, NoTable, Pids
<1>6. /\ nextPid \in Nat /\ nextPid \in 1..MaxPid + 1 /\ MaxPid \in Nat
      /\ pcb \in [Slots -> ProcessControlBlock] /\ thread \in [Slots -> [Tids -> Place]]
      /\ refs \in [Pids -> Nat] /\ files \in [Pids -> 0..1]
  BY ProcessAssumption DEF LifeInv, TypeOK
<1>7. /\ fa \in Place /\ fa.table = NoTable
      /\ fa.at = IF kind = "vfork" THEN "vfork" ELSE "user"
      /\ kind = "vfork" => fa.arg = nextPid
  BY <1>6 DEF ForkerAfter, InVfork, AtUser, Place, NoTable
<1>8. \A j \in Tids : /\ Started(OneThread)[j] \in Place /\ Started(OneThread)[j].table = NoTable
                      /\ Started(OneThread)[j].at \in {"user", "none"}
  BY <1>6 DEF Started, AtUser, NoThread, Place, NoTable
<1>9. /\ thread' \in [Slots -> [Tids -> Place]]
      /\ \A x \in Slots : \A j \in Tids : thread'[x][j] =
             IF x = n THEN Started(OneThread)[j]
             ELSE IF x = s /\ j = k THEN fa ELSE thread[x][j]
  <2>1. Started(OneThread) \in [Tids -> Place]
    BY <1>8 DEF Started
  <2>. HIDE DEF fa
  <2>. QED  BY <1>2, <1>4, <1>6, <1>7, <2>1
<1>. HIDE DEF fa, table
<1>. USE DEF Exists
<1>10. TypeOK'
  <2>1. nextPid' \in 1..MaxPid + 1
    BY <1>2, <1>4, <1>6 DEF Pids
  <2>2. refs' \in [Pids -> Nat]
    BY <1>4, <1>5, <1>6
  <2>3. files' \in [Pids -> 0..1]
    BY <1>4, <1>5, <1>6
  <2>4. /\ told' \in [Pids -> [by : 0..MaxPid, code : AnyCode]]
        /\ torn' \subseteq Pids /\ deserted' \subseteq Pids
    BY <1>4 DEF LifeInv, TypeOK
  <2>. QED  BY <1>2, <1>9, <2>1, <2>2, <2>3, <2>4 DEF TypeOK
<1>11. PcbsNamed'
  <2>1. ASSUME NEW x \in Slots, ~Exists(x)'
        PROVE  /\ pcb'[x].pid = 0 /\ pcb'[x].file_open = NoTable
               /\ \A j \in Tids : thread'[x][j] = NoThread
    <3>1. x # n /\ x # s /\ ~Exists(x)
      BY <1>1, <1>2, <1>3, <2>1
    <3>. QED  BY <1>3, <1>9, <3>1 DEF LifeInv, PcbsNamed
  <2>2. ASSUME NEW x \in Slots, Exists(x)'
        PROVE  pcb'[x].pid \in 1..nextPid' - 1 /\ pcb'[x].ppid < pcb'[x].pid
    <3>1. CASE x = n
      BY <1>1, <1>2, <1>4, <1>6, <3>1 DEF Pids
    <3>2. CASE x # n
      <4>1. pcb[x].pid \in 1..nextPid - 1 /\ pcb[x].ppid < pcb[x].pid
        BY <1>3, <2>2, <3>2 DEF LifeInv, PcbsNamed
      <4>. QED  BY <1>3, <1>4, <1>6, <3>2, <4>1
    <3>. QED  BY <3>1, <3>2
  <2>3. ASSUME NEW x \in Slots, NEW y \in Slots, Exists(x)', Exists(y)', pcb'[x].pid = pcb'[y].pid
        PROVE  x = y
    <3>1. \A z \in Slots : z # n /\ Exists(z)' => Exists(z) /\ pcb'[z].pid = pcb[z].pid /\ pcb[z].pid < nextPid
      BY <1>3, <1>6 DEF LifeInv, PcbsNamed
    <3>. QED  BY <1>2, <1>6, <2>3, <3>1 DEF LifeInv, PcbsNamed
  <2>. QED  BY <2>1, <2>2, <2>3 DEF PcbsNamed
<1>12. ThreadsPlaced'
  <2>. SUFFICES ASSUME NEW x \in Slots
                PROVE  /\ pcb'[x].file_open < nextPid'
                       /\ pcb'[x].status = "ZOMBIE" => pcb'[x].file_open = NoTable
                       /\ \A j \in Tids :
                              /\ Live(x, j)' => pcb'[x].status = "START"
                              /\ thread'[x][j].table # NoTable => At(x, j, "closing")'
                              /\ At(x, j, "closing")' => /\ pcb'[x].file_open = NoTable
                                                         /\ thread'[x][j].table \in 1..nextPid' - 1
                                                         /\ thread'[x][j].arg \in AnyCode
                              /\ At(x, j, "vfork")' => thread'[x][j].arg \in 1..nextPid' - 1
    BY DEF ThreadsPlaced
  <2>1. /\ pcb[x].file_open < nextPid
        /\ pcb[x].status = "ZOMBIE" => pcb[x].file_open = NoTable
        /\ \A j \in Tids :
               /\ Live(x, j) => pcb[x].status = "START"
               /\ thread[x][j].table # NoTable => At(x, j, "closing")
               /\ At(x, j, "closing") => /\ pcb[x].file_open = NoTable
                                         /\ thread[x][j].table \in 1..nextPid - 1
                                         /\ thread[x][j].arg \in AnyCode
               /\ At(x, j, "vfork") => thread[x][j].arg \in 1..nextPid - 1
    BY DEF LifeInv, ThreadsPlaced
  <2>2. pcb[x].file_open \in Nat /\ pcb[s].file_open \in Nat /\ pcb[s].file_open < nextPid
    BY <1>6 DEF LifeInv, ThreadsPlaced, ProcessControlBlock
  <2>3. CASE x = n
    <3>1. pcb'[x].file_open < nextPid'
      BY <1>2, <1>4, <1>5, <1>6, <2>2, <2>3
    <3>2. \A j \in Tids : thread'[x][j] = Started(OneThread)[j]
      BY <1>9, <2>3
    <3>. QED  BY <1>2, <1>8, <2>3, <3>1, <3>2 DEF Live, At
  <2>4. CASE x # n
    <3>1. /\ pcb'[x].file_open < nextPid'
          /\ pcb'[x].status = "ZOMBIE" => pcb'[x].file_open = NoTable
      BY <1>3, <1>4, <1>6, <2>1, <2>2, <2>4
    <3>2. ASSUME NEW j \in Tids, x = s, j = k
          PROVE  /\ thread'[x][j].at \in {"user", "vfork"} /\ thread'[x][j].table = NoTable
                 /\ thread'[x][j].at = "vfork" => thread'[x][j].arg = nextPid
      BY <1>7, <1>9, <2>4, <3>2
    <3>3. ASSUME NEW j \in Tids, ~(x = s /\ j = k)
          PROVE  thread'[x][j] = thread[x][j]
      BY <1>9, <2>4, <3>3
    <3>4. ASSUME NEW j \in Tids
          PROVE  /\ Live(x, j)' => pcb'[x].status = "START"
                 /\ thread'[x][j].table # NoTable => At(x, j, "closing")'
                 /\ At(x, j, "closing")' => /\ pcb'[x].file_open = NoTable
                                            /\ thread'[x][j].table \in 1..nextPid' - 1
                                            /\ thread'[x][j].arg \in AnyCode
                 /\ At(x, j, "vfork")' => thread'[x][j].arg \in 1..nextPid' - 1
      <4>1. CASE x = s /\ j = k
        <5>1. nextPid \in 1..nextPid' - 1
          BY <1>2, <1>4, <1>6 DEF Pids
        <5>. QED  BY <1>1, <1>3, <2>4, <3>2, <4>1, <5>1 DEF At
      <4>2. CASE ~(x = s /\ j = k)
        <5>1. 1..nextPid - 1 \subseteq 1..nextPid' - 1
          BY <1>4, <1>6
        <5>. QED  BY <1>3, <2>1, <2>4, <3>3, <4>2, <5>1 DEF At, Live
      <4>. QED  BY <4>1, <4>2
    <3>. QED  BY <3>1, <3>4
  <2>. QED  BY <2>3, <2>4
<1>13. MessagesTrue'
  <2>. SUFFICES ASSUME NEW x \in Slots, NEW m \in Elements(pcb'[x].ipc_queue)
                PROVE  True(m)'
    BY DEF MessagesTrue
  <2>1. x # n /\ m \in Elements(pcb[x].ipc_queue)
    BY <1>2, <1>3, Empty
  <2>2. True(m)
    BY <2>1 DEF LifeInv, MessagesTrue
  <2>3. m \in Message
    <3>1. pcb[x].ipc_queue \in Seq(Message)
      BY <1>6 DEF ProcessControlBlock
    <3>. QED  BY <2>1, <3>1, ElementsOf
  <2>4. m.pid \in Nat /\ m.pid < nextPid
    BY <2>2, <2>3 DEF True, Message, Pids
  <2>5. m.pid < nextPid' /\ m.pid # pcb'[n].pid
    BY <1>2, <1>4, <1>6, <2>4
  <2>. QED  BY <1>3, <2>2, <2>5 DEF True
<1>14. Lent'
  <2>. SUFFICES ASSUME deserted = {}, NEW x \in Slots,
                       pcb'[x].status = "START", pcb'[x].pagedir # pcb'[x].pid
                PROVE  \E t \in Slots : LentBy(t, x)'
    BY <1>4 DEF Lent
  <2>1. CASE x = n
    <3>1. kind = "vfork" /\ pcb'[n].pagedir = pcb[s].pagedir
      BY <1>2, <2>1
    <3>2. thread'[s][k] = fa /\ fa.at = "vfork" /\ fa.arg = nextPid
      BY <1>2, <1>7, <1>9, <3>1
    <3>3. LentBy(s, n)'
      BY <1>1, <1>2, <1>3, <3>1, <3>2 DEF LentBy, At
    <3>. QED  BY <2>1, <3>3
  <2>2. CASE x # n
    <3>1. PICK t \in Slots : LentBy(t, x)
      BY <1>3, <2>2 DEF LifeInv, Lent
    <3>2. PICK j \in Tids : At(t, j, "vfork") /\ thread[t][j].arg = pcb[x].pid
      BY <3>1 DEF LentBy
    <3>3. t # n
      BY <1>2, <3>1 DEF LentBy
    <3>4. thread'[t][j] = thread[t][j]
      BY <1>1, <1>9, <3>2, <3>3 DEF At
    <3>5. LentBy(t, x)'
      BY <1>3, <2>2, <3>1, <3>2, <3>3, <3>4 DEF LentBy, At
    <3>. QED  BY <3>5
  <2>. QED  BY <2>1, <2>2
<1>15. Family'
  <2>. SUFFICES ASSUME NEW x \in Slots, Exists(x)'
                PROVE  /\ Distinct(pcb'[x].child_pcb)
                       /\ Elements(pcb'[x].child_pcb) =
                              {c \in Slots : Exists(c)' /\ pcb'[c].ppid = pcb'[x].pid}
                       /\ \A c \in Elements(pcb'[x].child_pcb) : pcb'[c].parent = x
    BY DEF Family
  <2>1. CASE x = n
    <3>1. \A c \in Slots : Exists(c)' => pcb'[c].ppid < nextPid
      <4>1. \A c \in Slots : Exists(c) => pcb[c].ppid < pcb[c].pid /\ pcb[c].pid < nextPid
                                          /\ pcb[c].pid \in Nat /\ pcb[c].ppid \in Nat
        BY <1>6 DEF LifeInv, PcbsNamed, ProcessControlBlock
      <4>. QED  BY <1>1, <1>2, <1>3, <1>6, <4>1
    <3>2. \A c \in Slots : ~(Exists(c)' /\ pcb'[c].ppid = pcb'[n].pid)
      BY <1>2, <1>6, <3>1
    <3>3. {c \in Slots : Exists(c)' /\ pcb'[c].ppid = pcb'[n].pid} = {}
      BY <3>2
    <3>. QED  BY <1>2, <2>1, <3>3, Empty
  <2>2. CASE x # n
    <3>1. /\ Exists(x)
          /\ Distinct(pcb[x].child_pcb)
          /\ Elements(pcb[x].child_pcb) = {c \in Slots : Exists(c) /\ pcb[c].ppid = pcb[x].pid}
          /\ \A c \in Elements(pcb[x].child_pcb) : pcb[c].parent = x
      BY <1>3, <2>2 DEF LifeInv, Family
    <3>2. n \notin Elements(pcb[x].child_pcb)
      BY <1>2, <3>1
    <3>3. CASE x = s
      <4>1. /\ Elements(pcb'[s].child_pcb) = Elements(pcb[s].child_pcb) \cup {n}
            /\ Distinct(pcb'[s].child_pcb)
        <5>1. pcb[s].child_pcb \in Seq(Slots)
          BY <1>6 DEF ProcessControlBlock
        <5>. QED  BY <1>2, <3>1, <3>2, <3>3, <5>1, Appended
      <4>2. {c \in Slots : Exists(c)' /\ pcb'[c].ppid = pcb'[s].pid}
                = {c \in Slots : Exists(c) /\ pcb[c].ppid = pcb[s].pid} \cup {n}
        BY <1>2, <1>3
      <4>3. \A c \in Elements(pcb'[s].child_pcb) : pcb'[c].parent = s
        BY <1>2, <1>3, <3>1, <3>2, <3>3, <4>1
      <4>. QED  BY <3>1, <3>3, <4>1, <4>2, <4>3
    <3>4. CASE x # s
      <4>1. pcb[x].pid # pcb[s].pid
        BY <1>1, <3>1, <3>4 DEF LifeInv, PcbsNamed
      <4>2. {c \in Slots : Exists(c)' /\ pcb'[c].ppid = pcb'[x].pid}
                = {c \in Slots : Exists(c) /\ pcb[c].ppid = pcb[x].pid}
        BY <1>2, <1>3, <2>2, <4>1
      <4>. QED  BY <1>3, <2>2, <3>1, <3>2, <3>4, <4>2
    <3>. QED  BY <3>3, <3>4
  <2>. QED  BY <2>1, <2>2
<1>16. Tables'
  <2>. SUFFICES ASSUME NEW d \in Pids
                PROVE  /\ refs'[d] = Cardinality(Users(d)')
                       /\ Users(d)' # {} => files'[d] = 1 /\ Closers(d)' = {}
                       /\ Users(d)' = {} => files'[d] = 0 \/ Closers(d)' # {} \/ d \in torn
    BY <1>4 DEF Tables
  <2>1. \A e \in Pids : /\ refs[e] = Cardinality(Users(e))
                        /\ Users(e) # {} => files[e] = 1 /\ Closers(e) = {}
                        /\ Users(e) = {} => files[e] = 0 \/ Closers(e) # {} \/ e \in torn
    BY DEF LifeInv, Tables
  <2>2. Closers(d)' = Closers(d)
    <3>1. \A x \in Slots : \A j \in Tids : thread'[x][j].table = d <=> thread[x][j].table = d
      <4>1. thread[s][k].table = NoTable /\ \A j \in Tids : thread[n][j].table = NoTable
        BY <1>1, <1>2 DEF LifeInv, PcbsNamed, ThreadsPlaced, At, NoThread
      <4>2. d # NoTable
        BY DEF Pids, NoTable
      <4>. QED  BY <1>7, <1>8, <1>9, <4>1, <4>2
    <3>. QED  BY <3>1 DEF Closers
  <2>3. pcb[n].file_open = NoTable /\ d # NoTable
    BY <1>2 DEF LifeInv, PcbsNamed, Pids, NoTable
  <2>4. CASE d # table
    <3>1. Users(d)' = Users(d)
      BY <1>2, <1>3, <2>3, <2>4 DEF Users
    <3>2. refs'[d] = refs[d] /\ files'[d] = files[d]
      BY <1>4, <1>5, <1>6, <2>4
    <3>. QED  BY <2>1, <2>2, <3>1, <3>2
  <2>5. CASE d = table
    <3>1. Users(d)' = Users(d) \cup {n} /\ n \notin Users(d) /\ IsFiniteSet(Users(d))
      <4>1. Users(d) \in SUBSET Slots /\ IsFiniteSet(Slots)
        BY ProcessAssumption DEF Users
      <4>2. IsFiniteSet(Users(d))
        BY <4>1, FS_Subset
      <4>. QED  BY <1>2, <1>3, <2>3, <2>5, <4>2 DEF Users
    <3>2. Cardinality(Users(d)') = Cardinality(Users(d)) + 1
      BY <3>1, FS_AddElement
    <3>3. refs'[d] = Cardinality(Users(d)')
      BY <1>4, <1>5, <1>6, <2>1, <2>5, <3>2
    <3>4. files[pcb[s].file_open] = 1 /\ Closers(pcb[s].file_open) = {}
      <4>1. s \in Users(pcb[s].file_open)
        BY DEF Users
      <4>. QED  BY <1>5, <2>1, <4>1
    <3>5. files'[d] = 1
      BY <1>4, <1>5, <1>6, <2>5, <3>4
    <3>6. CASE table = pcb[s].file_open
      BY <2>2, <2>5, <3>1, <3>3, <3>4, <3>5, <3>6
    <3>7. CASE table = nextPid
      <4>1. Closers(nextPid) = {}
        BY <1>6, <2>3, <2>5, <3>7 DEF Closers, LifeInv, ThreadsPlaced
      <4>. QED  BY <2>2, <2>5, <3>1, <3>3, <3>5, <3>7, <4>1
    <3>. QED  BY <1>5, <3>6, <3>7
  <2>. QED  BY <2>4, <2>5
<1>. QED  BY <1>10, <1>11, <1>12, <1>13, <1>14, <1>15, <1>16 DEF LifeInv

(* A process becomes a zombie: nothing but its own state, its threads and  *)
(* the queue of its parent changes.                                        *)
Dies(s) ==
    /\ pcb' \in [Slots -> ProcessControlBlock]
    /\ \A x \in Slots : KeepsFamily(pcb[x], pcb'[x]) /\ (x # s => KeepsState(pcb[x], pcb'[x]))
    /\ pcb[s].status = "START" /\ pcb'[s].status = "ZOMBIE"
    /\ pcb'[s].file_open = NoTable /\ pcb'[s].pagedir = pcb[s].pagedir
    /\ \E m \in Message : m.type = "EPID" /\ m.pid = pcb[s].pid /\ Delivers(pcb, pcb', {m})
    /\ thread' = [thread EXCEPT ![s] = Killed(s)]
    /\ deserted' = deserted \cup {thread[s][j].arg : j \in {i \in Tids : At(s, i, "vfork")}}
    /\ nextPid' = nextPid

LEMMA DiesKeeps ==
    ASSUME LifeInv, NEW s \in Slots, Dies(s)
    PROVE  PcbsNamed' /\ ThreadsPlaced' /\ MessagesTrue' /\ Lent' /\ Family'
<1>1. /\ pcb' \in [Slots -> ProcessControlBlock]
      /\ pcb[s].status = "START" /\ pcb'[s].status = "ZOMBIE"
      /\ pcb'[s].file_open = NoTable /\ pcb'[s].pagedir = pcb[s].pagedir
      /\ nextPid' = nextPid
      /\ deserted' = deserted \cup {thread[s][j].arg : j \in {i \in Tids : At(s, i, "vfork")}}
  BY DEF Dies
<1>2. \A x \in Slots :
          /\ pcb'[x].pid = pcb[x].pid /\ pcb'[x].ppid = pcb[x].ppid
          /\ pcb'[x].parent = pcb[x].parent /\ pcb'[x].child_pcb = pcb[x].child_pcb
          /\ pcb'[x].pagedir = pcb[x].pagedir
          /\ x # s => pcb'[x].status = pcb[x].status /\ pcb'[x].file_open = pcb[x].file_open
  BY DEF Dies, KeepsFamily, KeepsState
<1>3. \A x \in Slots : Exists(x)' <=> Exists(x)
  BY <1>1, <1>2 DEF Exists
<1>4. \A x \in Slots : \A j \in Tids :
          /\ x # s => thread'[x][j] = thread[x][j]
          /\ thread'[s][j] = IF Live(s, j) THEN Dead ELSE thread[s][j]
  BY DEF Dies, Killed, LifeInv, TypeOK
<1>5. nextPid \in Nat
  BY ProcessAssumption DEF LifeInv, TypeOK
<1>6. PcbsNamed'
  <2>1. ASSUME NEW x \in Slots, ~Exists(x)
        PROVE  pcb'[x].pid = 0 /\ pcb'[x].file_open = NoTable /\ \A j \in Tids : thread'[x][j] = NoThread
    <3>1. x # s
      BY <1>1, <2>1 DEF Exists
    <3>. QED  BY <1>2, <1>4, <2>1, <3>1 DEF LifeInv, PcbsNamed
  <2>. QED  BY <1>1, <1>2, <1>3, <2>1 DEF LifeInv, PcbsNamed
<1>7. ThreadsPlaced'
  <2>. SUFFICES ASSUME NEW x \in Slots
                PROVE  /\ pcb'[x].file_open < nextPid'
                       /\ pcb'[x].status = "ZOMBIE" => pcb'[x].file_open = NoTable
                       /\ \A j \in Tids :
                              /\ Live(x, j)' => pcb'[x].status = "START"
                              /\ thread'[x][j].table # NoTable => At(x, j, "closing")'
                              /\ At(x, j, "closing")' => /\ pcb'[x].file_open = NoTable
                                                         /\ thread'[x][j].table \in 1..nextPid' - 1
                                                         /\ thread'[x][j].arg \in AnyCode
                              /\ At(x, j, "vfork")' => thread'[x][j].arg \in 1..nextPid' - 1
    BY DEF ThreadsPlaced
  <2>1. CASE x = s
    <3>1. 0 < nextPid
      BY ProcessAssumption DEF LifeInv, TypeOK
    <3>2. ASSUME NEW j \in Tids
          PROVE  thread'[s][j].at \in {"none", "dead"} /\ thread'[s][j].table = NoTable
      <4>1. CASE Live(s, j)
        BY <1>4, <4>1 DEF Dead
      <4>2. CASE ~Live(s, j)
        BY <1>4, <4>2 DEF LifeInv, ThreadsPlaced, Live, At
      <4>. QED  BY <4>1, <4>2
    <3>. QED  BY <1>1, <2>1, <3>1, <3>2 DEF Live, At, NoTable
  <2>2. CASE x # s
    BY <1>1, <1>2, <1>4, <2>2 DEF LifeInv, ThreadsPlaced, Live, At
  <2>. QED  BY <2>1, <2>2
<1>8. MessagesTrue'
  <2>1. PICK m \in Message : m.type = "EPID" /\ m.pid = pcb[s].pid /\ Delivers(pcb, pcb', {m})
    BY DEF Dies
  <2>2. True(m)'
    <3>1. Exists(s) /\ pcb[s].pid < nextPid
      BY <1>1, <1>5 DEF Exists, LifeInv, PcbsNamed
    <3>2. \A c \in Slots : Exists(c) /\ pcb[c].pid = pcb[s].pid => c = s
      BY <3>1 DEF LifeInv, PcbsNamed
    <3>. QED  BY <1>1, <1>2, <1>3, <2>1, <3>1, <3>2 DEF True
  <2>3. ASSUME NEW x \in Slots, NEW n \in Elements(pcb[x].ipc_queue)
        PROVE  True(n)'
    <3>1. True(n)
      BY DEF LifeInv, MessagesTrue
    <3>. QED  BY <1>1, <1>2, <1>3, <3>1 DEF True
  <2>. QED  BY <2>1, <2>2, <2>3 DEF MessagesTrue, Delivers
<1>9. Lent'
  <2>. SUFFICES ASSUME deserted' = {}, NEW x \in Slots,
                       pcb'[x].status = "START", pcb'[x].pagedir # pcb'[x].pid
                PROVE  \E t \in Slots : LentBy(t, x)'
    BY DEF Lent
  <2>1. deserted = {} /\ \A j \in Tids : ~At(s, j, "vfork")
    BY <1>1
  <2>2. x # s /\ pcb[x].status = "START" /\ pcb[x].pagedir # pcb[x].pid
    BY <1>1, <1>2
  <2>3. PICK t \in Slots : LentBy(t, x)
    BY <2>1, <2>2 DEF LifeInv, Lent
  <2>4. t # s
    BY <2>1, <2>3 DEF LentBy
  <2>5. LentBy(t, x)'
    BY <1>2, <1>4, <2>3, <2>4 DEF LentBy, At
  <2>. QED  BY <2>5
<1>10. Family'
  BY <1>2, <1>3 DEF LifeInv, Family
<1>. QED  BY <1>6, <1>7, <1>8, <1>9, <1>10

LEMMA DeadTyped ==
    ASSUME LifeInv, NEW s \in Slots
    PROVE  [thread EXCEPT ![s] = Killed(s)] \in [Slots -> [Tids -> Place]]
<1>1. Dead \in Place
  BY ProcessAssumption DEF Dead, Place, NoTable
<1>2. thread \in [Slots -> [Tids -> Place]]
  BY DEF LifeInv, TypeOK
<1>3. Killed(s) \in [Tids -> Place]
  BY <1>1, <1>2 DEF Killed
<1>. QED  BY <1>2, <1>3

(* A table that a dead thread was closing stays torn.                      *)
LEMMA ClosersOfTheDead ==
    ASSUME LifeInv, NEW s \in Slots, NEW k \in Tids, NEW d \in Pids,
           thread' = [thread EXCEPT ![s] = Killed(s)],
           torn' = torn \cup {thread[s][j].table : j \in {i \in Tids \ {k} : At(s, i, "closing")}}
    PROVE  /\ Closers(d)' = Closers(d) \ {s}
           /\ s \in Closers(d) => thread[s][k].table = d \/ d \in torn'
           /\ d \in torn => d \in torn'
<1>1. d # NoTable /\ \A j \in Tids : thread[s][j].table # NoTable => At(s, j, "closing")
  BY DEF LifeInv, ThreadsPlaced, Pids, NoTable
<1>2. \A x \in Slots : \A j \in Tids :
          /\ x # s => thread'[x][j] = thread[x][j]
          /\ thread'[s][j] = IF Live(s, j) THEN Dead ELSE thread[s][j]
  BY DEF Killed, LifeInv, TypeOK
<1>3. \A j \in Tids : thread'[s][j].table # d
  BY <1>1, <1>2 DEF Live, At, Dead, NoTable
<1>4. Closers(d)' = Closers(d) \ {s}
  BY <1>2, <1>3 DEF Closers
<1>5. ASSUME s \in Closers(d), thread[s][k].table # d
      PROVE  d \in torn'
  <2>1. PICK j \in Tids : thread[s][j].table = d
    BY <1>5 DEF Closers
  <2>2. j \in {i \in Tids \ {k} : At(s, i, "closing")}
    BY <1>1, <1>5, <2>1
  <2>. QED  BY <2>1, <2>2
<1>. QED  BY <1>4, <1>5

(* The types after a death.                                                *)
LEMMA DeathTyped ==
    ASSUME LifeInv, NEW s \in Slots, NEW k \in Tids, Dies(s),
           torn' = torn \cup {thread[s][j].table : j \in {i \in Tids \ {k} : At(s, i, "closing")}},
           refs' \in [Pids -> Nat], files' \in [Pids -> 0..1], told' = told
    PROVE  TypeOK'
<1>1. /\ pcb' \in [Slots -> ProcessControlBlock] /\ nextPid' = nextPid
      /\ thread' = [thread EXCEPT ![s] = Killed(s)]
      /\ deserted' = deserted \cup {thread[s][j].arg : j \in {i \in Tids : At(s, i, "vfork")}}
  BY DEF Dies
<1>2. thread' \in [Slots -> [Tids -> Place]]
  BY <1>1, DeadTyped
<1>3. torn' \subseteq Pids
  <2>1. \A j \in Tids : At(s, j, "closing") => thread[s][j].table \in 1..nextPid - 1
    BY DEF LifeInv, ThreadsPlaced
  <2>2. 1..nextPid - 1 \subseteq Pids
    BY ProcessAssumption DEF LifeInv, TypeOK, Pids
  <2>. QED  BY <2>1, <2>2 DEF LifeInv, TypeOK
<1>4. deserted' \subseteq Pids
  <2>1. \A j \in Tids : At(s, j, "vfork") => thread[s][j].arg \in 1..nextPid - 1
    BY DEF LifeInv, ThreadsPlaced
  <2>2. 1..nextPid - 1 \subseteq Pids
    BY ProcessAssumption DEF LifeInv, TypeOK, Pids
  <2>. QED  BY <1>1, <2>1, <2>2 DEF LifeInv, TypeOK
<1>. QED  BY <1>1, <1>2, <1>3, <1>4 DEF LifeInv, TypeOK

(* The group of s is ended and nothing keeps vfs_close waiting.            *)
LEMMA EndKeeps ==
    ASSUME LifeInv, NEW s \in Slots, NEW k \in Tids, NEW c \in AnyCode, At(s, k, "user"),
           BecomeZombie(s, k, Detached(s, c), c),
           refs' = IF pcb[s].file_open = NoTable THEN refs
                   ELSE [refs EXCEPT ![pcb[s].file_open] = @ - 1],
           files' = IF pcb[s].file_open # NoTable /\ refs[pcb[s].file_open] = 1
                    THEN [files EXCEPT ![pcb[s].file_open] = 0] ELSE files,
           nextPid' = nextPid, told' = told
    PROVE  LifeInv' /\ Dies(s) /\ pcb'[s].exit_code = c
<1>. DEFINE d == pcb[s].file_open
            b == Detached(s, c)
<1>1. /\ b \in [Slots -> ProcessControlBlock]
      /\ \A x \in Slots : /\ KeepsFamily(pcb[x], b[x]) /\ b[x].ipc_queue = pcb[x].ipc_queue
                          /\ x # s => KeepsState(pcb[x], b[x])
      /\ b[s].status = pcb[s].status /\ b[s].exit_code = c
      /\ b[s].file_open = NoTable /\ b[s].pagedir = pcb[s].pagedir
  BY DetachedWorks DEF LifeInv
<1>2. pcb[s].status = "START" /\ pcb[s].pid \in Pids
  BY Running DEF Live, At
<1>3. b[s].pid = pcb[s].pid
  BY <1>1 DEF KeepsFamily
<1>. HIDE DEF b
<1>4. /\ pcb' \in [Slots -> ProcessControlBlock]
      /\ \A x \in Slots : /\ KeepsFamily(b[x], pcb'[x])
                          /\ x # s => KeepsState(b[x], pcb'[x])
      /\ pcb'[s].status = "ZOMBIE" /\ pcb'[s].exit_code = b[s].exit_code
      /\ pcb'[s].file_open = b[s].file_open /\ pcb'[s].pagedir = b[s].pagedir
      /\ \E m \in Message : m.type = "EPID" /\ m.pid = b[s].pid /\ Delivers(b, pcb', {m})
      /\ thread' = [thread EXCEPT ![s] = Killed(s)]
      /\ torn' = torn \cup {thread[s][j].table : j \in {i \in Tids \ {k} : At(s, i, "closing")}}
      /\ deserted' = deserted \cup {thread[s][j].arg : j \in {i \in Tids : At(s, i, "vfork")}}
  BY <1>1, <1>2, <1>3, ZombieEffect DEF LifeInv, b
<1>5. Dies(s)
  <2>1. \A x \in Slots : KeepsFamily(pcb[x], pcb'[x]) /\ (x # s => KeepsState(pcb[x], pcb'[x]))
    BY <1>1, <1>4 DEF KeepsFamily, KeepsState
  <2>2. \E m \in Message : m.type = "EPID" /\ m.pid = pcb[s].pid /\ Delivers(pcb, pcb', {m})
    BY <1>1, <1>3, <1>4 DEF Delivers
  <2>. QED  BY <1>1, <1>2, <1>4, <2>1, <2>2 DEF Dies
<1>6. /\ d \in 0..MaxPid /\ refs \in [Pids -> Nat] /\ files \in [Pids -> 0..1] /\ MaxPid \in Nat
      /\ d # NoTable => d \in Pids
  BY SMTT(30), ProcessAssumption DEF LifeInv, TypeOK, ProcessControlBlock, Pids, NoTable
<1>7. \A e \in Pids : /\ refs[e] = Cardinality(Users(e))
                      /\ Users(e) # {} => files[e] = 1 /\ Closers(e) = {}
                      /\ Users(e) = {} => files[e] = 0 \/ Closers(e) # {} \/ e \in torn
  BY DEF LifeInv, Tables
<1>8. \A e \in Pids : IsFiniteSet(Users(e))
  BY ProcessAssumption, FS_Subset DEF Users
<1>9. d # NoTable => refs[d] >= 1 /\ (refs[d] = 1 <=> Users(d) \ {s} = {})
                     /\ Cardinality(Users(d) \ {s}) = refs[d] - 1
  <2>. SUFFICES ASSUME d # NoTable
                PROVE  refs[d] >= 1 /\ (refs[d] = 1 <=> Users(d) \ {s} = {})
                       /\ Cardinality(Users(d) \ {s}) = refs[d] - 1
    OBVIOUS
  <2>1. s \in Users(d) /\ d \in Pids
    BY <1>6 DEF Users
  <2>2. /\ IsFiniteSet(Users(d)) /\ IsFiniteSet(Users(d) \ {s})
        /\ Cardinality(Users(d) \ {s}) = Cardinality(Users(d)) - 1
    BY <1>8, <2>1, FS_RemoveElement
  <2>3. Cardinality(Users(d) \ {s}) \in Nat /\ (Cardinality(Users(d) \ {s}) = 0 <=> Users(d) \ {s} = {})
    BY <2>2, FS_CardinalityType, FS_EmptySet
  <2>. QED  BY <1>6, <1>7, <2>1, <2>2, <2>3
<1>10. \A e \in Pids : Users(e)' = Users(e) \ {s}
  <2>1. \A x \in Slots : x # s => pcb'[x].file_open = pcb[x].file_open
    BY <1>5 DEF Dies, KeepsState
  <2>. QED  BY <1>1, <1>4, <2>1 DEF Users, Pids, NoTable
<1>11. \A e \in Pids : s \in Users(e) <=> e = d
  BY DEF Users
<1>. HIDE DEF d
<1>12. refs' = (IF d = NoTable THEN refs ELSE [refs EXCEPT ![d] = @ - 1])
       /\ files' = (IF d # NoTable /\ refs[d] = 1 THEN [files EXCEPT ![d] = 0] ELSE files)
  BY DEF d
<1>13. refs' \in [Pids -> Nat] /\ files' \in [Pids -> 0..1]
  <2>1. CASE d = NoTable
    BY <1>6, <1>12, <2>1
  <2>2. CASE d # NoTable
    <3>1. refs[d] - 1 \in Nat
      BY <1>6, <1>9, <2>2
    <3>. QED  BY <1>6, <1>12, <2>2, <3>1
  <2>. QED  BY <2>1, <2>2
<1>14. TypeOK'
  BY <1>4, <1>5, <1>13, DeathTyped
<1>15. Tables'
  <2>. SUFFICES ASSUME NEW e \in Pids
                PROVE  /\ refs'[e] = Cardinality(Users(e)')
                       /\ Users(e)' # {} => files'[e] = 1 /\ Closers(e)' = {}
                       /\ Users(e)' = {} => files'[e] = 0 \/ Closers(e)' # {} \/ e \in torn'
    BY DEF Tables
  <2>1. /\ Closers(e)' = Closers(e) \ {s}
        /\ s \in Closers(e) => thread[s][k].table = e \/ e \in torn'
        /\ e \in torn => e \in torn'
    BY <1>4, ClosersOfTheDead
  <2>2. thread[s][k].table # e
    BY DEF LifeInv, ThreadsPlaced, At, Pids, NoTable
  <2>3. CASE e = d
    <3>1. d # NoTable
      BY <2>3 DEF Pids, NoTable
    <3>2. refs'[e] = Cardinality(Users(e)')
      BY <1>6, <1>9, <1>10, <1>12, <2>3, <3>1
    <3>3. files[e] = 1 /\ Closers(e) = {}
      BY <1>7, <1>11, <2>3
    <3>4. files'[e] = IF refs[d] = 1 THEN 0 ELSE 1
      BY <1>6, <1>12, <2>3, <3>1, <3>3
    <3>. QED  BY <1>9, <1>10, <2>1, <2>3, <3>1, <3>2, <3>3, <3>4
  <2>4. CASE e # d
    <3>1. Users(e)' = Users(e)
      BY <1>10, <1>11, <2>4
    <3>2. refs'[e] = refs[e] /\ files'[e] = files[e]
      BY <1>6, <1>12, <2>4
    <3>. QED  BY <1>7, <2>1, <2>2, <3>1, <3>2
  <2>. QED  BY <2>3, <2>4
<1>16. PcbsNamed' /\ ThreadsPlaced' /\ MessagesTrue' /\ Lent' /\ Family'
  BY <1>5, DiesKeeps
<1>. QED  BY <1>1, <1>4, <1>5, <1>14, <1>15, <1>16 DEF LifeInv

(* A closer gets the FAT lock, closes the files and ends the group.        *)
LEMMA CloseKeeps ==
    ASSUME LifeInv, NEW s \in Slots, NEW k \in Tids, CloseDone(s, k)
    PROVE  LifeInv' /\ Dies(s) /\ pcb'[s].exit_code \in AnyCode
<1>. DEFINE d == thread[s][k].table
            c == thread[s][k].arg
<1>1. At(s, k, "closing") /\ BecomeZombie(s, k, pcb, c) /\ files' = [files EXCEPT ![d] = 0]
      /\ nextPid' = nextPid /\ refs' = refs /\ told' = told
  BY DEF CloseDone
<1>2. pcb[s].status = "START" /\ pcb[s].pid \in Pids
  BY <1>1, Running DEF Live, At
<1>3. /\ pcb[s].file_open = NoTable /\ d \in 1..nextPid - 1 /\ c \in AnyCode
      /\ pcb \in [Slots -> ProcessControlBlock]
  BY <1>1 DEF LifeInv, ThreadsPlaced, TypeOK
<1>4. /\ pcb' \in [Slots -> ProcessControlBlock]
      /\ \A x \in Slots : /\ KeepsFamily(pcb[x], pcb'[x])
                          /\ x # s => KeepsState(pcb[x], pcb'[x])
      /\ pcb'[s].status = "ZOMBIE" /\ pcb'[s].exit_code = pcb[s].exit_code
      /\ pcb'[s].file_open = pcb[s].file_open /\ pcb'[s].pagedir = pcb[s].pagedir
      /\ \E m \in Message : m.type = "EPID" /\ m.pid = pcb[s].pid /\ Delivers(pcb, pcb', {m})
      /\ thread' = [thread EXCEPT ![s] = Killed(s)]
      /\ torn' = torn \cup {thread[s][j].table : j \in {i \in Tids \ {k} : At(s, i, "closing")}}
      /\ deserted' = deserted \cup {thread[s][j].arg : j \in {i \in Tids : At(s, i, "vfork")}}
  BY <1>1, <1>2, <1>3, ZombieEffect DEF LifeInv
<1>5. Dies(s)
  BY <1>1, <1>2, <1>3, <1>4 DEF Dies
<1>6. /\ d \in Pids /\ refs \in [Pids -> Nat] /\ files \in [Pids -> 0..1]
      /\ pcb[s].exit_code \in AnyCode
  BY <1>3, ProcessAssumption DEF LifeInv, TypeOK, ProcessControlBlock, Pids
<1>7. TypeOK'
  BY <1>1, <1>4, <1>5, <1>6, DeathTyped
<1>8. Tables'
  <2>. SUFFICES ASSUME NEW e \in Pids
                PROVE  /\ refs'[e] = Cardinality(Users(e)')
                       /\ Users(e)' # {} => files'[e] = 1 /\ Closers(e)' = {}
                       /\ Users(e)' = {} => files'[e] = 0 \/ Closers(e)' # {} \/ e \in torn'
    BY DEF Tables
  <2>1. /\ Closers(e)' = Closers(e) \ {s}
        /\ s \in Closers(e) => d = e \/ e \in torn'
        /\ e \in torn => e \in torn'
    BY <1>4, ClosersOfTheDead
  <2>2. Users(e)' = Users(e)
    <3>1. \A x \in Slots : pcb'[x].file_open = pcb[x].file_open
      BY <1>4 DEF KeepsState
    <3>. QED  BY <3>1 DEF Users
  <2>3. /\ refs[e] = Cardinality(Users(e))
        /\ Users(e) # {} => files[e] = 1 /\ Closers(e) = {}
        /\ Users(e) = {} => files[e] = 0 \/ Closers(e) # {} \/ e \in torn
    BY DEF LifeInv, Tables
  <2>4. s \in Closers(d)
    BY DEF Closers
  <2>5. e # d => files'[e] = files[e]
    BY <1>1, <1>6
  <2>6. e = d => files'[e] = 0 /\ Users(e) = {}
    BY <1>1, <1>6, <2>3, <2>4
  <2>. HIDE DEF d
  <2>. QED  BY <1>1, <2>1, <2>2, <2>3, <2>5, <2>6
<1>9. PcbsNamed' /\ ThreadsPlaced' /\ MessagesTrue' /\ Lent' /\ Family'
  BY <1>5, DiesKeeps
<1>. QED  BY <1>4, <1>5, <1>6, <1>7, <1>8, <1>9 DEF LifeInv

(* The last user of a table forgets it and waits for the FAT lock.         *)
LEMMA StartCloseKeeps ==
    ASSUME LifeInv, NEW s \in Slots, NEW k \in Tids, NEW c \in AnyCode, At(s, k, "user"),
           pcb[s].file_open # NoTable, refs[pcb[s].file_open] = 1,
           pcb' = Detached(s, c),
           thread' = [thread EXCEPT ![s][k] = Closing(c, pcb[s].file_open)],
           refs' = [refs EXCEPT ![pcb[s].file_open] = @ - 1],
           UNCHANGED <<nextPid, files, told, torn, deserted>>
    PROVE  LifeInv'
<1>. DEFINE d == pcb[s].file_open
            p == Closing(c, d)
<1>1. /\ pcb' \in [Slots -> ProcessControlBlock]
      /\ \A x \in Slots : /\ KeepsFamily(pcb[x], pcb'[x]) /\ pcb'[x].ipc_queue = pcb[x].ipc_queue
                          /\ x # s => KeepsState(pcb[x], pcb'[x])
      /\ pcb'[s].status = pcb[s].status /\ pcb'[s].exit_code = c
      /\ pcb'[s].file_open = NoTable /\ pcb'[s].pagedir = pcb[s].pagedir
  BY DetachedWorks DEF LifeInv
<1>2. \A x \in Slots :
          /\ pcb'[x].pid = pcb[x].pid /\ pcb'[x].ppid = pcb[x].ppid
          /\ pcb'[x].parent = pcb[x].parent /\ pcb'[x].child_pcb = pcb[x].child_pcb
          /\ pcb'[x].status = pcb[x].status
          /\ pcb'[x].pagedir = pcb[x].pagedir /\ pcb'[x].ipc_queue = pcb[x].ipc_queue
          /\ x # s => pcb'[x].file_open = pcb[x].file_open
  BY <1>1 DEF KeepsFamily, KeepsState
<1>3. pcb[s].status = "START" /\ pcb[s].pid \in Pids
  BY Running DEF Live, At
<1>4. /\ d \in Pids /\ d < nextPid /\ MaxPid \in Nat /\ nextPid \in Nat /\ d \in Nat
      /\ refs \in [Pids -> Nat] /\ files \in [Pids -> 0..1]
      /\ thread \in [Slots -> [Tids -> Place]]
  <2>1. /\ refs \in [Pids -> Nat] /\ files \in [Pids -> 0..1] /\ thread \in [Slots -> [Tids -> Place]]
        /\ MaxPid \in Nat /\ nextPid \in Nat
    BY ProcessAssumption DEF LifeInv, TypeOK
  <2>2. d \in 0..MaxPid /\ d # 0
    BY DEF LifeInv, TypeOK, ProcessControlBlock, NoTable
  <2>3. d < nextPid
    BY DEF LifeInv, ThreadsPlaced
  <2>. QED  BY <2>1, <2>2, <2>3 DEF Pids
<1>5. p \in Place /\ p.at = "closing" /\ p.arg = c /\ p.table = d
  <2>1. c \in Nat
    BY ProcessAssumption DEF AnyCode
  <2>2. d \in 0..MaxPid
    BY <1>4 DEF Pids
  <2>. QED  BY <2>1, <2>2 DEF Closing, Place
<1>. HIDE DEF p
<1>6. /\ thread' \in [Slots -> [Tids -> Place]]
      /\ \A x \in Slots : \A j \in Tids :
             thread'[x][j] = IF x = s /\ j = k THEN p ELSE thread[x][j]
  BY <1>4, <1>5 DEF p
<1>7. \A e \in Pids : /\ refs[e] = Cardinality(Users(e))
                      /\ Users(e) # {} => files[e] = 1 /\ Closers(e) = {}
                      /\ Users(e) = {} => files[e] = 0 \/ Closers(e) # {} \/ e \in torn
  BY DEF LifeInv, Tables
<1>8. \A e \in Pids : Users(e)' = Users(e) \ {s}
  BY <1>1, <1>2 DEF Users, Pids, NoTable
<1>9. \A e \in Pids : s \in Users(e) <=> e = d
  BY DEF Users
<1>10. Users(d) \ {s} = {}
  <2>1. IsFiniteSet(Users(d))
    BY ProcessAssumption, FS_Subset DEF Users
  <2>2. s \in Users(d) /\ Cardinality(Users(d)) = 1
    BY <1>4, <1>7, <1>9
  <2>. HIDE DEF d
  <2>3. IsFiniteSet(Users(d) \ {s}) /\ Cardinality(Users(d) \ {s}) = 0
    BY <2>1, <2>2, FS_RemoveElement
  <2>. QED  BY <2>3, FS_EmptySet
<1>11. /\ nextPid' = nextPid /\ files' = files /\ torn' = torn /\ deserted' = deserted
       /\ told' = told /\ refs' = [refs EXCEPT ![d] = @ - 1] /\ refs[d] = 1 /\ d # NoTable
  OBVIOUS
<1>. HIDE DEF d
<1>12. TypeOK'
  BY <1>1, <1>4, <1>6, <1>11 DEF LifeInv, TypeOK
<1>13. \A x \in Slots : Exists(x)' <=> Exists(x)
  BY <1>2 DEF Exists
<1>14. PcbsNamed'
  <2>1. ASSUME NEW x \in Slots, ~Exists(x)
        PROVE  pcb'[x].pid = 0 /\ pcb'[x].file_open = NoTable /\ \A j \in Tids : thread'[x][j] = NoThread
    <3>1. x # s
      BY <1>3, <2>1 DEF Exists
    <3>. QED  BY <1>2, <1>6, <2>1, <3>1 DEF LifeInv, PcbsNamed
  <2>. QED  BY <1>2, <1>11, <1>13, <2>1 DEF LifeInv, PcbsNamed
<1>15. ThreadsPlaced'
  <2>1. ASSUME NEW x \in Slots
        PROVE  pcb'[x].file_open < nextPid' /\ (pcb'[x].status = "ZOMBIE" => pcb'[x].file_open = NoTable)
    BY <1>1, <1>2, <1>4, <1>11 DEF LifeInv, ThreadsPlaced, NoTable
  <2>2. ASSUME NEW x \in Slots, NEW j \in Tids
        PROVE  /\ Live(x, j)' => pcb'[x].status = "START"
               /\ thread'[x][j].table # NoTable => At(x, j, "closing")'
               /\ At(x, j, "closing")' => /\ pcb'[x].file_open = NoTable
                                          /\ thread'[x][j].table \in 1..nextPid' - 1
                                          /\ thread'[x][j].arg \in AnyCode
               /\ At(x, j, "vfork")' => thread'[x][j].arg \in 1..nextPid' - 1
    <3>1. CASE x = s /\ j = k
      <4>1. d \in 1..nextPid - 1
        BY <1>4 DEF Pids
      <4>. QED  BY <1>1, <1>3, <1>5, <1>6, <1>11, <3>1, <4>1 DEF At, Live
    <3>2. CASE ~(x = s /\ j = k)
      <4>1. thread'[x][j] = thread[x][j]
        BY <1>6, <3>2
      <4>2. pcb[x].file_open = NoTable => pcb'[x].file_open = NoTable
        BY <1>1, <1>2
      <4>. QED  BY <1>2, <1>11, <4>1, <4>2 DEF LifeInv, ThreadsPlaced, At, Live
    <3>. QED  BY <3>1, <3>2
  <2>. QED  BY <2>1, <2>2 DEF ThreadsPlaced
<1>16. MessagesTrue'
  <2>1. ASSUME NEW x \in Slots, NEW m \in Elements(pcb[x].ipc_queue)
        PROVE  True(m)'
    <3>1. True(m)
      BY DEF LifeInv, MessagesTrue
    <3>. QED  BY <1>2, <1>11, <1>13, <3>1 DEF True
  <2>. QED  BY <1>2, <2>1 DEF MessagesTrue
<1>17. Lent'
  <2>. SUFFICES ASSUME deserted = {}, NEW x \in Slots,
                       pcb[x].status = "START", pcb[x].pagedir # pcb[x].pid
                PROVE  \E t \in Slots : LentBy(t, x)'
    BY <1>2, <1>11 DEF Lent
  <2>1. PICK t \in Slots : LentBy(t, x)
    BY DEF LifeInv, Lent
  <2>2. PICK j \in Tids : At(t, j, "vfork") /\ thread[t][j].arg = pcb[x].pid
    BY <2>1 DEF LentBy
  <2>3. thread'[t][j] = thread[t][j]
    BY <1>6, <2>2 DEF At
  <2>. QED  BY <1>2, <2>1, <2>2, <2>3 DEF LentBy, At
<1>18. Family'
  BY <1>2, <1>13 DEF LifeInv, Family
<1>19. Tables'
  <2>. SUFFICES ASSUME NEW e \in Pids
                PROVE  /\ refs'[e] = Cardinality(Users(e)')
                       /\ Users(e)' # {} => files'[e] = 1 /\ Closers(e)' = {}
                       /\ Users(e)' = {} => files'[e] = 0 \/ Closers(e)' # {} \/ e \in torn'
    BY DEF Tables
  <2>1. CASE e = d
    <3>1. s \in Closers(e)'
      BY <1>5, <1>6, <2>1 DEF Closers
    <3>2. refs'[e] = 0 /\ Users(e)' = {}
      BY <1>4, <1>8, <1>10, <1>11, <2>1
    <3>. QED  BY <3>1, <3>2, FS_EmptySet
  <2>2. CASE e # d
    <3>1. Users(e)' = Users(e)
      BY <1>8, <1>9, <2>2
    <3>2. refs'[e] = refs[e]
      BY <1>4, <1>11, <2>2
    <3>3. thread[s][k].table # e
      BY DEF LifeInv, ThreadsPlaced, At, Pids, NoTable
    <3>4. Closers(e)' = Closers(e)
      BY <1>5, <1>6, <2>2, <3>3 DEF Closers
    <3>. QED  BY <1>7, <1>11, <3>1, <3>2, <3>4
  <2>. QED  BY <2>1, <2>2
<1>. QED  BY <1>12, <1>14, <1>15, <1>16, <1>17, <1>18, <1>19 DEF LifeInv

----------------------------------------------------------------------------
(* What a step does to the lives of the processes.                          *)

Unheard ==
    /\ \A x \in Slots :
           /\ pcb'[x].pid = pcb[x].pid /\ pcb'[x].ppid = pcb[x].ppid
           /\ pcb'[x].status = pcb[x].status
           /\ pcb[x].status = "ZOMBIE" => pcb'[x].exit_code = pcb[x].exit_code
    /\ nextPid' = nextPid /\ told' = told

Born(s, n) ==
    /\ pcb[s].status = "START" /\ ~Exists(n)
    /\ \A x \in Slots \ {n} :
           /\ pcb'[x].pid = pcb[x].pid /\ pcb'[x].ppid = pcb[x].ppid
           /\ pcb'[x].status = pcb[x].status
           /\ pcb'[x].exit_code = pcb[x].exit_code
    /\ pcb'[n].pid = nextPid /\ pcb'[n].ppid = pcb[s].pid /\ pcb'[n].status = "START"
    /\ nextPid \in Pids /\ nextPid' = nextPid + 1 /\ told' = told

Ends(s) == Dies(s) /\ pcb'[s].exit_code \in AnyCode /\ told' = told

Collects(s, c) ==
    /\ pcb[s].status = "START" /\ pcb[c].status = "ZOMBIE" /\ pcb[c].ppid = pcb[s].pid
    /\ pcb'[c] = Free
    /\ \A x \in Slots \ {c} :
           /\ pcb'[x].pid = pcb[x].pid /\ pcb'[x].ppid = pcb[x].ppid
           /\ pcb'[x].status = pcb[x].status
           /\ pcb'[x].exit_code = pcb[x].exit_code
    /\ told' = [told EXCEPT ![pcb[c].pid] = [by |-> pcb[s].pid, code |-> pcb[c].exit_code]]
    /\ nextPid' = nextPid

LEMMA QuietUnheard ==
    ASSUME NEW s, NEW k, Quiet(s, k)
    PROVE  Unheard
  BY DEF Quiet, Unheard

LEMMA ExitGroupKeeps ==
    ASSUME LifeInv, NEW s \in Slots, NEW k \in Tids, NEW c \in AnyCode, NEW fatBusy \in BOOLEAN,
           InUser(s, k), ExitGroup(s, k, c, fatBusy)
    PROVE  LifeInv' /\ (Unheard \/ Ends(s))
<1>. DEFINE d == pcb[s].file_open
            lastRef == d # NoTable /\ refs[d] = 1
<1>1. At(s, k, "user") /\ nextPid' = nextPid /\ told' = told
      /\ refs' = (IF d = NoTable THEN refs ELSE [refs EXCEPT ![d] = @ - 1])
  BY DEF InUser, ExitGroup
<1>2. CASE lastRef /\ files[d] > 0 /\ fatBusy
  <2>1. /\ pcb' = Detached(s, c) /\ thread' = [thread EXCEPT ![s][k] = Closing(c, d)]
        /\ UNCHANGED <<nextPid, files, told, torn, deserted>>
        /\ refs' = [refs EXCEPT ![d] = @ - 1]
    BY <1>1, <1>2 DEF ExitGroup, Go
  <2>2. LifeInv'
    BY <1>1, <1>2, <2>1, StartCloseKeeps
  <2>3. pcb[s].status = "START"
    BY <1>1, Running DEF At, Live
  <2>4. Unheard
    BY <2>1, <2>3, DetachedWorks DEF LifeInv, Unheard, KeepsFamily, KeepsState
  <2>. QED  BY <2>2, <2>4
<1>3. CASE ~(lastRef /\ files[d] > 0 /\ fatBusy)
  <2>1. /\ BecomeZombie(s, k, Detached(s, c), c)
        /\ files' = IF lastRef THEN [files EXCEPT ![d] = 0] ELSE files
    BY <1>3 DEF ExitGroup
  <2>2. LifeInv' /\ Dies(s) /\ pcb'[s].exit_code = c
    BY <1>1, <2>1, EndKeeps
  <2>. QED  BY <1>1, <2>2 DEF Ends
<1>. QED  BY <1>2, <1>3

LEMMA ExitKeeps ==
    ASSUME LifeInv, NEW s \in Slots, NEW k \in Tids, NEW c \in Codes[k],
           EndGroup(s, k, c) \/ Exit(s, k, c)
    PROVE  LifeInv' /\ (Unheard \/ Ends(s))
<1>1. c \in AnyCode /\ InUser(s, k)
  BY DEF AnyCode, EndGroup, Exit
<1>2. CASE \E fatBusy \in BOOLEAN : ExitGroup(s, k, c, fatBusy)
  BY <1>1, <1>2, ExitGroupKeeps
<1>3. CASE Go(s, k, Dead) /\ UNCHANGED <<pcb, nextPid, fdVars, history>>
  <2>1. pcb[s].status = "START" /\ ~At(s, k, "closing") /\ ~At(s, k, "vfork")
    BY <1>1, Running DEF InUser, At, Live
  <2>2. Dead \in Place /\ Dead.at = "dead" /\ Dead.table = NoTable
    BY ProcessAssumption DEF Dead, Place, NoTable
  <2>3. \E M \in SUBSET Message : Delivers(pcb, pcb', M) /\ \A m \in M : True(m)'
    <3>1. {} \in SUBSET Message /\ Delivers(pcb, pcb', {})
      BY <1>3 DEF Delivers
    <3>. QED  BY <3>1
  <2>4. pcb' \in [Slots -> ProcessControlBlock]
    BY <1>3 DEF LifeInv, TypeOK
  <2>5. Quiet(s, k)
    BY <1>3, <2>1, <2>2, <2>3, <2>4 DEF Quiet, Go, fdVars, history
  <2>. QED  BY <2>5, QuietKeeps, QuietUnheard
<1>. QED  BY <1>2, <1>3 DEF EndGroup, Exit

LEMMA ReapKeeps ==
    ASSUME LifeInv, NEW s \in Slots, NEW k \in Tids,
           Live(s, k), ~At(s, k, "closing"), ~At(s, k, "vfork"),
           NEW c \in Elements(pcb[s].child_pcb), pcb[c].status = "ZOMBIE",
           NEW q \in Seq(Message), Elements(q) \subseteq Elements(pcb[s].ipc_queue),
           Reap(s, k, c, q, pcb[c].exit_code),
           UNCHANGED <<nextPid, refs, files>>
    PROVE  LifeInv' /\ Collects(s, c)
<1>1. /\ pcb[s].status = "START" /\ Exists(s) /\ pcb[s].pid \in Pids
      /\ pcb[s].pid < nextPid /\ pcb[s].ppid < pcb[s].pid
  BY Running
<1>2. /\ c \in Slots /\ Exists(c) /\ pcb[c].ppid = pcb[s].pid
      /\ Distinct(pcb[s].child_pcb)
  BY <1>1 DEF LifeInv, Family
<1>3. c # s
  BY <1>1
<1>4. /\ pcb' \in [Slots -> ProcessControlBlock]
      /\ pcb'[c] = Free
      /\ \A x \in Slots \ {s, c} : pcb'[x] = pcb[x]
      /\ KeepsState(pcb[s], pcb'[s])
      /\ pcb'[s].pid = pcb[s].pid /\ pcb'[s].ppid = pcb[s].ppid
      /\ pcb'[s].parent = pcb[s].parent
      /\ Elements(pcb'[s].child_pcb) = Elements(pcb[s].child_pcb) \ {c}
      /\ Distinct(pcb'[s].child_pcb)
      /\ Elements(pcb'[s].ipc_queue) \subseteq Elements(pcb[s].ipc_queue)
  BY <1>2, <1>3, ReapEffect DEF LifeInv
<1>5. /\ thread' = [thread EXCEPT ![c] = [j \in Tids |-> NoThread], ![s][k] = AtUser]
      /\ told' = [told EXCEPT ![pcb[c].pid] = [by |-> pcb[s].pid, code |-> pcb[c].exit_code]]
      /\ UNCHANGED <<nextPid, refs, files, torn, deserted>>
  BY DEF Reap
<1>6. \A x \in Slots : x # c =>
          /\ pcb'[x].pid = pcb[x].pid /\ pcb'[x].ppid = pcb[x].ppid /\ pcb'[x].parent = pcb[x].parent
          /\ pcb'[x].status = pcb[x].status /\ pcb'[x].exit_code = pcb[x].exit_code
          /\ pcb'[x].file_open = pcb[x].file_open /\ pcb'[x].pagedir = pcb[x].pagedir
          /\ Elements(pcb'[x].ipc_queue) \subseteq Elements(pcb[x].ipc_queue)
          /\ x # s => pcb'[x].child_pcb = pcb[x].child_pcb
  BY <1>4 DEF KeepsState
<1>7. /\ pcb'[c].pid = 0 /\ pcb'[c].status = "FREE" /\ pcb'[c].file_open = NoTable
      /\ pcb'[c].ipc_queue = <<>>
  BY <1>4 DEF Free
<1>8. /\ thread \in [Slots -> [Tids -> Place]] /\ AtUser \in Place /\ NoThread \in Place
      /\ AtUser.table = NoTable /\ NoThread.table = NoTable /\ AtUser.at = "user"
      /\ NoThread.at = "none"
  BY ProcessAssumption DEF LifeInv, TypeOK, AtUser, NoThread, Place, NoTable
<1>9. /\ thread' \in [Slots -> [Tids -> Place]]
      /\ \A x \in Slots : \A j \in Tids : thread'[x][j] =
             IF x = c THEN NoThread
             ELSE IF x = s /\ j = k THEN AtUser ELSE thread[x][j]
  <2>1. [j \in Tids |-> NoThread] \in [Tids -> Place]
    BY <1>8
  <2>. HIDE DEF AtUser, NoThread
  <2>. QED  BY <1>2, <1>3, <1>5, <1>8, <2>1
<1>10. nextPid \in Nat /\ pcb[c].pid \in Pids /\ pcb[c].file_open = NoTable
  <2>1. pcb[c].pid \in 1..nextPid - 1 /\ pcb[c].file_open = NoTable /\ nextPid \in 1..MaxPid + 1
    BY <1>2 DEF LifeInv, PcbsNamed, ThreadsPlaced, TypeOK
  <2>. QED  BY <2>1, ProcessAssumption DEF Pids
<1>11. Collects(s, c)
  BY <1>1, <1>2, <1>4, <1>5, <1>6 DEF Collects
<1>12. \A j \in Tids : thread[c][j].table = NoTable /\ ~At(c, j, "vfork")
  BY <1>2 DEF LifeInv, ThreadsPlaced, Live, At
<1>13. TypeOK'
  <2>1. told' \in [Pids -> [by : 0..MaxPid, code : AnyCode]]
    <3>1. /\ told \in [Pids -> [by : 0..MaxPid, code : AnyCode]]
          /\ pcb[s].pid \in 0..MaxPid /\ pcb[c].exit_code \in AnyCode
      BY <1>2 DEF LifeInv, TypeOK, ProcessControlBlock
    <3>. QED  BY <1>5, <3>1
  <2>. QED  BY <1>4, <1>5, <1>9, <2>1 DEF LifeInv, TypeOK
<1>14. PcbsNamed'
  <2>1. ASSUME NEW x \in Slots, ~Exists(x)'
        PROVE  pcb'[x].pid = 0 /\ pcb'[x].file_open = NoTable /\ \A j \in Tids : thread'[x][j] = NoThread
    <3>1. CASE x = c
      BY <1>7, <1>9, <3>1
    <3>2. CASE x # c
      <4>1. ~Exists(x) /\ x # s
        BY <1>1, <1>6, <2>1, <3>2 DEF Exists
      <4>. QED  BY SMTT(30), <1>6, <1>9, <3>2, <4>1 DEF LifeInv, PcbsNamed
    <3>. QED  BY <3>1, <3>2
  <2>2. \A x \in Slots : Exists(x)' => x # c /\ Exists(x)
    BY <1>6, <1>7 DEF Exists
  <2>. QED  BY <1>5, <1>6, <2>1, <2>2 DEF LifeInv, PcbsNamed
<1>15. ThreadsPlaced'
  <2>1. ASSUME NEW x \in Slots
        PROVE  pcb'[x].file_open < nextPid' /\ (pcb'[x].status = "ZOMBIE" => pcb'[x].file_open = NoTable)
    <3>1. 0 < nextPid
      BY ProcessAssumption DEF LifeInv, TypeOK
    <3>. QED  BY <1>5, <1>6, <1>7, <3>1 DEF LifeInv, ThreadsPlaced, NoTable
  <2>2. ASSUME NEW x \in Slots, NEW j \in Tids
        PROVE  /\ Live(x, j)' => pcb'[x].status = "START"
               /\ thread'[x][j].table # NoTable => At(x, j, "closing")'
               /\ At(x, j, "closing")' => /\ pcb'[x].file_open = NoTable
                                          /\ thread'[x][j].table \in 1..nextPid' - 1
                                          /\ thread'[x][j].arg \in AnyCode
               /\ At(x, j, "vfork")' => thread'[x][j].arg \in 1..nextPid' - 1
    <3>1. CASE x = c
      BY <1>8, <1>9, <3>1 DEF Live, At
    <3>2. CASE x = s /\ j = k
      BY <1>1, <1>3, <1>6, <1>8, <1>9, <3>2 DEF Live, At
    <3>3. CASE x # c /\ ~(x = s /\ j = k)
      <4>1. thread'[x][j] = thread[x][j]
        BY <1>9, <3>3
      <4>. QED  BY <1>5, <1>6, <3>3, <4>1 DEF LifeInv, ThreadsPlaced, Live, At
    <3>. QED  BY <3>1, <3>2, <3>3
  <2>. QED  BY <2>1, <2>2 DEF ThreadsPlaced
<1>16. MessagesTrue'
  <2>1. ASSUME NEW x \in Slots, NEW m \in Elements(pcb[x].ipc_queue)
        PROVE  True(m)'
    <3>1. True(m)
      BY DEF LifeInv, MessagesTrue
    <3>2. \A y \in Slots : Exists(y)' => y # c /\ Exists(y)
      BY <1>6, <1>7 DEF Exists
    <3>. QED  BY <1>5, <1>6, <3>1, <3>2 DEF True
  <2>2. \A x \in Slots : Elements(pcb'[x].ipc_queue) \subseteq Elements(pcb[x].ipc_queue)
    BY <1>6, <1>7, Empty
  <2>. QED  BY <2>1, <2>2 DEF MessagesTrue
<1>17. Lent'
  <2>. SUFFICES ASSUME deserted = {}, NEW x \in Slots,
                       pcb'[x].status = "START", pcb'[x].pagedir # pcb'[x].pid
                PROVE  \E t \in Slots : LentBy(t, x)'
    BY <1>5 DEF Lent
  <2>1. x # c /\ pcb[x].status = "START" /\ pcb[x].pagedir # pcb[x].pid
    BY <1>6, <1>7
  <2>2. PICK t \in Slots : LentBy(t, x)
    BY <2>1 DEF LifeInv, Lent
  <2>3. PICK j \in Tids : At(t, j, "vfork") /\ thread[t][j].arg = pcb[x].pid
    BY <2>2 DEF LentBy
  <2>4. t # c /\ ~(t = s /\ j = k)
    BY <1>12, <2>3
  <2>5. thread'[t][j] = thread[t][j]
    BY <1>9, <2>4
  <2>. QED  BY <1>6, <2>1, <2>2, <2>3, <2>4, <2>5 DEF LentBy, At
<1>18. Family'
  <2>. SUFFICES ASSUME NEW x \in Slots, Exists(x)'
                PROVE  /\ Distinct(pcb'[x].child_pcb)
                       /\ Elements(pcb'[x].child_pcb) =
                              {y \in Slots : Exists(y)' /\ pcb'[y].ppid = pcb'[x].pid}
                       /\ \A y \in Elements(pcb'[x].child_pcb) : pcb'[y].parent = x
    BY DEF Family
  <2>1. \A y \in Slots : Exists(y)' <=> y # c /\ Exists(y)
    BY <1>6, <1>7 DEF Exists
  <2>2. /\ Distinct(pcb[x].child_pcb)
        /\ Elements(pcb[x].child_pcb) = {y \in Slots : Exists(y) /\ pcb[y].ppid = pcb[x].pid}
        /\ \A y \in Elements(pcb[x].child_pcb) : pcb[y].parent = x
    BY <2>1 DEF LifeInv, Family
  <2>3. {y \in Slots : Exists(y)' /\ pcb'[y].ppid = pcb'[x].pid}
            = Elements(pcb[x].child_pcb) \ {c}
    BY <1>6, <2>1, <2>2
  <2>4. CASE x = s
    BY <1>4, <1>6, <2>2, <2>3, <2>4
  <2>5. CASE x # s
    <3>1. pcb'[x].child_pcb = pcb[x].child_pcb
      BY <1>6, <2>1, <2>5
    <3>2. c \notin Elements(pcb[x].child_pcb)
      BY <1>1, <1>2, <2>1, <2>2, <2>5 DEF LifeInv, PcbsNamed
    <3>. QED  BY <1>6, <2>2, <2>3, <3>1, <3>2
  <2>. QED  BY <2>4, <2>5
<1>19. Tables'
  <2>. SUFFICES ASSUME NEW d \in Pids
                PROVE  Users(d)' = Users(d) /\ Closers(d)' = Closers(d)
    BY <1>5 DEF LifeInv, Tables
  <2>1. d # NoTable
    BY DEF Pids, NoTable
  <2>2. \A x \in Slots : pcb'[x].file_open = pcb[x].file_open
    BY <1>6, <1>7, <1>10
  <2>3. \A x \in Slots : \A j \in Tids : thread'[x][j].table = thread[x][j].table
    <3>1. thread[s][k].table = NoTable
      BY DEF LifeInv, ThreadsPlaced
    <3>. QED  BY <1>8, <1>9, <1>12, <3>1
  <2>. QED  BY <2>2, <2>3 DEF Users, Closers
<1>. QED  BY <1>11, <1>13, <1>14, <1>15, <1>16, <1>17, <1>18, <1>19 DEF LifeInv

LEMMA Step ==
    ASSUME LifeInv, Next
    PROVE  /\ LifeInv'
           /\ \/ Unheard
              \/ \E s, n \in Slots : Born(s, n)
              \/ \E s \in Slots : Ends(s)
              \/ \E s, c \in Slots : Collects(s, c)
<1>1. ASSUME NEW s \in Slots, Adopt(s)
      PROVE  LifeInv' /\ Unheard
  <2>1. PICK k \in Tids : Quiet(s, k)
    BY <1>1, AdoptQuiet
  <2>. QED  BY <2>1, QuietKeeps, QuietUnheard
<1>2. ASSUME NEW s \in Slots, NEW k \in Tids, NEW kind \in {"fork", "vfork", "files"},
             NEW n \in Slots, Fork(s, k, kind, n)
      PROVE  LifeInv' /\ Born(s, n)
  <2>1. LifeInv'
    BY <1>2, ForkKeeps
  <2>2. pcb[s].status = "START" /\ Exists(s)
    BY <1>2, Running DEF Fork, InUser, At, Live
  <2>3. nextPid' = nextPid + 1 /\ told' = told
    BY <1>2 DEF Fork, history
  <2>. QED  BY <1>2, <2>1, <2>2, <2>3, ForkEffect DEF LifeInv, Born, KeepsState
<1>3. ASSUME NEW s \in Slots, NEW k \in Tids,
             \/ \E j \in Tids : Clone(s, k, j)
             \/ Exec(s, k) \/ VforkLook(s, k) \/ WaitFails(s, k)
      PROVE  LifeInv' /\ Unheard
  <2>1. PICK j \in Tids : Quiet(s, j)
    BY <1>3, QuietCalls
  <2>. QED  BY <2>1, QuietKeeps, QuietUnheard
<1>4. ASSUME NEW s \in Slots, NEW k \in Tids, CloseDone(s, k)
      PROVE  LifeInv' /\ Ends(s)
  BY <1>4, CloseKeeps DEF Ends, CloseDone
<1>5. ASSUME NEW s \in Slots, NEW k \in Tids, NEW c \in Codes[k],
             EndGroup(s, k, c) \/ Exit(s, k, c)
      PROVE  LifeInv' /\ (Unheard \/ Ends(s))
  BY <1>5, ExitKeeps
<1>6. ASSUME NEW s \in Slots, NEW k \in Tids,
             \/ \E x \in 0..MaxPid : Wait4(s, k, x)
             \/ WaitLoop(s, k)
      PROVE  LifeInv' /\ (Unheard \/ \E c \in Slots : Collects(s, c))
  <2>1. PICK x \in Nat : Look(s, k, x)
    <3>1. thread[s][k].arg \in Nat /\ 0..MaxPid \subseteq Nat
      BY ProcessAssumption DEF LifeInv, TypeOK, Place
    <3>. QED  BY <1>6, <3>1 DEF Wait4, WaitLoop
  <2>2. Live(s, k) /\ ~At(s, k, "closing") /\ ~At(s, k, "vfork")
    BY <1>6 DEF Wait4, WaitLoop, InUser, At, Live
  <2>3. CASE Quiet(s, k)
    BY <2>3, QuietKeeps, QuietUnheard
  <2>4. ASSUME NEW c \in Elements(pcb[s].child_pcb), pcb[c].status = "ZOMBIE",
               NEW q \in Seq(Message), Elements(q) \subseteq Elements(pcb[s].ipc_queue),
               Reap(s, k, c, q, pcb[c].exit_code), UNCHANGED <<nextPid, refs, files>>
        PROVE  LifeInv' /\ \E y \in Slots : Collects(s, y)
    <3>1. LifeInv' /\ Collects(s, c)
      BY <2>2, <2>4, ReapKeeps
    <3>2. c \in Slots
      <4>1. pcb[s].child_pcb \in Seq(Slots)
        BY DEF LifeInv, TypeOK, ProcessControlBlock
      <4>. QED  BY <4>1, ElementsOf
    <3>. QED  BY <3>1, <3>2
  <2>. QED  BY <2>1, <2>2, <2>3, <2>4, LookEffect
<1>. QED  BY <1>1, <1>2, <1>3, <1>4, <1>5, <1>6 DEF Next

LEMMA Start ==
    ASSUME Init
    PROVE  LifeInv
<1>1. OneThread \in Tids /\ MaxPid \in Nat /\ MaxPid >= 1
  BY ProcessAssumption DEF OneThread
<1>2. PICK s \in Malloc(Slots) :
          /\ pcb = [x \in Slots |-> IF x = s
                    THEN [Free EXCEPT !.pid = 1, !.status = "START", !.file_open = 1, !.pagedir = 1]
                    ELSE Free]
          /\ thread = [x \in Slots |-> IF x = s THEN Started(OneThread)
                                       ELSE [k \in Tids |-> NoThread]]
          /\ nextPid = 2
          /\ refs = [d \in Pids |-> IF d = 1 THEN 1 ELSE 0]
          /\ files = [d \in Pids |-> IF d = 1 THEN 1 ELSE 0]
          /\ told = [p \in Pids |-> NotTold]
          /\ torn = {} /\ deserted = {}
  BY DEF Init
<1>3. s \in Slots
  BY ProcessAssumption
<1>4. Free \in ProcessControlBlock
  <2>1. <<>> \in Seq(Slots) /\ <<>> \in Seq(Message)
    BY EmptySeq
  <2>. QED  BY <2>1, ProcessAssumption DEF Free, ProcessControlBlock, AnyCode, NoTable
<1>5. [Free EXCEPT !.pid = 1, !.status = "START", !.file_open = 1, !.pagedir = 1]
          \in ProcessControlBlock
  <2>1. 1 \in 0..MaxPid
    BY <1>1
  <2>. QED  BY <1>4, <2>1 DEF ProcessControlBlock
<1>6. /\ pcb \in [Slots -> ProcessControlBlock]
      /\ \A x \in Slots : /\ pcb[x].child_pcb = <<>> /\ pcb[x].ipc_queue = <<>> /\ pcb[x].ppid = 0
                          /\ pcb[x].status = IF x = s THEN "START" ELSE "FREE"
                          /\ pcb[x].pid = IF x = s THEN 1 ELSE 0
                          /\ pcb[x].file_open = IF x = s THEN 1 ELSE NoTable
                          /\ pcb[x].pagedir = IF x = s THEN 1 ELSE 0
  BY <1>2, <1>3, <1>4, <1>5 DEF Free
<1>7. /\ AtUser \in Place /\ NoThread \in Place /\ AtUser.table = NoTable /\ NoThread.table = NoTable
      /\ AtUser.at = "user" /\ NoThread.at = "none"
  BY <1>1 DEF AtUser, NoThread, Place, NoTable
<1>8. /\ thread \in [Slots -> [Tids -> Place]]
      /\ \A x \in Slots : \A k \in Tids :
             thread[x][k] = IF x = s /\ k = OneThread THEN AtUser ELSE NoThread
  BY <1>2, <1>3, <1>7 DEF Started
<1>9. TypeOK
  <2>1. nextPid \in 1..MaxPid + 1 /\ refs \in [Pids -> Nat] /\ files \in [Pids -> 0..1]
    BY <1>1, <1>2
  <2>2. NotTold \in [by : 0..MaxPid, code : AnyCode]
    BY <1>1 DEF NotTold, AnyCode
  <2>. QED  BY <1>2, <1>6, <1>8, <2>1, <2>2 DEF TypeOK
<1>10. PcbsNamed
  BY <1>2, <1>6, <1>8 DEF PcbsNamed, Exists
<1>11. ThreadsPlaced
  BY <1>2, <1>6, <1>7, <1>8 DEF ThreadsPlaced, Live, At, NoTable
<1>12. MessagesTrue
  BY <1>6, Empty DEF MessagesTrue
<1>13. Lent
  BY <1>6 DEF Lent
<1>14. Family
  <2>1. \A x \in Slots : Exists(x) => {c \in Slots : Exists(c) /\ pcb[c].ppid = pcb[x].pid} = {}
    BY <1>6 DEF Exists
  <2>. QED  BY <1>6, <2>1, Empty DEF Family
<1>15. Tables
  <2>. SUFFICES ASSUME NEW d \in Pids
                PROVE  /\ refs[d] = Cardinality(Users(d))
                       /\ Users(d) # {} => files[d] = 1 /\ Closers(d) = {}
                       /\ Users(d) = {} => files[d] = 0
    BY DEF Tables
  <2>1. Users(d) = (IF d = 1 THEN {s} ELSE {}) /\ Closers(d) = {}
    BY <1>3, <1>6, <1>7, <1>8 DEF Users, Closers, Pids, NoTable
  <2>2. Cardinality(Users(d)) = IF d = 1 THEN 1 ELSE 0
    BY <2>1, FS_Singleton, FS_EmptySet
  <2>. QED  BY <1>2, <2>1, <2>2
<1>. QED  BY <1>9, <1>10, <1>11, <1>12, <1>13, <1>14, <1>15 DEF LifeInv

LEMMA Stutter ==
    ASSUME LifeInv, UNCHANGED vars
    PROVE  LifeInv'
<1>1. pcb' = pcb /\ thread' = thread /\ nextPid' = nextPid /\ refs' = refs /\ files' = files
      /\ told' = told /\ torn' = torn /\ deserted' = deserted
  BY DEF vars, fdVars, history
<1>2. TypeOK' /\ PcbsNamed' /\ ThreadsPlaced'
  BY <1>1 DEF LifeInv, TypeOK, PcbsNamed, ThreadsPlaced, Exists, Live, At
<1>3. MessagesTrue' /\ Family'
  BY <1>1 DEF LifeInv, MessagesTrue, True, Family, Exists
<1>4. Lent'
  BY <1>1 DEF LifeInv, Lent, LentBy, At
<1>5. Tables'
  BY <1>1 DEF LifeInv, Tables, Users, Closers
<1>. QED  BY <1>2, <1>3, <1>4, <1>5 DEF LifeInv

LEMMA Inductive == Spec => []LifeInv
<1>1. Init => LifeInv
  BY Start
<1>2. LifeInv /\ [Next]_vars => LifeInv'
  BY Step, Stutter
<1>. QED  BY <1>1, <1>2, PTL DEF Spec

----------------------------------------------------------------------------
(* The theorems.                                                            *)

(* Whatever the calls do to PCBs, queues and reference counts, each keeps  *)
(* its type: a table's count never goes below zero.                        *)
THEOREM TypeThm == Spec => []TypeOK
<1>1. LifeInv => TypeOK
  BY DEF LifeInv
<1>. QED  BY <1>1, Inductive, PTL

(* process_fork's list of children and the back pointers agree at all      *)
(* times, although PCBs are freed by wait4 and their memory is used again. *)
THEOREM ChildrenExactThm == Spec => []ChildrenExact
<1>1. LifeInv => ChildrenExact
  BY FamilyIsChildrenExact DEF LifeInv
<1>. QED  BY <1>1, Inductive, PTL

(* fd_table_ref and fd_table_unref count exactly the processes that use a  *)
(* table, and the last to go closes it unless it is killed while it does.  *)
THEOREM TablesAccountedThm == Spec => []TablesAccounted
<1>1. LifeInv => TablesAccounted
  BY TablesIsTablesAccounted DEF LifeInv
<1>. QED  BY <1>1, Inductive, PTL

(* Along a chain of vfork children each lender is older than its borrower, *)
(* so the chain ends at the owner of the page directory, which is alive.   *)
LEMMA LendersAlive ==
    ASSUME LifeInv
    PROVE  BorrowedSpaceAlive
<1>. SUFFICES ASSUME deserted = {}, NEW s \in Slots, pcb[s].status = "START"
              PROVE  \E o \in Slots : pcb[o].pid = pcb[s].pagedir /\ pcb[o].status = "START"
  BY DEF BorrowedSpaceAlive
<1>. DEFINE T == {t \in Slots : pcb[t].status = "START" /\ pcb[t].pagedir = pcb[s].pagedir}
            N == {pcb[t].pid : t \in T}
<1>1. N \in SUBSET (1..MaxPid) /\ N # {} /\ MaxPid \in Nat
  <2>1. \A t \in T : pcb[t].pid \in 1..nextPid - 1 /\ nextPid \in 1..MaxPid + 1
    BY DEF LifeInv, PcbsNamed, TypeOK, Exists
  <2>2. s \in T
    OBVIOUS
  <2>3. \A t \in T : pcb[t].pid \in 1..MaxPid
    BY <2>1, ProcessAssumption
  <2>. HIDE DEF T
  <2>. QED  BY <2>2, <2>3, ProcessAssumption
<1>2. Min(N) \in N /\ \A j \in N : Min(N) <= j
  BY <1>1, Least
<1>3. PICK o \in T : \A t \in T : pcb[o].pid <= pcb[t].pid
  BY <1>2
<1>4. CASE pcb[o].pagedir = pcb[o].pid
  BY <1>3, <1>4
<1>5. CASE pcb[o].pagedir # pcb[o].pid
  <2>1. PICK t \in Slots : LentBy(t, o)
    BY <1>3, <1>5 DEF LifeInv, Lent
  <2>2. t \in T /\ pcb[t].pid = pcb[o].ppid
    BY <2>1 DEF LentBy
  <2>3. pcb[o].ppid < pcb[o].pid /\ pcb[o].ppid \in Nat /\ pcb[o].pid \in Nat
    BY ProcessAssumption DEF LifeInv, TypeOK, ProcessControlBlock, PcbsNamed, Exists
  <2>. QED  BY <1>3, <2>2, <2>3
<1>. QED  BY <1>4, <1>5

(* The memory that process_fork lends to a vfork child stays, unless a     *)
(* sibling ends the group of the parent that waits.                        *)
THEOREM BorrowedSpaceAliveThm == Spec => []BorrowedSpaceAlive
<1>1. LifeInv => BorrowedSpaceAlive
  BY LendersAlive
<1>. QED  BY <1>1, Inductive, PTL

(* Life says of a process what its PCB says, as long as it has one.        *)
LifeReads ==
    /\ \A s \in Slots : Exists(s) =>
           /\ pcb[s].pid \in Pids
           /\ Life[pcb[s].pid] =
                  IF pcb[s].status = "START"
                  THEN [is |-> "alive", by |-> pcb[s].ppid]
                  ELSE [is |-> "ended", by |-> pcb[s].ppid, code |-> pcb[s].exit_code]
    /\ \A p \in Pids : (\A s \in Slots : Exists(s) => pcb[s].pid # p) =>
           Life[p] = IF p < nextPid
                     THEN [is |-> "collected", by |-> told[p].by, code |-> told[p].code]
                     ELSE [is |-> "unborn"]

LEMMA LifeRead == LifeInv => LifeReads
<1>. SUFFICES ASSUME LifeInv
              PROVE  LifeReads
  OBVIOUS
<1>1. \A s \in Slots : ~Exists(s) => pcb[s].pid = 0
  BY DEF LifeInv, PcbsNamed
<1>2. ASSUME NEW s \in Slots, Exists(s)
      PROVE  /\ pcb[s].pid \in Pids
             /\ Life[pcb[s].pid] =
                    IF pcb[s].status = "START"
                    THEN [is |-> "alive", by |-> pcb[s].ppid]
                    ELSE [is |-> "ended", by |-> pcb[s].ppid, code |-> pcb[s].exit_code]
  <2>. DEFINE p == pcb[s].pid
              o == CHOOSE x \in Slots : pcb[x].pid = p
  <2>1. p \in Pids
    BY <1>2, ProcessAssumption DEF LifeInv, PcbsNamed, TypeOK, Pids
  <2>2. o \in Slots /\ pcb[o].pid = p
    OBVIOUS
  <2>3. o = s
    BY <1>1, <1>2, <2>1, <2>2 DEF LifeInv, PcbsNamed, Pids
  <2>. QED  BY <2>1, <2>3 DEF Life
<1>3. ASSUME NEW p \in Pids, \A s \in Slots : Exists(s) => pcb[s].pid # p
      PROVE  Life[p] = IF p < nextPid
                       THEN [is |-> "collected", by |-> told[p].by, code |-> told[p].code]
                       ELSE [is |-> "unborn"]
  <2>1. ~\E s \in Slots : pcb[s].pid = p
    BY <1>1, <1>3 DEF Pids
  <2>. QED  BY <2>1 DEF Life
<1>. QED  BY <1>2, <1>3 DEF LifeReads

LEMMA LifeReadNext == LifeInv' => LifeReads'
  BY LifeRead, PTL

LEMMA ContractStep ==
    ASSUME LifeInv, LifeInv', LifeReads, LifeReads',
           \/ Unheard
           \/ \E s, n \in Slots : Born(s, n)
           \/ \E s \in Slots : Ends(s)
           \/ \E s, c \in Slots : Collects(s, c)
    PROVE  Contract!Next \/ Life' = Life
<1>1. /\ DOMAIN Life = Pids /\ Life = [p \in Pids |-> Life[p]]
      /\ DOMAIN Life' = Pids /\ Life' = [p \in Pids |-> Life'[p]]
  BY DEF Life
<1>2. \A p \in Pids : (\E s \in Slots : Exists(s) /\ pcb[s].pid = p)
                      \/ (\A s \in Slots : Exists(s) => pcb[s].pid # p)
  OBVIOUS
<1>3. \A s \in Slots : Exists(s) => /\ pcb[s].pid \in Pids /\ pcb[s].pid < nextPid
                                    /\ \A t \in Slots : Exists(t) /\ pcb[t].pid = pcb[s].pid => s = t
  BY SMTT(30), ProcessAssumption DEF LifeInv, PcbsNamed, TypeOK, Pids
<1>4. \A s \in Slots : pcb[s].status \in {"FREE", "START", "ZOMBIE"}
  BY DEF LifeInv, TypeOK, ProcessControlBlock
<1>5. \A s \in Slots :
          /\ pcb[s].status = "START" => Life[pcb[s].pid] = [is |-> "alive", by |-> pcb[s].ppid]
          /\ pcb[s].status = "ZOMBIE" =>
                 Life[pcb[s].pid] = [is |-> "ended", by |-> pcb[s].ppid, code |-> pcb[s].exit_code]
  BY DEF LifeReads, Exists
<1>6. \A s \in Slots :
          /\ pcb'[s].status = "START" => Life'[pcb'[s].pid] = [is |-> "alive", by |-> pcb'[s].ppid]
          /\ pcb'[s].status = "ZOMBIE" =>
                 Life'[pcb'[s].pid] = [is |-> "ended", by |-> pcb'[s].ppid, code |-> pcb'[s].exit_code]
  BY DEF LifeReads, Exists
<1>7. \A p \in Pids : (\A s \in Slots : Exists(s) => pcb[s].pid # p) =>
          Life[p] = IF p < nextPid
                    THEN [is |-> "collected", by |-> told[p].by, code |-> told[p].code]
                    ELSE [is |-> "unborn"]
  BY DEF LifeReads
<1>8. \A p \in Pids : (\A s \in Slots : Exists(s)' => pcb'[s].pid # p) =>
          Life'[p] = IF p < nextPid'
                     THEN [is |-> "collected", by |-> told'[p].by, code |-> told'[p].code]
                     ELSE [is |-> "unborn"]
  BY DEF LifeReads
<1>9. /\ \A p, q \in Pids : p # q => [Life EXCEPT ![q] = Life'[q]][p] = Life[p]
      /\ \A q \in Pids : (\A p \in Pids : p # q => Life'[p] = Life[p])
                             => Life' = [Life EXCEPT ![q] = Life'[q]]
  <2>1. ASSUME NEW q \in Pids, \A p \in Pids : p # q => Life'[p] = Life[p]
        PROVE  Life' = [Life EXCEPT ![q] = Life'[q]]
    <3>. DEFINE L == Life
                M == Life'
    <3>1. /\ L = [p \in Pids |-> L[p]] /\ M = [p \in Pids |-> M[p]]
          /\ \A p \in Pids : p # q => M[p] = L[p]
      BY <1>1, <2>1
    <3>. HIDE DEF L, M
    <3>2. M = [L EXCEPT ![q] = M[q]]
      BY <3>1
    <3>. QED  BY <3>2 DEF L, M
  <2>2. ASSUME NEW p \in Pids, NEW q \in Pids, p # q
        PROVE  [Life EXCEPT ![q] = Life'[q]][p] = Life[p]
    BY <1>1, <2>2
  <2>. QED  BY <2>1, <2>2
(* a process that a step does not concern                                  *)
<1>10. ASSUME NEW p \in Pids,
              \A x \in Slots : Exists(x) /\ pcb[x].pid = p =>
                  /\ pcb'[x].pid = pcb[x].pid /\ pcb'[x].ppid = pcb[x].ppid
                  /\ pcb'[x].status = pcb[x].status
                  /\ pcb[x].status = "ZOMBIE" => pcb'[x].exit_code = pcb[x].exit_code,
              (\A x \in Slots : Exists(x) => pcb[x].pid # p) =>
                  /\ \A x \in Slots : Exists(x)' => pcb'[x].pid # p
                  /\ told'[p] = told[p] /\ (p < nextPid' <=> p < nextPid)
       PROVE  Life'[p] = Life[p]
  <2>1. ASSUME NEW s \in Slots, Exists(s), pcb[s].pid = p
        PROVE  Life'[p] = Life[p]
    <3>1. pcb[s].status = "START" \/ pcb[s].status = "ZOMBIE"
      BY <1>4, <2>1 DEF Exists
    <3>2. /\ pcb'[s].pid = p /\ pcb'[s].ppid = pcb[s].ppid /\ pcb'[s].status = pcb[s].status
          /\ pcb[s].status = "ZOMBIE" => pcb'[s].exit_code = pcb[s].exit_code
      BY <1>10, <2>1
    <3>3. CASE pcb[s].status = "START"
      BY <1>5, <1>6, <2>1, <3>2, <3>3
    <3>4. CASE pcb[s].status = "ZOMBIE"
      BY <1>5, <1>6, <2>1, <3>2, <3>4
    <3>. QED  BY <3>1, <3>3, <3>4
  <2>2. ASSUME \A s \in Slots : Exists(s) => pcb[s].pid # p
        PROVE  Life'[p] = Life[p]
    BY <1>7, <1>8, <1>10, <2>2
  <2>. QED  BY <1>2, <2>1, <2>2
<1>11. CASE Unheard
  <2>1. ASSUME NEW p \in Pids
        PROVE  Life'[p] = Life[p]
    <3>1. \A x \in Slots : Exists(x)' => Exists(x) /\ pcb'[x].pid = pcb[x].pid
      BY <1>11 DEF Unheard, Exists
    <3>. QED  BY <1>10, <1>11, <3>1 DEF Unheard
  <2>. QED  BY <1>1, <2>1
<1>12. ASSUME NEW s \in Slots, NEW n \in Slots, Born(s, n)
       PROVE  Contract!Next
  <2>1. /\ nextPid \in Pids /\ \A x \in Slots : Exists(x) => pcb[x].pid # nextPid
        /\ nextPid \in Nat /\ nextPid' = nextPid + 1
    BY <1>3, <1>12, ProcessAssumption DEF Born, LifeInv, TypeOK
  <2>2. /\ Life[pcb[s].pid] = [is |-> "alive", by |-> pcb[s].ppid] /\ pcb[s].pid \in Pids
        /\ Life[nextPid] = [is |-> "unborn"]
    <3>1. Life[nextPid] = [is |-> "unborn"]
      <4>1. ~(nextPid < nextPid)
        BY <2>1
      <4>2. Life[nextPid] = IF nextPid < nextPid
                            THEN [is |-> "collected", by |-> told[nextPid].by, code |-> told[nextPid].code]
                            ELSE [is |-> "unborn"]
        BY <1>7, <2>1, Zenon
      <4>. QED  BY <4>1, <4>2
    <3>2. pcb[s].status = "START"
      BY <1>12 DEF Born
    <3>. QED  BY <1>3, <1>5, <3>1, <3>2 DEF Exists
  <2>3. Life'[nextPid] = [is |-> "alive", by |-> pcb[s].pid]
    BY <1>6, <1>12 DEF Born
  <2>4. ASSUME NEW p \in Pids, p # nextPid
        PROVE  Life'[p] = Life[p]
    <3>1. p < nextPid' <=> p < nextPid
      BY <2>1, <2>4 DEF Pids
    <3>2. \A x \in Slots : x # n => (Exists(x)' <=> Exists(x)) /\ pcb'[x].pid = pcb[x].pid
      BY <1>12 DEF Born, Exists
    <3>3. pcb'[n].pid # p /\ ~Exists(n) /\ told' = told
      BY <1>12, <2>4 DEF Born
    <3>. QED  BY <1>10, <1>12, <3>1, <3>2, <3>3 DEF Born
  <2>5. Life' = [Life EXCEPT ![nextPid] = [is |-> "alive", by |-> pcb[s].pid]]
    BY <1>9, <2>1, <2>3, <2>4
  <2>6. Contract!Fork(pcb[s].pid, nextPid)
    BY <2>2, <2>5 DEF Contract!Fork, Contract!Alive, Contract!Unborn
  <2>. QED  BY <2>1, <2>2, <2>6 DEF Contract!Next
<1>13. ASSUME NEW s \in Slots, Ends(s)
       PROVE  Contract!Next
  <2>1. /\ pcb[s].status = "START" /\ pcb'[s].status = "ZOMBIE" /\ pcb'[s].exit_code \in AnyCode
        /\ told' = told /\ nextPid' = nextPid
        /\ \A x \in Slots : pcb'[x].pid = pcb[x].pid /\ pcb'[x].ppid = pcb[x].ppid
        /\ \A x \in Slots : x # s => /\ pcb'[x].status = pcb[x].status
                                     /\ pcb'[x].exit_code = pcb[x].exit_code
    BY <1>13 DEF Ends, Dies, KeepsFamily, KeepsState
  <2>. DEFINE q == pcb[s].pid
              c == pcb'[s].exit_code
  <2>2. q \in Pids /\ \A t \in Slots : Exists(t) /\ pcb[t].pid = q => t = s
    BY <1>3, <2>1 DEF Exists
  <2>3. Life[q] = [is |-> "alive", by |-> pcb[s].ppid]
    BY <1>5, <2>1
  <2>4. Life'[q] = [is |-> "ended", by |-> pcb[s].ppid, code |-> c]
    BY <1>6, <2>1
  <2>5. ASSUME NEW p \in Pids, p # q
        PROVE  Life'[p] = Life[p]
    <3>1. \A x \in Slots : Exists(x)' <=> Exists(x)
      BY <2>1 DEF Exists
    <3>. QED  BY <1>10, <2>1, <2>5, <3>1
  <2>6. Life' = [Life EXCEPT ![q] = [is |-> "ended", by |-> Life[q].by, code |-> c]]
    BY <1>9, <2>2, <2>3, <2>4, <2>5
  <2>7. Contract!End(q, c)
    BY <2>3, <2>6 DEF Contract!End, Contract!Ended
  <2>. QED  BY <2>1, <2>2, <2>7 DEF Contract!Next
<1>14. ASSUME NEW s \in Slots, NEW c \in Slots, Collects(s, c)
       PROVE  Contract!Next
  <2>. DEFINE p == pcb[s].pid
              q == pcb[c].pid
              code == pcb[c].exit_code
  <2>1. /\ pcb[s].status = "START" /\ pcb[c].status = "ZOMBIE" /\ pcb[c].ppid = p
        /\ pcb'[c].status = "FREE"
        /\ \A x \in Slots : x # c => /\ pcb'[x].pid = pcb[x].pid /\ pcb'[x].ppid = pcb[x].ppid
                                     /\ pcb'[x].status = pcb[x].status
                                     /\ pcb'[x].exit_code = pcb[x].exit_code
        /\ told' = [told EXCEPT ![q] = [by |-> p, code |-> code]] /\ nextPid' = nextPid
    BY <1>14 DEF Collects, Free
  <2>2. /\ p \in Pids /\ q \in Pids /\ q < nextPid
        /\ \A t \in Slots : Exists(t) /\ pcb[t].pid = q => t = c
    BY <1>3, <2>1 DEF Exists
  <2>3. Life[p] = [is |-> "alive", by |-> pcb[s].ppid] /\ Life[q] = [is |-> "ended", by |-> p, code |-> code]
    BY <1>5, <2>1
  <2>4. \A x \in Slots : Exists(x)' => x # c /\ Exists(x) /\ pcb'[x].pid = pcb[x].pid
    BY <2>1 DEF Exists
  <2>5. told \in [Pids -> [by : 0..MaxPid, code : AnyCode]]
    BY DEF LifeInv, TypeOK
  <2>6. Life'[q] = [is |-> "collected", by |-> p, code |-> code]
    <3>1. \A x \in Slots : Exists(x)' => pcb'[x].pid # q
      BY <2>2, <2>4
    <3>2. told'[q] = [by |-> p, code |-> code] /\ q < nextPid'
      BY <2>1, <2>2, <2>5
    <3>. QED  BY <1>8, <2>2, <3>1, <3>2
  <2>7. ASSUME NEW r \in Pids, r # q
        PROVE  Life'[r] = Life[r]
    <3>1. told'[r] = told[r] /\ nextPid' = nextPid
      BY <2>1, <2>5, <2>7
    <3>2. \A x \in Slots : Exists(x) /\ pcb[x].pid = r => x # c
      BY <2>7
    <3>. QED  BY <1>10, <2>1, <2>4, <3>1, <3>2
  <2>8. Life' = [Life EXCEPT ![q] = [is |-> "collected", by |-> p, code |-> Life[q].code]]
    BY <1>9, <2>2, <2>3, <2>6, <2>7
  <2>9. Contract!Collect(p, q)
    BY <2>3, <2>8 DEF Contract!Collect, Contract!Collected
  <2>. QED  BY <2>2, <2>9 DEF Contract!Next
<1>. QED  BY <1>11, <1>12, <1>13, <1>14

LEMMA ContractStart ==
    ASSUME Init, LifeReads
    PROVE  Contract!Init
<1>1. PICK s \in Slots :
          /\ pcb = [x \in Slots |-> IF x = s
                    THEN [Free EXCEPT !.pid = 1, !.status = "START", !.file_open = 1, !.pagedir = 1]
                    ELSE Free]
          /\ nextPid = 2
  BY ProcessAssumption DEF Init
<1>2. /\ pcb[s].pid = 1 /\ pcb[s].status = "START" /\ pcb[s].ppid = 0
      /\ \A x \in Slots : x # s => pcb[x].status = "FREE"
  BY <1>1 DEF Free
<1>3. Life[1] = [is |-> "alive", by |-> 0]
  BY <1>2 DEF LifeReads, Exists
<1>4. ASSUME NEW p \in Pids, p # 1
      PROVE  Life[p] = [is |-> "unborn"]
  <2>1. ~(p < nextPid) /\ \A x \in Slots : Exists(x) => pcb[x].pid # p
    BY <1>1, <1>2, <1>4 DEF Exists, Pids
  <2>. QED  BY <2>1 DEF LifeReads
<1>5. Life = [p \in Pids |-> Life[p]]
  BY DEF Life
<1>. HIDE DEF Life
<1>. QED  BY <1>3, <1>4, <1>5 DEF Contract!Init, Contract!Alive, Contract!Unborn

(* fork, exit and wait4 keep the contract: a process ends once, and only   *)
(* its creator collects it, once and with the code it ended with; the      *)
(* messages, which wait4 also looks at, never mislead it.                  *)
THEOREM KeepsContractThm == Spec => KeepsContract
<1>1. Init => Contract!Init
  BY Start, LifeRead, ContractStart
<1>2. LifeInv /\ [Next]_vars => [Contract!Next]_Life
  <2>1. ASSUME LifeInv, Next
        PROVE  Contract!Next \/ Life' = Life
    BY <2>1, Step, LifeRead, LifeReadNext, ContractStep
  <2>2. ASSUME UNCHANGED vars
        PROVE  Life' = Life
    BY <2>2 DEF vars, fdVars, history, Life
  <2>. QED  BY <2>1, <2>2
<1>. QED  BY <1>1, <1>2, Inductive, PTL DEF Spec, KeepsContract, Contract!Spec
=============================================================================
