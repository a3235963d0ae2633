----------------------------- MODULE PipeProofs -----------------------------
(***************************************************************************)
(* The kernel pipe for any number of processes, any capacity and requests  *)
(* of any size.                                                            *)
(***************************************************************************)
EXTENDS Pipe, Integers, FiniteSetTheorems, SequenceTheorems, TLAPS

----------------------------------------------------------------------------
(* Arithmetic: positions in a stream are kept modulo SeqMod.                *)

LEMMA DivMod ==
    ASSUME NEW a \in Nat, NEW m \in Nat \ {0}
    PROVE  a % m \in 0..m - 1 /\ a = m * (a \div m) + (a % m) /\ a \div m \in Nat
  BY SMTT(30)

LEMMA ModUnique ==
    ASSUME NEW q \in Nat, NEW r \in Nat, NEW m \in Nat \ {0}, r < m
    PROVE  (m * q + r) % m = r
  BY SMTT(30)

(* Adding to a remainder is adding to the number.                          *)
LEMMA ModAdd ==
    ASSUME NEW a \in Nat, NEW b \in Nat, NEW m \in Nat \ {0}
    PROVE  ((a % m) + b) % m = (a + b) % m
<1>. DEFINE q == a \div m
            r == a % m
            p == (r + b) \div m
            s == (r + b) % m
<1>1. r \in Nat /\ q \in Nat /\ a = m * q + r
  BY DivMod
<1>2. s \in Nat /\ s < m /\ p \in Nat /\ r + b = m * p + s
  <2>. HIDE DEF r
  <2>. QED  BY <1>1, DivMod
<1>. HIDE DEF q, r, p, s
<1>3. m * q + m * p = m * (q + p) /\ q + p \in Nat
  BY <1>1, <1>2
<1>4. a + b = m * (q + p) + s
  BY <1>1, <1>2, <1>3
<1>5. (m * (q + p) + s) % m = s
  BY <1>2, <1>3, ModUnique
<1>6. (a + b) % m = s
  BY <1>4, <1>5
<1>. QED  BY <1>6 DEF r, s

----------------------------------------------------------------------------
(* Counting the bytes of a writer.                                          *)

LEMMA CountType ==
    ASSUME NEW s, NEW w, NEW n \in Nat
    PROVE  IsFiniteSet({i \in 1..n : s[i].by = w}) /\ Count(s, w, n) \in Nat
<1>1. IsFiniteSet(1..n)
  BY FS_Interval
<1>2. {i \in 1..n : s[i].by = w} \in SUBSET (1..n)
  OBVIOUS
<1>. QED  BY <1>1, <1>2, FS_Subset, FS_CardinalityType DEF Count

LEMMA CountSame ==
    ASSUME NEW s, NEW t, NEW w, NEW n \in Nat, \A i \in 1..n : s[i].by = t[i].by
    PROVE  Count(s, w, n) = Count(t, w, n)
<1>1. {i \in 1..n : s[i].by = w} = {i \in 1..n : t[i].by = w}
  OBVIOUS
<1>. QED  BY <1>1 DEF Count

(* After n bytes s goes on with the writers of the first k bytes of t.      *)
GoesOn(s, n, t, k) == \A i \in 1..k : s[n + i].by = t[i].by

LEMMA CountSplit ==
    ASSUME NEW s, NEW t, NEW w, NEW n \in Nat, NEW k \in Nat, GoesOn(s, n, t, k)
    PROVE  Count(s, w, n + k) = Count(s, w, n) + Count(t, w, k)
<1>. DEFINE A == {i \in 1..n : s[i].by = w}
            B == {i \in 1..k : t[i].by = w}
            C == {i \in n + 1..n + k : s[i].by = w}
            f == [i \in B |-> n + i]
<1>. USE DEF GoesOn
<1>1. IsFiniteSet(A) /\ IsFiniteSet(B)
  BY CountType
<1>2. f \in Bijection(B, C)
  <2>1. f \in [B -> C]
    OBVIOUS
  <2>2. \A a, b \in B : f[a] = f[b] => a = b
    OBVIOUS
  <2>3. \A c \in C : \E b \in B : f[b] = c
    <3>1. ASSUME NEW c \in C
          PROVE  c - n \in B /\ f[c - n] = c
      OBVIOUS
    <3>. QED  BY <3>1
  <2>. QED  BY <2>1, <2>2, <2>3 DEF Bijection, Injection, Surjection, IsInjective
<1>3. IsFiniteSet(C) /\ Cardinality(C) = Cardinality(B)
  BY <1>1, <1>2, FS_Bijection DEF ExistsBijection
<1>4. {i \in 1..n + k : s[i].by = w} = A \cup C /\ A \cap C = {}
  OBVIOUS
<1>5. Cardinality(A \cup C) = Cardinality(A) + Cardinality(C) - Cardinality(A \cap C)
  BY <1>1, <1>3, FS_Union
<1>6. Cardinality(A) \in Nat /\ Cardinality(B) \in Nat
  BY <1>1, FS_CardinalityType
<1>7. Cardinality(A \cap C) = 0
  BY <1>4, FS_EmptySet
<1>8. Cardinality(A \cup C) = Cardinality(A) + Cardinality(B)
  BY <1>3, <1>5, <1>6, <1>7
<1>9. Count(s, w, n + k) = Cardinality(A \cup C)
  BY <1>4 DEF Count
<1>. QED  BY <1>8, <1>9 DEF Count

LEMMA CountOwn ==
    ASSUME NEW t, NEW p, NEW w, NEW k \in Nat, \A i \in 1..k : t[i].by = p
    PROVE  Count(t, w, k) = IF w = p THEN k ELSE 0
<1>1. CASE w = p
  <2>1. {i \in 1..k : t[i].by = w} = 1..k
    BY <1>1
  <2>2. Cardinality(1..k) = k
    BY FS_Interval
  <2>. QED  BY <1>1, <2>1, <2>2 DEF Count
<1>2. CASE w # p
  <2>1. {i \in 1..k : t[i].by = w} = {}
    BY <1>2
  <2>. QED  BY <1>2, <2>1, FS_EmptySet DEF Count
<1>. QED  BY <1>1, <1>2

----------------------------------------------------------------------------
(* Types.                                                                   *)

LEMMA TypeInit == Init => TypeOK
<1>1. ASSUME NEW e \in Ends
      PROVE  Cardinality(Holders(InitialEnds, e)) \in Nat
  <2>1. Holders(InitialEnds, e) \in SUBSET Procs
    BY DEF Holders
  <2>. QED  BY <2>1, PipeAssumption, FS_Subset, FS_CardinalityType
<1>. QED  BY <1>1, PipeAssumption, EmptySeq
          DEF Init, TypeOK, Idle, Byte, Objects

(* What one process sends at a time is a sequence of its own bytes.        *)
LEMMA BytesType ==
    ASSUME TypeOK, NEW p \in Procs, NEW n \in Nat
    PROVE  /\ Bytes(p, n) \in Seq(Byte) /\ Len(Bytes(p, n)) = n
           /\ \A i \in 1..n : Bytes(p, n)[i] =
                  [by |-> p, pos |-> (sent[p] + i - 1) % SeqMod, last |-> i = n]
<1>1. ASSUME NEW i \in 1..n
      PROVE  (sent[p] + i - 1) % SeqMod \in 0..SeqMod - 1
  <2>1. sent[p] + i - 1 \in Nat
    BY DEF TypeOK
  <2>. QED  BY <2>1, DivMod, PipeAssumption
<1>2. Bytes(p, n) \in [1..n -> Byte]
  BY <1>1 DEF Bytes, Byte
<1>3. Bytes(p, n) \in Seq(Byte)
  BY <1>2, IsASeq DEF Bytes
<1>. QED  BY <1>2, <1>3, LenProperties DEF Bytes

LEMMA TypeStep ==
    ASSUME TypeOK, [Next]_vars
    PROVE  TypeOK'
<1>. USE DEF TypeOK
<1>1. CASE UNCHANGED vars
  BY <1>1 DEF vars
<1>2. ASSUME NEW p \in Procs, NEW q \in Procs, Fork(p, q)
      PROVE  TypeOK'
  BY <1>2 DEF Fork, FdsAfterFork, heapVars
<1>3. ASSUME NEW p \in Procs, NEW e \in Ends, Close(p, e)
      PROVE  TypeOK'
  <2>1. fds' \in [Ends -> Nat]
    BY <1>3 DEF Close
  <2>2. waiters' \in [Ends -> SUBSET Procs] /\ status' \in [Procs -> {"RUNNING", "WAIT", "START"}]
    BY <1>3 DEF Close, Wake, Woken, Other, Ends
  <2>3. spec' \in [Ends -> BOOLEAN]
    BY <1>3 DEF Close, SpecAfterClose
  <2>4. closing' \in [Procs -> SUBSET Objects]
    BY <1>3 DEF Close, Objects, Ends, Other
  <2>. QED  BY <1>3, <2>1, <2>2, <2>3, <2>4 DEF Close
<1>4. ASSUME NEW p \in Procs, CloseFree(p)
      PROVE  TypeOK'
  BY <1>4 DEF CloseFree, channelVars
<1>5. ASSUME NEW p \in Procs, NEW e \in Ends, NEW n \in Requests[e], Ask(p, e, n)
      PROVE  TypeOK'
  BY <1>5, PipeAssumption DEF Ask, heapVars
<1>6. ASSUME NEW p \in Procs, Resume(p)
      PROVE  TypeOK'
  BY <1>6 DEF Resume, channelVars, heapVars
<1>7. ASSUME NEW p \in Procs, ReadTake(p)
      PROVE  TypeOK'
  <2>. DEFINE n == Smaller(Smaller(call[p].left, Capacity), Len(buf))
  <2>1. n \in Nat /\ n <= Len(buf)
    BY LenProperties, PipeAssumption DEF Smaller
  <2>2. buf' \in Seq(Byte)
    BY <1>7, <2>1, SubSeqProperties, LenProperties DEF ReadTake, Unread
  <2>3. got' \in [Procs -> 0..SeqMod - 1]
    <3>1. ASSUME NEW w \in Procs
          PROVE  (got[w] + Count(buf, w, n)) % SeqMod \in 0..SeqMod - 1
      <4>1. Count(buf, w, n) \in Nat
        <5>. HIDE DEF n
        <5>. QED  BY <2>1, CountType
      <4>2. got[w] + Count(buf, w, n) \in Nat
        BY <4>1, PipeAssumption
      <4>. QED  BY <4>2, DivMod, PipeAssumption
    <3>2. got' = [w \in Procs |-> (got[w] + Count(buf, w, n)) % SeqMod]
      BY <1>7 DEF ReadTake
    <3>. QED  BY <3>1, <3>2
  <2>. QED  BY <1>7, <2>2, <2>3 DEF ReadTake, Wake, Woken, Idle, Ends, heapVars
<1>8. ASSUME NEW p \in Procs, ReadEof(p) \/ WriteBroken(p)
      PROVE  TypeOK'
  <2>1. /\ call' = [call EXCEPT ![p] = Idle]
        /\ UNCHANGED <<buf, holds, sent, got, fds, waiters, status, heapVars>>
    BY <1>8 DEF ReadEof, WriteBroken
  <2>. QED  BY <2>1 DEF Idle, heapVars
<1>9. ASSUME NEW p \in Procs, ReadBlock(p) \/ WriteBlock(p)
      PROVE  TypeOK'
  <2>1. PICK e \in Ends : WaitOn(p, e)
    BY <1>9 DEF ReadBlock, WriteBlock, Ends
  <2>. QED  BY <2>1 DEF WaitOn, channelVars, heapVars
<1>10. ASSUME NEW p \in Procs, WritePut(p)
       PROVE  TypeOK'
  <2>1. Chunk(p) \in Nat /\ Chunk(p) <= call[p].left
    BY PipeAssumption DEF Chunk, Smaller
  <2>2. buf' \in Seq(Byte)
    BY <1>10, <2>1, BytesType, ConcatProperties DEF WritePut
  <2>3. (sent[p] + Chunk(p)) % SeqMod \in 0..SeqMod - 1
    <3>1. sent[p] + Chunk(p) \in Nat
      BY <2>1, PipeAssumption
    <3>. QED  BY <3>1, DivMod, PipeAssumption
  <2>4. sent' \in [Procs -> 0..SeqMod - 1]
    BY <1>10, <2>3 DEF WritePut
  <2>5. call' \in [Procs -> [op : Ends \cup {"none"}, left : Nat]]
    <3>1. Rest(p, Chunk(p)) \in [op : Ends \cup {"none"}, left : Nat]
      BY <2>1 DEF Rest, Idle, Ends
    <3>. QED  BY <1>10, <3>1 DEF WritePut
  <2>. QED  BY <1>10, <2>2, <2>4, <2>5 DEF WritePut, Wake, Woken, Ends, heapVars
<1>. QED
  BY <1>1, <1>2, <1>3, <1>4, <1>5, <1>6, <1>7, <1>8, <1>9, <1>10 DEF Next

----------------------------------------------------------------------------
(* Descriptors and sleepers.  The counts decide who may sleep, the lists    *)
(* decide who is woken, so the two invariants are inductive together.       *)

(* How many descriptors of an end exist.                                   *)
LEMMA HoldersType ==
    ASSUME NEW h, NEW e
    PROVE  /\ IsFiniteSet(Holders(h, e)) /\ Cardinality(Holders(h, e)) \in Nat
           /\ Cardinality(Holders(h, e)) = 0 <=> Holders(h, e) = {}
<1>1. Holders(h, e) \in SUBSET Procs
  BY DEF Holders
<1>. QED  BY <1>1, PipeAssumption, FS_Subset, FS_CardinalityType, FS_EmptySet

LEMMA CountsStep ==
    ASSUME TypeOK, DescriptorsCounted, [Next]_vars
    PROVE  \A e \in Ends : fds'[e] = Cardinality(Holders(holds', e))
<1>1. ASSUME UNCHANGED <<fds, holds>>
      PROVE  \A e \in Ends : fds'[e] = Cardinality(Holders(holds', e))
  BY <1>1 DEF DescriptorsCounted
<1>2. ASSUME NEW p \in Procs, NEW q \in Procs, Fork(p, q)
      PROVE  \A e \in Ends : fds'[e] = Cardinality(Holders(holds', e))
  <2>. TAKE e \in Ends
  <2>1. CASE e \in holds[p]
    <3>1. Holders(holds', e) = Holders(holds, e) \cup {q} /\ q \notin Holders(holds, e)
      BY <1>2, <2>1 DEF Fork, Holders, TypeOK
    <3>2. Cardinality(Holders(holds', e)) = Cardinality(Holders(holds, e)) + 1
      BY <3>1, FS_AddElement, HoldersType
    <3>. QED  BY <1>2, <2>1, <3>2 DEF Fork, FdsAfterFork, DescriptorsCounted
  <2>2. CASE e \notin holds[p]
    <3>1. Holders(holds', e) = Holders(holds, e)
      BY <1>2, <2>2 DEF Fork, Holders, TypeOK
    <3>. QED  BY <1>2, <2>2, <3>1 DEF Fork, FdsAfterFork, DescriptorsCounted
  <2>. QED  BY <2>1, <2>2
<1>3. ASSUME NEW p \in Procs, NEW e \in Ends, Close(p, e)
      PROVE  \A x \in Ends : fds'[x] = Cardinality(Holders(holds', x))
  <2>. TAKE x \in Ends
  <2>1. CASE x = e
    <3>1. Holders(holds', e) = Holders(holds, e) \ {p} /\ p \in Holders(holds, e)
      BY <1>3 DEF Close, Holders, TypeOK
    <3>2. Cardinality(Holders(holds', e)) = Cardinality(Holders(holds, e)) - 1
      <4>1. IsFiniteSet(Holders(holds, e))
        BY HoldersType
      <4>. QED  BY <3>1, <4>1, FS_RemoveElement
    <3>3. fds[e] > 0
      BY <3>1, HoldersType DEF DescriptorsCounted, TypeOK
    <3>. QED  BY <1>3, <2>1, <3>2, <3>3 DEF Close, DescriptorsCounted, TypeOK
  <2>2. CASE x # e
    <3>1. Holders(holds', x) = Holders(holds, x)
      BY <1>3, <2>2 DEF Close, Holders, TypeOK
    <3>. QED  BY <1>3, <2>2, <3>1 DEF Close, DescriptorsCounted, TypeOK
  <2>. QED  BY <2>1, <2>2
<1>4. ASSUME NEW p \in Procs,
             \/ CloseFree(p) \/ Resume(p) \/ ReadTake(p) \/ ReadEof(p) \/ ReadBlock(p)
             \/ WritePut(p) \/ WriteBroken(p) \/ WriteBlock(p)
             \/ \E e \in Ends : \E n \in Requests[e] : Ask(p, e, n)
      PROVE  UNCHANGED <<fds, holds>>
  BY <1>4 DEF CloseFree, Resume, ReadTake, ReadEof, ReadBlock, WritePut, WriteBroken, WriteBlock,
              Ask, WaitOn, channelVars
<1>. QED  BY <1>1, <1>2, <1>3, <1>4 DEF Next, vars

(* What a write appends.                                                   *)
LEMMA PutLength ==
    ASSUME TypeOK, NEW p \in Procs, WritePut(p)
    PROVE  /\ Chunk(p) \in Nat /\ Chunk(p) <= call[p].left /\ Chunk(p) <= Capacity
           /\ buf' = buf \o Bytes(p, Chunk(p))
           /\ Len(buf) \in Nat /\ Len(buf') = Len(buf) + Chunk(p) /\ Len(buf') <= Capacity
<1>1. Chunk(p) \in Nat /\ Chunk(p) <= call[p].left /\ Chunk(p) <= Capacity
  BY PipeAssumption DEF TypeOK, Chunk, Smaller
<1>2. buf' = buf \o Bytes(p, Chunk(p)) /\ Capacity - Len(buf) >= Chunk(p)
  BY DEF WritePut, Room
<1>3. Bytes(p, Chunk(p)) \in Seq(Byte) /\ Len(Bytes(p, Chunk(p))) = Chunk(p)
  BY <1>1, BytesType
<1>4. buf \in Seq(Byte) /\ Len(buf) \in Nat
  BY LenProperties DEF TypeOK
<1>5. Len(buf') = Len(buf) + Chunk(p)
  BY <1>2, <1>3, <1>4, ConcatProperties
<1>. QED  BY <1>1, <1>2, <1>4, <1>5, PipeAssumption

(* Only who waits is on a list, and who waits has reason to.               *)
Listed == \A e \in Ends : \A p \in waiters[e] : status[p] = "WAIT" /\ call[p].op = e

LEMMA SleepStep ==
    ASSUME TypeOK, DescriptorsCounted, SleepersJustified, [Next]_vars
    PROVE  Listed' /\ SleepersJustified'
<1>. USE DEF Listed, DescriptorsCounted, SleepersJustified, TypeOK, Ends
<1>1. CASE UNCHANGED vars
  BY <1>1 DEF vars, Room, Chunk
<1>2. ASSUME NEW p \in Procs, NEW q \in Procs, Fork(p, q)
      PROVE  Listed' /\ SleepersJustified'
  BY SMTT(30), <1>2 DEF Fork, FdsAfterFork, Room, Chunk
<1>3. ASSUME NEW p \in Procs, NEW e \in Ends, Close(p, e)
      PROVE  Listed' /\ SleepersJustified'
  BY SMTT(30), <1>3 DEF Close, Wake, Woken, Other, Room, Chunk
<1>4. ASSUME NEW p \in Procs, CloseFree(p)
      PROVE  Listed' /\ SleepersJustified'
  BY <1>4 DEF CloseFree, channelVars, Room, Chunk
<1>5. ASSUME NEW p \in Procs, NEW e \in Ends, NEW n \in Requests[e], Ask(p, e, n)
      PROVE  Listed' /\ SleepersJustified'
  BY <1>5 DEF Ask, AtUser, Idle, Room, Chunk
<1>6. ASSUME NEW p \in Procs, Resume(p)
      PROVE  Listed' /\ SleepersJustified'
  BY <1>6 DEF Resume, channelVars, Room, Chunk
<1>7. ASSUME NEW p \in Procs, ReadTake(p)
      PROVE  Listed' /\ SleepersJustified'
  BY <1>7 DEF ReadTake, InLoop, Wake, Woken, Room, Chunk
<1>8. ASSUME NEW p \in Procs, ReadEof(p) \/ WriteBroken(p)
      PROVE  Listed' /\ SleepersJustified'
  BY ZenonT(40), <1>8 DEF ReadEof, WriteBroken, InLoop, Room, Chunk
<1>9. ASSUME NEW p \in Procs, ReadBlock(p)
      PROVE  Listed' /\ SleepersJustified'
  BY <1>9 DEF ReadBlock, InLoop, WaitOn, channelVars, Room, Chunk
<1>10. ASSUME NEW p \in Procs, WriteBlock(p)
       PROVE  Listed' /\ SleepersJustified'
  BY <1>10 DEF WriteBlock, InLoop, WaitOn, channelVars, Room, Chunk
<1>11. ASSUME NEW p \in Procs, WritePut(p)
       PROVE  Listed' /\ SleepersJustified'
  <2>1. Len(buf) \in Nat /\ Len(buf') \in Nat /\ Len(buf') >= Len(buf)
    BY <1>11, PutLength
  <2>2. \A q \in Procs : ~Room(Chunk(q)) => ~(Capacity - Len(buf') >= Chunk(q))
    BY <2>1, PipeAssumption DEF Room, Chunk, Smaller
  <2>. QED  BY <1>11, <2>2 DEF WritePut, InLoop, Wake, Woken, Room, Chunk
<1>. QED
  BY <1>1, <1>2, <1>3, <1>4, <1>5, <1>6, <1>7, <1>8, <1>9, <1>10, <1>11 DEF Next

----------------------------------------------------------------------------
(* What is freed.  An object goes when the last descriptor that leads to it *)
(* is closed; from then on one closer has it, or it was freed once.         *)

Gone(o) == IF o = "pipe" THEN \A e \in Ends : fds[e] = 0 ELSE fds[o] = 0

Untouched(o) == freed[o] = 0 /\ \A p \in Procs : o \notin closing[p]
HasOneCloser(o) ==
    freed[o] = 0 /\ \E p \in Procs : o \in closing[p] /\ \A q \in Procs : o \in closing[q] => q = p
FreedOnce(o) == freed[o] = 1 /\ \A p \in Procs : o \notin closing[p]

HeapInv ==
    /\ \A o \in Objects : IF Gone(o) THEN HasOneCloser(o) \/ FreedOnce(o) ELSE Untouched(o)
    /\ \A e \in Ends : spec[e] <=> fds[e] # 0

(* Fork never brings an end back whose last descriptor is gone.            *)
LEMMA HeapStep ==
    ASSUME TypeOK, DescriptorsCounted, HeapInv, [Next]_vars
    PROVE  HeapInv'
<1>. USE DEF TypeOK, Objects
<1>1. ASSUME UNCHANGED <<spec, closing, freed>>, \A e \in Ends : fds'[e] = 0 <=> fds[e] = 0
      PROVE  HeapInv'
  <2>1. \A o \in Objects : Gone(o)' <=> Gone(o)
    BY <1>1 DEF Gone
  <2>. QED  BY <1>1, <2>1 DEF HeapInv, HasOneCloser, FreedOnce, Untouched
<1>2. CASE UNCHANGED vars
  BY <1>1, <1>2 DEF vars
<1>3. ASSUME NEW p \in Procs, NEW q \in Procs, Fork(p, q)
      PROVE  HeapInv'
  <2>1. ASSUME NEW e \in Ends, e \in holds[p]
        PROVE  fds[e] # 0
    <3>1. p \in Holders(holds, e)
      BY <2>1 DEF Holders
    <3>. QED  BY <3>1, HoldersType DEF DescriptorsCounted
  <2>. QED  BY <1>1, <1>3, <2>1 DEF Fork, FdsAfterFork, heapVars
<1>4. ASSUME NEW p \in Procs, NEW e \in Ends, Close(p, e)
      PROVE  HeapInv'
  <2>1. fds[e] > 0 /\ closing[p] = {} /\ UNCHANGED freed
    <3>1. p \in Holders(holds, e)
      BY <1>4 DEF Holders, Close
    <3>. QED  BY <1>4, <3>1, HoldersType DEF DescriptorsCounted, Close, AtUser
  <2>2. fds' = [fds EXCEPT ![e] = @ - 1]
    BY <1>4, <2>1 DEF Close
  <2>3. CASE fds[e] # 1
    <3>1. fds'[e] # 0 /\ UNCHANGED spec
      BY <1>4, <2>2, <2>3 DEF Close
    <3>2. closing' = [closing EXCEPT ![p] = {}]
      BY <1>4, <2>2, <3>1 DEF Close, PipeGoes
    <3>. QED  BY <1>1, <2>1, <2>2, <3>1, <3>2
  <2>4. CASE fds[e] = 1
    <3>1. fds'[e] = 0 /\ spec' = [spec EXCEPT ![e] = FALSE]
      BY <1>4, <2>2, <2>4 DEF Close, SpecAfterClose
    <3>2. PipeGoes(fds') => ~spec[Other(e)]
      BY <2>2 DEF PipeGoes, HeapInv, Other, Ends
    <3>3. closing' = [closing EXCEPT ![p] = {e} \cup (IF PipeGoes(fds') THEN {"pipe"} ELSE {})]
      BY ZenonT(40), <1>4, <2>2, <3>1, <3>2 DEF Close
    <3>4. \A x \in Ends : x # e => fds'[x] = fds[x]
      BY <2>2
    <3>5. ASSUME NEW o \in Objects
          PROVE  IF Gone(o)' THEN HasOneCloser(o)' \/ FreedOnce(o)' ELSE Untouched(o)'
      <4>1. IF Gone(o) THEN HasOneCloser(o) \/ FreedOnce(o) ELSE Untouched(o)
        BY DEF HeapInv
      <4>2. CASE o \in closing'[p]
        <5>1. Gone(o)' /\ ~Gone(o)
          BY <2>1, <3>1, <3>3, <4>2 DEF Gone, PipeGoes, Ends
        <5>. QED  BY <2>1, <3>3, <4>1, <4>2, <5>1 DEF HasOneCloser, Untouched
      <4>3. CASE o \notin closing'[p]
        <5>1. Gone(o)' <=> Gone(o)
          BY <2>1, <3>1, <3>3, <3>4, <4>3 DEF Gone, PipeGoes, Ends
        <5>. QED  BY <2>1, <3>3, <4>1, <4>3, <5>1 DEF HasOneCloser, FreedOnce, Untouched
      <4>. QED  BY <4>2, <4>3
    <3>6. \A x \in Ends : spec'[x] <=> fds'[x] # 0
      BY <3>1, <3>4 DEF HeapInv
    <3>. QED  BY <3>5, <3>6 DEF HeapInv
  <2>. QED  BY <2>3, <2>4
<1>5. ASSUME NEW p \in Procs, CloseFree(p)
      PROVE  HeapInv'
  <2>1. UNCHANGED <<fds, spec>>
    BY <1>5 DEF CloseFree
  <2>2. \A o \in Objects : Gone(o)' <=> Gone(o)
    BY <2>1 DEF Gone
  <2>3. ASSUME NEW o \in Objects
        PROVE  IF Gone(o) THEN HasOneCloser(o)' \/ FreedOnce(o)' ELSE Untouched(o)'
    <3>1. closing' = [closing EXCEPT ![p] = {}]
      BY <1>5 DEF CloseFree
    <3>2. IF Gone(o) THEN HasOneCloser(o) \/ FreedOnce(o) ELSE Untouched(o)
      BY DEF HeapInv
    <3>3. CASE o \in closing[p]
      <4>1. freed'[o] = freed[o] + 1
        BY <1>5, <3>3 DEF CloseFree
      <4>. QED  BY <3>1, <3>2, <3>3, <4>1 DEF HasOneCloser, FreedOnce, Untouched
    <3>4. CASE o \notin closing[p]
      <4>1. freed'[o] = freed[o]
        BY <1>5, <3>4 DEF CloseFree
      <4>. QED  BY <3>1, <3>2, <3>4, <4>1 DEF HasOneCloser, FreedOnce, Untouched
    <3>. QED  BY <3>3, <3>4
  <2>. QED  BY <2>1, <2>2, <2>3 DEF HeapInv
<1>6. ASSUME NEW p \in Procs,
             \/ Resume(p) \/ ReadTake(p) \/ ReadEof(p) \/ ReadBlock(p)
             \/ WritePut(p) \/ WriteBroken(p) \/ WriteBlock(p)
             \/ \E e \in Ends : \E n \in Requests[e] : Ask(p, e, n)
      PROVE  UNCHANGED <<fds, spec, closing, freed>>
  BY <1>6 DEF Resume, ReadTake, ReadEof, ReadBlock, WritePut, WriteBroken, WriteBlock,
              Ask, WaitOn, heapVars
<1>. QED  BY <1>1, <1>2, <1>3, <1>4, <1>5, <1>6 DEF Next

LEMMA HeapImpliesFreed ==
    ASSUME TypeOK, DescriptorsCounted, HeapInv
    PROVE  FreedExactlyOnce
<1>1. \A e \in Ends : fds[e] = 0 <=> Holders(holds, e) = {}
  BY HoldersType DEF DescriptorsCounted
<1>2. \A o \in Objects : freed[o] <= 1 /\ (freed[o] = 1 => Gone(o))
  BY DEF HeapInv, HasOneCloser, FreedOnce, Untouched
<1>3. \A e \in Ends : freed[e] = 1 => Holders(holds, e) = {}
  BY <1>1, <1>2 DEF Gone, Objects, Ends
<1>4. freed["pipe"] = 1 => \A p \in Procs : holds[p] = {}
  BY <1>1, <1>2 DEF Gone, Objects, Holders, TypeOK
<1>5. ASSUME \A p \in Procs : holds[p] = {} /\ closing[p] = {}
      PROVE  \A o \in Objects : freed[o] = 1
  <2>1. \A o \in Objects : Gone(o)
    BY <1>1, <1>5 DEF Gone, Objects, Holders
  <2>. QED  BY <1>5, <2>1 DEF HeapInv, HasOneCloser, FreedOnce
<1>. QED  BY <1>2, <1>3, <1>4, <1>5 DEF FreedExactlyOnce

----------------------------------------------------------------------------
(* The stream.                                                              *)

(* A write appends the next bytes of its writer's stream.                  *)
LEMMA PutStep ==
    ASSUME TypeOK, StreamIntact, NEW p \in Procs, WritePut(p)
    PROVE  StreamIntact'
<1>. DEFINE L == Len(buf)
            C == Chunk(p)
            t == Bytes(p, C)
<1>1. /\ C \in Nat /\ L \in Nat /\ buf' = buf \o t /\ got' = got
      /\ Len(buf') = L + C /\ Len(buf') <= Capacity
  BY PutLength DEF WritePut
<1>2. \A w \in Procs : got[w] \in Nat /\ sent[w] \in Nat
  BY PipeAssumption DEF TypeOK
<1>3. t \in Seq(Byte) /\ Len(t) = C
  BY <1>1, BytesType
<1>4. \A k \in 1..C :
          t[k].by = p /\ t[k].pos = (sent[p] + k - 1) % SeqMod /\ (t[k].last <=> k = C)
  <2>. TAKE k \in 1..C
  <2>1. t[k] = [by |-> p, pos |-> (sent[p] + k - 1) % SeqMod, last |-> k = C]
    BY ZenonT(40), <1>1, BytesType
  <2>2. t[k].by = p /\ t[k].pos = (sent[p] + k - 1) % SeqMod
    BY <2>1
  <2>3. t[k].last = (k = C)
    BY <2>1
  <2>. QED  BY <2>2, <2>3
<1>5. buf \in Seq(Byte) /\ \A i \in 1..L : buf[i] \in Byte
  BY ElementOfSeq DEF TypeOK
<1>. HIDE DEF L, C, t
<1>6. /\ \A i \in 1..L : buf'[i] = buf[i]
      /\ \A k \in 1..C : buf'[L + k] = t[k]
  BY <1>1, <1>3, <1>5, ConcatProperties DEF L
<1>7. ASSUME NEW w, NEW n \in 0..L
      PROVE  Count(buf', w, n) = Count(buf, w, n)
  <2>1. n \in Nat /\ \A i \in 1..n : buf'[i].by = buf[i].by
    BY <1>1, <1>6
  <2>. QED  BY <2>1, CountSame, Zenon
<1>8. ASSUME NEW w, NEW k \in 0..C
      PROVE  Count(buf', w, L + k) = Count(buf, w, L) + (IF w = p THEN k ELSE 0)
  <2>1. Count(buf', w, L + k) = Count(buf', w, L) + Count(t, w, k)
    <3>1. k \in Nat /\ L \in Nat /\ GoesOn(buf', L, t, k)
      BY <1>1, <1>6 DEF GoesOn
    <3>. QED  BY <3>1, CountSplit
  <2>2. Count(t, w, k) = IF w = p THEN k ELSE 0
    <3>1. \A i \in 1..C : t[i].by = p
      BY <1>4
    <3>2. k \in Nat /\ \A i \in 1..k : i \in 1..C
      BY <1>1
    <3>3. \A i \in 1..k : t[i].by = p
      BY <3>1, <3>2
    <3>. QED  BY <3>2, <3>3, CountOwn
  <2>. QED  BY <1>1, <1>7, <2>1, <2>2
<1>9. \A w \in Procs : /\ Count(buf, w, L) \in Nat
                       /\ sent[w] = (got[w] + Count(buf, w, L)) % SeqMod
  BY <1>1, CountType DEF StreamIntact, L
<1>10. ASSUME NEW w \in Procs, NEW k \in Nat
       PROVE  (sent[w] + k) % SeqMod = (got[w] + Count(buf, w, L) + k) % SeqMod
  <2>1. got[w] + Count(buf, w, L) \in Nat
    BY <1>2, <1>9
  <2>. QED  BY <1>9, <2>1, ModAdd, PipeAssumption
<1>11. ASSUME NEW i \in 1..Len(buf')
       PROVE  /\ buf'[i].pos = (got'[buf'[i].by] + Count(buf', buf'[i].by, i - 1)) % SeqMod
              /\ ~buf'[i].last => i < Len(buf') /\ buf'[i + 1].by = buf'[i].by
  <2>1. CASE i \in 1..L
    <3>1. buf[i].pos = (got[buf[i].by] + Count(buf, buf[i].by, i - 1)) % SeqMod
      BY <2>1 DEF StreamIntact, L
    <3>2. ~buf[i].last => i < L /\ buf[i + 1].by = buf[i].by
      BY <2>1 DEF StreamIntact, L
    <3>3. Count(buf', buf[i].by, i - 1) = Count(buf, buf[i].by, i - 1)
      BY <1>1, <1>7, <2>1
    <3>4. buf'[i] = buf[i] /\ (i < L => buf'[i + 1] = buf[i + 1] /\ i < Len(buf'))
      BY <1>1, <1>6, <2>1
    <3>5. buf'[i].pos = (got'[buf'[i].by] + Count(buf', buf'[i].by, i - 1)) % SeqMod
      BY <1>1, <3>1, <3>3, <3>4
    <3>. QED  BY <3>2, <3>4, <3>5
  <2>2. ASSUME NEW k \in 1..C, i = L + k
        PROVE  /\ buf'[i].pos = (got'[buf'[i].by] + Count(buf', buf'[i].by, i - 1)) % SeqMod
               /\ ~buf'[i].last => i < Len(buf') /\ buf'[i + 1].by = buf'[i].by
    <3>1. /\ buf'[i].by = p /\ buf'[i].pos = (sent[p] + k - 1) % SeqMod
          /\ ~buf'[i].last => k # C
      BY <1>4, <1>6, <2>2
    <3>2. i - 1 = L + (k - 1) /\ k - 1 \in 0..C /\ k - 1 \in Nat
      BY <1>1, <2>2
    <3>3. Count(buf', p, i - 1) = Count(buf, p, L) + (k - 1)
      BY <1>8, <3>2
    <3>4. (sent[p] + (k - 1)) % SeqMod = (got[p] + Count(buf, p, L) + (k - 1)) % SeqMod
      BY <1>10, <3>2
    <3>5. /\ sent[p] + k - 1 = sent[p] + (k - 1)
          /\ got[p] + Count(buf, p, L) + (k - 1) = got[p] + (Count(buf, p, L) + (k - 1))
      BY <1>2, <1>9, <3>2
    <3>6. buf'[i].pos = (got'[p] + Count(buf', p, i - 1)) % SeqMod
      BY <1>1, <3>1, <3>3, <3>4, <3>5
    <3>7. k # C => k + 1 \in 1..C /\ i + 1 = L + (k + 1) /\ i < L + C
      BY <1>1, <2>2
    <3>8. ASSUME k # C
          PROVE  i < Len(buf') /\ buf'[i + 1].by = p
      <4>1. buf'[i + 1] = t[k + 1]
        BY <1>6, <3>7, <3>8
      <4>2. t[k + 1].by = p
        BY <1>4, <3>7, <3>8
      <4>. QED  BY <1>1, <3>7, <3>8, <4>1, <4>2
    <3>. QED  BY <3>1, <3>6, <3>8
  <2>3. i \in 1..L \/ \E k \in 1..C : i = L + k
    <3>1. i \notin 1..L => i - L \in 1..C /\ i = L + (i - L)
      BY <1>1
    <3>. QED  BY <3>1
  <2>. QED  BY <2>1, <2>2, <2>3
<1>12. ASSUME NEW w \in Procs
       PROVE  sent'[w] = (got'[w] + Count(buf', w, Len(buf'))) % SeqMod
  <2>1. Count(buf', w, Len(buf')) = Count(buf, w, L) + (IF w = p THEN C ELSE 0)
    BY <1>1, <1>8
  <2>2. sent' = [sent EXCEPT ![p] = (@ + C) % SeqMod]
    BY DEF WritePut, C
  <2>3. CASE w = p
    <3>1. sent'[w] = (sent[w] + C) % SeqMod
      BY <2>2, <2>3 DEF TypeOK
    <3>2. sent'[w] = (got[w] + Count(buf, w, L) + C) % SeqMod
      BY <1>1, <1>10, <3>1
    <3>3. got[w] + Count(buf, w, L) + C = got[w] + (Count(buf, w, L) + C)
      BY <1>1, <1>2, <1>9
    <3>. QED  BY <1>1, <2>1, <2>3, <3>2, <3>3
  <2>4. CASE w # p
    BY <1>1, <1>9, <2>1, <2>2, <2>4 DEF TypeOK
  <2>. QED  BY <2>3, <2>4
<1>. QED  BY <1>1, <1>11, <1>12 DEF StreamIntact

(* A read takes the first bytes.                                           *)
LEMMA TakeStep ==
    ASSUME TypeOK, StreamIntact, NEW p \in Procs, ReadTake(p)
    PROVE  StreamIntact'
<1>. DEFINE L == Len(buf)
            n == Smaller(Smaller(call[p].left, Capacity), L)
<1>1. L \in Nat /\ n \in 0..L /\ L <= Capacity
  BY LenProperties, PipeAssumption DEF Smaller, TypeOK, StreamIntact
<1>2. /\ buf' = SubSeq(buf, n + 1, L)
      /\ got' = [w \in Procs |-> (got[w] + Count(buf, w, n)) % SeqMod]
      /\ sent' = sent
  BY DEF ReadTake, Unread
<1>3. buf \in Seq(Byte) /\ \A i \in 1..L : buf[i] \in Byte
  BY ElementOfSeq DEF TypeOK
<1>. HIDE DEF n
<1>4. Len(buf') = L - n /\ \A i \in 1..L - n : buf'[i] = buf[n + i]
  BY <1>1, <1>2, <1>3, SubSeqProperties
<1>9. \A j \in 1..L :
          /\ buf[j].pos = (got[buf[j].by] + Count(buf, buf[j].by, j - 1)) % SeqMod
          /\ ~buf[j].last => j < L /\ buf[j + 1].by = buf[j].by
  BY DEF StreamIntact
<1>. HIDE DEF L
<1>5. ASSUME NEW w \in Procs, NEW k \in 0..L - n
      PROVE  (got[w] + Count(buf, w, n + k)) % SeqMod = (got'[w] + Count(buf', w, k)) % SeqMod
  <2>1. Count(buf, w, n + k) = Count(buf, w, n) + Count(buf', w, k)
    <3>1. GoesOn(buf, n, buf', k)
      BY <1>1, <1>4 DEF GoesOn
    <3>2. k \in Nat /\ n \in Nat
      BY <1>1
    <3>. QED  BY <3>1, <3>2, CountSplit
  <2>2. Count(buf, w, n) \in Nat /\ Count(buf', w, k) \in Nat /\ got[w] \in Nat
    <3>1. n \in Nat /\ k \in Nat
      BY <1>1
    <3>2. Count(buf, w, n) \in Nat
      BY <3>1, CountType
    <3>3. Count(buf', w, k) \in Nat
      BY <3>1, CountType
    <3>. QED  BY <3>2, <3>3, PipeAssumption DEF TypeOK
  <2>3. got'[w] = (got[w] + Count(buf, w, n)) % SeqMod
    BY <1>2
  <2>4. (((got[w] + Count(buf, w, n)) % SeqMod) + Count(buf', w, k)) % SeqMod
        = (got[w] + Count(buf, w, n) + Count(buf', w, k)) % SeqMod
    <3>1. got[w] + Count(buf, w, n) \in Nat
      BY <2>2
    <3>. QED  BY <2>2, <3>1, ModAdd, PipeAssumption
  <2>5. got[w] + Count(buf, w, n + k) = got[w] + Count(buf, w, n) + Count(buf', w, k)
    BY <2>1, <2>2
  <2>. QED  BY <2>3, <2>4, <2>5
<1>6. ASSUME NEW i \in 1..Len(buf')
      PROVE  /\ buf'[i].pos = (got'[buf'[i].by] + Count(buf', buf'[i].by, i - 1)) % SeqMod
             /\ ~buf'[i].last => i < Len(buf') /\ buf'[i + 1].by = buf'[i].by
  <2>. DEFINE j == n + i
  <2>1. /\ j \in 1..L /\ j - 1 = n + (i - 1) /\ i - 1 \in 0..L - n
        /\ buf'[i] = buf[j]
    BY <1>1, <1>4
  <2>2. j < L => i < Len(buf') /\ buf'[i + 1] = buf[j + 1]
    <3>1. j < L => n + (i + 1) = j + 1 /\ i + 1 \in 1..L - n
      BY <1>1, <1>4
    <3>. QED  BY <1>1, <1>4, <3>1
  <2>. HIDE DEF j
  <2>3. /\ buf[j].pos = (got[buf[j].by] + Count(buf, buf[j].by, j - 1)) % SeqMod
        /\ ~buf[j].last => j < L /\ buf[j + 1].by = buf[j].by
    BY <1>9, <2>1
  <2>4. buf[j].by \in Procs
    BY <1>3, <2>1 DEF Byte
  <2>5. buf'[i].pos = (got'[buf'[i].by] + Count(buf', buf'[i].by, i - 1)) % SeqMod
    BY <1>5, <2>1, <2>3, <2>4
  <2>. QED  BY <2>1, <2>2, <2>3, <2>5
<1>7. ASSUME NEW w \in Procs
      PROVE  sent'[w] = (got'[w] + Count(buf', w, Len(buf'))) % SeqMod
  <2>1. sent[w] = (got[w] + Count(buf, w, L)) % SeqMod
    BY DEF StreamIntact, L
  <2>2. L = n + (L - n) /\ L - n \in 0..L - n
    BY <1>1
  <2>. QED  BY <1>2, <1>4, <1>5, <2>1, <2>2
<1>8. Len(buf') <= Capacity
  BY <1>1, <1>4, PipeAssumption
<1>. QED  BY <1>6, <1>7, <1>8 DEF StreamIntact

LEMMA StreamStep ==
    ASSUME TypeOK, StreamIntact, [Next]_vars
    PROVE  StreamIntact'
<1>1. ASSUME UNCHANGED <<buf, sent, got>>
      PROVE  StreamIntact'
  BY <1>1 DEF StreamIntact
<1>2. ASSUME NEW p \in Procs,
             \/ CloseFree(p) \/ Resume(p) \/ ReadEof(p) \/ ReadBlock(p)
             \/ WriteBroken(p) \/ WriteBlock(p)
             \/ \E q \in Procs : Fork(p, q)
             \/ \E e \in Ends : Close(p, e)
             \/ \E e \in Ends : \E n \in Requests[e] : Ask(p, e, n)
      PROVE  UNCHANGED <<buf, sent, got>>
  BY <1>2 DEF CloseFree, Resume, ReadEof, ReadBlock, WriteBroken, WriteBlock, Fork, Close, Ask,
              WaitOn, channelVars
<1>. QED  BY <1>1, <1>2, PutStep, TakeStep DEF Next, vars

----------------------------------------------------------------------------
(* The invariant and the theorems.                                          *)

IInv == TypeOK /\ DescriptorsCounted /\ SleepersJustified /\ HeapInv /\ StreamIntact

LEMMA InitInv == Init => IInv
<1>. SUFFICES ASSUME Init PROVE IInv
  OBVIOUS
<1>1. TypeOK
  BY TypeInit
<1>2. DescriptorsCounted /\ SleepersJustified
  BY DEF Init, DescriptorsCounted, SleepersJustified
<1>3. \A e \in Ends : fds[e] # 0
  <2>. TAKE e \in Ends
  <2>1. Holders(InitialEnds, e) # {} /\ fds[e] = Cardinality(Holders(InitialEnds, e))
    BY PipeAssumption DEF Init
  <2>. QED  BY <2>1, HoldersType
<1>4. HeapInv
  BY <1>3 DEF Init, HeapInv, Gone, Untouched, Objects, Ends
<1>5. StreamIntact
  <2>1. Len(buf) = 0 /\ 1..Len(buf) = {}
    BY EmptySeq DEF Init
  <2>2. \A w \in Procs : Count(buf, w, 0) = 0
    <3>1. \A w \in Procs : {i \in 1..0 : buf[i].by = w} = {}
      OBVIOUS
    <3>. QED  BY <3>1, FS_EmptySet DEF Count
  <2>3. 0 % SeqMod = 0
    BY PipeAssumption
  <2>. QED  BY <2>1, <2>2, <2>3, PipeAssumption DEF Init, StreamIntact
<1>. QED  BY <1>1, <1>2, <1>4, <1>5 DEF IInv

LEMMA InvStep == IInv /\ [Next]_vars => IInv'
  BY TypeStep, CountsStep, SleepStep, HeapStep, StreamStep DEF IInv, Listed, DescriptorsCounted

THEOREM InvariantThm == Spec => []IInv
  BY InitInv, InvStep, PTL DEF Spec

(* Every variable keeps its type.                                          *)
THEOREM TypeThm == Spec => []TypeOK
<1>1. IInv => TypeOK
  BY DEF IInv
<1>. QED  BY <1>1, InvariantThm, PTL

(* No byte is lost, repeated, reordered or put past the end of the buffer, *)
(* and no chunk is mixed with another's.                                   *)
THEOREM StreamIntactThm == Spec => []StreamIntact
<1>1. IInv => StreamIntact
  BY DEF IInv
<1>. QED  BY <1>1, InvariantThm, PTL

(* Whoever sleeps is listed at the end it waits for, and has to wait.      *)
THEOREM SleepersJustifiedThm == Spec => []SleepersJustified
<1>1. IInv => SleepersJustified
  BY DEF IInv
<1>. QED  BY <1>1, InvariantThm, PTL

(* read_fds and write_fds count the descriptors, across forks and closes.  *)
THEOREM DescriptorsCountedThm == Spec => []DescriptorsCounted
<1>1. IInv => DescriptorsCounted
  BY DEF IInv
<1>. QED  BY <1>1, InvariantThm, PTL

(* The pipe and its specs are freed once, after their last user.           *)
THEOREM FreedExactlyOnceThm == Spec => []FreedExactlyOnce
<1>1. IInv => FreedExactlyOnce
  BY HeapImpliesFreed DEF IInv
<1>. QED  BY <1>1, InvariantThm, PTL

----------------------------------------------------------------------------
(* The steps of the pipe are steps of the channel.                          *)

LEMMA SomeoneHolds ==
    ASSUME DescriptorsCounted, NEW e \in Ends
    PROVE  Channel!Someone(e) <=> fds[e] # 0
<1>1. Holders(holds, e) # {} <=> Channel!Someone(e)
  BY DEF Holders, Channel!Someone
<1>. QED  BY <1>1, HoldersType DEF DescriptorsCounted

LEMMA ChannelStep ==
    ASSUME TypeOK, DescriptorsCounted, StreamIntact, [Next]_vars
    PROVE  [Channel!Next]_Channel!channelVars
<1>. USE DEF Channel!channelVars, Channel!Idle, Idle, AtUser, InLoop
<1>1. CASE UNCHANGED vars
  BY <1>1 DEF vars
<1>2. ASSUME NEW p \in Procs, NEW q \in Procs, Fork(p, q)
      PROVE  Channel!Fork(p, q)
  BY <1>2 DEF Fork, Channel!Fork
<1>3. ASSUME NEW p \in Procs, NEW e \in Ends, Close(p, e)
      PROVE  Channel!Close(p, e)
  BY <1>3 DEF Close, Channel!Close
<1>4. ASSUME NEW p \in Procs, NEW e \in Ends, NEW n \in Requests[e], Ask(p, e, n)
      PROVE  Channel!Ask(p, e, n)
  BY <1>4 DEF Ask, Channel!Ask
<1>5. ASSUME NEW p \in Procs, ReadTake(p)
      PROVE  Channel!Receive(p)
  <2>1. Smaller(Smaller(call[p].left, Capacity), Len(buf)) = Channel!Smaller(call[p].left, Len(buf))
    <3>1. Len(buf) \in Nat /\ Len(buf) <= Capacity /\ call[p].left \in Nat /\ Capacity \in Nat
      BY LenProperties, PipeAssumption DEF TypeOK, StreamIntact
    <3>. QED  BY <3>1 DEF Smaller, Channel!Smaller
  <2>. QED  BY <1>5, <2>1 DEF ReadTake, Unread, Channel!Receive
<1>6. ASSUME NEW p \in Procs, ReadEof(p)
      PROVE  Channel!EndOfFile(p)
  BY <1>6, SomeoneHolds DEF ReadEof, Channel!EndOfFile, Ends
<1>7. ASSUME NEW p \in Procs, WritePut(p)
      PROVE  Channel!Send(p)
  <2>1. /\ Chunk(p) = Channel!Smaller(call[p].left, Capacity)
        /\ Rest(p, Chunk(p)) = Channel!Rest(p, Chunk(p))
        /\ Bytes(p, Chunk(p)) = Channel!Bytes(p, Chunk(p))
    BY DEF Chunk, Smaller, Channel!Smaller, Rest, Channel!Rest, Bytes, Channel!Bytes
  <2>2. Len(buf) + Chunk(p) <= Capacity
    BY <1>7, PutLength
  <2>3. Channel!Someone("read")
    BY <1>7, SomeoneHolds DEF WritePut, Ends
  <2>. QED  BY <1>7, <2>1, <2>2, <2>3 DEF WritePut, Channel!Send
<1>8. ASSUME NEW p \in Procs, WriteBroken(p)
      PROVE  Channel!BrokenPipe(p)
  BY <1>8, SomeoneHolds DEF WriteBroken, Channel!BrokenPipe, Ends
<1>9. ASSUME NEW p \in Procs, CloseFree(p) \/ Resume(p) \/ ReadBlock(p) \/ WriteBlock(p)
      PROVE  UNCHANGED channelVars
  BY <1>9 DEF CloseFree, Resume, ReadBlock, WriteBlock, WaitOn
<1>. QED  BY <1>1, <1>2, <1>3, <1>4, <1>5, <1>6, <1>7, <1>8, <1>9
          DEF Next, Channel!Next, channelVars, Ends, Channel!Ends

(* Whatever forks, closes, reads, writes and wake-ups do, the processes see *)
(* the channel of PipeChannel.                                             *)
THEOREM ChannelStepsThm == Spec => Channel!Init /\ [][Channel!Next]_Channel!channelVars
<1>1. Init => Channel!Init
  BY DEF Init, Channel!Init, Channel!Idle, Idle
<1>2. IInv /\ [Next]_vars => [Channel!Next]_Channel!channelVars
  BY ChannelStep DEF IInv
<1>. QED  BY <1>1, <1>2, InvariantThm, PTL DEF Spec
=============================================================================
