------------------------------- MODULE Frames -------------------------------
(***************************************************************************)
(* The frame allocator of the x86 kernel (kernel/memory/buddy.cpp): a      *)
(* buddy allocator per zone, each under a spinlock of its own, and one     *)
(* bitmap of the frames in use (using_regions, bitmap.cpp) that is shared  *)
(* by all of them and changed byte by byte: alloc_frames sets its bits     *)
(* after it has let the lock go, free_frames clears them inside.           *)
(*                                                                         *)
(* A frame is its number. A block is its first frame and its order above   *)
(* MIN_ORDER. The order of a free list is left open: pop_block takes some  *)
(* block of it. Sections under a zone's lock that touch nothing but the    *)
(* zone are one step; those of the bitmap are a step per load and store.   *)
(***************************************************************************)
EXTENDS Integers, Sequences, FiniteSets, FiniteSetsExt

CONSTANTS
  Callers,    \* processors that allocate and free
  Zones,      \* the zones in the order alloc_frames tries them, each a set of frames
  Regions,    \* what init_frame gives to add_memory_region: <<first, end>>
  MaxOrder,   \* MAX_ORDER - MIN_ORDER: no block has this order
  ByteBits,   \* frames per byte of the bitmap
  Counts,     \* how many frames a client asks for
  Unlocked    \* a lock that nobody holds

ASSUME FramesAssumption ==
  /\ MaxOrder \in Nat \ {0} /\ ByteBits \in Nat \ {0} /\ Counts \subseteq Nat
  /\ Unlocked \notin Callers
  /\ Zones \in Seq(SUBSET Nat) /\ Len(Zones) > 0
  /\ \A z \in 1..Len(Zones) : IsFiniteSet(Zones[z])
  /\ \A y, z \in 1..Len(Zones) : y # z => Zones[y] \cap Zones[z] = {}
  /\ Regions \in Seq(Nat \X Nat) /\ Len(Regions) > 0
  /\ \A i \in 1..Len(Regions) :     \* process_memory_region: what lies in one zone, above the first MiB
       /\ 0 < Regions[i][1] /\ Regions[i][1] < Regions[i][2]
       /\ \E z \in 1..Len(Zones) : Regions[i][1]..(Regions[i][2] - 1) \subseteq Zones[z]
  /\ \A i, j \in 1..Len(Regions) : i < j =>
       Regions[i][1]..(Regions[i][2] - 1) \cap Regions[j][1]..(Regions[j][2] - 1) = {}

VARIABLES
  free,       \* the blocks in the free lists of all zones
  freePages,  \* zone_t.free_pages
  bits,       \* using_regions
  refs,       \* page_t.refcount
  lock,       \* allocator.lock: Unlocked or the processor that holds it
  boot,       \* add_memory_region: the region and how far it is
  cpu,        \* what each processor is doing
  owned,      \* ghost: the frames the clients have
  lost,       \* ghost: frames whose free was refused
  stale       \* ghost: frames in use whose bit another processor's store wiped out

framesVars == <<free, freePages, bits, refs, lock, boot, cpu, owned, lost, stale>>

ZoneNos == 1..Len(Zones)
Frames  == UNION {Zones[z] : z \in ZoneNos}
Given   == UNION {Regions[i][1]..(Regions[i][2] - 1) : i \in 1..Len(Regions)}
Orders  == 0..(MaxOrder - 1)

\* Frames of a block
OrderToPages[order \in Nat] == IF order = 0 THEN 1 ELSE 2 * OrderToPages[order - 1]

Block(base, order) == [base |-> base, order |-> order]
FramesOf(b)   == b.base..(b.base + OrderToPages[b.order] - 1)
ZoneOf(p)     == CHOOSE z \in ZoneNos : p \in Zones[z]        \* phys_to_zone_type
CountToOrder(n) == CHOOSE o \in 0..n : OrderToPages[o] >= n /\ \A q \in 0..(o - 1) : OrderToPages[q] < n
Byte(p)       == {q \in Frames : q \div ByteBits = p \div ByteBits}

\* A block crosses a zone's end (16 MiB, 4 GiB) only if it begins with frame 0, which is never given
ASSUME ZonesAligned ==
  \A o \in Orders, base \in Given :
    base % OrderToPages[o] = 0 /\ FramesOf(Block(base, o)) \subseteq Given =>
      \E z \in ZoneNos : FramesOf(Block(base, o)) \subseteq Zones[z]

(***************************************************************************)
(* buddy_free_zone: the block and the buddies it merges with. With its     *)
(* buddy in the zone and in the list of the same order it goes on as the   *)
(* block of both; otherwise it is pushed as it is.                         *)
(***************************************************************************)
Buddy(b)  == Block(IF (b.base \div OrderToPages[b.order]) % 2 = 0 THEN b.base + OrderToPages[b.order]
                                                      ELSE b.base - OrderToPages[b.order], b.order)
Merged(b) == Block(Min({b.base, Buddy(b).base}), b.order + 1)

Mergeable(list, b) ==
  /\ b.order + 1 < MaxOrder
  /\ FramesOf(Buddy(b)) \subseteq Zones[ZoneOf(b.base)]
  /\ Buddy(b) \in list

\* Mutant: one buddy is taken in, then the block is pushed
FreeIntoOnce(list, block) ==
  IF Mergeable(list, block) THEN (list \ {Buddy(block)}) \cup {Merged(block)} ELSE list \cup {block}

FreeInto(list, block) ==
  LET merge[o \in Orders] ==          \* <<the lists, the block>> once it has order o or stopped
        IF o <= block.order THEN <<list, block>>
        ELSE LET before == merge[o - 1]
             IN IF before[2].order = o - 1 /\ Mergeable(before[1], before[2])
                THEN <<before[1] \ {Buddy(before[2])}, Merged(before[2])>>
                ELSE before
      last == merge[MaxOrder - 1]
  IN last[1] \cup {last[2]}

NoCall == [at |-> "idle", zone |-> 1, base |-> 0, order |-> 0, todo |-> {}, loaded |-> FALSE, byte |-> {}]

FramesInit ==
  /\ free = {} /\ freePages = [z \in ZoneNos |-> 0]
  /\ bits = {} /\ refs = [p \in Frames |-> 0]
  /\ lock = [z \in ZoneNos |-> Unlocked]
  /\ boot = [region |-> 1, start |-> Regions[1][1]]
  /\ cpu = [c \in Callers |-> NoCall]
  /\ owned = {} /\ lost = {} /\ stale = {}

(***************************************************************************)
(* One round of add_memory_region's loop, before the other processors run: *)
(* the largest block that is aligned at start and ends inside the region.  *)
(***************************************************************************)
Booted == boot.region > Len(Regions)

AddBlock ==
  /\ ~Booted
  /\ LET start == boot.start
         end   == Regions[boot.region][2]
         fits  == {o \in Orders : o = 0 \/ (start % OrderToPages[o] = 0 /\ start + OrderToPages[o] <= end)}
         block == Block(start, Max(fits))
         next  == start + OrderToPages[block.order]
         z     == ZoneOf(start)
     IN /\ free' = FreeInto(free, block)
        /\ freePages' = [freePages EXCEPT ![z] = @ + OrderToPages[block.order]]
        /\ boot' = IF next < end THEN [boot EXCEPT !.start = next]
                   ELSE [region |-> boot.region + 1,
                         start  |-> IF boot.region = Len(Regions) THEN 0 ELSE Regions[boot.region + 1][1]]
  /\ UNCHANGED <<bits, refs, lock, cpu, owned, lost, stale>>

(***************************************************************************)
(* alloc_frames, and alloc_frames_dma32, which begins at a later zone.     *)
(* buddy_alloc_zone takes a block of the smallest order that is enough,    *)
(* keeps its left end and pushes the right halves.                         *)
(***************************************************************************)
AllocFrames(c, n, z) ==
  /\ Booted /\ cpu[c].at = "idle"
  /\ cpu' = [cpu EXCEPT ![c] = [NoCall EXCEPT !.at = "search", !.zone = z, !.order = CountToOrder(n)]]
  /\ UNCHANGED <<free, freePages, bits, refs, lock, boot, owned, lost, stale>>

\* Mutant: the halves start one order too high
RightHalvesShort(b, order) == {Block(b.base + OrderToPages[o], o) : o \in (order + 1)..(b.order - 1)}

RightHalves(b, order) == {Block(b.base + OrderToPages[o], o) : o \in order..(b.order - 1)}

BuddyAllocZone(c) ==
  LET z      == cpu[c].zone
      order  == cpu[c].order
      enough == {b \in free : b.base \in Zones[z] /\ b.order >= order}
  IN /\ cpu[c].at = "search" /\ lock[z] = Unlocked
     /\ IF enough # {}
        THEN \E b \in enough :
               /\ \A d \in enough : b.order <= d.order
               /\ free' = (free \ {b}) \cup RightHalves(b, order)
               /\ freePages' = [freePages EXCEPT ![z] = @ - OrderToPages[order]]
               /\ cpu' = [cpu EXCEPT ![c].at = "mark", ![c].base = b.base,
                                     ![c].todo = FramesOf(Block(b.base, order))]
        ELSE /\ cpu' = [cpu EXCEPT ![c] = IF z < Len(Zones) THEN [@ EXCEPT !.zone = z + 1] ELSE NoCall]
             /\ UNCHANGED <<free, freePages>>
     /\ UNCHANGED <<bits, refs, lock, boot, owned, lost, stale>>

(***************************************************************************)
(* bitmap_set_range, by alloc_frames ("mark") without a lock and by        *)
(* free_frames ("clear") under the zone's. A byte that lies in the range   *)
(* is stored; in any other each bit is loaded with its neighbours and      *)
(* stored back with them.                                                  *)
(***************************************************************************)
Updating(c) == cpu[c].at \in {"mark", "clear"} /\ cpu[c].todo # {}
Changed(c, old, frames) == IF cpu[c].at = "mark" THEN old \cup frames ELSE old \ frames

StoreByte(c) ==
  LET p == Min(cpu[c].todo)
  IN /\ Updating(c) /\ ~cpu[c].loaded
     /\ Byte(p) \subseteq cpu[c].todo
     /\ bits' = Changed(c, bits, Byte(p))
     /\ cpu' = [cpu EXCEPT ![c].todo = @ \ Byte(p)]
     /\ UNCHANGED <<free, freePages, refs, lock, boot, owned, lost, stale>>

LoadByte(c) ==
  LET p == Min(cpu[c].todo)
  IN /\ Updating(c) /\ ~cpu[c].loaded
     /\ ~(Byte(p) \subseteq cpu[c].todo)
     /\ cpu' = [cpu EXCEPT ![c].loaded = TRUE, ![c].byte = bits \cap Byte(p)]
     /\ UNCHANGED <<free, freePages, bits, refs, lock, boot, owned, lost, stale>>

StoreBit(c) ==
  LET p      == Min(cpu[c].todo)
      before == bits \cap Byte(p)
      stored == Changed(c, cpu[c].byte, {p})
  IN /\ Updating(c) /\ cpu[c].loaded
     /\ bits' = (bits \ Byte(p)) \cup stored
     /\ stale' = (stale \cup (before \ stored)) \ (stored \cup {p})
     /\ cpu' = [cpu EXCEPT ![c].todo = @ \ {p}, ![c].loaded = FALSE, ![c].byte = {}]
     /\ UNCHANGED <<free, freePages, refs, lock, boot, owned, lost>>

\* The bits are set: a reference to every frame, and the block is the client's
AllocReturn(c) ==
  LET got == FramesOf(Block(cpu[c].base, cpu[c].order))
  IN /\ cpu[c].at = "mark" /\ cpu[c].todo = {}
     /\ refs' = [p \in Frames |-> IF p \in got THEN refs[p] + 1 ELSE refs[p]]
     /\ owned' = owned \cup got
     /\ cpu' = [cpu EXCEPT ![c] = NoCall]
     /\ UNCHANGED <<free, freePages, bits, lock, boot, lost, stale>>

(***************************************************************************)
(* free_frames, of a block that lies in what the clients have: it gives up *)
(* when a bit of the range is clear, drops the references, and goes on to  *)
(* the zone only if none is left.                                          *)
(***************************************************************************)
FreeFrames(c, block) ==
  LET given == FramesOf(block)
      left  == [p \in Frames |-> IF p \in given THEN refs[p] - 1 ELSE refs[p]]
  IN /\ Booted /\ cpu[c].at = "idle" /\ given \subseteq owned
     /\ owned' = owned \ given
     /\ IF ~(given \subseteq bits)
        THEN lost' = lost \cup given /\ UNCHANGED <<refs, cpu>>
        ELSE /\ refs' = left
             /\ IF \E p \in given : left[p] > 0
                THEN lost' = lost \cup given /\ UNCHANGED cpu
                ELSE /\ cpu' = [cpu EXCEPT ![c] = [NoCall EXCEPT !.at = "give", !.zone = ZoneOf(block.base),
                                                               !.base = block.base, !.order = block.order]]
                     /\ UNCHANGED lost
     /\ UNCHANGED <<free, freePages, bits, lock, boot, stale>>

\* Mutant: the bits are cleared after the zone's lock is gone
BuddyFreeZoneUnlocked(c) ==
  LET z     == cpu[c].zone
      block == Block(cpu[c].base, cpu[c].order)
  IN /\ cpu[c].at = "give" /\ lock[z] = Unlocked
     /\ free' = FreeInto(free, block)
     /\ freePages' = [freePages EXCEPT ![z] = @ + OrderToPages[block.order]]
     /\ cpu' = [cpu EXCEPT ![c].at = "clear", ![c].todo = FramesOf(block)]
     /\ UNCHANGED <<bits, refs, lock, boot, owned, lost, stale>>

BuddyFreeZone(c) ==
  LET z     == cpu[c].zone
      block == Block(cpu[c].base, cpu[c].order)
  IN /\ cpu[c].at = "give" /\ lock[z] = Unlocked
     /\ lock' = [lock EXCEPT ![z] = c]
     /\ free' = FreeInto(free, block)
     /\ freePages' = [freePages EXCEPT ![z] = @ + OrderToPages[block.order]]
     /\ cpu' = [cpu EXCEPT ![c].at = "clear", ![c].todo = FramesOf(block)]
     /\ UNCHANGED <<bits, refs, boot, owned, lost, stale>>

FreeReturn(c) ==
  /\ cpu[c].at = "clear" /\ cpu[c].todo = {}
  /\ lock' = [z \in ZoneNos |-> IF lock[z] = c THEN Unlocked ELSE lock[z]]
  /\ cpu' = [cpu EXCEPT ![c] = NoCall]
  /\ UNCHANGED <<free, freePages, bits, refs, boot, owned, lost, stale>>

Step(c) ==
  \/ BuddyAllocZone(c) \/ StoreByte(c) \/ LoadByte(c) \/ StoreBit(c) \/ AllocReturn(c)
  \/ BuddyFreeZone(c) \/ FreeReturn(c)

FramesNext ==
  \/ AddBlock
  \/ \E c \in Callers :
       \/ \E n \in Counts, z \in ZoneNos : AllocFrames(c, n, z)
       \/ \E o \in Orders, base \in Frames : base % OrderToPages[o] = 0 /\ FreeFrames(c, Block(base, o))
       \/ Step(c)

FramesSpec == FramesInit /\ [][FramesNext]_framesVars
-----------------------------------------------------------------------------
(***************************************************************************)
(* Properties                                                              *)
(***************************************************************************)
Blocks == {b \in [base : Frames, order : Orders] : FramesOf(b) \subseteq Frames}

\* Every variable has its type (the state of buddy.cpp's zones, lists and bitmap)
FramesTypeOK ==
  /\ free \subseteq Blocks /\ freePages \in [ZoneNos -> Int]
  /\ bits \subseteq Frames /\ refs \in [Frames -> Int] /\ lock \in [ZoneNos -> Callers \cup {Unlocked}]
  /\ \A c \in Callers : cpu[c].at \in {"idle", "search", "mark", "give", "clear"} /\ cpu[c].todo \subseteq Frames
  /\ owned \subseteq Frames /\ lost \subseteq Frames /\ stale \subseteq Frames

\* Frames between the lists and a client: taken and not yet returned, or given up and not yet listed
InTransit(c) ==
  IF cpu[c].at \in {"mark", "give"} THEN FramesOf(Block(cpu[c].base, cpu[c].order)) ELSE {}

Listed  == UNION {FramesOf(b) : b \in free}
Pending == IF Booted THEN {} ELSE
  (boot.start..(Regions[boot.region][2] - 1))
  \cup UNION {Regions[i][1]..(Regions[i][2] - 1) : i \in (boot.region + 1)..Len(Regions)}

(***************************************************************************)
(* Nothing is handed out twice and nothing disappears: each frame given to *)
(* the allocator is in exactly one of the free lists, a client, a call in  *)
(* flight, or among the frames whose free was refused; and each zone's     *)
(* free_pages counts its lists (buddy_alloc_zone, buddy_free_zone on       *)
(* several processors, splitting and merging).                             *)
(***************************************************************************)
FramesAccounted ==
  /\ \A b, d \in free : b # d => FramesOf(b) \cap FramesOf(d) = {}
  /\ LET shares == <<Listed, owned, lost, Pending>>
     IN /\ \A i, j \in 1..4 : i # j => shares[i] \cap shares[j] = {}
        /\ \A c \in Callers : \A i \in 1..4 : InTransit(c) \cap shares[i] = {}
        /\ \A c, d \in Callers : c # d => InTransit(c) \cap InTransit(d) = {}
        /\ Given = UNION ({shares[i] : i \in 1..4} \cup {InTransit(c) : c \in Callers})
  /\ \A z \in ZoneNos : freePages[z] = Cardinality(Listed \cap Zones[z])

(***************************************************************************)
(* Merging inverts splitting: no two buddies of one order, both in the     *)
(* zone, are ever in the lists together, so that a zone whose frames are   *)
(* all returned is in the blocks it was in after boot.                     *)
(***************************************************************************)
FullyMerged ==
  \A b \in free :
    b.order + 1 < MaxOrder /\ FramesOf(Buddy(b)) \subseteq Zones[ZoneOf(b.base)] => Buddy(b) \notin free

(***************************************************************************)
(* free_frames refuses a client's block (buddy.cpp:356) only if the bit of *)
(* one of its frames was wiped out by another processor's store of the     *)
(* same byte (bitmap.cpp:26, outside of any common lock): a frame of a     *)
(* client has its bit, and one reference, in every other case.             *)
(***************************************************************************)
BitsOfOwners == \A p \in owned : refs[p] = 1 /\ (p \in bits \/ p \in stale)
=============================================================================
