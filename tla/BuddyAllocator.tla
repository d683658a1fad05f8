--------------------------- MODULE BuddyAllocator ---------------------------
(***************************************************************************)
(* The generic buddy allocator (allocators/buddy.rs) with its slab         *)
(* sub-allocator (allocators/slab.rs), as the physical page allocator      *)
(* (memory/physical.rs) instantiates and fills it.                         *)
(*                                                                         *)
(* Addresses are block numbers: an address divided by 1 << MIN_ORDER.  A   *)
(* free list is the set of the addresses linked into it.  The code pops    *)
(* the most recently pushed block and takes the first slab range that      *)
(* fits; the model takes any block of the list and any fitting range, so   *)
(* every run of the code is a run of the model.                            *)
(*                                                                         *)
(* Every call runs under the ALLOCATOR InterruptMutex.  The two loops of   *)
(* the allocator, the splitting loop of alloc and the merging loop of      *)
(* free_with, take one step per iteration; pc says which loop runs and     *)
(* cur holds its local variables.                                          *)
(***************************************************************************)
EXTENDS Integers, FiniteSets, Sequences, PageSlab

CONSTANTS
  MaxOrder,    \* max_order(): ORDER_COUNT - 1
  Entries,     \* usable memory map entries, a sequence of [start, end) blocks
  Donatable,   \* boot page-table frames that try_upgrade_hhdm frees
  Counts,      \* the sizes callers ask for
  MaxLive      \* bound: number of allocations held at once

Orders == 0..MaxOrder

\* block_size, in units of the smallest block.
BlockSize == [o \in Orders |-> 2^o]

EntryPages(i) == Entries[i].start..(Entries[i].end - 1)

ASSUME OrderAssumption == MaxOrder \in Nat

\* What the proofs use of the powers of two.
ASSUME SizeAssumption ==
  /\ BlockSize[0] = 1
  /\ \A o \in Orders :
       /\ BlockSize[o] \in Nat \ {0}
       /\ o + 1 \in Orders => BlockSize[o + 1] = 2 * BlockSize[o]

\* The boot loader reports sorted, disjoint usable entries that leave out
\* page zero, and the frames of its page tables lie outside of them.
ASSUME EntriesAssumption ==
  /\ Entries \in Seq([start : Nat \ {0}, end : Nat])
  /\ \A i, j \in DOMAIN Entries : i < j => Entries[i].end <= Entries[j].start
  /\ \A i \in DOMAIN Entries : Entries[i].start <= Entries[i].end
  /\ Donatable \subseteq Nat \ {0}
  /\ \A i \in DOMAIN Entries : EntryPages(i) \cap Donatable = {}

ASSUME CountsAssumption == Counts \subseteq Nat /\ MaxLive \in Nat

VARIABLES
  heads,    \* heads[o]: the free list of order o
  slab,     \* the slab's BlockInfo table
  live,     \* the allocations that callers hold
  leaked,   \* single blocks that were handed out for a zero-sized request
            \* by the buddy lists and that free_range therefore never gets
  pc,       \* "carve", "idle", "split" or "merge"
  cur,      \* the block in flight: address, order, wanted order and count
  entry,    \* init: index of the current memory map entry
  cursor,   \* init: addr in the current memory map entry
  donated   \* frames of Donatable given to the allocator so far

vars == <<heads, slab, live, leaked, pc, cur, entry, cursor, donated>>

\* The source of a run that a slab block was cut for; not an order.
BySlab == MaxOrder + 1

\* An allocation as its caller knows it (addr, count), and where it was cut
\* from: a slab block, or the buddy lists at some order.
Handles == [addr : Nat \ {0}, count : Nat, via : Orders \union {BySlab}]

NoCur == [addr |-> 0, order |-> 0, want |-> 0, count |-> 0]

-----------------------------------------------------------------------------
(* Free lists.                                                             *)

\* Variant: the buddy is always the block above.
BuddyAbove(a, o) == a + BlockSize[o]

\* buddy_of: addr xor block_size(order).
BuddyOf(a, o) ==
  IF (a \div BlockSize[o]) % 2 = 0 THEN a + BlockSize[o] ELSE a - BlockSize[o]

\* push: address 0 is the list terminator, so that pushing it drops the list.
Push(list, a) == IF a = 0 THEN {} ELSE list \union {a}

\* count.next_power_of_two().trailing_zeros(): the least order that holds
\* count blocks (order 0 for count = 0).
TightOrder(o, count) ==
  /\ count <= BlockSize[o]
  /\ \A p \in Orders : p < o => BlockSize[p] < count

IsPowerOfTwo(count) == \E o \in Orders : BlockSize[o] = count

\* alloc: found is the smallest order from order on whose list is not empty.
FirstNonEmpty(found, order) ==
  /\ found >= order
  /\ heads[found] # {}
  /\ \A o \in Orders : order <= o /\ o < found => heads[o] = {}

-----------------------------------------------------------------------------
(* Filling the allocator: physical::init.                                  *)

Init ==
  /\ heads = [o \in Orders |-> {}]
  /\ slab = [i \in Slots |-> NoBlock]
  /\ live = {}
  /\ leaked = {}
  /\ pc = "carve"
  /\ cur = NoCur
  /\ entry = 1
  /\ cursor = IF Len(Entries) = 0 THEN 0 ELSE Entries[1].start
  /\ donated = {}

\* The order init picks for the block at a with rem blocks left: the largest
\* one that fits and is aligned, or 0.
CarveOrder(o, a, rem) ==
  LET ok(q) == q = 0 \/ (rem >= BlockSize[q] /\ a % BlockSize[q] = 0)
  IN  ok(o) /\ \A p \in Orders : p > o => ~ok(p)

\* One iteration of the while loop of physical::init.
Carve ==
  /\ pc = "carve" /\ entry <= Len(Entries) /\ cursor + 1 <= Entries[entry].end
  /\ \E o \in Orders :
       /\ CarveOrder(o, cursor, Entries[entry].end - cursor)
       /\ heads' = [heads EXCEPT ![o] = Push(@, cursor)]
       /\ cursor' = cursor + BlockSize[o]
  /\ UNCHANGED <<slab, live, leaked, pc, cur, entry, donated>>

\* The for loop of physical::init moves on, or init returns.
NextEntry ==
  /\ pc = "carve"
  /\ entry <= Len(Entries) => cursor + 1 > Entries[entry].end
  /\ IF entry < Len(Entries)
     THEN /\ entry' = entry + 1
          /\ cursor' = Entries[entry + 1].start
          /\ UNCHANGED pc
     ELSE /\ pc' = "idle"
          /\ UNCHANGED <<entry, cursor>>
  /\ UNCHANGED <<heads, slab, live, leaked, cur, donated>>

-----------------------------------------------------------------------------
(* alloc_range.                                                            *)

\* A request that is not a power of two and that a slab block can serve.
AllocFromSlab(count) ==
  /\ pc = "idle" /\ Cardinality(live) < MaxLive
  /\ ~IsPowerOfTwo(count)
  /\ \E i \in Slots : \E r \in slab[i].free :
       /\ FirstFit(slab, i, r, count)
       /\ slab' = Take(slab, i, r, count)
       /\ live' = live \union {[addr |-> r.addr, count |-> count, via |-> BySlab]}
  /\ UNCHANGED <<heads, leaked, pc, cur, entry, cursor, donated>>

\* Every other request starts alloc(order): pop the first list that is not
\* empty.  When there is none, or order exceeds MaxOrder, alloc_range
\* returns None and nothing changes.
AllocPop(count) ==
  /\ pc = "idle" /\ Cardinality(live) < MaxLive
  /\ IsPowerOfTwo(count) \/ NoFit(slab, count)
  /\ \E order, found \in Orders :
       /\ TightOrder(order, count)
       /\ FirstNonEmpty(found, order)
       /\ \E block \in heads[found] :
            /\ heads' = [heads EXCEPT ![found] = @ \ {block}]
            /\ cur' = [addr |-> block, order |-> found, want |-> order, count |-> count]
  /\ pc' = "split"
  /\ UNCHANGED <<slab, live, leaked, entry, cursor, donated>>

\* One iteration of alloc's splitting loop: push the upper half.
Split ==
  /\ pc = "split" /\ cur.order > cur.want
  /\ LET o == cur.order - 1
     IN  /\ heads' = [heads EXCEPT ![o] = Push(@, cur.addr + BlockSize[o])]
         /\ cur' = [cur EXCEPT !.order = o]
  /\ UNCHANGED <<slab, live, leaked, pc, entry, cursor, donated>>

\* alloc returned the block for a power-of-two request, or the slab table
\* has no room for it: the caller gets the whole block.
AllocWhole ==
  /\ pc = "split" /\ cur.order = cur.want
  /\ IsPowerOfTwo(cur.count) \/ Full(slab)
  /\ live' = live \union {[addr |-> cur.addr, count |-> cur.count, via |-> cur.want]}
  /\ pc' = "idle" /\ cur' = NoCur
  /\ UNCHANGED <<heads, slab, leaked, entry, cursor, donated>>

\* add_block turned the block into a slab block, and allocate serves the
\* request from the table.
AllocNewSlab ==
  /\ pc = "split" /\ cur.order = cur.want
  /\ ~IsPowerOfTwo(cur.count)
  /\ \E k \in Slots :
       /\ FirstUnused(slab, k)
       /\ LET tab == AddBlock(slab, k, cur.addr, BlockSize[cur.want])
          IN  \E i \in Slots : \E r \in tab[i].free :
                /\ FirstFit(tab, i, r, cur.count)
                /\ slab' = Take(tab, i, r, cur.count)
                /\ live' = live \union
                     {[addr |-> r.addr, count |-> cur.count, via |-> BySlab]}
  /\ pc' = "idle" /\ cur' = NoCur
  /\ UNCHANGED <<heads, leaked, entry, cursor, donated>>

-----------------------------------------------------------------------------
(* free_range.                                                             *)

\* PageSlab::free for slot i.  checked_sub leaves early, with the range
\* already linked, when the slot has fewer allocated blocks than count.
\* A slot whose last block comes back is given up and its block goes to
\* the merging loop.
SlabFree(i, a, count) ==
  LET rem == slab[i].allocated - count
  IN  IF rem = 0
      THEN /\ slab' = GiveUp(slab, i)
           /\ pc' = "merge"
           /\ \E o \in Orders :
                /\ BlockSize[o] = slab[i].total
                /\ cur' = [NoCur EXCEPT !.addr = slab[i].base, !.order = o]
      ELSE /\ slab' = Link(slab, i, a, count, IF rem < 0 THEN slab[i].allocated ELSE rem)
           /\ UNCHANGED <<pc, cur>>

\* free_range for count > 0.
FreeRange(a, count) ==
  \/ /\ ~Owns(slab, a)
     /\ \E o \in Orders :
          /\ TightOrder(o, count)
          /\ cur' = [NoCur EXCEPT !.addr = a, !.order = o]
     /\ pc' = "merge"
     /\ UNCHANGED slab
  \/ \E i \in Slots :
       /\ InSlot(slab, i, a)
       /\ \A j \in Slots : j < i => ~InSlot(slab, j, a)
       /\ SlabFree(i, a, count)

\* The holder of h gives it back (PhysPage::drop, KernelHeap::dealloc).
Free(h) ==
  /\ pc = "idle" /\ h \in live
  /\ live' = live \ {h}
  /\ h.count # 0 /\ FreeRange(h.addr, h.count)
  /\ UNCHANGED <<heads, leaked, entry, cursor, donated>>

\* free_range returns at once for count = 0.  A block that the buddy lists
\* gave out for the request is then out of everyone's reach.
FreeZero(h) ==
  /\ pc = "idle" /\ h \in live /\ h.count = 0
  /\ live' = live \ {h}
  /\ leaked' = leaked \union (IF h.via = BySlab THEN {} ELSE {h.addr})
  /\ UNCHANGED <<heads, slab, pc, cur, entry, cursor, donated>>

\* try_upgrade_hhdm frees a frame of the boot page tables that a huge page
\* has replaced.
Donate(p) ==
  /\ pc = "idle" /\ p \notin donated
  /\ donated' = donated \union {p}
  /\ FreeRange(p, 1)
  /\ UNCHANGED <<heads, live, leaked, entry, cursor>>

\* Variant: the buddy is not unlinked from its free list.
MergeKeepsBuddy ==
  /\ pc = "merge" /\ cur.order # MaxOrder
  /\ LET buddy == BuddyOf(cur.addr, cur.order)
     IN  /\ buddy \in heads[cur.order]
         /\ cur' = [cur EXCEPT !.addr = IF buddy < @ THEN buddy ELSE @,
                               !.order = @ + 1]
  /\ UNCHANGED <<heads, slab, live, leaked, pc, entry, cursor, donated>>

\* One iteration of free_with's loop that finds the buddy free.
Merge ==
  /\ pc = "merge" /\ cur.order # MaxOrder
  /\ LET buddy == BuddyOf(cur.addr, cur.order)
     IN  /\ buddy \in heads[cur.order]
         /\ heads' = [heads EXCEPT ![cur.order] = @ \ {buddy}]
         /\ cur' = [cur EXCEPT !.addr = IF buddy < @ THEN buddy ELSE @,
                               !.order = @ + 1]
  /\ UNCHANGED <<slab, live, leaked, pc, entry, cursor, donated>>

\* The loop ends and the block is pushed.
PushFreed ==
  /\ pc = "merge"
  /\ cur.order = MaxOrder \/ BuddyOf(cur.addr, cur.order) \notin heads[cur.order]
  /\ heads' = [heads EXCEPT ![cur.order] = Push(@, cur.addr)]
  /\ pc' = "idle" /\ cur' = NoCur
  /\ UNCHANGED <<slab, live, leaked, entry, cursor, donated>>

-----------------------------------------------------------------------------

Next ==
  \/ Carve
  \/ NextEntry
  \/ \E count \in Counts : AllocFromSlab(count)
  \/ \E count \in Counts : AllocPop(count)
  \/ Split
  \/ AllocWhole
  \/ AllocNewSlab
  \/ \E h \in live : Free(h)
  \/ \E h \in live : FreeZero(h)
  \/ \E p \in Donatable : Donate(p)
  \/ Merge
  \/ PushFreed

Spec == Init /\ [][Next]_vars

-----------------------------------------------------------------------------
(* Where memory is.                                                        *)

\* The pieces that the buddy level deals in: free blocks, the block in
\* flight, slab blocks, blocks that a caller holds whole, and lost blocks.
Piece(kind, id, a, n) == [kind |-> kind, id |-> id, base |-> a, size |-> n]

FreePieces   == UNION {{Piece("free", o, a, BlockSize[o]) : a \in heads[o]} : o \in Orders}
FlightPieces == IF pc \in {"split", "merge"}
                THEN {Piece("flight", 0, cur.addr, BlockSize[cur.order])} ELSE {}
SlabPieces   == {Piece("slab", i, slab[i].base, slab[i].total) :
                   i \in {j \in Slots : slab[j].used}}
WholePieces  == {Piece("held", h.count, h.addr, BlockSize[h.via]) :
                   h \in {g \in live : g.via # BySlab}}
LostPieces   == {Piece("lost", 0, a, 1) : a \in leaked}

Pieces == FreePieces \union FlightPieces \union SlabPieces
            \union WholePieces \union LostPieces

Apart(x, y) == x.base + x.size <= y.base \/ y.base + y.size <= x.base

\* The blocks that physical::init has carved or try_upgrade_hhdm has given.
CarvedPages(i) ==
  IF pc # "carve" \/ i < entry THEN EntryPages(i)
  ELSE IF i = entry THEN Entries[i].start..(cursor - 1) ELSE {}

Managed == donated \union UNION {CarvedPages(i) : i \in DOMAIN Entries}

\* The runs that callers hold and that a slab block was cut for.
SlabRuns == {h \in live : h.via = BySlab}

TypeOK ==
  /\ heads \in [Orders -> SUBSET (Nat \ {0})]
  /\ slab \in [Slots -> BlockInfo]
  /\ live \subseteq Handles
  /\ leaked \subseteq Nat \ {0}
  /\ pc \in {"carve", "idle", "split", "merge"}
  /\ cur \in [addr : Nat, order : Orders, want : Orders, count : Nat]
  /\ entry \in Nat \ {0}
  /\ cursor \in Nat
  /\ donated \subseteq Donatable

\* No block of memory is in two places at the buddy level: the free lists,
\* the block being split or merged, the slab's blocks and the blocks callers
\* hold never overlap (buddy.rs alloc, free_with, alloc_range, free_range).
PiecesApart == \A x, y \in Pieces : x # y => Apart(x, y)

\* No block of memory is lost: all that was ever given to the allocator is
\* in some piece, and each slab block is covered by its free ranges and runs.
NothingLost ==
  /\ Managed = UNION {Pages(x.base, x.size) : x \in Pieces}
  /\ \A i \in Slots : slab[i].used =>
       Pages(slab[i].base, slab[i].total)
         = RunPages(slab, SlabRuns, i) \union
           UNION {Pages(x.addr, x.count) : x \in slab[i].free}

\* Inside a slab block the free ranges and the runs handed out are apart and
\* stay inside the block, and allocated_blocks counts exactly the blocks that
\* callers hold (slab.rs alloc_in_block, free): checked_sub never fails, and a
\* slot is given up exactly when its last run comes back.
SlabExact ==
  \A i \in Slots : slab[i].used => SlotApart(slab, SlabRuns, i) /\ SlotCounted(slab, SlabRuns, i)

\* free_range finds its way back: it goes to the slab exactly for the runs
\* that the slab cut, whatever was allocated and freed in between.
RoutesMatch ==
  \A h \in live : h.count > 0 => (Owns(slab, h.addr) <=> h.via = BySlab)

\* Between calls no two free buddies lie side by side unmerged, and every
\* free block is aligned to its size (what buddy_of's xor relies on).
Coalesced ==
  /\ \A o \in Orders : \A a \in heads[o] : a % BlockSize[o] = 0
  /\ pc = "idle" => \A o \in Orders \ {MaxOrder} : \A a \in heads[o] :
                      BuddyOf(a, o) \notin heads[o]

-----------------------------------------------------------------------------
(* What callers may rely on.                                               *)

Owners == INSTANCE PageOwnership WITH owned <- {h \in live : h.count > 0},
                                      memory <- Managed

\* Calls of the allocator are steps of the ownership specification: a caller
\* receives memory nobody holds, and keeps it until it gives it back.
ImplementsOwnership == Owners!Spec
=============================================================================
