------------------------------ MODULE PageSlab ------------------------------
(***************************************************************************)
(* The slab sub-allocator for requests that are not powers of two          *)
(* (allocators/slab.rs), as operations on its BlockInfo table.             *)
(*                                                                         *)
(* A slot of the table manages one block obtained from the buddy lists.    *)
(* Its free list is the set of its FreeRange entries, [addr, count].  An   *)
(* unused slot is NoBlock: the code only clears `used`, and overwrites the *)
(* rest in add_block before reading it.  block_count is the code's high-   *)
(* water mark of used slots; the slots above it are unused, so that the    *)
(* first unused slot is the one add_block picks.                           *)
(***************************************************************************)
EXTENDS Integers, FiniteSets

CONSTANT MaxBlocks    \* MAX_BLOCKS

ASSUME MaxBlocksAssumption == MaxBlocks \in Nat

Slots == 1..MaxBlocks

Pages(a, n) == a..(a + n - 1)

Ranges == [addr : Nat \ {0}, count : Nat \ {0}]

BlockInfo == [used : BOOLEAN, base : Nat, total : Nat, allocated : Nat,
              free : SUBSET Ranges]

Block(base, total, allocated, free) ==
  [used |-> TRUE, base |-> base, total |-> total, allocated |-> allocated, free |-> free]

NoBlock == [used |-> FALSE, base |-> 0, total |-> 0, allocated |-> 0, free |-> {}]

\* Variant: the end of the block counts as inside.
InSlotWithEnd(tab, i, a) ==
  /\ tab[i].used
  /\ tab[i].base <= a
  /\ a <= tab[i].base + tab[i].total

\* find_block: slot i manages address a.
InSlot(tab, i, a) ==
  /\ tab[i].used
  /\ tab[i].base <= a
  /\ a < tab[i].base + tab[i].total

Owns(tab, a) == \E i \in Slots : InSlot(tab, i, a)

\* alloc_in_block: slot i has a free range r of at least count blocks.
Fits(tab, i, r, count) == tab[i].used /\ r \in tab[i].free /\ r.count >= count

\* allocate: the first slot, in index order, in which some range fits.
FirstFit(tab, i, r, count) ==
  /\ Fits(tab, i, r, count)
  /\ \A j \in Slots : j < i => \A q \in tab[j].free : ~Fits(tab, j, q, count)

NoFit(tab, count) ==
  \A i \in Slots : \A r \in tab[i].free : ~Fits(tab, i, r, count)

\* Variant: the rest of the range is forgotten.
RestForgotten(r, count) == {}

\* alloc_in_block: what stays free of a range r when count blocks are cut
\* off its front.
Rest(r, count) ==
  IF r.count = count THEN {}
  ELSE {[addr |-> r.addr + count, count |-> r.count - count]}

\* Variants: the allocation counts as one block; the range stays listed.
TakeCountsOne(tab, i, r, count) ==
  [tab EXCEPT ![i] = Block(tab[i].base, tab[i].total, tab[i].allocated + 1,
                           (tab[i].free \ {r}) \union Rest(r, count))]

TakeKeepsRange(tab, i, r, count) ==
  [tab EXCEPT ![i] = Block(tab[i].base, tab[i].total, tab[i].allocated + count,
                           tab[i].free \union Rest(r, count))]

Take(tab, i, r, count) ==
  [tab EXCEPT ![i] = Block(tab[i].base, tab[i].total, tab[i].allocated + count,
                           (tab[i].free \ {r}) \union Rest(r, count))]

\* add_block: the slot an added block goes to.
FirstUnused(tab, i) == ~tab[i].used /\ \A j \in Slots : j < i => tab[j].used

Full(tab) == \A i \in Slots : tab[i].used

AddBlock(tab, i, base, total) ==
  [tab EXCEPT ![i] = Block(base, total, 0, {[addr |-> base, count |-> total]})]

\* free: the range goes to the slot's free list, allocated becomes rem.
Link(tab, i, a, count, rem) ==
  [tab EXCEPT ![i] = Block(tab[i].base, tab[i].total, rem,
                           tab[i].free \union {[addr |-> a, count |-> count]})]

\* free: the last run of the slot came back, the block leaves the table.
GiveUp(tab, i) == [tab EXCEPT ![i] = NoBlock]

-----------------------------------------------------------------------------
(* What relates the table to the set R of runs that callers hold.  A run   *)
(* of no blocks holds nothing.                                             *)

RunsIn(tab, R, i) == {h \in R : h.count > 0 /\ InSlot(tab, i, h.addr)}

RunPages(tab, R, i) == UNION {Pages(h.addr, h.count) : h \in RunsIn(tab, R, i)}

Inside(b, x) == b.base <= x.addr /\ x.addr + x.count <= b.base + b.total

RangeApart(x, y) == x.addr + x.count <= y.addr \/ y.addr + y.count <= x.addr

\* The free ranges and the runs of slot i are apart and inside its block.
SlotApart(tab, R, i) ==
  /\ \A x \in tab[i].free : Inside(tab[i], x)
  /\ \A x \in RunsIn(tab, R, i) : Inside(tab[i], x)
  /\ \A x, y \in tab[i].free : x # y => RangeApart(x, y)
  /\ \A x, y \in RunsIn(tab, R, i) : x # y => RangeApart(x, y)
  /\ \A x \in tab[i].free, y \in RunsIn(tab, R, i) : RangeApart(x, y)

\* allocated_blocks of slot i is the number of blocks that callers hold.
SlotCounted(tab, R, i) == tab[i].allocated = Cardinality(RunPages(tab, R, i))
=============================================================================
