-------------------------- MODULE MCBuddyAllocator --------------------------
(* BuddyAllocator on two memory map entries: [1,3) and [4,16).  Frame 3,   *)
(* between them, belongs to the boot page tables.  Three requests of three *)
(* blocks use up both slab slots and one whole block of order 2; a request *)
(* of five leaves a free range of three in its slab block.                 *)
EXTENDS BuddyAllocator

MCEntries == <<[start |-> 1, end |-> 3], [start |-> 4, end |-> 16]>>
=============================================================================
