-------------------------------- MODULE VMem --------------------------------
(***************************************************************************)
(* An address space: the page tables under an L4 table and the allocator   *)
(* of its free addresses (memory/virt.rs, memory/user.rs), with the calls  *)
(* the kernel makes: MMIORegion::new on its own half (memory/wrappers.rs), *)
(* map_fixed and drop on the half of a user program (elf/loader.rs,        *)
(* scheduling/task.rs).                                                    *)
(*                                                                         *)
(* An address is a page number.  A table of level k covers Size(k) pages,  *)
(* and a leaf of level k maps Size(k) pages: 4 KiB, 2 MiB and 1 GiB pages  *)
(* are the levels 0, 1 and 2, an entry of the L4 table has level 3.        *)
(***************************************************************************)
EXTENDS RangeAllocator, FiniteSetsExt

CONSTANTS
  Fan,        \* entries of a table (512)
  BootTables, \* by address space: tables and leaves when the allocator is made
  BootLeaves,
  Requests    \* by address space: [start, count, phys] of the calls

VARIABLES
  space,   \* the half that the allocator is for, an AddressSpace
  free,    \* the allocator's list of ranges
  tables,  \* page tables, <<level, first page>>
  leaves,  \* mappings, [lvl, at, phys]
  held,    \* regions whose mapping succeeded, [start, count, phys]
  job,     \* the map or unmap in progress, or NoJob
  alive    \* FALSE once the allocator has been dropped

vars == <<space, free, tables, leaves, held, job, alive>>

Size(k) == Fan ^ k

ASSUME VMemAssumption ==
  /\ Fan \in Nat \ {0, 1}
  /\ Top % (2 * Size(3)) = 0

AddressSpaces == {"Kernel", "User"}

Half == IF space = "Kernel" THEN (Top \div 2)..(Top - 1) ELSE 0..(Top \div 2 - 1)

Aligned(a, k) == a % Size(k) = 0
Down(a, k) == a - (a % Size(k))
LeafPages(l) == l.at..(l.at + Size(l.lvl) - 1)
TablePages(t) == t[2]..(t[2] + Size(t[1]) - 1)
Pages(h) == h.start..(h.start + h.count - 1)

NoJob == [op |-> "none"]

\* Adding to a VirtAddr panics if the sum is not canonical: neither half's end
\* is an address.
Canonical(a) == a \notin {Top \div 2, Top}

\* The kernel has panicked in the middle of call j.
Panicked(j) == [j EXCEPT !.op = "panic"]

-----------------------------------------------------------------------------
(* The tables.                                                             *)

\* find_free_ranges: the unused entries of the L4 table and of every table
\* that is reached from it.
UnusedEntries ==
  {e \in (0..3) \X Half :
     /\ Aligned(e[2], e[1])
     /\ e[1] = 3 \/ <<e[1] + 1, Down(e[2], e[1] + 1)>> \in BootTables[space]
     /\ e \notin BootTables[space]
     /\ \A l \in BootLeaves[space] : <<l.lvl, l.at>> # e}

FreeRanges == Coalesce(SetToSeq({Run(e[2], Size(e[1])) : e \in UnusedEntries}))

Needed(k, v) == {<<l, Down(v, l)>> : l \in (k + 1)..3}

Obstructed(k, v) ==
  \/ <<k, v>> \in tables
  \/ \E l \in leaves : v..(v + Size(k) - 1) \cap LeafPages(l) # {}

\* Mapper::map_to creates the missing tables from the top down.  It fails if
\* the entry is in use, or if there is no frame for one of the tables; the
\* tables created before stay.
MapTo(k, v, phys) ==
  IF Obstructed(k, v) THEN {[ok |-> FALSE, tables |-> tables, leaves |-> leaves]}
  ELSE {[ok |-> TRUE, tables |-> tables \union Needed(k, v),
         leaves |-> leaves \union {[lvl |-> k, at |-> v, phys |-> phys]}]}
       \union {[ok |-> FALSE, leaves |-> leaves,
                tables |-> tables \union {u \in Needed(k, v) : u[1] > t[1]}] :
                 t \in Needed(k, v) \ tables}

\* One level of clean_up_addr_range: the empty tables of level k that the
\* region touches are freed.
Sweep(k, T, h) ==
  T \ {t \in T : /\ t[1] = k
                 /\ TablePages(t) \cap Pages(h) # {}
                 /\ \A l \in leaves : LeafPages(l) \cap TablePages(t) = {}
                 /\ \A c \in T : c[1] < k => TablePages(c) \cap TablePages(t) = {}}

\* Mapper::clean_up_addr_range
CleanUp(h) == Sweep(3, Sweep(2, Sweep(1, tables, h), h), h)

-----------------------------------------------------------------------------
(* map: 1 GiB pages, then 2 MiB pages, then 4 KiB pages.                   *)

Fits(j, k) ==
  k = 0 \/ /\ j.count - j.done >= Size(k)
           /\ Aligned(j.phys + j.done, k)
           /\ Aligned(j.start + j.done, k)

MapJob(start, count, phys) ==
  [op |-> "map", start |-> start, count |-> count, phys |-> phys, done |-> 0, lvl |-> 2]

Region(j) == [start |-> j.start, count |-> j.count, phys |-> j.phys]

\* Variant: what was mapped so far stays.
UndoRest(j) == [j EXCEPT !.op = "unmap"]

\* The start of unmap for the region of a map that failed: it adds up where the
\* region ends.
Undo(j) ==
  IF Canonical(j.start + j.count) THEN [j EXCEPT !.op = "unmap", !.done = 0] ELSE Panicked(j)

\* A page of level k is mapped, and curr_virt moves past it.
Advance(j, k) ==
  LET next == [j EXCEPT !.done = @ + Size(k), !.lvl = k]
  IN  IF Canonical(j.start + next.done) THEN next ELSE Panicked(next)

\* One call of map_to.  When it fails, both callers of map free the region.
MapStep ==
  /\ job.op = "map" /\ job.done < job.count
  /\ LET k == Max({l \in 0..job.lvl : Fits(job, l)})
     IN  \E r \in MapTo(k, job.start + job.done,
                        IF k = 0 THEN job.phys + job.done ELSE Down(job.phys + job.done, k)) :
           /\ tables' = r.tables
           /\ leaves' = r.leaves
           /\ job' = IF r.ok THEN Advance(job, k) ELSE Undo(job)
  /\ UNCHANGED <<space, free, held, alive>>

MapDone ==
  /\ job.op = "map" /\ job.done = job.count
  /\ held' = held \union {Region(job)}
  /\ job' = NoJob
  /\ UNCHANGED <<space, free, tables, leaves, alive>>

-----------------------------------------------------------------------------
(* free: unmap, then give the addresses back.                              *)

LeafAt(k, v) == {l \in leaves : l.lvl = k /\ l.at = v}

HugeAt(j) ==
  {k \in 1..2 : /\ j.count - j.done >= Size(k)
                /\ Aligned(j.start + j.done, k)
                /\ LeafAt(k, j.start + j.done) # {}}

\* One iteration of the loop.  A page that is not mapped is skipped; a huge
\* page that covers more than the region ends the call with an error, and the
\* addresses are not given back.
UnmapStep ==
  /\ job.op = "unmap" /\ job.done < job.count
  /\ LET at == job.start + job.done
         k  == Max(HugeAt(job) \union {0})
     IN  IF LeafAt(k, at) # {}
         THEN /\ leaves' = leaves \ LeafAt(k, at)
              /\ job' = [job EXCEPT !.done = @ + Size(k)]
         ELSE /\ job' = IF \E l \in leaves : at \in LeafPages(l) THEN NoJob
                        ELSE [job EXCEPT !.done = @ + 1]
              /\ UNCHANGED leaves
  /\ UNCHANGED <<space, free, tables, held, alive>>

UnmapDone ==
  /\ job.op = "unmap" /\ job.done = job.count
  /\ tables' = CleanUp(job)
  /\ free' = Release(free, job.start, job.count)
  /\ job' = NoJob
  /\ UNCHANGED <<space, leaves, held, alive>>

-----------------------------------------------------------------------------
(* The calls.                                                              *)

AlignOf(count) ==
  IF count % Size(2) = 0 THEN Size(2) ELSE IF count % Size(1) = 0 THEN Size(1) ELSE 1

\* The kernel's image is linked 2 GiB below the top of the address space
\* (linker.ld), and nothing above it is used at boot: no request that starts
\* below the image reaches the top.
ASSUME RequestAssumption ==
  \A r \in Requests["Kernel"] : \A l \in BootLeaves["Kernel"] :
    \/ \E m \in BootLeaves["Kernel"] : l.at - 1 \in LeafPages(m)
    \/ NextMultiple(l.at, AlignOf(r.count)) + r.count < Top

Fit(r) == FitIndex(free, r.count, AlignOf(r.count))

Idle == alive /\ job = NoJob

\* MMIORegion::new: alloc, then map.
MmioNew(r) ==
  /\ space = "Kernel" /\ Idle /\ Fit(r) # 0
  /\ free' = Allocate(free, Fit(r), r.count, AlignOf(r.count))
  /\ job' = MapJob(NextMultiple(free[Fit(r)].start, AlignOf(r.count)), r.count, r.phys)
  /\ UNCHANGED <<space, tables, leaves, held, alive>>

\* MMIORegion::new returns None.
MmioNone(r) ==
  /\ space = "Kernel" /\ Idle /\ Fit(r) = 0
  /\ UNCHANGED vars

\* map_fixed of a segment or of the stack: reserve, then map.
MapFixed(r) ==
  /\ space = "User" /\ Idle /\ CanReserve(free, r.start, r.start + r.count)
  /\ free' = Reserve(free, r.start, r.start + r.count)
  /\ job' = MapJob(r.start, r.count, r.phys)
  /\ UNCHANGED <<space, tables, leaves, held, alive>>

\* Variant: L1 tables are not freed.
DroppedTwoLevels == {t \in tables : t[1] > 1}

\* Drop for VMemAllocator: what the three nested loops free.
Dropped ==
  {t \in tables : t[1] = 3 \/ <<t[1] + 1, Down(t[2], t[1] + 1)>> \in tables}

\* The program ends, or could not be loaded: its address space goes.
Drop ==
  /\ space = "User" /\ Idle
  /\ tables' = tables \ Dropped
  /\ leaves' = {} /\ held' = {} /\ free' = <<>>
  /\ alive' = FALSE
  /\ UNCHANGED <<space, job>>

\* new_user_allocator
NewUser ==
  /\ space = "User" /\ ~alive
  /\ tables' = BootTables[space] /\ leaves' = BootLeaves[space]
  /\ free' = FreeRanges
  /\ alive' = TRUE
  /\ UNCHANGED <<space, held, job>>

\* After a panic nothing runs.
Halted == job.op = "panic" /\ UNCHANGED vars

Init ==
  /\ space \in AddressSpaces
  /\ free = FreeRanges
  /\ tables = BootTables[space] /\ leaves = BootLeaves[space]
  /\ held = {} /\ job = NoJob /\ alive = TRUE

Next ==
  \/ \E r \in Requests[space] : MmioNew(r) \/ MmioNone(r) \/ MapFixed(r)
  \/ MapStep \/ MapDone \/ UnmapStep \/ UnmapDone
  \/ Drop \/ NewUser \/ Halted

Spec == Init /\ [][Next]_vars

-----------------------------------------------------------------------------
(* Properties.                                                             *)

FreePages(i) == free[i].start..(free[i].start + free[i].length - 1)
BootPages == UNION {LeafPages(l) : l \in BootLeaves[space]}
JobPages == IF job = NoJob THEN {} ELSE Pages(job)

\* An aligned run of free pages below the range that ends at the top.
RoomBelow(count) ==
  LET low == UNION {FreePages(i) : i \in {n \in DOMAIN free : RangeEnd(free[n]) # 0}}
  IN  \E a \in low : a % AlignOf(count) = 0 /\ a..(a + count - 1) \subseteq low

\* The rest of the range that ends at the top, from its first aligned page on.
TakesTop(count) ==
  \E i \in DOMAIN free : \E a \in FreePages(i) :
    /\ RangeEnd(free[i]) = 0 /\ a + count = Top
    /\ a % AlignOf(count) = 0 /\ a - free[i].start < AlignOf(count)

\* Every address of the half has exactly one owner: the mappings found at
\* boot, one free range, one region that was handed out, or the call in
\* progress.  No failure of map or unmap loses addresses or hands them out
\* twice.
OneOwner ==
  alive => \A p \in Half :
    LET free_ == Cardinality({i \in DOMAIN free : p \in FreePages(i)})
        held_ == Cardinality({h \in held : p \in Pages(h)})
        other == Cardinality({s \in {<<1, BootPages>>, <<2, JobPages>>} : p \in s[2]})
    IN  free_ + held_ + other = 1

\* The frames that the tables translate address p to: a walk finds a table at
\* every level above the leaf.
Translations(p) ==
  {l.phys + (p - l.at) :
     l \in {m \in leaves : p \in LeafPages(m) /\ Needed(m.lvl, m.at) \subseteq tables}}

\* "As long as `self` is in scope, the memory region is guaranteed to be
\* backed": every page of a region that was handed out is translated, to the
\* frame it was asked for, whatever happens to its neighbours; and addresses
\* that may be handed out again are not mapped any more, because the clean-up
\* behind a failed map misses nothing.
HeldBacked ==
  /\ \A h \in held : \A i \in 0..(h.count - 1) : Translations(h.start + i) = {h.phys + i}
  /\ \A l \in leaves : \A i \in DOMAIN free : LeafPages(l) \cap FreePages(i) = {}

\* Between calls every table that was created has a mapping below it, so that a
\* call that fails gives the frames of its tables back, and a dropped address
\* space keeps no table.
NoEmptyTables ==
  job = NoJob =>
    \A t \in tables \ BootTables[space] : alive /\ \E l \in leaves : LeafPages(l) \subseteq TablePages(t)

\* A request is served exactly if there is room for it: reserve accepts a fixed
\* region exactly if all of it is free, and alloc fails only if no aligned run
\* of free pages is long enough.  The sums that wrap make one exception: of the
\* free range that ends at the top of the address space, alloc serves only a
\* request that takes all of it from its first aligned page on.  Such a request
\* makes map panic, and it is served only if there is no room below.
RoomIsFound ==
  /\ Idle => \A r \in Requests[space] :
       IF space = "User"
       THEN CanReserve(free, r.start, r.start + r.count)
              <=> Pages(r) \subseteq UNION {FreePages(i) : i \in DOMAIN free}
       ELSE Fit(r) # 0 <=> RoomBelow(r.count) \/ TakesTop(r.count)
  /\ space = "Kernel" /\ job.op = "panic" => ~RoomBelow(job.count)
=============================================================================
