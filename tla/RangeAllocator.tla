--------------------------- MODULE RangeAllocator ---------------------------
(***************************************************************************)
(* The allocator of address ranges (allocators/range.rs), as operations on *)
(* its list of free ranges.  Addresses are page numbers of Top pages, and  *)
(* sums wrap at Top: the kernel is built without overflow checks.          *)
(***************************************************************************)
EXTENDS Integers, Sequences, SequencesExt

CONSTANT Top    \* number of pages of the whole address space

ASSUME TopAssumption == Top \in Nat \ {0}

Run(start, length) == [start |-> start, length |-> length]

RangeEnd(r) == (r.start + r.length) % Top

\* next_multiple_of
NextMultiple(a, align) == (((a + align - 1) \div align) * align) % Top

\* Variant: the list is not sorted.
Unsorted(q) == q

\* sort_by_key
Sorted(q) == SortSeq(q, LAMBDA a, b : a.start < b.start)

\* One iteration of coalesce: r follows the list that is already merged.
Join(done, r) ==
  IF done # <<>> /\ RangeEnd(Last(done)) = r.start
  THEN Append(Front(done), Run(Last(done).start, Last(done).length + r.length))
  ELSE Append(done, r)

Coalesce(q) == FoldLeft(Join, <<>>, Sorted(q))

\* A remainder is only listed if it has a length.
NonEmpty(start, length) == IF length = 0 THEN <<>> ELSE <<Run(start, length)>>

\* Where a request that is served from range r ends.
EndIn(r, size, align) == (NextMultiple(r.start, align) + size) % Top

\* allocate: the index of the first range that fits, 0 if there is none.
FitIndex(q, size, align) == SelectInSeq(q, LAMBDA r : EndIn(r, size, align) <= RangeEnd(r))

\* Variant: what is left in front of the aligned start is dropped.
AllocateTail(q, i, size, align) ==
  LET end == EndIn(q[i], size, align)
  IN  Coalesce(RemoveAt(q, i) \o NonEmpty(end, RangeEnd(q[i]) - end))

\* allocate: the list after range i has been used.
Allocate(q, i, size, align) ==
  LET a   == NextMultiple(q[i].start, align)
      end == EndIn(q[i], size, align)
  IN  Coalesce(RemoveAt(q, i) \o NonEmpty(q[i].start, a - q[i].start)
                 \o NonEmpty(end, RangeEnd(q[i]) - end))

\* add_range and free.
Release(q, start, size) == Coalesce(Append(q, Run(start, size)))

\* reserve: how far the free ranges cover [start, end) without a gap.
Cursor(q, start, end) ==
  FoldLeft(LAMBDA c, r : IF RangeEnd(r) <= c.at \/ c.gap \/ c.at >= end THEN c
                         ELSE IF r.start > c.at THEN [c EXCEPT !.gap = TRUE]
                         ELSE [c EXCEPT !.at = RangeEnd(r)],
           [at |-> start, gap |-> FALSE], q)

CanReserve(q, start, end) == ~Cursor(q, start, end).gap /\ Cursor(q, start, end).at >= end

\* reserve: what stays of range r.
Kept(r, start, end) ==
  IF RangeEnd(r) <= start \/ r.start >= end THEN <<r>>
  ELSE (IF r.start < start THEN <<Run(r.start, start - r.start)>> ELSE <<>>)
         \o (IF RangeEnd(r) > end THEN <<Run(end, RangeEnd(r) - end)>> ELSE <<>>)

Reserve(q, start, end) ==
  Coalesce(FlattenSeq([i \in DOMAIN q |-> Kept(q[i], start, end)]))
=============================================================================
