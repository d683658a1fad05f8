------------------------------- MODULE Loader -------------------------------
(***************************************************************************)
(* Starting a program: load and its helpers (elf/loader.rs), and           *)
(* Task::from_binary and new_user (scheduling/task.rs).  An ELF file is a  *)
(* type, an entry and program headers; its bytes are their positions in    *)
(* the file, so that the memory the program finds can be compared with     *)
(* what its headers ask for.  Allocations, reads and mappings may fail at  *)
(* any point; what was made until then is dropped piece by piece, in the   *)
(* order of the language.  The address space is the page table that VMem   *)
(* describes in detail.                                                    *)
(***************************************************************************)
EXTENDS Integers, Sequences, Functions

CONSTANTS
  PageSize,
  UserEnd,      \* USER_END
  UsizeMax,     \* largest usize
  DynBase,      \* base of ET_DYN files
  StackPages,   \* USER_STACK_PAGES
  FileLen,      \* length of the file
  Programs      \* [dyn, entry, phdrs] of the files

Headers == [load : BOOLEAN, vaddr : Nat, memsz : Nat, filesz : Nat, offset : Nat, x : BOOLEAN, w : BOOLEAN]

ASSUME LoaderAssumption ==
  /\ {PageSize, StackPages} \subseteq Nat \ {0}
  /\ {UserEnd, UsizeMax, DynBase, FileLen} \subseteq Nat
  /\ UserEnd % PageSize = 0 /\ (StackPages + 1) * PageSize <= UserEnd /\ UserEnd <= UsizeMax
  /\ Programs \subseteq [dyn : BOOLEAN, entry : Nat, phdrs : Seq(Headers)]

VARIABLES
  prog,     \* the file
  pc,       \* next step of load and from_binary
  segs,     \* the checked segments
  at,       \* number of segments mapped
  owned,    \* page ranges that load, the binary or the task own, by kind
  memory,   \* memory[h]: bytes of the range h: positions in the file, or Zero
  space     \* space[p]: where the user page p is mapped, and its flags

vars == <<prog, pc, segs, at, owned, memory, space>>

Zero == -1
Zeroed(count) == [b \in 0..(count * PageSize - 1) |-> Zero]
PageOf(v) == v \div PageSize
DivCeil(n, d) == (n + d - 1) \div d
Empty == [x \in {} |-> Zero]

\* The function f with what new says.
Added(f, new) == [x \in DOMAIN f \union DOMAIN new |-> IF x \in DOMAIN new THEN new[x] ELSE f[x]]

-----------------------------------------------------------------------------
(* The checks.                                                             *)

\* parse_header.
Base(p) == IF p.dyn THEN DynBase ELSE 0

SizesFit(h) == h.filesz <= h.memsz

\* A program header that parse_segments accepts.
HeaderOK(p, h) ==
  LET virt == Base(p) + h.vaddr
      memEnd == virt + h.memsz
      end == DivCeil(memEnd, PageSize) * PageSize
  IN  /\ h.offset + h.filesz <= UsizeMax /\ h.offset + h.filesz <= FileLen
      /\ virt <= UsizeMax /\ memEnd <= UsizeMax /\ end <= UsizeMax
      /\ end <= UserEnd

\* Variant: the file's bytes are copied to the beginning of the page.
SegmentAtPage(p, h) ==
  LET virt == Base(p) + h.vaddr
  IN  [virt |-> virt, start |-> PageOf(virt) * PageSize,
       end |-> DivCeil(virt + h.memsz, PageSize) * PageSize,
       from |-> h.offset, len |-> h.filesz, memSize |-> h.memsz,
       pageOffset |-> 0, x |-> h.x, w |-> h.w]

Segment(p, h) ==
  LET virt == Base(p) + h.vaddr
      start == PageOf(virt) * PageSize
  IN  [virt |-> virt, start |-> start,
       end |-> DivCeil(virt + h.memsz, PageSize) * PageSize,
       from |-> h.offset, len |-> h.filesz, memSize |-> h.memsz,
       pageOffset |-> virt - start, x |-> h.x, w |-> h.w]

\* The headers that ask for memory: loadable ones, and of these the not empty ones.
Loads(p) == {k \in DOMAIN p.phdrs : p.phdrs[k].load}
Kept(p) == {k \in Loads(p) : p.phdrs[k].memsz # 0}

\* parse_segments returns Ok.
ParsesOK(p) ==
  /\ \A k \in Loads(p) : SizesFit(p.phdrs[k])
  /\ \A k \in Kept(p) : HeaderOK(p, p.phdrs[k])
  /\ Kept(p) # {}

\* The segments, as check_no_overlap sorts them: sort_unstable_by_key leaves
\* those with the same start in any order.
ByStart(p) ==
  LET seg(k) == Segment(p, p.phdrs[k])
      orders == {f \in UNION {[1..n -> Kept(p)] : n \in 0..Len(p.phdrs)} :
                   /\ IsInjective(f) /\ Range(f) = Kept(p)
                   /\ \A i, j \in DOMAIN f : i < j => seg(f[i]).start <= seg(f[j]).start}
  IN  {[i \in DOMAIN f |-> seg(f[i])] : f \in orders}

NoOverlap(ss) == \A i \in 1..(Len(ss) - 1) : ss[i].end <= ss[i + 1].start

EntryOf(p) == Base(p) + p.entry

\* validate_entry; an address in a segment is canonical.
EntryOK(p, ss) ==
  /\ EntryOf(p) <= UsizeMax
  /\ \E i \in 1..Len(ss) : ss[i].x /\ EntryOf(p) \in ss[i].virt..(ss[i].virt + ss[i].memSize - 1)

-----------------------------------------------------------------------------
(* load.                                                                   *)

\* The function that an error returns from.
ErrorIn == [read |-> "in_load", check |-> "in_load", space |-> "in_load", segment |-> "in_load",
            kstack |-> "in_binary", ustack |-> "in_binary", mapstack |-> "in_binary",
            syscall_stack |-> "in_user", priv_stack |-> "in_user"]

\* Variant: the binary has its segments before its address space.
SegmentsFirst ==
  [in_load   |-> <<"segment", "tables", "l4", "file">>,
   in_binary |-> <<"ustack", "kstack", "segment", "tables", "l4">>,
   in_user   |-> <<"syscall_stack", "tables", "l4", "kstack", "ustack", "segment">>]

\* The order in which it drops what there is: variables last to first, fields
\* first to last, arguments after variables.  load's pages come before its
\* space.  from_binary has given the stack and the space to new_user, which
\* has them in a task that is not complete.
DropOrder ==
  [in_load   |-> <<"segment", "tables", "l4", "file">>,
   in_binary |-> <<"ustack", "kstack", "tables", "l4", "segment">>,
   in_user   |-> <<"syscall_stack", "tables", "l4", "kstack", "ustack", "segment">>]

\* An error.
Abort ==
  /\ pc' = ErrorIn[pc]
  /\ UNCHANGED <<prog, segs, at, owned, memory, space>>

\* The page range g is dropped before h; those of a Vec in their order.
Before(g, h) ==
  \E i, j \in DOMAIN DropOrder[pc] :
    /\ DropOrder[pc][i] = g[1] /\ DropOrder[pc][j] = h[1]
    /\ i < j \/ (i = j /\ g[2] < h[2])

\* The next range is dropped.  Dropping the page tables, which are found from
\* the table in l4, ends all mappings.
Drop ==
  /\ pc \in DOMAIN DropOrder
  /\ \E h \in owned :
       /\ \A g \in owned \ {h} : Before(h, g)
       /\ owned' = owned \ {h}
       /\ space' = IF h = <<"tables">> THEN Empty ELSE space
  /\ UNCHANGED <<prog, pc, segs, at, memory>>

\* The error has reached the caller of load or from_binary.
Failed ==
  /\ pc \in DOMAIN DropOrder
  /\ \A h \in owned : h[1] \notin Range(DropOrder[pc])
  /\ pc' = "failed"
  /\ UNCHANGED <<prog, segs, at, owned, memory, space>>

\* read_file.
ReadFile ==
  /\ pc = "read"
  /\ pc' = "check"
  /\ owned' = {<<"file">>}
  /\ UNCHANGED <<prog, segs, at, memory, space>>

Accepted(p, ss) == ParsesOK(p) /\ NoOverlap(ss) /\ EntryOK(p, ss)

Check ==
  /\ pc = "check"
  /\ \E ss \in ByStart(prog) : Accepted(prog, ss) /\ segs' = ss
  /\ pc' = "space"
  /\ UNCHANGED <<prog, at, owned, memory, space>>

Refuse ==
  /\ pc = "check"
  /\ \E ss \in ByStart(prog) : ~Accepted(prog, ss)
  /\ Abort

\* new_user_allocator.
NewSpace ==
  /\ pc = "space"
  /\ pc' = "segment"
  /\ owned' = owned \union {<<"l4">>, <<"tables">>}
  /\ UNCHANGED <<prog, segs, at, memory, space>>

Pages(start, end) == PageOf(start)..(PageOf(end) - 1)

\* map_fixed: the pages must be unmapped.
CanMap(start, end) == Pages(start, end) \intersect DOMAIN space = {}
Mapped(start, end, h, x, w) ==
  Added(space, [p \in Pages(start, end) |-> [range |-> h, page |-> p - PageOf(start), x |-> x, w |-> w]])

\* copy_from_slice into the new pages panics when the bytes do not fit.
Fits(seg) == seg.pageOffset + seg.len <= seg.end - seg.start
Copied(seg) ==
  [b \in 0..(seg.end - seg.start - 1) |->
     IF b \in seg.pageOffset..(seg.pageOffset + seg.len - 1) THEN seg.from + (b - seg.pageOffset) ELSE Zero]

\* Whether VirtAddr can hold the end of the segment: map computes it when it
\* has mapped the last page, and unmap when map has failed.
Canonical(seg) == seg.end < UserEnd

\* map_segment for the next segment.
MapSegment ==
  /\ pc = "segment" /\ at < Len(segs)
  /\ \E seg \in {segs[at + 1]}, h \in {<<"segment", at + 1>>} :
       /\ Fits(seg) /\ Canonical(seg) /\ CanMap(seg.start, seg.end)
       /\ owned' = owned \union {h}
       /\ memory' = Added(memory, [g \in {h} |-> Copied(seg)])
       /\ space' = Mapped(seg.start, seg.end, h, seg.x, seg.w)
  /\ at' = at + 1
  /\ UNCHANGED <<prog, pc, segs>>

\* map_segment panics, and the kernel halts.
BadCopy == pc = "segment" /\ at < Len(segs) /\ ~Fits(segs[at + 1])
BadAddress ==
  /\ pc = "segment" /\ at < Len(segs)
  /\ \E seg \in {segs[at + 1]} : Fits(seg) /\ ~Canonical(seg) /\ CanMap(seg.start, seg.end)
Panic ==
  /\ \/ BadCopy /\ pc' = "bad_copy"
     \/ BadAddress /\ pc' = "bad_address"
  /\ UNCHANGED <<prog, segs, at, owned, memory, space>>

\* load returns: the pages of the file are dropped.
Loaded ==
  /\ pc = "segment" /\ at = Len(segs)
  /\ pc' = "kstack"
  /\ owned' = owned \ {<<"file">>}
  /\ UNCHANGED <<prog, segs, at, memory, space>>

-----------------------------------------------------------------------------
(* Task::from_binary.                                                      *)

\* The page ranges it allocates, in order; the user stack is mapped at once.
NextPc == [kstack |-> "ustack", ustack |-> "mapstack", syscall_stack |-> "priv_stack", priv_stack |-> "done"]

NewStack ==
  /\ pc \in DOMAIN NextPc
  /\ owned' = owned \union {<<pc>>}
  /\ memory' = IF pc = "ustack" THEN Added(memory, [g \in {<<pc>>} |-> Zeroed(StackPages)]) ELSE memory
  /\ pc' = NextPc[pc]
  /\ UNCHANGED <<prog, segs, at, space>>

StackTop == UserEnd - PageSize
StackBottom == StackTop - StackPages * PageSize

MapStack ==
  /\ pc = "mapstack" /\ CanMap(StackBottom, StackTop)
  /\ space' = Mapped(StackBottom, StackTop, <<"ustack">>, FALSE, TRUE)
  /\ pc' = "syscall_stack"
  /\ UNCHANGED <<prog, segs, at, owned, memory>>

\* A read, an allocation, or a mapping for want of a page table, has failed.
Fail == pc \in DOMAIN ErrorIn \ {"check"} /\ ~(pc = "segment" /\ at = Len(segs)) /\ Abort

-----------------------------------------------------------------------------

Init ==
  /\ prog \in Programs
  /\ pc = "read" /\ segs = <<>> /\ at = 0
  /\ owned = {} /\ memory = Empty /\ space = Empty

Next ==
  \/ ReadFile \/ Check \/ Refuse \/ NewSpace \/ MapSegment \/ Panic \/ Loaded \/ NewStack \/ MapStack
  \/ Fail \/ Drop \/ Failed
  \/ pc \in {"done", "failed", "bad_copy", "bad_address"} /\ UNCHANGED vars

Spec == Init /\ [][Next]_vars

-----------------------------------------------------------------------------
(* Properties.                                                             *)

\* What the program finds at address v.
Seen(v) == memory[space[PageOf(v)].range][space[PageOf(v)].page * PageSize + (v % PageSize)]

\* The bytes that the headers ask for: those of the file, then zeros.
Asked(p) ==
  UNION {{[v |-> Base(p) + h.vaddr + i,
           byte |-> IF i < h.filesz THEN h.offset + i ELSE Zero,
           x |-> h.x, w |-> h.w] : i \in 0..(h.memsz - 1)} : h \in {p.phdrs[k] : k \in Loads(p)}}

\* copy_from_slice in map_segment never panics, whatever the headers say, and
\* the address arithmetic of map only for a file that asks for the last page of
\* the user's half, whose end USER_END admits and VirtAddr does not.  A task
\* that from_binary returns finds, at every address a loadable header covers,
\* the byte and the access rights the header asks for, and zeros in the rest of
\* the mapped pages and on its stack.  It enters at the address that the file
\* names, in an executable page of one of the headers.
ImageRight ==
  /\ pc # "bad_copy"
  /\ pc = "bad_address" => \E a \in Asked(prog) : PageOf(a.v) = PageOf(UserEnd) - 1
  /\ pc = "done" =>
       /\ \A a \in Asked(prog) :
            /\ PageOf(a.v) \in DOMAIN space
            /\ Seen(a.v) = a.byte
            /\ space[PageOf(a.v)].x = a.x /\ space[PageOf(a.v)].w = a.w
       /\ \A p \in DOMAIN space : \A v \in (p * PageSize)..(p * PageSize + PageSize - 1) :
            v \notin {a.v : a \in Asked(prog)} => Seen(v) = Zero
       /\ \A v \in StackBottom..(StackTop - 1) : Seen(v) = Zero /\ ~space[PageOf(v)].x
       /\ \E a \in Asked(prog) : a.x /\ a.v = Base(prog) + prog.entry /\ a.v = EntryOf(prog)

\* Page tables never outlive the table in l4 that leads to them, nor a mapping
\* its page tables.  From the first mapping to the end of from_binary, errors of
\* from_binary and new_user included, no page is mapped outside of the user's
\* half or to memory that was given back.  An error in load does give back the
\* segments before the space that maps them, a space that no task has; when the
\* error has been returned nothing is mapped, and nothing left.
MappedOwned ==
  /\ <<"tables">> \in owned => <<"l4">> \in owned
  /\ \A p \in DOMAIN space :
       /\ p * PageSize < UserEnd /\ <<"tables">> \in owned
       /\ pc # "in_load" => space[p].range \in owned
  /\ pc = "failed" => owned = {} /\ DOMAIN space = {}
=============================================================================
