----------------------------- MODULE LemonDisk -----------------------------
(***************************************************************************)
(* The block structures of LemonFS and the algorithms on them: the bitmap  *)
(* allocator (fs/lemonfs/bitmap.rs), chains of link blocks (links.rs, and  *)
(* build_file_chain of mod.rs) and chains of directory blocks              *)
(* (directory.rs).  A disk is a function from block numbers to contents.   *)
(***************************************************************************)
EXTENDS Integers, Sequences, SequencesExt, FiniteSetsExt

CONSTANTS
  BitsPerBlock,     \* blocks that one block of the bitmap stands for (4096)
  BitmapBlocks,     \* blocks of the bitmap
  DataStart,        \* first data block
  DataEnd,          \* block of the root directory, behind the data blocks
  EntriesPerBlock,  \* ENTRIES_PER_DIRENTRY (8)
  LinksPerBlock     \* direct pointers of a link block (31)

ASSUME LemonAssumption ==
  /\ BitsPerBlock \in Nat \ {0} /\ BitmapBlocks \in Nat \ {0}
  /\ EntriesPerBlock \in Nat \ {0} /\ LinksPerBlock \in Nat \ {0}
  /\ DataStart \in Nat \ {0}
  /\ DataEnd \in (DataStart + 1)..(DataStart + BitsPerBlock * BitmapBlocks - 1)

SECTOR == 2     \* bytes of a block (512); a new file has a size of one byte

-----------------------------------------------------------------------------
(* The bitmap: the set of bits that are set, bit i for block DataStart + i. *)

Bits == 0..(BitsPerBlock * BitmapBlocks - 1)
NoFit == -1

\* find_first_fit: whether the current run is long enough is asked only at the
\* end of each block of the bitmap, so only a run that reaches it is found.
FindFirstFit(used, count) ==
  LET ends == {BitsPerBlock * b - 1 : b \in 1..BitmapBlocks}
      fits == {end \in ends : count <= end + 1 /\ \A i \in (end - count + 1)..end : i \notin used}
  IN  IF fits = {} THEN NoFit ELSE 1 + Max({-1} \union {i \in used : i < Min(fits)})

\* n calls of alloc(1), of which the last may fail.
RECURSIVE AllocEach(_, _)
AllocEach(used, n) ==
  LET bit  == FindFirstFit(used, 1)
      rest == AllocEach(used \union {bit}, n - 1)
  IN  IF n <= 0 THEN [ok |-> TRUE, used |-> used, lbas |-> <<>>]
      ELSE IF bit = NoFit THEN [ok |-> FALSE, used |-> used, lbas |-> <<>>]
      ELSE [rest EXCEPT !.lbas = <<bit + DataStart>> \o @]

Freed(used, lbas) == used \ {b - DataStart : b \in lbas}

\* reserve_from(data_end - 1)
Reserved == {i \in Bits : i + DataStart >= DataEnd}

-----------------------------------------------------------------------------
(* Block contents.                                                         *)

Zero == [kind |-> "zero"]
Super == [kind |-> "super"]
DirBlock(parent, entries, next) ==
  [kind |-> "dir", parent |-> parent, entries |-> entries, next |-> next]
LinkBlock(ptrs, last) == [kind |-> "links", ptrs |-> ptrs, last |-> last]
DataBlock(path, i) == [kind |-> "data", path |-> path, i |-> i]

Ptr(start, size) == [start |-> start, size |-> size]
NoPtr == Ptr(0, 0)
IsValid(p) == p.start # 0
IsDirect(p) == p.size # 0

\* A block read as what it is not has nothing in it: what its bytes would mean
\* matters only after calls that LemonFS counts as damage.
AsDir(c) == IF c.kind = "dir" THEN c ELSE DirBlock(0, <<>>, NoPtr)
AsLinks(c) == IF c.kind = "links" THEN c ELSE LinkBlock(<<>>, NoPtr)

\* The blocks lbas are written with the contents of the same index.
Overwritten(disk, lbas, contents) ==
  [b \in Range(lbas) |-> contents[CHOOSE i \in DOMAIN lbas : lbas[i] = b]] @@ disk

Zeroed(disk, lbas) == [b \in lbas |-> Zero] @@ disk

CeilDiv(a, b) == (a + b - 1) \div b
Lbas(p) == [i \in 1..CeilDiv(p.size, SECTOR) |-> p.start + i - 1]

-----------------------------------------------------------------------------
(* Link blocks.                                                            *)

RECURSIVE Trace(_, _)
Trace(disk, p) ==
  IF ~IsValid(p) THEN [direct |-> <<>>, indirect |-> <<>>]
  ELSE IF IsDirect(p) THEN [direct |-> <<p>>, indirect |-> <<>>]
  ELSE LET c    == AsLinks(disk[p.start])
           rest == Trace(disk, c.last)
       IN  [direct |-> c.ptrs \o rest.direct, indirect |-> <<p.start>> \o rest.indirect]

\* resolve_links: the top of the stack is replaced until it is direct.
RECURSIVE ResolveLinks(_, _)
ResolveLinks(disk, stack) ==
  IF stack = <<>> THEN <<>>
  ELSE LET link == Last(stack)
           c    == AsLinks(disk[link.start])
       IN  IF ~IsValid(link) THEN Front(stack)
           ELSE IF IsDirect(link) THEN stack
           ELSE ResolveLinks(disk, Front(stack) \o c.ptrs
                                     \o (IF IsValid(c.last) THEN <<c.last>> ELSE <<>>))

RECURSIVE SumSizes(_)
SumSizes(links) == IF links = <<>> THEN 0 ELSE Head(links).size + SumSizes(Tail(links))

Follows(p, b) == p.start + p.size \div SECTOR = b

RECURSIVE Extents(_)
Extents(blocks) ==
  LET done == Extents(Front(blocks))
      b    == Last(blocks)
  IN  IF blocks = <<>> THEN <<>>
      ELSE IF done # <<>> /\ Follows(Last(done), b)
      THEN Append(Front(done), Ptr(Last(done).start, Last(done).size + SECTOR))
      ELSE Append(done, Ptr(b, SECTOR))

\* build_file_chain
BuildFileChain(disk, used, blocks) ==
  LET ext   == Extents(blocks)
      n     == CeilDiv(Len(ext), LinksPerBlock)
      more  == AllocEach(used, n)
      block(i) == LinkBlock(SubSeq(ext, (i - 1) * LinksPerBlock + 1, Min({i * LinksPerBlock, Len(ext)})),
                            IF i < n THEN Ptr(more.lbas[i + 1], 0) ELSE NoPtr)
  IN  IF Len(ext) = 1 THEN [ok |-> TRUE, disk |-> disk, used |-> used, head |-> ext[1]]
      ELSE IF ~more.ok THEN [ok |-> FALSE, disk |-> disk, used |-> more.used, head |-> NoPtr]
      ELSE [ok |-> TRUE, used |-> more.used, head |-> Ptr(more.lbas[1], 0),
            disk |-> Overwritten(disk, more.lbas, [i \in 1..n |-> block(i)])]

-----------------------------------------------------------------------------
(* Directories.  In memory an entry of a file also has its size and links. *)

Entry(name, type, ptr, size, links) ==
  [name |-> name, type |-> type, ptr |-> ptr, size |-> size, links |-> links]

ToDentry(e) == [name |-> e.name, type |-> e.type, ptr |-> e.ptr]

FromDirEntry(disk, d) ==
  LET links == IF d.type = "file" THEN ResolveLinks(disk, <<d.ptr>>) ELSE <<>>
  IN  Entry(d.name, d.type, d.ptr, SumSizes(links), links)

RECURSIVE DirChain(_, _)
DirChain(disk, p) ==
  IF ~IsDirect(p) \/ ~IsValid(p) THEN <<>>
  ELSE <<p.start>> \o DirChain(disk, AsDir(disk[p.start]).next)

\* add_children_from_link
RECURSIVE Children(_, _)
Children(disk, p) ==
  LET c == AsDir(disk[p.start])
  IN  IF ~IsDirect(p) THEN <<>>
      ELSE [i \in DOMAIN c.entries |-> FromDirEntry(disk, c.entries[i])] \o Children(disk, c.next)

\* from_dir_block
ReadDirectory(disk, p) ==
  [head |-> p, parent |-> AsDir(disk[p.start]).parent, children |-> Children(disk, p)]

FindChild(dir, name) == SelectInSeq(dir.children, LAMBDA e : e.name = name)

Surplus(collected, needed) == {collected[i] : i \in (needed + 1)..Len(collected)}

\* Directory::sync: surplus blocks are freed, missing ones allocated, and the
\* whole chain is written.
SyncDirectory(disk, used, dir) ==
  LET needed    == Max({1, CeilDiv(Len(dir.children), EntriesPerBlock)})
      collected == DirChain(disk, dir.head)
      kept      == SubSeq(collected, 2, Min({needed, Len(collected)}))
      more      == AllocEach(Freed(used, Surplus(collected, needed)), needed - 1 - Len(kept))
      chain     == <<dir.head.start>> \o kept \o more.lbas
      chunk(i)  == SubSeq(dir.children, (i - 1) * EntriesPerBlock + 1,
                          Min({i * EntriesPerBlock, Len(dir.children)}))
      block(i)  == DirBlock(dir.parent, [j \in DOMAIN chunk(i) |-> ToDentry(chunk(i)[j])],
                            IF i < needed THEN Ptr(chain[i + 1], SECTOR) ELSE NoPtr)
  IN  IF ~more.ok THEN [ok |-> FALSE, disk |-> disk, used |-> more.used]
      ELSE [ok |-> TRUE, used |-> more.used,
            disk |-> Overwritten(disk, chain, [i \in 1..needed |-> block(i)])]

\* File::delete and Directory::delete: the blocks they free and zero.
FileBlocks(disk, p) ==
  LET t == Trace(disk, p)
  IN  Range(t.indirect) \union UNION {Range(Lbas(q)) : q \in Range(t.direct)}

RECURSIVE EntryBlocks(_, _)
EntryBlocks(disk, e) ==
  CASE e.type = "file" -> FileBlocks(disk, e.ptr)
    [] e.type = "dir"  -> Range(DirChain(disk, e.ptr))
                            \union UNION {EntryBlocks(disk, c) : c \in Range(Children(disk, e.ptr))}
    [] e.type = "link" -> {}
=============================================================================
