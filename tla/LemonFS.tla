------------------------------ MODULE LemonFS ------------------------------
(***************************************************************************)
(* The calls of a mounted LemonFS (fs/lemonfs/mod.rs): the tree on disk,   *)
(* the bitmap in memory and its copy on disk, and the cache of the root    *)
(* directory.  A call holds the file system exclusively, so it is one      *)
(* step.  A path is the sequence of its components.  The drive does not    *)
(* fail, and data blocks are zero when the partition is formatted.         *)
(***************************************************************************)
EXTENDS LemonDisk

\* What callers do.  Each member has creates, the [path, type] of calls of
\* create, writes, the [path, sectors] of calls of write, routes, the
\* [path, dest] of calls of route_symlink, and syncs, whether sync is called
\* (nothing in the kernel calls it yet).  All that is created may be deleted.
CONSTANT Workloads

ASSUME WorkloadsAssumption == \A w \in Workloads : w.syncs \in BOOLEAN

VARIABLES
  calls,   \* the workload
  disk,    \* contents of the blocks
  saved,   \* the bitmap on disk
  used,    \* the bitmap in memory
  root,    \* cached entries of the root directory
  sizes,   \* sectors last written to each path, 0 if none (history)
  damage   \* what has broken the tree, or "none" (history)

vars == <<calls, disk, saved, used, root, sizes, damage>>

Blocks == 0..DataEnd
Paths == {c.path : c \in calls.creates}
RootPtr == Ptr(DataEnd, SECTOR)

RootDir == [head |-> RootPtr, parent |-> 0, children |-> root]
NoDir == [head |-> NoPtr, parent |-> -1, children |-> <<>>]

\* The loop of get_parent over the components of a path.
RECURSIVE Descend(_, _)
Descend(dir, components) ==
  LET i == FindChild(dir, Head(components))
  IN  IF components = <<>> THEN dir
      ELSE IF i = 0 \/ dir.children[i].type = "file" THEN NoDir
      ELSE Descend(ReadDirectory(disk, dir.children[i].ptr), Tail(components))

DirectoryAt(components) == Descend(RootDir, components)

GetParent(path) == DirectoryAt(Front(path))

\* The directory at components, and the index of name in it; none if there is
\* no such directory.
Lookup(components, name) ==
  {[dir |-> d, i |-> FindChild(d, name)] : d \in {DirectoryAt(components)} \ {NoDir}}

InRoot(path) == Len(path) = 1

Replaced(q, i, e) == [j \in DOMAIN q |-> IF j = i THEN e ELSE q[j]]

-----------------------------------------------------------------------------
(* Damage.  These are the calls after which the tree on disk, the bitmap   *)
(* and the caches need not fit together; what follows is not modelled.     *)

Heads ==
  LET dirs[n \in 0..2] ==
        IF n = 0 THEN {DataEnd}
        ELSE dirs[n - 1] \union
             UNION {{e.ptr.start : e \in {c \in Range(Children(disk, Ptr(h, SECTOR))) : c.type = "dir"}} :
                      h \in dirs[n - 1]}
  IN  dirs[2]

\* The directory block that is written is not one of a directory: the parent
\* was reached through a symlink that leads nowhere or to a file.
StrayWrite(dir) == dir.head.start \notin Heads

\* A call that ran out of space has changed something.
DamageOf(dir, ok) ==
  IF ~ok THEN IF disk' = disk /\ used' = used THEN "none" ELSE "nospace"
  ELSE IF StrayWrite(dir) THEN "stray" ELSE "none"

-----------------------------------------------------------------------------
(* Calls.                                                                  *)

Cached(path, e) == IF InRoot(path) THEN Append(root, e) ELSE root

\* create.  The block of a new file or directory is not written.
Create(path, type) ==
  \E at \in Lookup(Front(path), Last(path)) : \E got \in {AllocEach(used, IF type = "link" THEN 0 ELSE 1)} :
    LET entry == Entry(Last(path), type,
                       CASE type = "dir"  -> Ptr(got.lbas[1], SECTOR)
                         [] type = "file" -> Ptr(got.lbas[1], 1)
                         [] type = "link" -> NoPtr,
                       0, <<>>)
    IN  /\ at.i = 0 /\ got.ok
        /\ \E done \in {SyncDirectory(disk, got.used, [at.dir EXCEPT !.children = Append(@, entry)])} :
             /\ disk' = done.disk
             /\ used' = done.used
             /\ root' = IF done.ok THEN Cached(path, entry) ELSE root
             /\ damage' = IF type = "dir" /\ done.ok /\ disk[got.lbas[1]] # Zero THEN "reused"
                          ELSE DamageOf(at.dir, done.ok)
        /\ UNCHANGED <<calls, saved, sizes>>

\* Vec::swap_remove
SwapRemove(q, i) ==
  [j \in 1..(Len(q) - 1) |-> IF j = i THEN Last(q) ELSE q[j]]

Owned(e) == EntryBlocks(disk, e)

IsPrefixOf(p, q) == Len(p) <= Len(q) /\ SubSeq(q, 1, Len(p)) = p

\* delete
Delete(path) ==
  \E at \in Lookup(Front(path), Last(path)) :
    /\ at.i # 0
    /\ \E gone \in {Owned(at.dir.children[at.i])} :
       \E done \in {SyncDirectory(Zeroed(disk, gone), Freed(used, gone),
                                  [at.dir EXCEPT !.children = SwapRemove(@, at.i)])} :
         /\ disk' = done.disk
         /\ used' = done.used
         /\ damage' = DamageOf(at.dir, done.ok)
    /\ root' = IF InRoot(path) THEN SwapRemove(root, at.i) ELSE root
    /\ sizes' = [p \in Paths |-> IF IsPrefixOf(path, p) THEN 0 ELSE sizes[p]]
    /\ UNCHANGED <<calls, saved>>

\* Variant: blocks that are no longer needed stay allocated.
KeepAll(blocks, n) == {}

Rest(blocks, n) == {blocks[i] : i \in (n + 1)..Len(blocks)}

\* Variant: every link is written from the start of the data.
DataRestarts(d, path, links) ==
  LET lbas == FlattenSeq([i \in DOMAIN links |-> Lbas(links[i])])
      n    == Len(Lbas(links[1]))
  IN  Overwritten(d, lbas, [i \in DOMAIN lbas |-> DataBlock(path, IF i <= n THEN i ELSE i - n)])

\* The contents of the links, written in order.
WithData(d, path, links) ==
  LET lbas == FlattenSeq([i \in DOMAIN links |-> Lbas(links[i])])
  IN  Overwritten(d, lbas, [i \in DOMAIN lbas |-> DataBlock(path, i)])

\* The blocks of a file are brought to n: its link blocks are freed, blocks are
\* added or given up, and a new chain of link blocks is built.
Resized(ptr, n) ==
  LET t       == Trace(disk, ptr)
      blocks  == FlattenSeq([k \in DOMAIN t.direct |-> Lbas(t.direct[k])])
      disk0   == Zeroed(disk, Range(t.indirect))
      more    == AllocEach(Freed(used, Range(t.indirect)), n - Len(blocks))
      surplus == Rest(blocks, n)
  IN  IF more.ok
      THEN BuildFileChain(Zeroed(disk0, surplus), Freed(more.used, surplus),
                          SubSeq(blocks, 1, Min({n, Len(blocks)})) \o more.lbas)
      ELSE [ok |-> FALSE, disk |-> disk0, used |-> more.used, head |-> NoPtr]

\* write: after the blocks, the data and then the directory are written.  When
\* space runs out, the directory still has the old head.
Write(path, n) ==
  \E at \in Lookup(Front(path), Last(path)) :
    /\ at.i # 0 /\ at.dir.children[at.i].type = "file"
    /\ \E new \in {Resized(at.dir.children[at.i].ptr, n)} :
         /\ \/ /\ ~new.ok
               /\ disk' = new.disk /\ used' = new.used
               /\ UNCHANGED <<root, sizes>>
            \/ /\ new.ok
               /\ \E links \in {ResolveLinks(new.disk, <<new.head>>)} :
                    LET entry == [at.dir.children[at.i] EXCEPT !.ptr = new.head, !.size = SumSizes(links)]
                        done  == SyncDirectory(WithData(new.disk, path, links), new.used,
                                               [at.dir EXCEPT !.children = Replaced(@, at.i, entry)])
                    IN  /\ disk' = done.disk /\ used' = done.used
                        /\ root' = IF InRoot(path) THEN Replaced(root, at.i, entry) ELSE root
               /\ sizes' = [sizes EXCEPT ![path] = n]
         /\ damage' = DamageOf(at.dir, new.ok)
    /\ UNCHANGED <<calls, saved>>

\* route_symlink looks for the symlink in the parent of its parent.
RouteSymlink(path, dest) ==
  \E at \in Lookup(IF InRoot(path) THEN <<>> ELSE Front(Front(path)), Last(path)) :
  \E to \in Lookup(Front(dest), Last(dest)) :
    /\ at.i # 0 /\ at.dir.children[at.i].type = "link" /\ to.i # 0
    /\ LET entry == [at.dir.children[at.i] EXCEPT !.ptr = to.dir.children[to.i].ptr]
           done  == SyncDirectory(disk, used, [at.dir EXCEPT !.children = Replaced(@, at.i, entry)])
       IN  /\ disk' = done.disk /\ used' = done.used
           /\ root' = IF InRoot(path) THEN Replaced(root, at.i, entry) ELSE root
           /\ damage' = DamageOf(at.dir, done.ok)
    /\ UNCHANGED <<calls, saved, sizes>>

\* sync
Sync ==
  /\ calls.syncs
  /\ saved' = used
  /\ UNCHANGED <<calls, disk, used, root, sizes, damage>>

Loaded == saved \union Reserved

\* The machine stops, and init reads the partition again.
Remount ==
  /\ used' = Loaded
  /\ root' = Children(disk, RootPtr)
  /\ damage' = IF used' # used THEN "unsynced" ELSE "none"
  /\ UNCHANGED <<calls, disk, saved, sizes>>

\* format, and the first init.
Init ==
  /\ calls \in Workloads
  /\ disk = [b \in Blocks |-> IF b = 0 THEN Super ELSE Zero]
  /\ saved = {}
  /\ used = Reserved
  /\ root = <<>>
  /\ sizes = [p \in Paths |-> 0]
  /\ damage = "none"

Intact == damage = "none"

Next ==
  \/ \E c \in calls.creates : Intact /\ Create(c.path, c.type)
  \/ \E p \in Paths : Intact /\ Delete(p)
  \/ \E c \in calls.writes : Intact /\ Write(c.path, c.sectors)
  \/ \E c \in calls.routes : Intact /\ RouteSymlink(c.path, c.dest)
  \/ Intact /\ Sync
  \/ Intact /\ Remount
  \/ ~Intact /\ UNCHANGED vars

Spec == Init /\ [][Next]_vars

-----------------------------------------------------------------------------
(* Calls that change nothing.                                              *)

\* read: the sectors the caller receives, for a buffer that is large enough.
Read(path) ==
  LET dir   == GetParent(path)
      e     == dir.children[FindChild(dir, Last(path))]
      links == IF e.type = "file" THEN e.links ELSE ResolveLinks(disk, <<e.ptr>>)
      lbas  == FlattenSeq([i \in DOMAIN links |-> Lbas(links[i])])
  IN  [i \in DOMAIN lbas |-> disk[lbas[i]]]

FileSize(path) ==
  LET dir == GetParent(path) IN dir.children[FindChild(dir, Last(path))].size

-----------------------------------------------------------------------------
(* Properties.                                                             *)

\* The files and directories on disk, with the blocks each of them uses.
RECURSIVE NodesOf(_, _)
NodesOf(path, e) ==
  CASE e.type = "file" -> {<<path, FileBlocks(disk, e.ptr)>>}
    [] e.type = "dir"  -> {<<path, Range(DirChain(disk, e.ptr))>>} \union
                          UNION {NodesOf(Append(path, c.name), c) : c \in Range(Children(disk, e.ptr))}
    [] e.type = "link" -> {}

Nodes == NodesOf(<<>>, Entry("", "dir", RootPtr, 0, <<>>))

\* No block belongs to two files or directories, and the bitmap in memory has
\* exactly the blocks of the tree: whatever the calls, nothing in use is handed
\* out again and nothing is lost.
BitmapExact ==
  Intact =>
    /\ \A m, n \in Nodes : m # n => m[1] # n[1] /\ m[2] \cap n[2] = {}
    /\ used = Reserved \union {b - DataStart : b \in UNION {n[2] : n \in Nodes}}

Written(path) == [i \in 1..sizes[path] |-> DataBlock(path, i)]

\* No component of the path is a symlink.
Direct(path) == \A c \in calls.creates : IsPrefixOf(c.path, path) => c.type # "link"

\* A file outside the root directory reads back what was last written to it,
\* and has that size, however often it and its neighbours grow, shrink and go.
ReadBack ==
  Intact => \A p \in Paths : (sizes[p] > 0 /\ ~InRoot(p) /\ Direct(p)) =>
    Read(p) = Written(p) /\ FileSize(p) = SECTOR * sizes[p]
=============================================================================
