--------------------------- MODULE PartitionDrive ---------------------------
(***************************************************************************)
(* Sectors on a drive whose blocks are larger (fs/lba_abstractor.rs, and   *)
(* Drive and StorageDrive of drivers/storage/mod.rs).  write_sectors reads *)
(* the blocks it covers only in part, puts the old and the new sectors     *)
(* together in a staging buffer and writes whole blocks; reads,            *)
(* allocations and the write of each block may fail.  A file system has    *)
(* its partition for itself, so that one call runs at a time.              *)
(***************************************************************************)
EXTENDS Integers, FiniteSetsExt

CONSTANTS
  SectorsPerBlock,
  SectorsPerPage,
  DiskBlocks,
  PartStart, PartBlocks,  \* the partition, in blocks
  MaxSectors,             \* MAX_SECTORS of zero_sectors
  Calls,                  \* [kind, start, count, room]; room in sectors
  None

ASSUME DriveAssumption ==
  /\ {SectorsPerBlock, SectorsPerPage, MaxSectors} \subseteq Nat \ {0}
  /\ {DiskBlocks, PartStart, PartBlocks} \subseteq Nat
  /\ PartStart + PartBlocks <= DiskBlocks
  /\ SectorsPerPage % SectorsPerBlock = 0
  /\ Calls \subseteq [kind : {"write", "zero", "blocks"}, start : Nat, count : Nat, room : Nat]

VARIABLES
  disk,    \* disk[b][k]: sector k of block b of the drive
  job,     \* the current call, or Idle
  result   \* of the last call

driveVars == <<disk, job, result>>

DivCeil(n, d) == (n + d - 1) \div d
Pages(n) == DivCeil(n, SectorsPerPage)

\* Sectors of the drive, and the first one of the partition.
Sectors == [s \in 0..(DiskBlocks * SectorsPerBlock - 1) |-> disk[s \div SectorsPerBlock][s % SectorsPerBlock]]
First == PartStart * SectorsPerBlock

NativeStart(start) == start \div SectorsPerBlock
NativeEnd(start, count) == DivCeil(start + count, SectorsPerBlock)

-----------------------------------------------------------------------------
(* Drive.                                                                  *)

InPartition(offset, count) == offset + count <= PartBlocks

Block(offset) == disk[PartStart + offset]

\* Drive::read and read_smart.
ReadOK(offset, count) ==
  /\ InPartition(offset, count)
  /\ DivCeil(count, DivCeil(SectorsPerPage, SectorsPerBlock)) * SectorsPerPage >= count * SectorsPerBlock

\* Variant: offsets begin at the first sector asked for.
ReadFromStart(start, count) ==
  [i \in 0..(count - 1) |-> Block(NativeStart(start) + (i \div SectorsPerBlock))[i % SectorsPerBlock]]

\* read_sectors, for a count that is not zero: the sectors copied.
ReadSectors(start, count) ==
  [i \in 0..(count - 1) |->
     LET off == start + i - NativeStart(start) * SectorsPerBlock
     IN  Block(NativeStart(start) + (off \div SectorsPerBlock))[off % SectorsPerBlock]]

-----------------------------------------------------------------------------
(* write_sectors.                                                          *)

\* The value that a call writes to its sector i.
Data(kind, i) == IF kind = "write" THEN i + 1 ELSE 0

\* The part of a call that one write_sectors takes: zero_sectors cuts.
Part(c, done) == IF c.kind = "zero" THEN Min({c.count - done, MaxSectors}) ELSE c.count

\* The sectors that the buffer of a call has; zero_sectors allocates its own.
Room(c) == IF c.kind = "zero" THEN Pages(Min({c.count, MaxSectors})) * SectorsPerPage ELSE c.room

StagingSize(count, native) == Pages(native * SectorsPerBlock) * SectorsPerPage

\* The job of c with done sectors written, at the beginning of write_sectors.
Job(c, done) ==
  LET start == c.start + done
      count == Part(c, done)
      native == NativeEnd(start, count) - NativeStart(start)
  IN  [call |-> c, pc |-> "stage", done |-> done, start |-> start, count |-> count, i |-> 0,
       native |-> native,
       staging |-> [s \in 0..(StagingSize(count, native) - 1) |-> 0]]

Idle == [pc |-> "idle"]

Finish(r) == job' = Idle /\ result' = r

Write(c) ==
  /\ job.pc = "idle" /\ c.kind \in {"write", "zero"} /\ c.count > 0
  /\ job' = Job(c, 0)
  /\ UNCHANGED <<disk, result>>

\* Variant: a block is read only when its beginning is not covered.
PartlyFront(first, last, start, end) == first < start

\* The block from first to last is not covered as a whole.
Partly(first, last, start, end) == first < start \/ last > end

\* One turn of the loop of write_sectors: old sectors of block b, then new ones.
Staged(j, b, old) ==
  LET first == b * SectorsPerBlock
      last == first + SectorsPerBlock - 1
      end == j.start + j.count - 1
      base == NativeStart(j.start) * SectorsPerBlock
  IN  [s \in DOMAIN j.staging |->
         LET n == s + base
         IN  IF n \in Max({first, j.start})..Min({last, end}) THEN Data(j.call.kind, j.done + n - j.start)
             ELSE IF n \in first..last /\ Partly(first, last, j.start, end) THEN old[n - first]
             ELSE j.staging[s]]

Stage ==
  /\ job.pc = "stage" /\ job.i < job.native /\ Room(job.call) >= job.count
  /\ \E b \in {NativeStart(job.start) + job.i} :
       /\ Partly(b * SectorsPerBlock, (b + 1) * SectorsPerBlock - 1, job.start, job.start + job.count - 1)
            => ReadOK(b, 1)
       /\ job' = [job EXCEPT !.i = @ + 1,
                             !.staging = Staged(job, b, IF InPartition(b, 1) THEN Block(b) ELSE [k \in {} |-> 0])]
  /\ UNCHANGED <<disk, result>>

\* The checks of Drive::write.
Submit ==
  /\ job.pc = "stage" /\ job.i = job.native
  /\ InPartition(NativeStart(job.start), job.native)
  /\ job' = [job EXCEPT !.pc = "put", !.i = 0]
  /\ UNCHANGED <<disk, result>>

\* The next block of the staging buffer reaches the drive.
Put ==
  /\ job.pc = "put" /\ job.i < job.native
  /\ disk' = [disk EXCEPT ![PartStart + NativeStart(job.start) + job.i] =
                [k \in 0..(SectorsPerBlock - 1) |-> job.staging[job.i * SectorsPerBlock + k]]]
  /\ job' = [job EXCEPT !.i = @ + 1]
  /\ UNCHANGED result

LastPart(j) == j.done + j.count >= j.call.count

\* write_sectors returns Ok; zero_sectors goes on with the next part.
PutDone ==
  /\ job.pc = "put" /\ job.i = job.native
  /\ IF LastPart(job) THEN Finish("ok")
     ELSE job' = Job(job.call, job.done + job.count) /\ UNCHANGED result
  /\ UNCHANGED disk

InSectors(c) == [c EXCEPT !.start = @ * SectorsPerBlock, !.count = @ * SectorsPerBlock]

\* Drive::zero and zero_blocks, which writes zeros in parts of two mebibytes:
\* to the drive they are the blocks of one write.
ZeroBlocks(c) ==
  /\ job.pc = "idle" /\ c.kind = "blocks" /\ InPartition(c.start, c.count)
  /\ job' = [Job(InSectors(c), 0) EXCEPT !.pc = "put"]
  /\ UNCHANGED <<disk, result>>

\* An allocation, a check, a read or the write of a block fails.
Fail ==
  /\ job.pc # "idle" /\ ~(job.pc = "put" /\ job.i = job.native)
  /\ Finish("error")
  /\ UNCHANGED disk

-----------------------------------------------------------------------------

DriveInit ==
  /\ disk = [b \in 0..(DiskBlocks - 1) |-> [k \in 0..(SectorsPerBlock - 1) |-> 9]]
  /\ job = Idle /\ result = "none"

DriveNext ==
  \/ \E c \in Calls : Write(c) \/ ZeroBlocks(c)
  \/ Stage \/ Submit \/ Put \/ PutDone \/ Fail

DriveSpec == DriveInit /\ [][DriveNext]_driveVars

-----------------------------------------------------------------------------
(* Properties.                                                             *)

\* The new values of the sectors that a call names.
NewValues(c) ==
  [s \in (First + c.start)..(First + c.start + c.count - 1) |-> Data(c.kind, s - First - c.start)]

Pending == IF job.pc = "idle" THEN None ELSE NewValues(job.call)

ASSUME NoneAssumption == \A c \in Calls : None \notin {NewValues(c), NewValues(InSectors(c))}

Store == INSTANCE SectorStore WITH sectors <- Sectors, pending <- Pending, result <- result, Values <- Nat

\* write_sectors, zero_sectors and Drive::zero are writes of exactly their own
\* sectors: what shares a block with them, or lies outside the partition, keeps
\* its value at every moment and after every failure.
WritesOnlyItsSectors == Store!Spec

\* read_sectors returns the sectors asked for, wherever they lie in the blocks.
ReadsItsSectors ==
  \A start \in 0..(PartBlocks * SectorsPerBlock - 1) :
    \A count \in 1..(PartBlocks * SectorsPerBlock - start) :
      /\ ReadOK(NativeStart(start), NativeEnd(start, count) - NativeStart(start))
      /\ ReadSectors(start, count) = [i \in 0..(count - 1) |-> Sectors[First + start + i]]
=============================================================================
