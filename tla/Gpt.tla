-------------------------------- MODULE Gpt ---------------------------------
(***************************************************************************)
(* The partition table of a drive (drivers/storage/gpt/mod.rs): init takes *)
(* the primary header, or the backup one when the check of the first       *)
(* fails, reads the entry array it names, falls back to the backup's array *)
(* when the checksum is wrong, and walks through the entries.  A checksum  *)
(* is the content it was made of; the signature, the size and the checksum *)
(* of a header are one field, intact, and sized says that its entries have *)
(* the size they need.  Whole entries fill a block.  Every read may fail.  *)
(***************************************************************************)
EXTENDS Integers, Sequences

CONSTANTS
  BlockCount,
  PerBlock,     \* entries in a block
  MinCount,     \* fewest entries of an array (128)
  MaxBlocks,    \* most blocks of an array that are read (16 MiB)
  U64Max,       \* largest u64
  Images        \* [mbr, headers, arrays] of drives: headers by block, and by first block
                \* the entries on the disk up to the first unused one

Entries == [start : Nat, end : Nat]
Headers == [intact : BOOLEAN, sized : BOOLEAN, curr : Nat, alternate : Nat, first : Nat, last : Nat,
            start : Nat, count : Nat, checksum : Seq(Entries)]

DivCeil(n, d) == (n + d - 1) \div d

\* Blocks of the entry array of h, the entries of it that init reads and the
\* checksum covers, and the entries in the blocks that hold these.
ArrayBlocks(h) == DivCeil(h.count, PerBlock)
Covered(h) == IF h.count <= MaxBlocks * PerBlock THEN h.count ELSE MaxBlocks * PerBlock
EntriesRead(h) == DivCeil(Covered(h), PerBlock) * PerBlock

\* Block numbers of ATA have 48 bits, the fields entry_count and
\* entry_byte_count 32.
ASSUME GptAssumption ==
  /\ BlockCount \in Nat /\ BlockCount > 2 /\ PerBlock \in Nat \ {0}
  /\ MinCount \in Nat \ {0} /\ MaxBlocks \in Nat \ {0} /\ U64Max \in Nat
  /\ \A d \in Images :
       /\ \A b \in {1, BlockCount - 1} : b \in DOMAIN d.headers
       /\ \A b \in DOMAIN d.headers :
            d.headers[b] \in Headers /\ BlockCount + ArrayBlocks(d.headers[b]) <= U64Max
       /\ \A b \in DOMAIN d.arrays : d.arrays[b] \in Seq(Entries)

VARIABLES
  image,     \* the drive
  pc,        \* next step of init, or its result
  header,    \* gpt_header
  isBackup,  \* is_backup
  entries,   \* entry_blocks
  offset,    \* number of the entry at offset
  res,       \* partitions found
  turn       \* parity of the turns of the loop, so that each turn is a step

vars == <<image, pc, header, isBackup, entries, offset, res, turn>>

LastBlock == BlockCount - 1

-----------------------------------------------------------------------------
(* check_gpt_header.                                                       *)

MyLBA(h, backup) == h.curr = IF backup THEN LastBlock ELSE 1

\* A sum that overflows is None, which is less than every Some.
ArrayBefore(h) == h.start + ArrayBlocks(h) <= U64Max => h.start + ArrayBlocks(h) <= h.first

CheckGptHeader(h, backup) ==
  /\ h.intact
  /\ MyLBA(h, backup)
  /\ h.count >= MinCount /\ h.sized
  /\ h.first <= h.last /\ h.last <= BlockCount /\ h.start > 1
  /\ h.alternate = IF backup THEN 1 ELSE LastBlock
  /\ ArrayBefore(h)

-----------------------------------------------------------------------------
(* init.                                                                   *)

\* A read fails.
IOError ==
  /\ pc \in {"mbr", "primary", "backup", "array", "other_header", "other_array"}
  /\ pc' = "IOError"
  /\ UNCHANGED <<image, header, isBackup, entries, offset, res, turn>>

ReadMbr ==
  /\ pc = "mbr"
  /\ pc' = IF image.mbr THEN "primary" ELSE "BadMBR"
  /\ UNCHANGED <<image, header, isBackup, entries, offset, res, turn>>

ReadPrimary ==
  /\ pc = "primary"
  /\ header' = image.headers[1]
  /\ pc' = IF CheckGptHeader(header', isBackup) THEN "array" ELSE "backup"
  /\ UNCHANGED <<image, isBackup, entries, offset, res, turn>>

ReadBackup ==
  /\ pc = "backup"
  /\ header' = image.headers[LastBlock]
  /\ isBackup' = TRUE
  /\ pc' = IF CheckGptHeader(header', isBackup') THEN "array" ELSE "BadHeader"
  /\ UNCHANGED <<image, entries, offset, res, turn>>

Prefix(es, n) == SubSeq(es, 1, IF n < Len(es) THEN n ELSE Len(es))

\* Blocks that no array starts in read as unused entries.
ArrayAt(b) == IF b \in DOMAIN image.arrays THEN image.arrays[b] ELSE <<>>

\* Whole blocks are read, into pages that were zero.
EntryBlocks(h) == Prefix(ArrayAt(h.start), EntriesRead(h))

\* Variant: the checksum of the second array is not compared.
Trusted(h, es) == TRUE

\* The checksum is that of total bytes, of all that was read.
ChecksumOK(h, es) == Prefix(es, Covered(h)) = h.checksum

ReadArray ==
  /\ pc = "array"
  /\ entries' = EntryBlocks(header)
  /\ pc' = IF ChecksumOK(header, entries') THEN "entries" ELSE "other_header"
  /\ UNCHANGED <<image, header, isBackup, offset, res, turn>>

\* The header at backup_block; it replaces the primary one.
ReadOtherHeader ==
  /\ pc = "other_header"
  /\ IF isBackup THEN pc' = "other_array" /\ UNCHANGED <<header, isBackup>>
     ELSE /\ header' = image.headers[header.alternate]
          /\ isBackup' = TRUE
          /\ pc' = IF CheckGptHeader(header', isBackup') THEN "other_array" ELSE "BadHeader"
  /\ UNCHANGED <<image, entries, offset, res, turn>>

ReadOtherArray ==
  /\ pc = "other_array"
  /\ entries' = EntryBlocks(header)
  /\ pc' = IF ChecksumOK(header, entries') THEN "entries" ELSE "EntryCRCFailed"
  /\ UNCHANGED <<image, header, isBackup, offset, res, turn>>

\* The partition found last.
Latest == res[Len(res)]

\* Variant: an entry is compared with the start of the partition before it.
AfterStart(e) == res # <<>> => e.start >= Latest.start

Behind(e) == res # <<>> => e.start >= Latest.start + Latest.size

EntryOK(e) ==
  /\ Behind(e)
  /\ e.start >= header.first /\ e.end <= header.last
  /\ e.start <= e.end

PartitionOf(e) == [start |-> e.start, size |-> e.end - e.start + 1]

AddPartition ==
  /\ pc = "entries" /\ offset < Len(entries)
  /\ EntryOK(entries[offset + 1])
  /\ res' = Append(res, PartitionOf(entries[offset + 1]))
  /\ offset' = offset + 1
  /\ turn' = 1 - turn
  /\ UNCHANGED <<image, pc, header, isBackup, entries>>

\* continue: the offset stays where it is.
SkipEntry ==
  /\ pc = "entries" /\ offset < Len(entries)
  /\ ~EntryOK(entries[offset + 1])
  /\ turn' = 1 - turn
  /\ UNCHANGED <<image, pc, header, isBackup, entries, offset, res>>

\* An unused entry, or the end of what was read: the walk does not stop where
\* the array, and its checksum, ends in the last block.
EndOfEntries ==
  /\ pc = "entries" /\ offset = Len(entries)
  /\ pc' = "Ok"
  /\ UNCHANGED <<image, header, isBackup, entries, offset, res, turn>>

-----------------------------------------------------------------------------

Results == {"Ok", "IOError", "BadMBR", "BadHeader", "EntryCRCFailed"}

Init ==
  /\ image \in Images
  /\ pc = "mbr" /\ isBackup = FALSE
  /\ header = image.headers[1]
  /\ entries = <<>> /\ offset = 0 /\ res = <<>>
  /\ turn = 0

GptStep ==
  \/ IOError \/ ReadMbr \/ ReadPrimary \/ ReadBackup \/ ReadArray \/ ReadOtherHeader \/ ReadOtherArray
  \/ AddPartition \/ SkipEntry \/ EndOfEntries

Next == GptStep \/ (pc \in Results /\ UNCHANGED vars)

Spec == Init /\ [][Next]_vars

\* init runs at boot and nothing stops it.
FairSpec == Spec /\ WF_vars(Next)

-----------------------------------------------------------------------------
(* Properties.                                                             *)

End(p) == p.start + p.size - 1

\* Partitions ascend, overlap neither each other nor the entry array, and lie in
\* the usable blocks.
PartitionsApart ==
  /\ \A i, j \in 1..Len(res) : i < j => End(res[i]) < res[j].start
  /\ \A i \in 1..Len(res) :
       /\ res[i].size > 0 /\ res[i].start >= header.first /\ End(res[i]) <= header.last
       /\ header.start..(header.start + ArrayBlocks(header) - 1) \cap res[i].start..End(res[i]) = {}

\* Whichever way init has taken, partitions come from a header that is intact
\* and in its own place and from the blocks this header names, and those of the
\* entries that the header's checksum covers are what was checksummed.  The walk
\* may take entries behind the array, which no checksum covers: only those in
\* the rest of its last block.
TableChecked ==
  pc \in {"entries", "Ok"} =>
    /\ header.intact
    /\ header.curr \in DOMAIN image.headers /\ header = image.headers[header.curr]
    /\ \A i \in 1..Len(res) :
         /\ res[i] = PartitionOf(ArrayAt(header.start)[i])
         /\ i <= Covered(header) =>
              i \in DOMAIN header.checksum /\ res[i] = PartitionOf(header.checksum[i])
    /\ Len(res) < Covered(header) + PerBlock

\* Bad entries are skipped, so that init returns.
InitReturns == <>(pc \in Results)
=============================================================================
