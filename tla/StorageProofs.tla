--------------------------- MODULE StorageProofs ---------------------------
(***************************************************************************)
(* Proofs about the PCI scan, the partition table and the bring-up of the  *)
(* storage stack.  The scan puts every function that can be reached into   *)
(* DEVICES once, because a bus is marked before it is pushed and every bus *)
(* of every segment is pushed; from then on functions only move between    *)
(* DEVICES, the controller at hand and the drives.                         *)
(***************************************************************************)
EXTENDS StorageInit, TLAPS

Parts == [start : Nat, size : Nat]

\* The entries are those that the header names, its checksum is right, and those
\* before offset have become partitions.
Walked ==
  /\ entries = EntryBlocks(header) /\ ChecksumOK(header, entries)
  /\ offset <= Len(entries) /\ Len(res) = offset
  /\ \A i \in 1..Len(res) : res[i] = PartitionOf(entries[i])

\* What gpt::init has established at each of its steps: the header is a checked
\* one from the place where it belongs, and partitions are only added while its
\* own entries are read.
TableInv ==
  /\ image \in Images /\ isBackup \in BOOLEAN
  /\ header \in Headers /\ entries \in Seq(Entries) /\ offset \in Nat
  /\ res \in Seq(Parts)
  /\ pc \in {"mbr", "primary"} => ~isBackup
  /\ pc \in {"array", "other_header", "other_array", "entries", "Ok"} =>
       /\ CheckGptHeader(header, isBackup)
       /\ header = image.headers[IF isBackup THEN BlockCount - 1 ELSE 1]
  /\ IF pc \in {"entries", "Ok"} THEN Walked ELSE res = <<>> /\ offset = 0
  /\ PartitionsApart

\* The machines whose segments share no bus number.
Plain == {m \in Machines : BusesApart(m)}

Segs == {machine.segments[i] : i \in 1..Len(machine.segments)}

\* Where the functions that the kernel can reach have their headers.
Reach ==
  {k \in DOMAIN machine.config : \E i \in DOMAIN machine.segments :
     machine.segments[i].mapped /\ machine.segments[i].base = k[1] /\ InSegment(machine.segments[i], k[2])}

\* What PCIFunction::new may return.
Fns == UNION {NewFunction(machine, k[2], k[3], k[4]) : k \in DOMAIN machine.config}

\* How bus_scanned knows the bus of a header, and of an element of to_scan.
HeaderBus(k) == <<k[1], k[2]>>
StackBus(p) == <<p[1].base, p[2]>>
Place(k) == <<k[3], k[4]>>

\* A bus that is pushed is one of its segment, or of no segment with that base.
Own(S, p) == \A s \in S : s.base = p[1].base /\ InSegment(s, p[2]) => InSegment(p[1], p[2])

\* A bus on the stack, a function that is still to be visited, and one that was.
Waits(stack, b) == \E i \in DOMAIN stack : StackBus(stack[i]) = b
AtHand(p, places, k) == Place(k) \in places /\ StackBus(p) = HeaderBus(k)
Found(fs, k) == \E i \in DOMAIN fs : fs[i].id = Id(k)

\* The buses of the first n segments are marked.
Marked(segments, marks, n) ==
  \A i \in 1..n : \A b \in Nat : InSegment(segments[i], b) => <<segments[i].base, b>> \in marks

\* The buses of a segment are being pushed, before any bus is scanned.
Seeding ==
  /\ seeded > 0 /\ left = {} /\ Marked(machine.segments, scanned, seeded - 1)
  /\ range.segment = machine.segments[seeded]
  /\ range.segment.start <= range.next /\ range.last = range.segment.end
  /\ \A b \in Nat : range.segment.start <= b /\ b < range.next => <<range.segment.base, b>> \in scanned

\* scan pushes the buses of all segments, and only then those behind bridges.
RangeInv ==
  /\ seeded \in 0..Len(machine.segments)
  /\ range \in [segment : Segs \union {<<>>}, next : Nat, last : Nat]
  /\ Pushing => range.segment \in Segs
  /\ Seeding \/ (Marked(machine.segments, scanned, seeded) /\ (Pushing => seeded = Len(machine.segments)))

\* A bus is on the stack once, and marked.
StackInv ==
  /\ toScan \in Seq(Segs \X Nat)
  /\ \A i \in DOMAIN toScan : StackBus(toScan[i]) \in scanned /\ Own(Segs, toScan[i])
  /\ \A i, j \in DOMAIN toScan : StackBus(toScan[i]) = StackBus(toScan[j]) => i = j

\* The bus that is scanned is not on the stack any more.
HereInv ==
  left # {} =>
    /\ here \in Segs \X Nat /\ left \subseteq Visited(machine, here[1], here[2])
    /\ StackBus(here) \in scanned /\ ~Waits(toScan, StackBus(here))
    /\ seeded = Len(machine.segments)

\* A function on a marked bus was found, once, or will still be met, once.
FoundInv ==
  /\ functions \in Seq(Fns) /\ IsInjective(functions)
  /\ \A i \in DOMAIN functions : \E k \in Reach :
       /\ functions[i].id = Id(k) /\ HeaderBus(k) \in scanned
       /\ ~Waits(toScan, HeaderBus(k)) /\ ~AtHand(here, left, k)
  /\ \A k \in Reach : HeaderBus(k) \in scanned =>
       Found(functions, k) \/ Waits(toScan, HeaderBus(k)) \/ AtHand(here, left, k)

ScanInv == machine \in Plain /\ RangeInv /\ StackInv /\ HereInv /\ FoundInv

\* What the drives of a machine are.
Drv == [fn : Fns, port : 0..(machine.ports - 1), mem : Buffers]
KeptDrives == [inner : Drv, partitions : Seq(Parts)]
HwPorts == {Id(k) : k \in DOMAIN machine.config} \X (0..(machine.ports - 1))

\* The functions that are to be in DEVICES or to have an owner.
PresentFns == {f \in Fns : f.id \in Present}

\* ahci::init runs.
Working == {"reset", "port", "identify"}

Quiet == devices = <<>> /\ ctrl = {} /\ drives = <<>> /\ found = <<>> /\ DRIVES = <<>>

\* What the place in boot says about the controller and the port at work.
ControlInv ==
  /\ boot \in {"segments", "scan", "claim", "gpt", "dropping", "up", "failed"} \union Working
  /\ boot \in {"segments", "scan"} \/ InvalidEntry => Quiet
  /\ InvalidEntry => boot \in {"segments", "failed"}
  /\ port \in Nat
  /\ IF boot \in Working THEN \E f \in Fns : ctrl = {f} ELSE ctrl = {} /\ drives = <<>>
  /\ boot = "reset" => drives = <<>>
  /\ IF boot = "identify" THEN port < machine.ports /\ \E b \in Buffers : buffer = {b}
     ELSE buffer = {}
  /\ boot = "identify" => \A f \in ctrl : hw[<<f.id, port>>] = [on |-> TRUE, mem |-> buffer]
  /\ boot \in {"gpt", "dropping"} => found # <<>>

\* A function is in DEVICES, once, or has an owner.
FunctionInv ==
  /\ devices \in Seq(Fns) /\ IsInjective(devices)
  /\ Range(devices) \intersect Owned = {}
  /\ boot \notin {"segments", "scan"} /\ ~InvalidEntry => Range(devices) \union Owned = PresentFns

\* A drive is in one list, once; those of the controller at work are at ports
\* before the current one, and no other drive is at this controller.
DriveInv ==
  /\ drives \in Seq(Drv) /\ IsInjective(drives)
  /\ found \in Seq(Drv) /\ IsInjective(found)
  /\ DRIVES \in Seq(KeptDrives)
  /\ Range(found) \intersect Kept = {}
  /\ \A d \in Range(drives) : d.fn \in ctrl /\ d.port < port
  /\ \A d \in Range(found) \union Kept : d.fn \notin ctrl

\* A drive's memory is its own, and its port uses it.
MemoryInv ==
  /\ free \subseteq Buffers /\ free \intersect buffer = {}
  /\ \A d \in Live : d.mem \notin free \union buffer
  /\ \A d, e \in Live : d.mem = e.mem => d = e
  /\ DOMAIN hw = HwPorts
  /\ \A d \in Live : hw[<<d.fn.id, d.port>>] = [on |-> TRUE, mem |-> {d.mem}]

StoreInv == ControlInv /\ FunctionInv /\ DriveInv /\ MemoryInv

\* The partitions of a drive ascend, and none overlaps the next.
Disjoint(ps) ==
  /\ \A i, j \in 1..Len(ps) : i < j => End(ps[i]) < ps[j].start
  /\ \A i \in 1..Len(ps) : ps[i].size > 0

\* No partition on any drive that was registered overlaps another one of the drive:
\* gpt::init gives its result to DRIVES as it is, and nothing changes it there.
KeptDisjoint == \A d \in Range(DRIVES) : Disjoint(d.partitions)

\* gpt::init runs, or nothing is left of it.
GptInv ==
  /\ DRIVES \in Seq(Range(DRIVES)) /\ KeptDisjoint
  /\ IF boot = "gpt" THEN TableInv ELSE pc = "off" /\ res = <<>>

BootInv ==
  /\ machine \in Machines /\ GptInv
  /\ BusesApart(machine) => ScanInv /\ StoreInv

-----------------------------------------------------------------------------
(* The partition table.                                                    *)

\* What a drive holds.
LEMMA ImageTypes ==
  ASSUME NEW d \in Images
  PROVE  /\ \A b \in {1, BlockCount - 1} : b \in DOMAIN d.headers /\ d.headers[b] \in Headers
         /\ \A b \in DOMAIN d.arrays : d.arrays[b] \in Seq(Entries)
         /\ \A b \in {1, BlockCount - 1} : BlockCount + ArrayBlocks(d.headers[b]) <= U64Max
         /\ BlockCount \in Nat /\ BlockCount > 2 /\ U64Max \in Nat
BY GptAssumption, Zenon

\* The blocks of an array, and the entries in the blocks that are read: less
\* than a block more than the checksum covers.
LEMMA ArraySize ==
  ASSUME NEW h \in Headers
  PROVE  /\ ArrayBlocks(h) \in Nat /\ Covered(h) \in Nat /\ EntriesRead(h) \in Nat
         /\ EntriesRead(h) < Covered(h) + PerBlock /\ PerBlock \in Nat \ {0}
<1> DEFINE s == PerBlock
           c == Covered(h)
           q == DivCeil(c, s)
           m == (c + s - 1) % s
<1>1. s \in Nat \ {0} /\ MaxBlocks \in Nat /\ h.count \in Nat
  BY GptAssumption, Zenon DEF Headers
<1>2. MaxBlocks * s \in Nat
  BY <1>1
<1>3. c \in Nat
  BY <1>1, <1>2, Zenon DEF Covered
<1> HIDE DEF c
<1>4. q \in Nat /\ m \in 0..(s - 1) /\ c + s - 1 = s * q + m
  BY <1>1, <1>3 DEF DivCeil
<1>5. ArrayBlocks(h) \in Nat
  BY <1>1 DEF ArrayBlocks, DivCeil
<1>6. EntriesRead(h) = q * s
  BY Zenon DEF EntriesRead, c
<1> HIDE DEF q, m, s
<1>7. q * s = s * q /\ q * s \in Nat /\ q * s < c + s
  BY <1>1, <1>3, <1>4
<1>8. QED
  BY <1>1, <1>3, <1>5, <1>6, <1>7, Zenon DEF c, s

\* The first elements of a sequence.
LEMMA PrefixFacts ==
  ASSUME NEW S, NEW es \in Seq(S), NEW n \in Nat
  PROVE  /\ Prefix(es, n) \in Seq(S) /\ Len(Prefix(es, n)) \in Nat
         /\ Len(Prefix(es, n)) = IF n < Len(es) THEN n ELSE Len(es)
         /\ \A i \in 1..Len(Prefix(es, n)) : Prefix(es, n)[i] = es[i]
BY DEF Prefix

LEMMA TableInit ==
  ASSUME Init
  PROVE  TableInv
<1>1. /\ image \in Images /\ pc = "mbr" /\ isBackup = FALSE /\ header = image.headers[1]
      /\ entries = <<>> /\ offset = 0 /\ res = <<>>
  BY Zenon DEF Init
<1>2. header \in Headers
  BY <1>1, ImageTypes, Zenon
<1>3. PartitionsApart
  BY <1>1 DEF PartitionsApart
<1>4. entries \in Seq(Entries) /\ res \in Seq(Parts) /\ offset \in Nat
  BY <1>1
<1>5. QED
  BY <1>1, <1>2, <1>3, <1>4, Zenon DEF TableInv

\* A partition is added behind the ones before it.
LEMMA AddStep ==
  ASSUME TableInv, AddPartition
  PROVE  TableInv'
<1> DEFINE e == entries[offset + 1]
           p == PartitionOf(e)
           n == Len(res)
           blocks == ArrayBlocks(header)
<1>1. /\ pc = "entries" /\ offset < Len(entries) /\ EntryOK(e) /\ res' = Append(res, p)
      /\ offset' = offset + 1 /\ UNCHANGED <<image, pc, header, isBackup, entries>>
  BY Zenon DEF AddPartition
<1>2. /\ image \in Images /\ header \in Headers /\ entries \in Seq(Entries) /\ offset \in Nat
      /\ res \in Seq(Parts) /\ CheckGptHeader(header, isBackup)
      /\ header = image.headers[IF isBackup THEN BlockCount - 1 ELSE 1]
      /\ isBackup \in BOOLEAN /\ Walked /\ PartitionsApart
  BY <1>1, Zenon DEF TableInv
<1>3. e \in Entries /\ e.start \in Nat /\ e.end \in Nat
  <2>1. offset + 1 \in 1..Len(entries)
    BY <1>1, <1>2
  <2>2. e \in Entries
    BY <1>2, <2>1
  <2>3. QED
    BY <2>2, Zenon DEF Entries
<1>4. /\ res # <<>> => e.start >= res[n].start + res[n].size
      /\ e.start >= header.first /\ e.end <= header.last /\ e.start <= e.end
  BY <1>1, Zenon DEF EntryOK, Behind, Latest
<1> HIDE DEF e
<1>5. p \in Parts /\ p.start = e.start /\ p.size = e.end - e.start + 1 /\ p.size > 0
  BY <1>3, <1>4 DEF Parts, PartitionOf
<1> HIDE DEF p
<1>6. /\ n \in Nat /\ Len(res') = n + 1 /\ res'[n + 1] = p /\ res' \in Seq(Parts)
      /\ \A i \in 1..n : res'[i] = res[i] /\ res[i].start \in Nat /\ res[i].size \in Nat
  <2>1. n \in Nat /\ res' = Append(res, p) /\ p \in Parts
    BY <1>1, <1>2, <1>5
  <2>2. /\ Len(res') = n + 1 /\ res'[n + 1] = p /\ res' \in Seq(Parts)
        /\ \A i \in 1..n : res'[i] = res[i]
    BY <1>2, <2>1
  <2>3. ASSUME NEW i \in 1..n PROVE res[i].start \in Nat /\ res[i].size \in Nat
    <3>1. res \in Seq(Parts)
      BY <1>2, Zenon
    <3>2. res[i] \in Parts
      BY <3>1
    <3>3. QED
      BY <3>2, Zenon DEF Parts
  <2>4. QED
    BY <2>1, <2>2, <2>3
<1>7. /\ header.first \in Nat /\ header.last \in Nat /\ header.start \in Nat
      /\ header.last <= BlockCount
      /\ header.start + blocks <= U64Max => header.start + blocks <= header.first
  BY <1>2, Zenon DEF CheckGptHeader, ArrayBefore, Headers
<1>8. End(p) = e.end
  BY <1>3, <1>5 DEF End
<1>9. header.start..(header.start + blocks - 1) \cap p.start..End(p) = {}
  <2>1. /\ BlockCount \in Nat /\ blocks \in Nat /\ U64Max \in Nat
        /\ BlockCount + blocks <= U64Max
    BY <1>2, ImageTypes, ArraySize, Zenon
  <2> HIDE DEF blocks
  <2>2. header.start + blocks <= p.start \/ End(p) < header.start
    BY <1>3, <1>4, <1>5, <1>7, <1>8, <2>1
  <2>3. QED
    BY <1>3, <1>5, <1>7, <1>8, <2>1, <2>2
<1>10. ASSUME NEW i \in 1..n PROVE End(res[i]) < p.start
  <2>1. End(res[i]) = res[i].start + res[i].size - 1 /\ res[i].start \in Nat /\ res[i].size \in Nat
    BY <1>6, Zenon DEF End
  <2>2. CASE i = n
    BY <1>3, <1>4, <1>5, <1>6, <2>1, <2>2
  <2>3. CASE i # n
    <3>1. n \in 1..n /\ i < n
      BY <1>6, <2>3
    <3>2. End(res[i]) < res[n].start
      BY <1>2, <3>1, Zenon DEF PartitionsApart
    <3>3. res[n].start \in Nat /\ res[n].size \in Nat
      BY <1>6, <3>1, Zenon
    <3>4. e.start >= res[n].start + res[n].size
      BY <1>2, <1>4, <1>6, <3>1
    <3>5. p.start = e.start /\ e.start \in Nat /\ End(res[i]) \in Int
      BY <1>3, <1>5, <2>1
    <3>6. QED
      BY <3>2, <3>3, <3>4, <3>5
  <2>4. QED
    BY <2>2, <2>3, Zenon
<1>11. PartitionsApart'
  <2>1. ASSUME NEW i \in 1..Len(res'), NEW j \in 1..Len(res'), i < j
        PROVE  End(res'[i]) < res'[j].start
    <3>1. i \in 1..n
      BY <1>6, <2>1
    <3>2. CASE j = n + 1
      BY <1>6, <1>10, <3>1, <3>2
    <3>3. CASE j # n + 1
      <4>1. j \in 1..n
        BY <1>6, <3>3
      <4>2. QED
        BY <1>2, <1>6, <2>1, <3>1, <4>1 DEF PartitionsApart
    <3>4. QED
      BY <3>2, <3>3, Zenon
  <2>2. ASSUME NEW i \in 1..Len(res')
        PROVE  /\ res'[i].size > 0 /\ res'[i].start >= header'.first /\ End(res'[i]) <= header'.last
               /\ header'.start..(header'.start + ArrayBlocks(header') - 1) \cap res'[i].start..End(res'[i]) = {}
    <3>1. CASE i = n + 1
      BY <1>1, <1>4, <1>5, <1>6, <1>8, <1>9, <3>1
    <3>2. CASE i # n + 1
      <4>1. i \in 1..n
        BY <1>6, <3>2
      <4>2. QED
        BY <1>1, <1>2, <1>6, <4>1 DEF PartitionsApart
    <3>3. QED
      BY <3>1, <3>2, Zenon
  <2>3. QED
    BY <2>1, <2>2, Zenon DEF PartitionsApart, End, ArrayBlocks, DivCeil
<1>12. Walked'
  <2>1. offset' <= Len(entries') /\ Len(res') = offset'
    BY <1>1, <1>2, <1>6 DEF Walked
  <2>2. ASSUME NEW i \in 1..Len(res') PROVE res'[i] = PartitionOf(entries[i])
    <3>1. CASE i = n + 1
      BY <1>2, <1>6, <3>1, Zenon DEF Walked, e, p
    <3>2. CASE i # n + 1
      <4>1. i \in 1..n
        BY <1>6, <3>2
      <4>2. QED
        BY <1>2, <1>6, <4>1, Zenon DEF Walked
    <3>3. QED
      BY <3>1, <3>2, Zenon
  <2>3. entries' = EntryBlocks(header)' /\ ChecksumOK(header, entries)'
    BY <1>1, <1>2, Zenon DEF Walked, EntryBlocks, ChecksumOK, ArrayAt, Prefix, EntriesRead, Covered, DivCeil
  <2>4. QED
    BY <1>1, <2>1, <2>2, <2>3, Zenon DEF Walked, PartitionOf
<1>13. CheckGptHeader(header, isBackup)'
  BY <1>1, <1>2, Zenon DEF CheckGptHeader, MyLBA, ArrayBefore, ArrayBlocks, DivCeil
<1>14. offset' \in Nat /\ pc' = "entries"
  BY <1>1, <1>2
<1>15. QED
  BY <1>1, <1>2, <1>6, <1>11, <1>12, <1>13, <1>14, Zenon DEF TableInv

\* The steps that look for a header and an array: no partitions yet.
LEMMA SearchStep ==
  ASSUME TableInv,
         \/ IOError \/ ReadMbr \/ ReadPrimary \/ ReadBackup
         \/ ReadArray \/ ReadOtherHeader \/ ReadOtherArray
  PROVE  TableInv'
<1> DEFINE last == BlockCount - 1
<1>1. /\ image \in Images /\ isBackup \in BOOLEAN /\ header \in Headers
      /\ entries \in Seq(Entries) /\ offset \in Nat /\ res \in Seq(Parts)
  BY Zenon DEF TableInv
<1>2. /\ \A b \in {1, last} : b \in DOMAIN image.headers /\ image.headers[b] \in Headers
      /\ \A b \in DOMAIN image.arrays : image.arrays[b] \in Seq(Entries)
  BY <1>1, ImageTypes, Zenon
<1>3. EntryBlocks(header) \in Seq(Entries)
  <2>1. ArrayAt(header.start) \in Seq(Entries)
    BY <1>2 DEF ArrayAt
  <2>2. QED
    BY <1>1, <2>1, ArraySize, PrefixFacts, Zenon DEF EntryBlocks
<1>4. pc \notin {"entries", "Ok"} /\ res = <<>> /\ offset = 0 /\ UNCHANGED <<image, offset, res>>
  BY Zenon DEF TableInv, IOError, ReadMbr, ReadPrimary, ReadBackup,
         ReadArray, ReadOtherHeader, ReadOtherArray
<1>5. PartitionsApart'
  BY <1>4 DEF PartitionsApart
<1>6. /\ image' \in Images /\ offset' \in Nat /\ res' \in Seq(Parts) /\ res' = <<>> /\ offset' = 0
  BY <1>1, <1>4, Zenon
<1>w. ASSUME UNCHANGED header, entries' = EntryBlocks(header), ChecksumOK(header, entries')
      PROVE  Walked'
  <2>1. entries' = EntryBlocks(header)' /\ ChecksumOK(header, entries)'
    BY <1>4, <1>w, Zenon DEF EntryBlocks, ChecksumOK, ArrayAt, Prefix, EntriesRead, Covered, DivCeil
  <2>2. Len(res') = 0 /\ 1..Len(res') = {} /\ Len(entries') \in Nat
    BY <1>3, <1>6, <1>w
  <2>3. QED
    BY <1>6, <2>1, <2>2 DEF Walked
<1>7. CASE IOError
  <2>1. pc' = "IOError" /\ UNCHANGED <<header, isBackup, entries>>
    BY <1>7, Zenon DEF IOError
  <2>2. QED
    BY <1>1, <1>5, <1>6, <2>1 DEF TableInv
<1>8. CASE ReadMbr
  <2>1. pc = "mbr" /\ pc' \in {"primary", "BadMBR"} /\ UNCHANGED <<header, isBackup, entries>>
    BY <1>8, Zenon DEF ReadMbr
  <2>2. ~isBackup
    BY <2>1, Zenon DEF TableInv
  <2>3. QED
    BY <1>1, <1>5, <1>6, <2>1, <2>2 DEF TableInv
<1>9. CASE ReadPrimary
  <2>1. /\ pc = "primary" /\ header' = image.headers[1] /\ UNCHANGED <<isBackup, entries>>
        /\ pc' = IF CheckGptHeader(header', isBackup) THEN "array" ELSE "backup"
    BY <1>9, Zenon DEF ReadPrimary
  <2>2. ~isBackup /\ header' \in Headers
    BY <1>2, <2>1, Zenon DEF TableInv
  <2>3. pc' = "array" => CheckGptHeader(header', isBackup')
    BY <2>1, Zenon
  <2>4. pc' \in {"array", "backup"}
    BY <2>1, Zenon
  <2>5. QED
    BY <1>1, <1>4, <1>5, <1>6, <2>1, <2>2, <2>3, <2>4
       DEF TableInv, CheckGptHeader, MyLBA, ArrayBefore, ArrayBlocks, DivCeil
<1>10. CASE ReadBackup
  <2>1. /\ header' = image.headers[last] /\ isBackup' = TRUE /\ UNCHANGED entries
        /\ pc' = IF CheckGptHeader(header', isBackup') THEN "array" ELSE "BadHeader"
    BY <1>10, Zenon DEF ReadBackup, LastBlock
  <2>2. header' \in Headers
    BY <1>2, <2>1, Zenon
  <2>3. (pc' = "array" => CheckGptHeader(header', isBackup')) /\ pc' \in {"array", "BadHeader"}
    BY <2>1, Zenon
  <2>4. QED
    BY <1>1, <1>4, <1>5, <1>6, <2>1, <2>2, <2>3, Zenon
       DEF TableInv, CheckGptHeader, MyLBA, ArrayBefore, ArrayBlocks, DivCeil
<1>11. CASE ReadArray
  <2>1. /\ pc = "array" /\ entries' = EntryBlocks(header) /\ UNCHANGED <<header, isBackup>>
        /\ pc' = IF ChecksumOK(header, entries') THEN "entries" ELSE "other_header"
    BY <1>11, Zenon DEF ReadArray
  <2>2. /\ CheckGptHeader(header, isBackup)
        /\ header = image.headers[IF isBackup THEN BlockCount - 1 ELSE 1]
    BY <2>1, Zenon DEF TableInv
  <2>3. entries' \in Seq(Entries) /\ (pc' = "entries" => Walked')
    BY <1>3, <1>w, <2>1, Zenon
  <2>4. CheckGptHeader(header, isBackup)'
    BY <2>1, <2>2, Zenon DEF CheckGptHeader, MyLBA, ArrayBefore, ArrayBlocks, DivCeil
  <2>5. QED
    BY <1>1, <1>4, <1>5, <1>6, <2>1, <2>2, <2>3, <2>4, Zenon DEF TableInv
<1>12. CASE ReadOtherHeader
  <2>1. /\ pc = "other_header" /\ UNCHANGED entries
        /\ IF isBackup THEN pc' = "other_array" /\ UNCHANGED <<header, isBackup>>
           ELSE /\ header' = image.headers[header.alternate]
                /\ isBackup' = TRUE
                /\ pc' = IF CheckGptHeader(header', isBackup') THEN "other_array" ELSE "BadHeader"
    BY <1>12, Zenon DEF ReadOtherHeader
  <2>2. /\ CheckGptHeader(header, isBackup)
        /\ header = image.headers[IF isBackup THEN BlockCount - 1 ELSE 1]
    BY <2>1, Zenon DEF TableInv
  <2>3. CASE isBackup
    BY <1>1, <1>4, <1>5, <1>6, <2>1, <2>2, <2>3
       DEF TableInv, CheckGptHeader, MyLBA, ArrayBefore, ArrayBlocks, DivCeil
  <2>4. CASE ~isBackup
    <3>1. header.alternate = last
      BY <2>2, <2>4, Zenon DEF CheckGptHeader, LastBlock
    <3>2. header' = image.headers[last] /\ header' \in Headers
      BY <1>2, <2>1, <2>4, <3>1, Zenon
    <3>3. (pc' = "other_array" => CheckGptHeader(header', isBackup')) /\ pc' \in {"other_array", "BadHeader"}
      BY <2>1, <2>4, Zenon
    <3>4. QED
      BY <1>1, <1>4, <1>5, <1>6, <2>1, <2>4, <3>2, <3>3, Zenon
         DEF TableInv, CheckGptHeader, MyLBA, ArrayBefore, ArrayBlocks, DivCeil
  <2>5. QED
    BY <2>3, <2>4, Zenon
<1>13. CASE ReadOtherArray
  <2>1. /\ pc = "other_array" /\ entries' = EntryBlocks(header) /\ UNCHANGED <<header, isBackup>>
        /\ pc' = IF ChecksumOK(header, entries') THEN "entries" ELSE "EntryCRCFailed"
    BY <1>13, Zenon DEF ReadOtherArray
  <2>2. /\ CheckGptHeader(header, isBackup)
        /\ header = image.headers[IF isBackup THEN BlockCount - 1 ELSE 1]
    BY <2>1, Zenon DEF TableInv
  <2>3. entries' \in Seq(Entries) /\ (pc' = "entries" => Walked')
    BY <1>3, <1>w, <2>1, Zenon
  <2>4. CheckGptHeader(header, isBackup)'
    BY <2>1, <2>2, Zenon DEF CheckGptHeader, MyLBA, ArrayBefore, ArrayBlocks, DivCeil
  <2>5. QED
    BY <1>1, <1>4, <1>5, <1>6, <2>1, <2>2, <2>3, <2>4, Zenon DEF TableInv
<1>14. QED
  BY <1>7, <1>8, <1>9, <1>10, <1>11, <1>12, <1>13

LEMMA TableNext == TableInv /\ [Next]_vars => TableInv'
<1> SUFFICES ASSUME TableInv, [Next]_vars PROVE TableInv'
  BY Zenon
<1>1. CASE AddPartition
  BY <1>1, AddStep, Zenon
<1>2. CASE \/ IOError \/ ReadMbr \/ ReadPrimary \/ ReadBackup
           \/ ReadArray \/ ReadOtherHeader \/ ReadOtherArray
  BY <1>2, SearchStep, Zenon
<1>3. CASE SkipEntry \/ EndOfEntries \/ UNCHANGED vars
  <2>1. /\ UNCHANGED <<image, header, isBackup, entries, offset, res>>
        /\ pc' = pc \/ (pc = "entries" /\ pc' = "Ok")
    BY <1>3, Zenon DEF SkipEntry, EndOfEntries, vars
  <2>2. PartitionsApart'
    BY <2>1, Zenon DEF TableInv, PartitionsApart, End, ArrayBlocks, DivCeil
  <2>3. Walked => Walked'
    BY <2>1, Zenon DEF Walked, EntryBlocks, ChecksumOK, ArrayAt, Prefix, EntriesRead, Covered, DivCeil, PartitionOf
  <2>4. QED
    BY <2>1, <2>2, <2>3, Zenon DEF TableInv, CheckGptHeader, MyLBA, ArrayBefore, ArrayBlocks, DivCeil
<1>4. QED
  BY <1>1, <1>2, <1>3, Zenon DEF Next, GptStep

\* The partitions that gpt::init returns ascend, overlap neither each other nor
\* the entry array and lie in the usable blocks, whatever is on the drive and
\* whichever header and array it falls back to.
THEOREM TableApart == Spec => []PartitionsApart
<1>1. Init => TableInv
  BY TableInit, Zenon
<1>2. TableInv => PartitionsApart
  BY DEF TableInv
<1>3. QED
  BY <1>1, <1>2, TableNext, PTL DEF Spec

LEMMA CheckedTable == TableInv => TableChecked
<1> SUFFICES ASSUME TableInv, pc \in {"entries", "Ok"}
             PROVE  /\ header.intact
                    /\ header.curr \in DOMAIN image.headers /\ header = image.headers[header.curr]
                    /\ \A i \in 1..Len(res) :
                         /\ res[i] = PartitionOf(ArrayAt(header.start)[i])
                         /\ i <= Covered(header) =>
                              i \in DOMAIN header.checksum /\ res[i] = PartitionOf(header.checksum[i])
                    /\ Len(res) < Covered(header) + PerBlock
  BY Zenon DEF TableChecked
<1> DEFINE c == Covered(header)
           r == EntriesRead(header)
           array == ArrayAt(header.start)
<1>1. /\ image \in Images /\ CheckGptHeader(header, isBackup) /\ header \in Headers
      /\ header = image.headers[IF isBackup THEN BlockCount - 1 ELSE 1]
      /\ Walked /\ res \in Seq(Parts) /\ entries \in Seq(Entries) /\ offset \in Nat
  BY Zenon DEF TableInv
<1>2. header.intact /\ header.curr = IF isBackup THEN BlockCount - 1 ELSE 1
  BY <1>1, Zenon DEF CheckGptHeader, MyLBA, LastBlock
<1>3. header.curr \in DOMAIN image.headers
  BY <1>1, <1>2, ImageTypes, Zenon
<1>4. c \in Nat /\ r \in Nat /\ r < c + PerBlock /\ PerBlock \in Nat
  BY <1>1, ArraySize, Zenon
<1>5. array \in Seq(Entries)
  <2>1. \A b \in DOMAIN image.arrays : image.arrays[b] \in Seq(Entries)
    BY <1>1, ImageTypes, Zenon
  <2>2. QED
    BY <2>1 DEF ArrayAt
<1>6. /\ entries = Prefix(array, r) /\ Prefix(entries, c) = header.checksum
      /\ offset <= Len(entries) /\ Len(res) = offset
      /\ \A i \in 1..Len(res) : res[i] = PartitionOf(entries[i])
  BY <1>1, Zenon DEF Walked, EntryBlocks, ChecksumOK
<1> HIDE DEF c, r, array
<1>7. /\ Len(entries) = IF r < Len(array) THEN r ELSE Len(array)
      /\ \A i \in 1..Len(entries) : entries[i] = array[i]
  BY <1>4, <1>5, <1>6, PrefixFacts, Zenon
<1>8. /\ Len(header.checksum) = IF c < Len(entries) THEN c ELSE Len(entries)
      /\ \A i \in 1..Len(header.checksum) : header.checksum[i] = entries[i]
  <2> DEFINE first == Prefix(entries, c)
  <2>1. /\ Len(first) = IF c < Len(entries) THEN c ELSE Len(entries)
        /\ \A i \in 1..Len(first) : first[i] = entries[i]
    BY <1>1, <1>4, PrefixFacts, Zenon
  <2>2. first = header.checksum
    BY <1>6, Zenon
  <2> HIDE DEF first
  <2>3. QED
    BY <2>1, <2>2, Zenon
<1>a. header.checksum \in Seq(Entries)
  BY <1>1, Zenon DEF Headers
<1>9. Len(entries) \in Nat /\ Len(array) \in Nat /\ DOMAIN header.checksum = 1..Len(header.checksum)
  BY <1>1, <1>5, <1>a
<1>10. Len(res) < c + PerBlock
  BY <1>1, <1>4, <1>6, <1>7, <1>9
<1>11. ASSUME NEW i \in 1..Len(res)
       PROVE  /\ i \in 1..Len(entries)
              /\ i <= c => i \in 1..Len(header.checksum)
  BY <1>1, <1>4, <1>6, <1>8, <1>9
<1>12. ASSUME NEW i \in 1..Len(res)
       PROVE  /\ res[i] = PartitionOf(array[i])
              /\ i <= c => i \in DOMAIN header.checksum /\ res[i] = PartitionOf(header.checksum[i])
  <2>1. res[i] = PartitionOf(entries[i]) /\ entries[i] = array[i]
    BY <1>6, <1>7, <1>11, Zenon
  <2>2. i <= c => i \in DOMAIN header.checksum /\ header.checksum[i] = entries[i]
    BY <1>8, <1>9, <1>11, Zenon
  <2>3. QED
    BY <2>1, <2>2, Zenon
<1>13. QED
  BY <1>1, <1>2, <1>3, <1>10, <1>12, Zenon DEF c, array

\* gpt::init takes entries only from an intact header in its own place and from
\* the blocks it names.  Those that the header's checksum covers are what was
\* checksummed; of what is behind them only the rest of the last block is taken.
THEOREM TableIsChecked == Spec => []TableChecked
<1>1. Init => TableInv
  BY TableInit, Zenon
<1>2. TableInv => TableChecked
  BY CheckedTable, Zenon
<1>3. QED
  BY <1>1, <1>2, TableNext, PTL DEF Spec

-----------------------------------------------------------------------------
(* Sequences without repetitions.                                          *)

LEMMA AppendOne ==
  ASSUME NEW S, NEW q \in Seq(S), NEW x \in S
  PROVE  /\ Append(q, x) \in Seq(S) /\ Range(Append(q, x)) = Range(q) \union {x}
         /\ IsInjective(q) /\ x \notin Range(q) => IsInjective(Append(q, x))
<1>1. /\ Append(q, x) \in Seq(S) /\ Len(q) \in Nat /\ DOMAIN q = 1..Len(q)
      /\ DOMAIN Append(q, x) = 1..(Len(q) + 1)
      /\ \A i \in 1..Len(q) : Append(q, x)[i] = q[i]
      /\ Append(q, x)[Len(q) + 1] = x
  OBVIOUS
<1> DEFINE r == Append(q, x)
<1> HIDE DEF r
<1>2. \A i \in 1..(Len(q) + 1) : i \in 1..Len(q) \/ i = Len(q) + 1
  BY <1>1
<1>3. 1..Len(q) \subseteq 1..(Len(q) + 1) /\ Len(q) + 1 \in 1..(Len(q) + 1)
  BY <1>1
<1>4. /\ DOMAIN r = 1..(Len(q) + 1) /\ \A i \in DOMAIN q : r[i] = q[i]
      /\ r[Len(q) + 1] = x
  BY <1>1, Zenon DEF r
<1>5. Range(r) = Range(q) \union {x}
  BY <1>1, <1>2, <1>3, <1>4, Zenon DEF Range
<1>6. ASSUME IsInjective(q), x \notin Range(q)
      PROVE  IsInjective(r)
  <2>1. \A i \in DOMAIN q : q[i] # x
    BY <1>6, Zenon DEF Range
  <2> QED
    BY <1>1, <1>2, <1>3, <1>4, <1>6, <2>1, Zenon DEF IsInjective
<1>7. QED
  BY <1>1, <1>5, <1>6, Zenon DEF r

Joined(q, r) == q \o r
Apart(q, r) == \A x \in Range(q) : x \notin Range(r)

LEMMA ConcatTwo ==
  ASSUME NEW S, NEW q \in Seq(S), NEW r \in Seq(S)
  PROVE  /\ Joined(q, r) \in Seq(S) /\ Range(Joined(q, r)) = Range(q) \union Range(r)
         /\ IsInjective(q) /\ IsInjective(r) /\ Apart(q, r) => IsInjective(Joined(q, r))
<1> DEFINE t == q \o r
           m == Len(q)
           n == Len(r)
<1>1. /\ t \in Seq(S) /\ m \in Nat /\ n \in Nat /\ DOMAIN q = 1..m /\ DOMAIN r = 1..n
      /\ DOMAIN t = 1..(m + n)
      /\ \A i \in 1..(m + n) : t[i] = IF i <= m THEN q[i] ELSE r[i - m]
  OBVIOUS
<1> HIDE DEF t, m, n
<1>2. /\ \A i \in 1..m : i \in 1..(m + n) /\ i <= m
      /\ \A i \in 1..n : i + m \in 1..(m + n) /\ ~(i + m <= m) /\ (i + m) - m = i
      /\ \A i \in 1..(m + n) : IF i <= m THEN i \in 1..m ELSE i - m \in 1..n
      /\ \A i, j \in 1..(m + n) : i - m = j - m => i = j
  BY <1>1
<1>3. Range(t) = Range(q) \union Range(r)
  <2>1. ASSUME NEW i \in DOMAIN t PROVE t[i] \in Range(q) \union Range(r)
    <3>1. CASE i <= m
      <4>1. i \in DOMAIN q /\ t[i] = q[i]
        BY <1>1, <1>2, <3>1, Zenon
      <4> QED
        BY <4>1, Zenon DEF Range
    <3>2. CASE ~(i <= m)
      <4>1. i - m \in DOMAIN r /\ t[i] = r[i - m]
        BY <1>1, <1>2, <3>2, Zenon
      <4> QED
        BY <4>1, Zenon DEF Range
    <3> QED
      BY <3>1, <3>2, Zenon
  <2>2. ASSUME NEW i \in DOMAIN q PROVE q[i] \in Range(t)
    BY <1>1, <1>2, Zenon DEF Range
  <2>3. ASSUME NEW i \in DOMAIN r PROVE r[i] \in Range(t)
    <3>1. i + m \in DOMAIN t /\ t[i + m] = r[i]
      BY <1>1, <1>2
    <3> QED
      BY <3>1, Zenon DEF Range
  <2>4. QED
    BY <2>1, <2>2, <2>3, Zenon DEF Range
<1>4. ASSUME IsInjective(q), IsInjective(r), Apart(q, r)
      PROVE  IsInjective(t)
  <2>1. \A i \in 1..m : \A j \in 1..n : q[i] # r[j]
    BY <1>1, <1>4, Zenon DEF Range, Apart
  <2>2. SUFFICES ASSUME NEW i \in 1..(m + n), NEW j \in 1..(m + n), t[i] = t[j] PROVE i = j
    BY <1>1, Zenon DEF IsInjective
  <2>3. CASE i <= m /\ j <= m
    <3>1. q[i] = q[j] /\ i \in DOMAIN q /\ j \in DOMAIN q
      BY <1>1, <1>2, <2>2, <2>3, Zenon
    <3> QED
      BY <1>4, <3>1, Zenon DEF IsInjective
  <2>4. CASE ~(i <= m) /\ ~(j <= m)
    <3>1. r[i - m] = r[j - m] /\ i - m \in DOMAIN r /\ j - m \in DOMAIN r
      BY <1>1, <1>2, <2>2, <2>4, Zenon
    <3> QED
      BY <1>2, <1>4, <3>1, Zenon DEF IsInjective
  <2>5. CASE i <= m /\ ~(j <= m)
    <3>1. r[j - m] = q[i] /\ j - m \in 1..n /\ i \in 1..m
      BY <1>1, <1>2, <2>2, <2>5, Zenon
    <3> QED
      BY <2>1, <3>1, Zenon
  <2>6. CASE ~(i <= m) /\ j <= m
    <3>1. r[i - m] = q[j] /\ i - m \in 1..n /\ j \in 1..m
      BY <1>1, <1>2, <2>2, <2>6, Zenon
    <3> QED
      BY <2>1, <3>1, Zenon
  <2>7. QED
    BY <2>3, <2>4, <2>5, <2>6, Zenon
<1>5. QED
  BY <1>1, <1>3, <1>4, Zenon DEF t, Joined

\* A sequence r that has the elements of q but for the one at n, in their order.
LEMMA OneLess ==
  ASSUME NEW S, NEW q \in Seq(S), IsInjective(q), NEW n \in 1..Len(q), NEW r \in Seq(S),
         Len(r) = Len(q) - 1,
         \A i \in 1..(Len(q) - 1) : r[i] = IF i < n THEN q[i] ELSE q[i + 1]
  PROVE  Range(r) = Range(q) \ {q[n]} /\ IsInjective(r)
<1> DEFINE m == Len(q)
           At(i) == IF i < n THEN i ELSE i + 1
<1>1. m \in Nat /\ n \in 1..m /\ DOMAIN q = 1..m /\ DOMAIN r = 1..(m - 1)
  OBVIOUS
<1>2. \A i \in 1..(m - 1) : At(i) \in 1..m /\ At(i) # n
  BY <1>1
<1>3. \A i, j \in 1..(m - 1) : At(i) = At(j) => i = j
  BY <1>1
<1>4. \A j \in 1..m : j = n \/ \E i \in 1..(m - 1) : At(i) = j
  <2>1. ASSUME NEW j \in 1..m, j # n PROVE \E i \in 1..(m - 1) : At(i) = j
    <3>1. CASE j < n
      <4>1. j \in 1..(m - 1) /\ At(j) = j
        BY <1>1, <3>1
      <4> QED
        BY <4>1, Zenon
    <3>2. CASE ~(j < n)
      <4>1. j - 1 \in 1..(m - 1) /\ At(j - 1) = j
        BY <1>1, <2>1, <3>2
      <4> HIDE DEF At
      <4> QED
        BY <4>1, Zenon
    <3> QED
      BY <3>1, <3>2, Zenon
  <2> QED
    BY <2>1, Zenon
<1>5. \A i \in 1..(m - 1) : r[i] = q[At(i)]
  BY <1>1, Zenon
<1> HIDE DEF At, m
<1>6. \A i, j \in 1..m : q[i] = q[j] => i = j
  BY <1>1, Zenon DEF IsInjective
<1>7. IsInjective(r)
  <2>1. SUFFICES ASSUME NEW i \in 1..(m - 1), NEW j \in 1..(m - 1), r[i] = r[j] PROVE i = j
    BY <1>1, Zenon DEF IsInjective
  <2>2. q[At(i)] = q[At(j)] /\ At(i) \in 1..m /\ At(j) \in 1..m
    BY <1>2, <1>5, <2>1, Zenon
  <2>3. At(i) = At(j)
    BY <1>6, <2>2, Zenon
  <2> QED
    BY <1>3, <2>3, Zenon
<1>8. ASSUME NEW x \in Range(r) PROVE x \in Range(q) /\ x # q[n]
  <2>1. PICK i \in 1..(m - 1) : x = r[i]
    BY <1>1, Zenon DEF Range
  <2>2. x = q[At(i)] /\ At(i) \in 1..m /\ At(i) # n
    BY <1>2, <1>5, <2>1, Zenon
  <2> QED
    BY <1>1, <1>6, <2>2, Zenon DEF Range
<1>9. ASSUME NEW x \in Range(q), x # q[n] PROVE x \in Range(r)
  <2>1. PICK j \in 1..m : x = q[j]
    BY <1>1, Zenon DEF Range
  <2>2. PICK i \in 1..(m - 1) : At(i) = j
    BY <1>4, <1>9, <2>1, Zenon
  <2>3. r[i] = x
    BY <1>5, <2>1, <2>2, Zenon
  <2> QED
    BY <1>1, <2>3, Zenon DEF Range
<1>10. QED
  BY <1>7, <1>8, <1>9, Zenon

LEMMA TailOne ==
  ASSUME NEW S, NEW q \in Seq(S), q # <<>>, IsInjective(q)
  PROVE  /\ Tail(q) \in Seq(S) /\ Head(q) \in S /\ Head(q) \in Range(q)
         /\ Range(Tail(q)) = Range(q) \ {Head(q)} /\ IsInjective(Tail(q))
<1>1. /\ Tail(q) \in Seq(S) /\ 1 \in 1..Len(q) /\ Len(Tail(q)) = Len(q) - 1 /\ Head(q) = q[1]
      /\ Head(q) \in S /\ DOMAIN q = 1..Len(q)
  OBVIOUS
<1>2. \A i \in 1..(Len(q) - 1) : Tail(q)[i] = IF i < 1 THEN q[i] ELSE q[i + 1]
  OBVIOUS
<1>3. Range(Tail(q)) = Range(q) \ {q[1]} /\ IsInjective(Tail(q))
  BY <1>1, <1>2, OneLess, Zenon
<1>4. QED
  BY <1>1, <1>3, Zenon DEF Range

Without(q, n) == SubSeq(q, 1, n - 1) \o SubSeq(q, n + 1, Len(q))

LEMMA RemoveOne ==
  ASSUME NEW S, NEW q \in Seq(S), IsInjective(q), NEW n \in 1..Len(q)
  PROVE  /\ q[n] \in S /\ q[n] \in Range(q) /\ Without(q, n) \in Seq(S)
         /\ Range(Without(q, n)) = Range(q) \ {q[n]} /\ IsInjective(Without(q, n))
<1> DEFINE a == SubSeq(q, 1, n - 1)
           b == SubSeq(q, n + 1, Len(q))
           m == Len(q)
           r == a \o b
<1>1. m \in Nat /\ n \in 1..m /\ DOMAIN q = 1..m /\ q[n] \in S
  OBVIOUS
<1>2. a \in Seq(S) /\ Len(a) = n - 1 /\ \A i \in 1..(n - 1) : a[i] = q[i]
  OBVIOUS
<1>3. b \in Seq(S) /\ Len(b) = m - n /\ \A i \in 1..(m - n) : b[i] = q[i + n]
  OBVIOUS
<1> HIDE DEF a, b, m
<1>4. r \in Seq(S) /\ Len(r) = m - 1
  <2>0. a \in Seq(S) /\ b \in Seq(S)
    BY <1>2, <1>3, Zenon
  <2>1. r \in Seq(S) /\ Len(r) = Len(a) + Len(b)
    BY <2>0
  <2> HIDE DEF r
  <2> QED
    BY <1>1, <1>2, <1>3, <2>1
<1>5. ASSUME NEW i \in 1..(m - 1) PROVE r[i] = IF i < n THEN q[i] ELSE q[i + 1]
  <2>1. r[i] = IF i <= n - 1 THEN a[i] ELSE b[i - (n - 1)]
    BY <1>1, <1>2, <1>3
  <2>2. CASE i < n
    BY <1>1, <1>2, <2>1, <2>2
  <2>3. CASE ~(i < n)
    <3>1. i - (n - 1) \in 1..(m - n) /\ (i - (n - 1)) + n = i + 1 /\ ~(i <= n - 1)
      BY <1>1, <2>3
    <3> QED
      BY <1>3, <2>1, <2>3, <3>1, Zenon
  <2> QED
    BY <2>2, <2>3, Zenon
<1> HIDE DEF r
<1>6. Range(r) = Range(q) \ {q[n]} /\ IsInjective(r)
  BY <1>1, <1>4, <1>5, OneLess, Zenon DEF m
<1>7. Without(q, n) = r
  BY Zenon DEF Without, r, a, b
<1>8. QED
  BY <1>1, <1>4, <1>6, <1>7, Zenon DEF Range

-----------------------------------------------------------------------------
(* Machines.                                                               *)

\* What is assumed of a machine, as facts about its segments ...
LEMMA SegmentFacts ==
  ASSUME machine \in Plain
  PROVE  /\ Len(machine.segments) \in Nat /\ DOMAIN machine.segments = 1..Len(machine.segments)
         /\ \A i \in 1..Len(machine.segments) : machine.segments[i] \in Segs
         /\ \A s \in Segs : \E i \in 1..Len(machine.segments) : s = machine.segments[i]
         /\ \A s \in Segs : s.base \in Nat /\ s.start \in Nat /\ s.end \in Nat /\ s.end <= 255
         /\ \A s, t \in Segs : \A b : InSegment(s, b) /\ InSegment(t, b) => s = t
         /\ \A i, j \in 1..Len(machine.segments) : \A b :
              InSegment(machine.segments[i], b) /\ InSegment(machine.segments[j], b) => i = j
<1>1. MachineOK(machine) /\ BusesApart(machine)
  BY StorageAssumption, Zenon DEF Plain
<1>2. machine.segments \in Seq([base : Nat, start : 0..255, end : 0..255, mapped : BOOLEAN])
  BY <1>1, Zenon DEF MachineOK
<1> DEFINE T == [base : Nat, start : 0..255, end : 0..255, mapped : BOOLEAN]
           q == machine.segments
<1>3. q \in Seq(T)
  BY <1>2, Zenon
<1>4. \A s \in T : s.base \in Nat /\ s.start \in Nat /\ s.end \in Nat /\ s.end <= 255
  OBVIOUS
<1> HIDE DEF T, q
<1>5. Len(q) \in Nat /\ DOMAIN q = 1..Len(q) /\ \A i \in 1..Len(q) : q[i] \in T
  BY <1>3
<1>6. \A s \in Segs : s \in T /\ \E i \in 1..Len(q) : s = q[i]
  BY <1>5, Zenon DEF Segs, q
<1>7. ASSUME NEW i \in 1..Len(q), NEW j \in 1..Len(q), NEW b, InSegment(q[i], b), InSegment(q[j], b)
      PROVE  i = j
  <2>1. q[i] \in T /\ q[i].start \in Nat /\ q[i].end \in Nat /\ q[i].end <= 255
    BY <1>4, <1>5, Zenon
  <2>2. b \in q[i].start..q[i].end
    BY <1>7, Zenon DEF InSegment
  <2>3. b \in 0..255
    BY <2>1, <2>2
  <2> QED
    BY <1>1, <1>7, <2>3, Zenon DEF BusesApart, q
<1>8. \A s, t \in Segs : \A b : InSegment(s, b) /\ InSegment(t, b) => s = t
  BY <1>6, <1>7, Zenon
<1>9. QED
  BY <1>4, <1>5, <1>6, <1>7, <1>8, Zenon DEF q, Segs

\* ... and about the headers in its configuration space.
LEMMA HeaderFacts ==
  ASSUME machine \in Plain, NEW k \in DOMAIN machine.config
  PROVE  /\ k = <<k[1], k[2], k[3], k[4]>>
         /\ k[1] \in Nat /\ k[2] \in Nat /\ k[3] \in DeviceNumbers /\ k[4] \in FunctionNumbers
         /\ machine.config[k].secondary \in Nat /\ machine.config[k].subordinate \in Nat
         /\ <<k[1], k[2], k[3], 0>> \in DOMAIN machine.config
         /\ k[4] # 0 => machine.config[<<k[1], k[2], k[3], 0>>].multi
<1>1. MachineOK(machine) /\ BusesApart(machine)
  BY StorageAssumption, Zenon DEF Plain
<1>2. k \in Nat \X (0..255) \X DeviceNumbers \X FunctionNumbers
  BY <1>1, Zenon DEF MachineOK
<1>3. /\ k = <<k[1], k[2], k[3], k[4]>>
      /\ k[1] \in Nat /\ k[2] \in Nat /\ k[3] \in DeviceNumbers /\ k[4] \in FunctionNumbers
  BY <1>2
<1>4. machine.config[k].secondary \in 0..255 /\ machine.config[k].subordinate \in 0..255
  BY <1>1, Zenon DEF MachineOK
<1>5. \A n \in 0..255 : n \in Nat
  OBVIOUS
<1>6. QED
  BY <1>1, <1>3, <1>4, <1>5, Zenon DEF MachineOK

\* find_entry returns the only segment that has the bus.
LEMMA EntryFound ==
  ASSUME machine \in Plain, NEW s \in Segs, NEW b, InSegment(s, b)
  PROVE  FindEntry(machine, b) = {s}
<1> DEFINE First(i) == InSegment(machine.segments[i], b) /\ \A j \in 1..(i - 1) : ~InSegment(machine.segments[j], b)
<1>1. PICK i \in 1..Len(machine.segments) : s = machine.segments[i]
  BY SegmentFacts, Zenon
<1>2. \A j \in 1..Len(machine.segments) : InSegment(machine.segments[j], b) => j = i
  BY <1>1, SegmentFacts, Zenon
<1>3. \A j \in 1..(i - 1) : j \in 1..Len(machine.segments) /\ j # i
  BY SegmentFacts
<1>4. First(i)
  BY <1>1, <1>2, <1>3, Zenon
<1>5. {j \in DOMAIN machine.segments : First(j)} = {i}
  BY <1>2, <1>4, SegmentFacts, Zenon
<1>6. QED
  BY <1>1, <1>5, Zenon DEF FindEntry

\* PCIFunction::new returns at most one function, with the identifier asked for.
LEMMA OneFunction ==
  ASSUME machine \in Plain, NEW b, NEW d, NEW n
  PROVE  /\ \A f \in NewFunction(machine, b, d, n) : f.id = <<b, d, n>>
         /\ \A f, g \in NewFunction(machine, b, d, n) : f = g
<1>1. ASSUME NEW s \in FindEntry(machine, b), NEW t \in FindEntry(machine, b) PROVE s = t
  <2>1. PICK i \in DOMAIN machine.segments :
          s = machine.segments[i] /\ InSegment(s, b) /\ \A n1 \in 1..(i - 1) : ~InSegment(machine.segments[n1], b)
    BY Zenon DEF FindEntry
  <2>2. PICK j \in DOMAIN machine.segments :
          t = machine.segments[j] /\ InSegment(t, b) /\ \A n1 \in 1..(j - 1) : ~InSegment(machine.segments[n1], b)
    BY Zenon DEF FindEntry
  <2>3. i \in Nat \ {0} /\ j \in Nat \ {0}
    BY <2>1, <2>2, SegmentFacts
  <2>4. i \notin 1..(j - 1) /\ j \notin 1..(i - 1)
    BY <2>1, <2>2, Zenon
  <2>5. i = j
    BY <2>3, <2>4
  <2> QED
    BY <2>1, <2>2, <2>5, Zenon
<1>2. \A s : \A h, i \in Header(machine, s, b, d, n) : h = i
  BY Zenon DEF Header
<1> DEFINE H == UNION {Header(machine, s, b, d, n) : s \in FindEntry(machine, b)}
<1>3. ASSUME NEW h \in H, NEW i \in H PROVE h = i
  <2>1. PICK s \in FindEntry(machine, b) : h \in Header(machine, s, b, d, n)
    BY Zenon
  <2>2. PICK t \in FindEntry(machine, b) : i \in Header(machine, t, b, d, n)
    BY Zenon
  <2> QED
    BY <1>1, <1>2, <2>1, <2>2, Zenon
<1> HIDE DEF H
<1> DEFINE F(h) == [id |-> <<b, d, n>>, class |-> h.class, bars |-> ParseBars(h.regs)]
<1>4. \A h : F(h).id = <<b, d, n>>
  BY Zenon
<1>5. \A x \in NewFunction(machine, b, d, n) : \E h \in H : x = F(h)
  BY Zenon DEF NewFunction, H
<1> HIDE DEF F
<1>6. QED
  BY <1>3, <1>4, <1>5, Zenon

\* A function is known by its identifier.
LEMMA FunctionById ==
  ASSUME NEW f \in Fns, NEW g \in Fns, f.id = g.id, machine \in Plain
  PROVE  f = g
<1>1. PICK k \in DOMAIN machine.config : f \in NewFunction(machine, k[2], k[3], k[4])
  BY Zenon DEF Fns
<1>2. PICK l \in DOMAIN machine.config : g \in NewFunction(machine, l[2], l[3], l[4])
  BY Zenon DEF Fns
<1>3. f.id = <<k[2], k[3], k[4]>> /\ g.id = <<l[2], l[3], l[4]>>
  BY <1>1, <1>2, OneFunction, Zenon
<1>4. k[2] = l[2] /\ k[3] = l[3] /\ k[4] = l[4]
  <2>1. <<k[2], k[3], k[4]>> = <<l[2], l[3], l[4]>>
    BY <1>3, Zenon
  <2> QED
    BY <2>1
<1>5. g \in NewFunction(machine, k[2], k[3], k[4])
  BY <1>2, <1>4, Zenon
<1>6. QED
  BY <1>1, <1>5, OneFunction, Zenon

\* A function of Fns has a header.
LEMMA FunctionHeader ==
  ASSUME machine \in Plain, NEW f \in Fns
  PROVE  \E k \in DOMAIN machine.config : f.id = Id(k)
<1>1. PICK k \in DOMAIN machine.config : f \in NewFunction(machine, k[2], k[3], k[4])
  BY Zenon DEF Fns
<1>2. QED
  BY <1>1, OneFunction, Zenon DEF Id

\* What the membership in Reach says.
LEMMA ReachFacts ==
  ASSUME machine \in Plain, NEW k \in Reach
  PROVE  /\ k \in DOMAIN machine.config
         /\ \E s \in Segs : s.mapped /\ s.base = k[1] /\ InSegment(s, k[2])
<1>1. k \in DOMAIN machine.config
  BY Zenon DEF Reach
<1>2. PICK i \in DOMAIN machine.segments :
        machine.segments[i].mapped /\ machine.segments[i].base = k[1] /\ InSegment(machine.segments[i], k[2])
  BY Zenon DEF Reach
<1>3. machine.segments[i] \in Segs
  BY <1>2, SegmentFacts, Zenon
<1>4. QED
  BY <1>1, <1>2, <1>3, Zenon

\* The identifier, and the bus with the place on it, tell headers apart.
LEMMA ReachApart ==
  ASSUME machine \in Plain, NEW k \in Reach, NEW l \in Reach,
         Id(k) = Id(l) \/ (HeaderBus(k) = HeaderBus(l) /\ Place(k) = Place(l))
  PROVE  k = l
<1>1. k = <<k[1], k[2], k[3], k[4]>> /\ l = <<l[1], l[2], l[3], l[4]>>
  BY ReachFacts, HeaderFacts, Zenon
<1>2. k[2] = l[2] /\ k[3] = l[3] /\ k[4] = l[4]
  BY DEF Id, HeaderBus, Place
<1>3. k[1] = l[1]
  <2>1. PICK s \in Segs : s.base = k[1] /\ InSegment(s, k[2])
    BY ReachFacts, Zenon
  <2>2. PICK t \in Segs : t.base = l[1] /\ InSegment(t, l[2])
    BY ReachFacts, Zenon
  <2>3. s = t
    BY <1>2, <2>1, <2>2, SegmentFacts, Zenon
  <2> QED
    BY <2>1, <2>2, <2>3, Zenon
<1>4. QED
  BY <1>1, <1>2, <1>3, Zenon

\* Whoever has a bus under its own segment visits all the functions on it ...
LEMMA ReachVisited ==
  ASSUME machine \in Plain, NEW k \in Reach, NEW p \in Segs \X Nat, Own(Segs, p), StackBus(p) = HeaderBus(k)
  PROVE  Place(k) \in Visited(machine, p[1], p[2])
<1>1. p[1] \in Segs /\ p[2] \in Nat
  OBVIOUS
<1>2. p[1].base = k[1] /\ p[2] = k[2]
  BY DEF StackBus, HeaderBus
<1>3. PICK s \in Segs : s.mapped /\ s.base = k[1] /\ InSegment(s, k[2])
  BY ReachFacts, Zenon
<1>4. InSegment(p[1], p[2])
  BY <1>2, <1>3, Zenon DEF Own
<1>5. p[1] = s
  BY <1>1, <1>2, <1>3, <1>4, SegmentFacts, Zenon
<1>6. /\ k = <<k[1], k[2], k[3], k[4]>> /\ k \in DOMAIN machine.config
      /\ k[3] \in DeviceNumbers /\ k[4] \in FunctionNumbers
      /\ <<k[1], k[2], k[3], 0>> \in DOMAIN machine.config
      /\ k[4] # 0 => machine.config[<<k[1], k[2], k[3], 0>>].multi
  BY ReachFacts, HeaderFacts, Zenon
<1> DEFINE c == machine.config[<<k[1], k[2], k[3], 0>>]
<1>7. Header(machine, p[1], p[2], k[3], 0) = {c}
  BY <1>2, <1>3, <1>4, <1>5, <1>6, Zenon DEF Header
<1>8. Header(machine, p[1], p[2], k[3], k[4]) # {}
  BY <1>2, <1>3, <1>4, <1>5, <1>6, Zenon DEF Header
<1> HIDE DEF c
<1>9. Place(k) \in DeviceNumbers \X FunctionNumbers /\ Place(k)[1] = k[3] /\ Place(k)[2] = k[4]
  BY <1>6 DEF Place
<1>10. QED
  BY <1>6, <1>7, <1>8, <1>9, Zenon DEF Visited, c

\* ... and nothing else: what is visited has a header, and becomes a function.
LEMMA VisitedReach ==
  ASSUME machine \in Plain, NEW p \in Segs \X Nat, NEW v \in Visited(machine, p[1], p[2])
  PROVE  \E k \in Reach :
           /\ HeaderBus(k) = StackBus(p) /\ Place(k) = v
           /\ Header(machine, p[1], p[2], v[1], v[2]) = {machine.config[k]}
           /\ \E f \in Fns : f.id = Id(k) /\ NewFunction(machine, p[2], v[1], v[2]) = {f}
<1>1. p[1] \in Segs /\ p[2] \in Nat
  OBVIOUS
<1>2. /\ v \in DeviceNumbers \X FunctionNumbers
      /\ Header(machine, p[1], p[2], v[1], v[2]) # {}
  BY Zenon DEF Visited
<1>3. v = <<v[1], v[2]>>
  BY <1>2
<1> DEFINE k == <<p[1].base, p[2], v[1], v[2]>>
<1>4. /\ InSegment(p[1], p[2]) /\ p[1].mapped /\ k \in DOMAIN machine.config
      /\ Header(machine, p[1], p[2], v[1], v[2]) = {machine.config[k]}
  BY <1>2, Zenon DEF Header
<1>5. k[1] = p[1].base /\ k[2] = p[2] /\ k[3] = v[1] /\ k[4] = v[2]
  OBVIOUS
<1>6. HeaderBus(k) = StackBus(p) /\ Place(k) = v
  BY <1>3, <1>5, Zenon DEF HeaderBus, StackBus, Place
<1> HIDE DEF k
<1>7. k \in Reach
  <2>1. PICK i \in DOMAIN machine.segments : machine.segments[i] = p[1]
    BY <1>1, SegmentFacts, Zenon
  <2>2. InSegment(machine.segments[i], k[2]) /\ machine.segments[i].mapped /\ machine.segments[i].base = k[1]
    BY <1>4, <1>5, <2>1, Zenon
  <2> QED
    BY <1>4, <2>2, Zenon DEF Reach
<1>8. FindEntry(machine, p[2]) = {p[1]}
  BY <1>1, <1>4, EntryFound, Zenon
<1> DEFINE h == machine.config[k]
           f == [id |-> <<p[2], v[1], v[2]>>, class |-> h.class, bars |-> ParseBars(h.regs)]
<1> HIDE DEF h
<1>9. UNION {Header(machine, s, p[2], v[1], v[2]) : s \in {p[1]}} = {h}
  BY <1>4, Zenon DEF h
<1>10. NewFunction(machine, p[2], v[1], v[2]) = {f}
  BY <1>8, <1>9, Zenon DEF NewFunction
<1>11. f.id = <<p[2], v[1], v[2]>>
  OBVIOUS
<1> HIDE DEF f
<1>12. f.id = Id(k)
  BY <1>5, <1>11, Zenon DEF Id
<1>13. f \in Fns
  BY <1>4, <1>5, <1>10, Zenon DEF Fns
<1>14. QED
  BY <1>4, <1>6, <1>7, <1>10, <1>12, <1>13, Zenon

\* There is a function for every header that can be reached.
LEMMA PresentFunction ==
  ASSUME machine \in Plain, NEW k \in Present
  PROVE  \E f \in PresentFns : f.id = k
<1>1. Present = {Id(l) : l \in Reach}
  BY Zenon DEF Present, Reach
<1>2. PICK l \in Reach : k = Id(l)
  BY <1>1, Zenon
<1>3. PICK s \in Segs : s.mapped /\ s.base = l[1] /\ InSegment(s, l[2])
  BY ReachFacts, Zenon
<1> DEFINE p == <<s, l[2]>>
<1>4. l[2] \in Nat
  BY ReachFacts, HeaderFacts, Zenon
<1>5. p \in Segs \X Nat /\ p[1] = s /\ p[2] = l[2]
  BY <1>4
<1> HIDE DEF p
<1>6. Own(Segs, p) /\ StackBus(p) = HeaderBus(l)
  BY <1>3, <1>5, Zenon DEF Own, StackBus, HeaderBus
<1>7. Place(l) \in Visited(machine, p[1], p[2])
  BY <1>5, <1>6, ReachVisited, Zenon
<1>8. PICK m \in Reach : /\ HeaderBus(m) = StackBus(p) /\ Place(m) = Place(l)
                         /\ \E f \in Fns : f.id = Id(m)
  BY <1>5, <1>7, VisitedReach, Zenon
<1>9. m = l
  BY <1>6, <1>8, ReachApart, Zenon
<1>10. QED
  BY <1>2, <1>8, <1>9, Zenon DEF PresentFns

\* All of this stays while the machine stays.
LEMMA SameMachine ==
  ASSUME machine' = machine
  PROVE  /\ Segs' = Segs /\ Reach' = Reach /\ Fns' = Fns
         /\ Drv' = Drv /\ KeptDrives' = KeptDrives /\ HwPorts' = HwPorts
         /\ PresentFns' = PresentFns /\ (InvalidEntry' <=> InvalidEntry)
<1>1. Segs' = Segs /\ Reach' = Reach /\ Fns' = Fns
  BY Zenon DEF Segs, Reach, Fns
<1>2. Drv' = Drv
  BY <1>1, Zenon DEF Drv
<1>3. KeptDrives' = KeptDrives /\ HwPorts' = HwPorts
  BY <1>2, Zenon DEF KeptDrives, HwPorts
<1>4. PresentFns' = PresentFns
  BY <1>1, Zenon DEF PresentFns, Present
<1>5. InvalidEntry' <=> InvalidEntry
  BY Zenon DEF InvalidEntry
<1>6. QED
  BY <1>1, <1>2, <1>3, <1>4, <1>5, Zenon

-----------------------------------------------------------------------------
(* The scan.                                                               *)

LEMMA WaitsMore ==
  ASSUME NEW S, NEW q \in Seq(S), NEW x \in S
  PROVE  \A b : Waits(Append(q, x), b) <=> Waits(q, b) \/ StackBus(x) = b
<1> DEFINE r == Append(q, x)
<1>1. /\ Len(q) \in Nat /\ DOMAIN q = 1..Len(q) /\ DOMAIN r = 1..(Len(q) + 1)
      /\ \A i \in 1..Len(q) : r[i] = q[i]
      /\ r[Len(q) + 1] = x
  OBVIOUS
<1>2. /\ \A i \in 1..(Len(q) + 1) : i \in 1..Len(q) \/ i = Len(q) + 1
      /\ \A i \in 1..Len(q) : i \in 1..(Len(q) + 1)
      /\ Len(q) + 1 \in 1..(Len(q) + 1)
  BY <1>1
<1> HIDE DEF r
<1>3. \A b : Waits(r, b) <=> Waits(q, b) \/ StackBus(x) = b
  BY <1>1, <1>2, Zenon DEF Waits
<1>4. QED
  BY <1>3, Zenon DEF r

Top(q) == q[Len(q)]
Rest(q) == SubSeq(q, 1, Len(q) - 1)

\* The top of a stack in which every bus is once, and the rest.
LEMMA StackTop ==
  ASSUME NEW S, NEW q \in Seq(S), q # <<>>,
         \A i, j \in DOMAIN q : StackBus(q[i]) = StackBus(q[j]) => i = j
  PROVE  /\ Rest(q) \in Seq(S) /\ Top(q) \in S
         /\ \E n \in DOMAIN q : Top(q) = q[n]
         /\ \A i \in DOMAIN Rest(q) : i \in DOMAIN q /\ Rest(q)[i] = q[i]
         /\ ~Waits(Rest(q), StackBus(Top(q)))
         /\ \A b : Waits(q, b) => Waits(Rest(q), b) \/ b = StackBus(Top(q))
<1> DEFINE n == Len(q)
           r == SubSeq(q, 1, n - 1)
<1>1. /\ n \in Nat /\ n \in 1..n /\ DOMAIN q = 1..n /\ r \in Seq(S) /\ DOMAIN r = 1..(n - 1)
      /\ \A i \in 1..(n - 1) : r[i] = q[i]
      /\ q[n] \in S
  OBVIOUS
<1>2. Rest(q) = r /\ Top(q) = q[n]
  BY Zenon DEF Rest, Top
<1> HIDE DEF n, r
<1>3. \A i \in 1..n : i = n \/ i \in 1..(n - 1)
  BY <1>1
<1>4. \A i \in 1..(n - 1) : i \in 1..n /\ i # n
  BY <1>1
<1>5. ~Waits(r, StackBus(q[n]))
  BY <1>1, <1>4, Zenon DEF Waits
<1>6. \A b : Waits(q, b) => Waits(r, b) \/ b = StackBus(q[n])
  BY <1>1, <1>3, Zenon DEF Waits
<1>7. QED
  BY <1>1, <1>2, <1>4, <1>5, <1>6, Zenon

\* A bus that is pushed for the first time is under its own segment.
LEMMA PushedOwn ==
  ASSUME machine \in Plain, RangeInv, Pushing, <<range.segment.base, range.next>> \notin scanned
  PROVE  Own(Segs, <<range.segment, range.next>>)
<1> DEFINE s == range.segment
           b == range.next
<1>1. s \in Segs /\ b \in Nat /\ range.last \in Nat /\ b <= range.last
  <2>1. range \in [segment : Segs \union {<<>>}, next : Nat, last : Nat]
    BY Zenon DEF RangeInv
  <2> QED
    BY <2>1, Zenon DEF RangeInv, Pushing
<1> HIDE DEF s, b
<1>2. CASE Seeding
  <2>1. s.start <= b /\ range.last = s.end
    BY <1>2, Zenon DEF Seeding, s, b
  <2>2. s.start \in Nat /\ s.end \in Nat
    BY <1>1, SegmentFacts, Zenon
  <2>3. b \in s.start..s.end
    BY <1>1, <2>1, <2>2
  <2>4. InSegment(s, b) /\ <<s, b>>[1] = s /\ <<s, b>>[2] = b
    BY <2>3 DEF InSegment
  <2> QED
    BY <2>4, Zenon DEF Own, s, b
<1>3. CASE ~Seeding
  <2>1. Marked(machine.segments, scanned, Len(machine.segments))
    BY <1>3, Zenon DEF RangeInv
  <2>2. ASSUME NEW t \in Segs, t.base = s.base, InSegment(t, b) PROVE FALSE
    <3>1. PICK i \in 1..Len(machine.segments) : t = machine.segments[i]
      BY SegmentFacts, Zenon
    <3>2. <<t.base, b>> \in scanned
      BY <1>1, <2>1, <2>2, <3>1, Zenon DEF Marked
    <3> QED
      BY <2>2, <3>2, Zenon DEF s, b
  <2>3. <<s, b>>[1] = s /\ <<s, b>>[2] = b
    OBVIOUS
  <2> QED
    BY <2>2, <2>3, Zenon DEF Own, s, b
<1>4. QED
  BY <1>2, <1>3, Zenon

\* More buses are marked.
LEMMA MarkedMore ==
  ASSUME NEW segments, NEW M, NEW N, NEW n, M \subseteq N, Marked(segments, M, n)
  PROVE  Marked(segments, N, n)
BY Zenon DEF Marked

LEMMA PushStep ==
  ASSUME ScanInv, PushBus
  PROVE  ScanInv'
<1> DEFINE key == <<range.segment.base, range.next>>
           p   == <<range.segment, range.next>>
           s   == range.segment
           new == key \notin scanned
<1>1. /\ Pushing /\ range' = [range EXCEPT !.next = @ + 1]
      /\ UNCHANGED <<machine, seeded, here, left, functions>>
      /\ scanned' = scanned \union {key}
      /\ IF new THEN toScan' = Append(toScan, p) ELSE toScan' = toScan
  <2>1. /\ Pushing /\ range' = [range EXCEPT !.next = @ + 1]
        /\ UNCHANGED <<machine, seeded, here, left, functions>>
        /\ IF key \in scanned THEN UNCHANGED <<scanned, toScan>>
           ELSE scanned' = scanned \union {key} /\ toScan' = Append(toScan, p)
    BY Zenon DEF PushBus
  <2> QED
    BY <2>1, Zenon
<1>2. machine \in Plain /\ RangeInv /\ StackInv /\ HereInv /\ FoundInv
  BY Zenon DEF ScanInv
<1>3. /\ range \in [segment : Segs \union {<<>>}, next : Nat, last : Nat]
      /\ s \in Segs /\ seeded \in 0..Len(machine.segments)
  BY <1>1, <1>2, Zenon DEF RangeInv
<1>4. /\ range' \in [segment : Segs \union {<<>>}, next : Nat, last : Nat]
      /\ range'.segment = s /\ range'.next = range.next + 1 /\ range'.last = range.last
      /\ range.next \in Nat /\ range.last \in Nat
  BY <1>1, <1>3
<1>5. Segs' = Segs /\ Reach' = Reach /\ Fns' = Fns
  BY <1>1, SameMachine, Zenon
<1>6. p \in Segs \X Nat /\ StackBus(p) = key
  BY <1>3, <1>4 DEF StackBus
<1>7. new => Own(Segs, p)
  BY <1>1, <1>2, PushedOwn, Zenon
<1>8. RangeInv'
  <2>1. CASE Seeding
    <3>1. /\ seeded > 0 /\ left = {} /\ Marked(machine.segments, scanned, seeded - 1)
          /\ s = machine.segments[seeded] /\ s.start <= range.next /\ range.last = s.end
          /\ \A b \in Nat : s.start <= b /\ b < range.next => <<s.base, b>> \in scanned
      BY <2>1, Zenon DEF Seeding
    <3>2. s.start \in Nat
      BY <1>2, <1>3, SegmentFacts, Zenon
    <3>3. s.start <= range.next + 1 /\ \A b \in Nat : b < range.next + 1 => b < range.next \/ b = range.next
      BY <1>4, <3>1, <3>2
    <3>4. ASSUME NEW b \in Nat, s.start <= b, b < range.next + 1 PROVE <<s.base, b>> \in scanned'
      BY <1>1, <3>1, <3>3, <3>4, Zenon
    <3>5. Marked(machine.segments, scanned', seeded - 1)
      BY <1>1, <3>1, MarkedMore, Zenon
    <3>6. Seeding'
      BY <1>1, <1>4, <3>1, <3>3, <3>4, <3>5, Zenon DEF Seeding
    <3> QED
      BY <1>1, <1>3, <1>4, <1>5, <3>6, Zenon DEF RangeInv
  <2>2. CASE ~Seeding
    <3>1. Marked(machine.segments, scanned, seeded) /\ seeded = Len(machine.segments)
      BY <1>1, <1>2, <2>2, Zenon DEF RangeInv
    <3>2. Marked(machine.segments, scanned', seeded)
      BY <1>1, <3>1, MarkedMore, Zenon
    <3> QED
      BY <1>1, <1>3, <1>4, <1>5, <3>1, <3>2, Zenon DEF RangeInv
  <2> QED
    BY <2>1, <2>2, Zenon
<1> HIDE DEF p, key, s
<1>9. \A b : Waits(toScan', b) <=> Waits(toScan, b) \/ (new /\ b = key)
  <2>1. toScan \in Seq(Segs \X Nat)
    BY <1>2, Zenon DEF StackInv
  <2>2. \A b : Waits(Append(toScan, p), b) <=> Waits(toScan, b) \/ StackBus(p) = b
    BY <1>6, <2>1, WaitsMore, Zenon
  <2> QED
    BY <1>1, <1>6, <2>2, Zenon
<1>10. StackInv'
  <2>1. CASE ~new
    BY <1>1, <1>2, <1>5, <2>1, Zenon DEF StackInv
  <2>2. CASE new
    <3>1. /\ toScan \in Seq(Segs \X Nat)
          /\ \A i \in DOMAIN toScan : StackBus(toScan[i]) \in scanned /\ Own(Segs, toScan[i])
          /\ \A i, j \in DOMAIN toScan : StackBus(toScan[i]) = StackBus(toScan[j]) => i = j
      BY <1>2, Zenon DEF StackInv
    <3>2. /\ toScan' \in Seq(Segs \X Nat)
          /\ \A i \in DOMAIN toScan' : i \in DOMAIN toScan \/ i = Len(toScan) + 1
          /\ \A i \in DOMAIN toScan : toScan'[i] = toScan[i]
          /\ toScan'[Len(toScan) + 1] = p
      <4>1. toScan' = Append(toScan, p)
        BY <1>1, <2>2, Zenon
      <4> QED
        BY <1>6, <3>1, <4>1
    <3>3. \A i \in DOMAIN toScan : StackBus(toScan[i]) # StackBus(p)
      BY <1>6, <2>2, <3>1, Zenon
    <3>4. \A i \in DOMAIN toScan' : StackBus(toScan'[i]) \in scanned' /\ Own(Segs, toScan'[i])
      BY <1>1, <1>6, <1>7, <2>2, <3>1, <3>2, Zenon
    <3>5. \A i, j \in DOMAIN toScan' : StackBus(toScan'[i]) = StackBus(toScan'[j]) => i = j
      BY <3>1, <3>2, <3>3, Zenon
    <3> QED
      BY <1>5, <3>2, <3>4, <3>5, Zenon DEF StackInv
  <2> QED
    BY <2>1, <2>2, Zenon
<1>11. HereInv'
  <2>1. HereInv
    BY <1>2, Zenon
  <2> QED
    BY <1>1, <1>5, <1>9, <2>1, Zenon DEF HereInv
<1>12. FoundInv'
  <2>1. /\ functions \in Seq(Fns) /\ IsInjective(functions)
        /\ \A i \in DOMAIN functions : \E k \in Reach :
             /\ functions[i].id = Id(k) /\ HeaderBus(k) \in scanned
             /\ ~Waits(toScan, HeaderBus(k)) /\ ~AtHand(here, left, k)
        /\ \A k \in Reach : HeaderBus(k) \in scanned =>
             Found(functions, k) \/ Waits(toScan, HeaderBus(k)) \/ AtHand(here, left, k)
    BY <1>2, Zenon DEF FoundInv
  <2>2. ASSUME NEW i \in DOMAIN functions
        PROVE  \E k \in Reach : /\ functions[i].id = Id(k) /\ HeaderBus(k) \in scanned'
                                /\ ~Waits(toScan', HeaderBus(k)) /\ ~AtHand(here, left, k)
    <3>1. PICK k \in Reach : /\ functions[i].id = Id(k) /\ HeaderBus(k) \in scanned
                             /\ ~Waits(toScan, HeaderBus(k)) /\ ~AtHand(here, left, k)
      BY <2>1, Zenon
    <3>2. HeaderBus(k) \in scanned' /\ ~Waits(toScan', HeaderBus(k))
      BY <1>1, <1>9, <3>1, Zenon
    <3> QED
      BY <3>1, <3>2, Zenon
  <2>3. ASSUME NEW k \in Reach, HeaderBus(k) \in scanned'
        PROVE  Found(functions, k) \/ Waits(toScan', HeaderBus(k)) \/ AtHand(here, left, k)
    BY <1>1, <1>9, <2>1, <2>3, Zenon
  <2> QED
    BY <1>1, <1>5, <2>1, <2>2, <2>3, Zenon DEF FoundInv
<1>13. QED
  BY <1>1, <1>2, <1>8, <1>10, <1>11, <1>12, Zenon DEF ScanInv

\* When no range is being pushed, the buses of the segments so far are marked.
LEMMA AllMarked ==
  ASSUME machine \in Plain, RangeInv, ~Pushing
  PROVE  Marked(machine.segments, scanned, seeded)
<1>1. CASE Seeding
  <2>1. /\ seeded > 0 /\ Marked(machine.segments, scanned, seeded - 1)
        /\ range.segment = machine.segments[seeded] /\ range.last = range.segment.end
        /\ \A b \in Nat : range.segment.start <= b /\ b < range.next => <<range.segment.base, b>> \in scanned
    BY <1>1, Zenon DEF Seeding
  <2>2. /\ seeded \in 0..Len(machine.segments) /\ Len(machine.segments) \in Nat
        /\ range \in [segment : Segs \union {<<>>}, next : Nat, last : Nat]
    BY SegmentFacts, Zenon DEF RangeInv
  <2>3. seeded \in 1..Len(machine.segments)
    BY <2>1, <2>2
  <2>4. range.segment \in Segs
    BY <2>1, <2>3, SegmentFacts, Zenon
  <2>5. range.next \in Nat /\ range.last \in Nat
    BY <2>2, Zenon
  <2>6. range.segment.start \in Nat /\ range.segment.end \in Nat
    BY <2>4, SegmentFacts, Zenon
  <2>7. ASSUME NEW i \in 1..seeded, NEW b \in Nat, InSegment(machine.segments[i], b)
        PROVE  <<machine.segments[i].base, b>> \in scanned
    <3>1. CASE i = seeded
      <4>1. b \in range.segment.start..range.segment.end
        BY <2>1, <2>7, <3>1, Zenon DEF InSegment
      <4>2. ~(range.next <= range.last)
        BY Zenon DEF Pushing
      <4>3. range.segment.start <= b /\ b < range.next
        BY <2>1, <2>5, <2>6, <4>1, <4>2
      <4> QED
        BY <2>1, <3>1, <4>3, Zenon
    <3>2. CASE i # seeded
      <4>1. i \in 1..(seeded - 1)
        BY <2>2, <3>2
      <4> QED
        BY <2>1, <2>7, <4>1, Zenon DEF Marked
    <3> QED
      BY <3>1, <3>2, Zenon
  <2> QED
    BY <2>7, Zenon DEF Marked
<1>2. CASE ~Seeding
  BY <1>2, Zenon DEF RangeInv
<1>3. QED
  BY <1>1, <1>2, Zenon

LEMMA SeedStep ==
  ASSUME ScanInv, SeedSegment
  PROVE  ScanInv'
<1> DEFINE s == machine.segments[seeded + 1]
<1>1. /\ ~Pushing /\ seeded < Len(machine.segments) /\ seeded' = seeded + 1
      /\ range' = [segment |-> s, next |-> s.start, last |-> s.end]
      /\ UNCHANGED <<machine, toScan, scanned, here, left, functions>>
  BY Zenon DEF SeedSegment, BusRange
<1>2. machine \in Plain /\ RangeInv /\ StackInv /\ HereInv /\ FoundInv
  BY Zenon DEF ScanInv
<1>3. Segs' = Segs /\ Reach' = Reach /\ Fns' = Fns
  BY <1>1, SameMachine, Zenon
<1>4. /\ seeded \in 0..Len(machine.segments) /\ Len(machine.segments) \in Nat
      /\ range \in [segment : Segs \union {<<>>}, next : Nat, last : Nat]
  BY <1>2, SegmentFacts, Zenon DEF RangeInv
<1>5. /\ seeded + 1 \in 1..Len(machine.segments) /\ seeded + 1 \in 0..Len(machine.segments)
      /\ seeded + 1 > 0 /\ (seeded + 1) - 1 = seeded /\ seeded # Len(machine.segments)
  BY <1>1, <1>4
<1>6. left = {}
  BY <1>2, <1>5, Zenon DEF HereInv
<1>7. Marked(machine.segments, scanned, seeded)
  BY <1>1, <1>2, AllMarked, Zenon
<1>8. s \in Segs /\ s.start \in Nat /\ s.end \in Nat
  BY <1>2, <1>5, SegmentFacts, Zenon
<1> DEFINE t == machine.segments[seeded']
<1>9. t = s
  BY <1>1, Zenon
<1> HIDE DEF s, t
<1>10. /\ range' \in [segment : Segs \union {<<>>}, next : Nat, last : Nat]
       /\ range'.segment = s /\ range'.next = s.start /\ range'.last = s.end
  BY <1>1, <1>8
<1>11. s.start <= s.start /\ \A b \in Nat : ~(s.start <= b /\ b < s.start)
  BY <1>8
<1>12. Seeding'
  <2>1. Marked(machine.segments, scanned, seeded' - 1) /\ seeded' > 0
    BY <1>1, <1>5, <1>7, Zenon
  <2>2. range'.segment = machine.segments[seeded']
    BY <1>9, <1>10, Zenon DEF t
  <2> QED
    BY <1>1, <1>6, <1>10, <1>11, <2>1, <2>2, Zenon DEF Seeding
<1>13. RangeInv'
  BY <1>1, <1>3, <1>5, <1>8, <1>10, <1>12, Zenon DEF RangeInv
<1>14. StackInv'
  BY <1>1, <1>2, <1>3, Zenon DEF StackInv
<1>15. HereInv'
  BY <1>1, <1>6, Zenon DEF HereInv
<1>16. FoundInv'
  BY <1>1, <1>2, <1>3, Zenon DEF FoundInv
<1>17. QED
  BY <1>1, <1>2, <1>13, <1>14, <1>15, <1>16, Zenon DEF ScanInv

LEMMA PopStep ==
  ASSUME ScanInv, ScanBus
  PROVE  ScanInv'
<1> DEFINE p == Top(toScan)
<1>1. /\ ~Pushing /\ seeded = Len(machine.segments) /\ left = {} /\ toScan # <<>>
      /\ here' = p /\ toScan' = Rest(toScan) /\ left' = Visited(machine, p[1], p[2])
      /\ UNCHANGED <<machine, range, seeded, scanned, functions>>
  BY Zenon DEF ScanBus, Top, Rest
<1>2. machine \in Plain /\ RangeInv /\ StackInv /\ FoundInv
  BY Zenon DEF ScanInv
<1>3. Segs' = Segs /\ Reach' = Reach /\ Fns' = Fns
  BY <1>1, SameMachine, Zenon
<1>4. /\ toScan \in Seq(Segs \X Nat)
      /\ \A i \in DOMAIN toScan : StackBus(toScan[i]) \in scanned /\ Own(Segs, toScan[i])
      /\ \A i, j \in DOMAIN toScan : StackBus(toScan[i]) = StackBus(toScan[j]) => i = j
  BY <1>2, Zenon DEF StackInv
<1>5. /\ toScan' \in Seq(Segs \X Nat) /\ p \in Segs \X Nat
      /\ \E n \in DOMAIN toScan : p = toScan[n]
      /\ \A i \in DOMAIN toScan' : i \in DOMAIN toScan /\ toScan'[i] = toScan[i]
      /\ ~Waits(toScan', StackBus(p))
      /\ \A b : Waits(toScan, b) => Waits(toScan', b) \/ b = StackBus(p)
  BY <1>1, <1>4, StackTop, Zenon
<1> HIDE DEF p
<1>6. StackBus(p) \in scanned /\ Own(Segs, p) /\ Waits(toScan, StackBus(p))
  BY <1>4, <1>5, Zenon DEF Waits
<1>7. \A b : Waits(toScan', b) => Waits(toScan, b)
  BY <1>5, Zenon DEF Waits
<1>8. RangeInv'
  <2>1. Marked(machine.segments, scanned, seeded)
    BY <1>1, <1>2, AllMarked, Zenon
  <2>2. ~Pushing'
    BY <1>1, Zenon DEF Pushing
  <2> QED
    BY <1>1, <1>2, <1>3, <2>1, <2>2, Zenon DEF RangeInv
<1>9. StackInv'
  BY <1>1, <1>3, <1>4, <1>5, Zenon DEF StackInv
<1>10. HereInv'
  BY <1>1, <1>3, <1>5, <1>6, Zenon DEF HereInv
<1>11. FoundInv'
  <2>1. /\ functions \in Seq(Fns) /\ IsInjective(functions)
        /\ \A i \in DOMAIN functions : \E k \in Reach :
             /\ functions[i].id = Id(k) /\ HeaderBus(k) \in scanned
             /\ ~Waits(toScan, HeaderBus(k)) /\ ~AtHand(here, left, k)
        /\ \A k \in Reach : HeaderBus(k) \in scanned =>
             Found(functions, k) \/ Waits(toScan, HeaderBus(k)) \/ AtHand(here, left, k)
    BY <1>2, Zenon DEF FoundInv
  <2>2. ASSUME NEW i \in DOMAIN functions
        PROVE  \E k \in Reach : /\ functions[i].id = Id(k) /\ HeaderBus(k) \in scanned
                                /\ ~Waits(toScan', HeaderBus(k)) /\ ~AtHand(p, left', k)
    <3>1. PICK k \in Reach : /\ functions[i].id = Id(k) /\ HeaderBus(k) \in scanned
                             /\ ~Waits(toScan, HeaderBus(k))
      BY <2>1, Zenon
    <3>2. ~Waits(toScan', HeaderBus(k))
      BY <1>7, <3>1, Zenon
    <3>3. ~AtHand(p, left', k)
      BY <1>6, <3>1, Zenon DEF AtHand
    <3> QED
      BY <3>1, <3>2, <3>3, Zenon
  <2>3. ASSUME NEW k \in Reach, HeaderBus(k) \in scanned
        PROVE  Found(functions, k) \/ Waits(toScan', HeaderBus(k)) \/ AtHand(p, left', k)
    <3>1. CASE HeaderBus(k) = StackBus(p)
      <4>1. Place(k) \in Visited(machine, p[1], p[2])
        BY <1>2, <1>5, <1>6, <3>1, ReachVisited, Zenon
      <4> QED
        BY <1>1, <3>1, <4>1, Zenon DEF AtHand
    <3>2. CASE HeaderBus(k) # StackBus(p)
      <4>1. ~AtHand(here, left, k)
        BY <1>1, Zenon DEF AtHand
      <4> QED
        BY <1>5, <2>1, <2>3, <3>2, <4>1, Zenon
    <3> QED
      BY <3>1, <3>2, Zenon
  <2> QED
    BY <1>1, <1>3, <2>1, <2>2, <2>3, Zenon DEF FoundInv
<1>12. QED
  BY <1>1, <1>2, <1>8, <1>9, <1>10, <1>11, Zenon DEF ScanInv

LEMMA VisitStep ==
  ASSUME ScanInv, VisitFunction
  PROVE  ScanInv'
<1>1. PICK v \in left :
        LET new == NewFunction(machine, here[2], v[1], v[2])
            h   == Header(machine, here[1], here[2], v[1], v[2])
        IN  /\ ~Pushing /\ left' = left \ {v}
            /\ IF new = {} THEN UNCHANGED <<functions, range>>
               ELSE /\ \E f \in new : functions' = Append(functions, f)
                    /\ IF \E b \in h : b.bridge
                       THEN \E b \in h : range' = BusRange(here[1], b.secondary, b.subordinate)
                       ELSE UNCHANGED range
            /\ UNCHANGED <<machine, seeded, toScan, scanned, here>>
  BY Zenon DEF VisitFunction
<1>2. machine \in Plain /\ RangeInv /\ StackInv /\ HereInv /\ FoundInv
  BY Zenon DEF ScanInv
<1>3. /\ here \in Segs \X Nat /\ left \subseteq Visited(machine, here[1], here[2])
      /\ StackBus(here) \in scanned /\ ~Waits(toScan, StackBus(here))
      /\ seeded = Len(machine.segments)
  BY <1>1, <1>2, Zenon DEF HereInv
<1>4. PICK k \in Reach :
        /\ HeaderBus(k) = StackBus(here) /\ Place(k) = v
        /\ Header(machine, here[1], here[2], v[1], v[2]) = {machine.config[k]}
        /\ \E f \in Fns : f.id = Id(k) /\ NewFunction(machine, here[2], v[1], v[2]) = {f}
  BY <1>1, <1>2, <1>3, VisitedReach, Zenon
<1>5. PICK f \in Fns : f.id = Id(k) /\ NewFunction(machine, here[2], v[1], v[2]) = {f}
  BY <1>4, Zenon
<1> DEFINE c == machine.config[k]
<1>6. /\ ~Pushing /\ left' = left \ {v} /\ functions' = Append(functions, f)
      /\ range' = BusRange(here[1], c.secondary, c.subordinate) \/ range' = range
      /\ UNCHANGED <<machine, seeded, toScan, scanned, here>>
  BY <1>1, <1>4, <1>5, Zenon
<1>7. Segs' = Segs /\ Reach' = Reach /\ Fns' = Fns
  BY <1>6, SameMachine, Zenon
<1>8. c.secondary \in Nat /\ c.subordinate \in Nat
  BY <1>2, <1>4, ReachFacts, HeaderFacts, Zenon
<1>9. here[1] \in Segs
  BY <1>3
<1> HIDE DEF c
<1>10. RangeInv'
  <2>1. Marked(machine.segments, scanned, seeded)
    BY <1>2, <1>6, AllMarked, Zenon
  <2>2. range' \in [segment : Segs \union {<<>>}, next : Nat, last : Nat]
    <3>1. range \in [segment : Segs \union {<<>>}, next : Nat, last : Nat]
      BY <1>2, Zenon DEF RangeInv
    <3>2. BusRange(here[1], c.secondary, c.subordinate) \in [segment : Segs \union {<<>>}, next : Nat, last : Nat]
      BY <1>8, <1>9 DEF BusRange
    <3> QED
      BY <1>6, <3>1, <3>2, Zenon
  <2>3. Pushing' => range'.segment \in Segs
    <3>1. CASE range' = range
      BY <1>6, <3>1, Zenon DEF Pushing
    <3>2. CASE range' = BusRange(here[1], c.secondary, c.subordinate)
      <4>1. range'.segment = here[1]
        BY <3>2 DEF BusRange
      <4> QED
        BY <1>9, <4>1, Zenon
    <3> QED
      BY <1>6, <3>1, <3>2, Zenon
  <2> QED
    BY <1>2, <1>3, <1>6, <1>7, <2>1, <2>2, <2>3, Zenon DEF RangeInv
<1>11. StackInv'
  BY <1>2, <1>6, <1>7, Zenon DEF StackInv
<1>12. HereInv'
  BY <1>3, <1>6, <1>7, Zenon DEF HereInv
<1>13. FoundInv'
  <2>1. /\ functions \in Seq(Fns) /\ IsInjective(functions)
        /\ \A i \in DOMAIN functions : \E l \in Reach :
             /\ functions[i].id = Id(l) /\ HeaderBus(l) \in scanned
             /\ ~Waits(toScan, HeaderBus(l)) /\ ~AtHand(here, left, l)
        /\ \A l \in Reach : HeaderBus(l) \in scanned =>
             Found(functions, l) \/ Waits(toScan, HeaderBus(l)) \/ AtHand(here, left, l)
    BY <1>2, Zenon DEF FoundInv
  <2>2. AtHand(here, left, k)
    BY <1>1, <1>4, Zenon DEF AtHand
  <2>3. f \notin Range(functions)
    <3>1. ASSUME NEW i \in DOMAIN functions, functions[i] = f PROVE FALSE
      <4>1. PICK l \in Reach : functions[i].id = Id(l) /\ ~AtHand(here, left, l)
        BY <2>1, Zenon
      <4>2. Id(l) = Id(k)
        BY <1>5, <3>1, <4>1, Zenon
      <4>3. k = l
        BY <1>2, <4>2, ReachApart, Zenon
      <4> QED
        BY <2>2, <4>1, <4>3, Zenon
    <3> QED
      BY <3>1, Zenon DEF Range
  <2>4. functions' \in Seq(Fns) /\ IsInjective(functions')
    BY <1>6, <2>1, <2>3, AppendOne, Zenon
  <2>5. /\ \A i \in DOMAIN functions' : i \in DOMAIN functions \/ functions'[i] = f
        /\ \A i \in DOMAIN functions : i \in DOMAIN functions' /\ functions'[i] = functions[i]
        /\ Len(functions) + 1 \in DOMAIN functions' /\ functions'[Len(functions) + 1] = f
    BY <1>6, <2>1
  <2>6. /\ \A l \in Reach : AtHand(here, left', l) => AtHand(here, left, l)
        /\ \A l \in Reach : AtHand(here, left, l) => AtHand(here, left', l) \/ l = k
        /\ ~AtHand(here, left', k)
    <3>1. ASSUME NEW l \in Reach, AtHand(here, left, l) PROVE AtHand(here, left', l) \/ l = k
      <4>1. HeaderBus(l) = HeaderBus(k)
        BY <1>4, <3>1, Zenon DEF AtHand
      <4>2. CASE Place(l) = v
        BY <1>2, <1>4, <4>1, <4>2, ReachApart, Zenon
      <4>3. CASE Place(l) # v
        BY <1>6, <3>1, <4>3, Zenon DEF AtHand
      <4> QED
        BY <4>2, <4>3, Zenon
    <3> QED
      BY <1>4, <1>6, <3>1, Zenon DEF AtHand
  <2>7. ASSUME NEW i \in DOMAIN functions'
        PROVE  \E l \in Reach : /\ functions'[i].id = Id(l) /\ HeaderBus(l) \in scanned
                                /\ ~Waits(toScan, HeaderBus(l)) /\ ~AtHand(here, left', l)
    <3>1. CASE i \in DOMAIN functions
      <4>1. PICK l \in Reach : /\ functions[i].id = Id(l) /\ HeaderBus(l) \in scanned
                               /\ ~Waits(toScan, HeaderBus(l)) /\ ~AtHand(here, left, l)
        BY <2>1, <3>1, Zenon
      <4>2. ~AtHand(here, left', l) /\ functions'[i] = functions[i]
        BY <2>5, <2>6, <3>1, <4>1, Zenon
      <4> QED
        BY <4>1, <4>2, Zenon
    <3>2. CASE functions'[i] = f
      BY <1>3, <1>4, <1>5, <2>6, <3>2, Zenon
    <3> QED
      BY <2>5, <3>1, <3>2, Zenon
  <2>8. ASSUME NEW l \in Reach, HeaderBus(l) \in scanned
        PROVE  Found(functions', l) \/ Waits(toScan, HeaderBus(l)) \/ AtHand(here, left', l)
    <3>1. Found(functions, l) => Found(functions', l)
      BY <2>5, Zenon DEF Found
    <3>2. l = k => Found(functions', l)
      BY <1>5, <2>5, Zenon DEF Found
    <3> QED
      BY <2>1, <2>6, <2>8, <3>1, <3>2, Zenon
  <2> QED
    BY <1>6, <1>7, <2>4, <2>7, <2>8, Zenon DEF FoundInv
<1>14. QED
  BY <1>2, <1>6, <1>10, <1>11, <1>12, <1>13, Zenon DEF ScanInv

LEMMA SameScan ==
  ASSUME ScanInv, UNCHANGED <<machine, scanVars>>
  PROVE  ScanInv'
<1>1. UNCHANGED <<machine, range, seeded, toScan, scanned, here, left, functions>>
  BY Zenon DEF scanVars
<1>2. Segs' = Segs /\ Reach' = Reach /\ Fns' = Fns
  BY <1>1, SameMachine, Zenon
<1>3. machine \in Plain /\ RangeInv /\ StackInv /\ HereInv /\ FoundInv
  BY Zenon DEF ScanInv
<1>4. Seeding => Seeding'
  BY <1>1, Zenon DEF Seeding
<1>5. RangeInv'
  BY <1>1, <1>2, <1>3, <1>4, Zenon DEF RangeInv, Pushing
<1>6. StackInv' /\ HereInv'
  BY <1>1, <1>2, <1>3, Zenon DEF StackInv, HereInv
<1>7. FoundInv'
  BY <1>1, <1>2, <1>3, Zenon DEF FoundInv
<1>8. QED
  BY <1>1, <1>3, <1>5, <1>6, <1>7, Zenon DEF ScanInv

LEMMA ScanInit ==
  ASSUME BootInit, machine \in Plain
  PROVE  ScanInv
<1>1. /\ machine \in Plain /\ range = [segment |-> <<>>, next |-> 1, last |-> 0] /\ seeded = 0
      /\ toScan = <<>> /\ scanned = {} /\ left = {} /\ functions = <<>>
  BY Zenon DEF BootInit, NoRange, BusRange
<1>2. Len(machine.segments) \in Nat
  BY <1>1, SegmentFacts, Zenon
<1>3. DOMAIN toScan = {} /\ DOMAIN functions = {} /\ toScan \in Seq(Segs \X Nat) /\ functions \in Seq(Fns)
  BY <1>1
<1>4. RangeInv
  <2>1. /\ range \in [segment : Segs \union {<<>>}, next : Nat, last : Nat]
        /\ ~(range.next <= range.last) /\ seeded \in 0..Len(machine.segments) /\ 1..seeded = {}
    BY <1>1, <1>2
  <2>2. Marked(machine.segments, scanned, seeded)
    BY <2>1, Zenon DEF Marked
  <2> QED
    BY <2>1, <2>2, Zenon DEF RangeInv, Pushing
<1>5. StackInv /\ HereInv
  BY <1>1, <1>3, Zenon DEF StackInv, HereInv
<1>6. FoundInv
  BY <1>1, <1>3, Zenon DEF FoundInv, IsInjective
<1>7. QED
  BY <1>1, <1>4, <1>5, <1>6, Zenon DEF ScanInv

\* When the stack is empty, the functions found are all that can be reached.
LEMMA ScanDone ==
  ASSUME ScanInv, ~Pushing, seeded = Len(machine.segments), left = {}, toScan = <<>>
  PROVE  functions \in Seq(Fns) /\ IsInjective(functions) /\ Range(functions) = PresentFns
<1>1. machine \in Plain /\ RangeInv /\ FoundInv
  BY Zenon DEF ScanInv
<1>2. /\ functions \in Seq(Fns) /\ IsInjective(functions)
      /\ \A i \in DOMAIN functions : \E k \in Reach : functions[i].id = Id(k)
      /\ \A k \in Reach : HeaderBus(k) \in scanned =>
           Found(functions, k) \/ Waits(toScan, HeaderBus(k)) \/ AtHand(here, left, k)
  BY <1>1, Zenon DEF FoundInv
<1>3. DOMAIN toScan = {} /\ \A i \in DOMAIN functions : functions[i] \in Fns
  BY <1>2
<1>4. Present = {Id(k) : k \in Reach}
  BY Zenon DEF Present, Reach
<1>5. \A i \in DOMAIN functions : functions[i] \in PresentFns
  BY <1>2, <1>3, <1>4, Zenon DEF PresentFns
<1>6. ASSUME NEW f \in PresentFns PROVE f \in Range(functions)
  <2>1. PICK k \in Reach : f \in Fns /\ f.id = Id(k)
    BY <1>4, Zenon DEF PresentFns
  <2>2. PICK s \in Segs : s.base = k[1] /\ InSegment(s, k[2])
    BY <1>1, ReachFacts, Zenon
  <2>3. PICK i \in 1..Len(machine.segments) : s = machine.segments[i]
    BY <1>1, SegmentFacts, Zenon
  <2>4. k[2] \in Nat
    BY <1>1, ReachFacts, HeaderFacts, Zenon
  <2>5. HeaderBus(k) \in scanned
    BY <1>1, <2>2, <2>3, <2>4, AllMarked, Zenon DEF Marked, HeaderBus
  <2>6. Found(functions, k)
    BY <1>2, <1>3, <2>5, Zenon DEF Waits, AtHand
  <2>7. PICK n \in DOMAIN functions : functions[n].id = f.id
    BY <2>1, <2>6, Zenon DEF Found
  <2>8. functions[n] = f
    BY <1>1, <1>3, <2>1, <2>7, FunctionById, Zenon
  <2> QED
    BY <2>8, Zenon DEF Range
<1>7. QED
  BY <1>2, <1>5, <1>6, Zenon DEF Range

-----------------------------------------------------------------------------
(* The storage stack.                                                      *)

LEMMA RangeType ==
  ASSUME NEW S, NEW q \in Seq(S)
  PROVE  Range(q) \subseteq S /\ (q = <<>> <=> Range(q) = {})
<1>1. DOMAIN q = 1..Len(q) /\ Len(q) \in Nat /\ \A i \in DOMAIN q : q[i] \in S
  OBVIOUS
<1>2. q # <<>> => 1 \in DOMAIN q
  OBVIOUS
<1>3. q = <<>> => DOMAIN q = {}
  OBVIOUS
<1>4. QED
  BY <1>1, <1>2, <1>3, Zenon DEF Range

\* What drives are made of.
LEMMA DriveTypes ==
  ASSUME DriveInv
  PROVE  /\ Range(drives) \subseteq Drv /\ Range(found) \subseteq Drv /\ Kept \subseteq Drv /\ Live \subseteq Drv
         /\ \A d \in Drv : d.fn \in Fns /\ d.mem \in Buffers
         /\ Owned \subseteq ctrl \union Fns
<1>1. Range(drives) \subseteq Drv /\ Range(found) \subseteq Drv /\ Range(DRIVES) \subseteq KeptDrives
  BY RangeType, Zenon DEF DriveInv
<1>2. \A d \in KeptDrives : d.inner \in Drv
  BY Zenon DEF KeptDrives
<1>3. Kept \subseteq Drv
  BY <1>1, <1>2, Zenon DEF Kept
<1>4. \A d \in Drv : d.fn \in Fns /\ d.mem \in Buffers
  BY Zenon DEF Drv
<1>5. Live \subseteq Drv
  BY <1>1, <1>3, Zenon DEF Live
<1>6. QED
  BY <1>1, <1>3, <1>4, <1>5, Zenon DEF Owned

\* A drive is at a port of its function.
LEMMA DriveAt ==
  ASSUME machine \in Plain, NEW d \in Drv
  PROVE  <<d.fn.id, d.port>> \in HwPorts
<1>1. d.fn \in Fns /\ d.port \in 0..(machine.ports - 1)
  BY Zenon DEF Drv
<1>2. d.fn.id \in {Id(k) : k \in DOMAIN machine.config}
  BY <1>1, FunctionHeader, Zenon
<1>3. QED
  BY <1>1, <1>2, Zenon DEF HwPorts

LEMMA SameOwners ==
  ASSUME UNCHANGED <<ctrl, drives, found, DRIVES>>
  PROVE  Kept' = Kept /\ Live' = Live /\ Owned' = Owned
<1>1. Kept' = Kept
  BY Zenon DEF Kept
<1>2. Live' = Live
  BY <1>1, Zenon DEF Live
<1>3. QED
  BY <1>1, <1>2, Zenon DEF Owned

\* Nothing moves, and boot goes on.
LEMMA KeepFunctions ==
  ASSUME FunctionInv, UNCHANGED <<machine, devices, ctrl, drives, found, DRIVES>>,
         boot' \notin {"segments", "scan"} /\ ~InvalidEntry => boot \notin {"segments", "scan"}
  PROVE  FunctionInv'
BY SameOwners, SameMachine, Zenon DEF FunctionInv

LEMMA KeepDrives ==
  ASSUME DriveInv, UNCHANGED <<machine, ctrl, drives, found, DRIVES>>,
         \A d \in Range(drives) : d.port < port => d.port < port'
  PROVE  DriveInv'
BY SameOwners, SameMachine, Zenon DEF DriveInv

LEMMA PortGrows ==
  ASSUME DriveInv, UNCHANGED <<machine, ctrl, drives, found, DRIVES>>, port \in Nat, port' = port + 1
  PROVE  DriveInv'
<1>1. ASSUME NEW d \in Range(drives), d.port < port PROVE d.port < port'
  <2>1. d.port \in 0..(machine.ports - 1)
    BY DriveTypes, Zenon DEF Drv
  <2> QED
    BY <1>1, <2>1
<1>2. QED
  BY <1>1, KeepDrives, Zenon

\* Drives may go; the memory that becomes free is nobody's.
LEMMA KeepMemory ==
  ASSUME MemoryInv, machine' = machine, hw' = hw, Live' \subseteq Live,
         free' \subseteq Buffers, free' \intersect buffer' = {},
         \A d \in Live' : d.mem \notin free' \union buffer'
  PROVE  MemoryInv'
<1>1. HwPorts' = HwPorts
  BY SameMachine, Zenon
<1>2. QED
  BY <1>1, Zenon DEF MemoryInv

LEMMA SameStore ==
  ASSUME StoreInv, UNCHANGED <<machine, boot, devices, ctrl, port, buffer, drives, found, DRIVES, free, hw>>
  PROVE  StoreInv'
<1>1. ControlInv /\ FunctionInv /\ DriveInv /\ MemoryInv
  BY Zenon DEF StoreInv
<1>2. FunctionInv' /\ DriveInv'
  BY <1>1, KeepFunctions, KeepDrives, Zenon
<1>3. MemoryInv'
  <2>1. Live' = Live
    BY SameOwners, Zenon
  <2> QED
    BY <1>1, <2>1, KeepMemory, Zenon DEF MemoryInv
<1>4. ControlInv'
  BY <1>1, SameMachine, Zenon DEF ControlInv, Quiet
<1>5. QED
  BY <1>2, <1>3, <1>4, Zenon DEF StoreInv

\* Steps that only go to another place of boot.
LEMMA MoveOn ==
  ASSUME StoreInv, UNCHANGED <<machine, devices, ctrl, port, buffer, drives, found, DRIVES, free, hw>>,
         boot \notin Working, boot' \notin Working,
         boot' \in {"segments", "scan", "claim", "gpt", "dropping", "up", "failed"},
         boot' \notin {"segments", "scan"} /\ ~InvalidEntry => boot \notin {"segments", "scan"},
         boot' \in {"segments", "scan"} => boot \in {"segments", "scan"},
         InvalidEntry => boot' \in {"segments", "failed"},
         boot' \in {"gpt", "dropping"} => found # <<>>
  PROVE  StoreInv'
<1>1. ControlInv /\ FunctionInv /\ DriveInv /\ MemoryInv
  BY Zenon DEF StoreInv
<1>2. FunctionInv' /\ DriveInv'
  BY <1>1, KeepFunctions, KeepDrives, Zenon
<1>3. MemoryInv'
  <2>1. Live' = Live
    BY SameOwners, Zenon
  <2> QED
    BY <1>1, <2>1, KeepMemory, Zenon DEF MemoryInv
<1>4. boot # "identify" /\ boot' # "identify" /\ boot' # "reset"
  BY Zenon DEF Working
<1>5. /\ boot \in {"segments", "scan"} \/ InvalidEntry => Quiet
      /\ port \in Nat /\ ctrl = {} /\ drives = <<>> /\ buffer = {}
  BY <1>1, <1>4, Zenon DEF ControlInv
<1>6. (InvalidEntry' <=> InvalidEntry) /\ (Quiet' <=> Quiet)
  BY SameMachine, Zenon DEF Quiet
<1>7. ControlInv'
  BY <1>4, <1>5, <1>6, Zenon DEF ControlInv
<1>8. QED
  BY <1>2, <1>3, <1>7, Zenon DEF StoreInv

LEMMA StoreInit ==
  ASSUME BootInit, machine \in Plain
  PROVE  StoreInv
<1>1. /\ machine \in Plain /\ boot = "segments" /\ Quiet /\ port = 0 /\ buffer = {}
      /\ free = Buffers /\ hw = [p \in HwPorts |-> PortOff]
  BY Zenon DEF BootInit, Quiet, HwPorts
<1>2. devices = <<>> /\ ctrl = {} /\ drives = <<>> /\ found = <<>> /\ DRIVES = <<>>
  BY <1>1, Zenon DEF Quiet
<1>3. /\ devices \in Seq(Fns) /\ drives \in Seq(Drv) /\ found \in Seq(Drv) /\ DRIVES \in Seq(KeptDrives)
      /\ DOMAIN devices = {} /\ DOMAIN drives = {} /\ DOMAIN found = {} /\ DOMAIN DRIVES = {} /\ 0 \in Nat
  BY <1>2
<1>4. Range(devices) = {} /\ Range(drives) = {} /\ Range(found) = {} /\ Range(DRIVES) = {}
  BY <1>3, Zenon DEF Range
<1>5. Live = {} /\ Kept = {}
  BY <1>4, Zenon DEF Live, Kept
<1>6. ControlInv
  BY <1>1, <1>2, <1>3, Zenon DEF ControlInv, Working
<1>7. FunctionInv
  BY <1>1, <1>3, <1>4, Zenon DEF FunctionInv, IsInjective
<1>8. DriveInv
  BY <1>3, <1>4, <1>5, Zenon DEF DriveInv, IsInjective
<1>9. MemoryInv
  BY <1>1, <1>5, Zenon DEF MemoryInv
<1>10. QED
  BY <1>6, <1>7, <1>8, <1>9, Zenon DEF StoreInv

\* pci::init puts the functions that the scan has found into DEVICES.
LEMMA FindStep ==
  ASSUME ScanInv, StoreInv, FindDevices
  PROVE  StoreInv'
<1>1. /\ boot = "scan" /\ ~Pushing /\ seeded = Len(machine.segments) /\ left = {} /\ toScan = <<>>
      /\ devices' = devices \o functions /\ boot' = "claim"
      /\ UNCHANGED <<machine, ctrl, port, buffer, drives, found, DRIVES, free, hw>>
  BY Zenon DEF FindDevices, probe
<1>2. ControlInv /\ FunctionInv /\ DriveInv /\ MemoryInv
  BY Zenon DEF StoreInv
<1>3. /\ devices = <<>> /\ ctrl = {} /\ drives = <<>> /\ found = <<>> /\ DRIVES = <<>>
      /\ buffer = {} /\ port \in Nat /\ ~InvalidEntry
  BY <1>1, <1>2, Zenon DEF ControlInv, Quiet
<1>4. /\ functions \in Seq(Fns) /\ IsInjective(functions) /\ Range(functions) = PresentFns
  BY <1>1, ScanDone, Zenon
<1>5. devices' = functions
  BY <1>1, <1>3, <1>4
<1>6. /\ Fns' = Fns /\ PresentFns' = PresentFns /\ (InvalidEntry' <=> InvalidEntry)
      /\ Live' = Live /\ Owned' = Owned
  BY <1>1, SameMachine, SameOwners, Zenon
<1>7. Owned = {}
  <2>1. Range(drives) = {} /\ Range(found) = {} /\ Range(DRIVES) = {}
    BY <1>2, <1>3, RangeType, Zenon DEF DriveInv
  <2> QED
    BY <1>3, <2>1, Zenon DEF Owned, Live, Kept
<1>8. FunctionInv'
  BY <1>4, <1>5, <1>6, <1>7, Zenon DEF FunctionInv
<1>9. DriveInv'
  BY <1>1, <1>2, KeepDrives, Zenon
<1>10. MemoryInv'
  BY <1>1, <1>2, <1>6, KeepMemory, Zenon DEF MemoryInv
<1>11. ControlInv'
  BY <1>1, <1>3, <1>6, Zenon DEF ControlInv, Working
<1>12. QED
  BY <1>8, <1>9, <1>10, <1>11, Zenon DEF StoreInv

\* The controller at work.
LEMMA AtWork ==
  ASSUME ControlInv, boot \in Working
  PROVE  ctrl = {Ctrl} /\ Ctrl \in Fns /\ ~InvalidEntry /\ boot \notin {"segments", "scan"}
<1>1. PICK f \in Fns : ctrl = {f}
  BY Zenon DEF ControlInv
<1>2. Ctrl = f
  BY <1>1, Zenon DEF Ctrl
<1>3. QED
  BY <1>1, <1>2, Zenon DEF ControlInv, Working

\* claim_device takes the function out of DEVICES, where it was once.
LEMMA ClaimStep ==
  ASSUME machine \in Plain, StoreInv, Claim
  PROVE  StoreInv'
<1> DEFINE P == Positions(Head(ids))
<1>1. /\ boot = "claim"
      /\ IF P = {} THEN UNCHANGED <<boot, devices, ctrl>>
         ELSE \E n \in P : boot' = "reset" /\ ctrl' = {devices[n]} /\ devices' = Claimed(n)
      /\ UNCHANGED <<machine, port, buffer, drives, found, DRIVES, free, hw>>
  BY Zenon DEF Claim, probe
<1>2. CASE P = {}
  BY <1>1, <1>2, SameStore, Zenon
<1>3. CASE P # {}
  <2>1. ControlInv /\ FunctionInv /\ DriveInv /\ MemoryInv
    BY Zenon DEF StoreInv
  <2>2. devices \in Seq(Fns) /\ IsInjective(devices) /\ Range(devices) \intersect Owned = {}
    BY <2>1, Zenon DEF FunctionInv
  <2>3. PICK n \in P : boot' = "reset" /\ ctrl' = {devices[n]} /\ devices' = Claimed(n)
    BY <1>1, <1>3, Zenon
  <2>7. n \in 1..Len(devices)
    <3>1. n \in DOMAIN devices
      BY <2>3, Zenon DEF Positions
    <3> QED
      BY <2>2, <3>1
  <2> DEFINE f == devices[n]
  <2>10. /\ boot' = "reset" /\ ctrl' = {f}
         /\ devices' = Without(devices, n)
    BY <2>3, Zenon DEF Claimed, Without
  <2>11. /\ devices' \in Seq(Fns) /\ f \in Fns /\ f \in Range(devices)
         /\ Range(devices') = Range(devices) \ {f} /\ IsInjective(devices')
    BY <2>2, <2>7, <2>10, RemoveOne, Zenon
  <2> HIDE DEF f
  <2>12. /\ ctrl = {} /\ drives = <<>> /\ buffer = {} /\ port \in Nat /\ ~InvalidEntry
    BY <1>1, <2>1, Zenon DEF ControlInv, Working
  <2>13. /\ Fns' = Fns /\ Drv' = Drv /\ KeptDrives' = KeptDrives /\ PresentFns' = PresentFns
         /\ (InvalidEntry' <=> InvalidEntry)
    BY <1>1, SameMachine, Zenon
  <2>14. Kept' = Kept /\ Live' = Live
    <3>1. Kept' = Kept
      BY <1>1, Zenon DEF Kept
    <3> QED
      BY <1>1, <3>1, Zenon DEF Live
  <2>15. Owned' = Owned \union {f}
    BY <2>10, <2>12, <2>14, Zenon DEF Owned
  <2>16. FunctionInv'
    <3>1. Range(devices) \union Owned = PresentFns
      BY <1>1, <2>1, <2>12, Zenon DEF FunctionInv
    <3>2. Range(devices') \union Owned' = PresentFns /\ Range(devices') \intersect Owned' = {}
      BY <2>2, <2>11, <2>15, <3>1, Zenon
    <3> QED
      BY <2>11, <2>13, <3>2, Zenon DEF FunctionInv
  <2>17. DriveInv'
    <3>1. /\ drives \in Seq(Drv) /\ IsInjective(drives) /\ found \in Seq(Drv) /\ IsInjective(found)
          /\ DRIVES \in Seq(KeptDrives) /\ Range(found) \intersect Kept = {}
      BY <2>1, Zenon DEF DriveInv
    <3>2. Range(drives) = {}
      BY <2>12, <3>1, RangeType, Zenon
    <3>3. \A d \in Range(found) \union Kept : d.fn \in Owned
      BY Zenon DEF Owned, Live
    <3>4. \A d \in Range(found) \union Kept : d.fn \notin ctrl'
      BY <2>2, <2>10, <2>11, <3>3, Zenon
    <3> QED
      BY <1>1, <2>13, <2>14, <3>1, <3>2, <3>4, Zenon DEF DriveInv
  <2>18. MemoryInv'
    BY <1>1, <2>1, <2>14, KeepMemory, Zenon DEF MemoryInv
  <2>19. ControlInv'
    BY <1>1, <2>10, <2>11, <2>12, <2>13, Zenon DEF ControlInv, Working
  <2>20. QED
    BY <2>16, <2>17, <2>18, <2>19, Zenon DEF StoreInv
<1>4. QED
  BY <1>2, <1>3, Zenon

\* ahci::init fails: what it has goes back, and nothing else.
LEMMA AbortStep ==
  ASSUME StoreInv, boot \in Working, Abort, hw' = hw
  PROVE  StoreInv'
<1> DEFINE c == Ctrl
           M == {d.mem : d \in Range(drives)}
<1>1. /\ boot' = "claim" /\ devices' = Append(devices, c) /\ ctrl' = {} /\ free' = free \union buffer \union M
      /\ buffer' = {} /\ drives' = <<>> /\ port' = 0 /\ UNCHANGED <<machine, found, DRIVES>>
  BY Zenon DEF Abort
<1>2. ControlInv /\ FunctionInv /\ DriveInv /\ MemoryInv
  BY Zenon DEF StoreInv
<1>3. ctrl = {c} /\ c \in Fns /\ ~InvalidEntry /\ boot \notin {"segments", "scan"}
  BY <1>2, AtWork, Zenon
<1> HIDE DEF c, M
<1>4. /\ drives \in Seq(Drv) /\ found \in Seq(Drv) /\ IsInjective(found)
      /\ DRIVES \in Seq(KeptDrives) /\ Range(found) \intersect Kept = {}
      /\ \A d \in Range(drives) : d.fn = c
      /\ \A d \in Range(found) \union Kept : d.fn # c
  BY <1>2, <1>3, Zenon DEF DriveInv
<1>5. /\ Fns' = Fns /\ Drv' = Drv /\ KeptDrives' = KeptDrives /\ PresentFns' = PresentFns
      /\ (InvalidEntry' <=> InvalidEntry)
  BY <1>1, SameMachine, Zenon
<1>6. drives' \in Seq(Drv) /\ IsInjective(drives') /\ Range(drives') = {}
  <2>1. drives' \in Seq(Drv) /\ DOMAIN drives' = {}
    BY <1>1
  <2> QED
    BY <2>1, Zenon DEF IsInjective, Range
<1>7. Kept' = Kept
  BY <1>1, Zenon DEF Kept
<1>8. Live' = Range(found) \union Kept /\ Live = Range(drives) \union (Range(found) \union Kept)
  BY <1>1, <1>6, <1>7, Zenon DEF Live
<1>9. Owned' = Owned \ {c} /\ c \in Owned
  BY <1>1, <1>3, <1>4, <1>8, Zenon DEF Owned
<1>10. FunctionInv'
  <2>1. /\ devices \in Seq(Fns) /\ IsInjective(devices) /\ Range(devices) \intersect Owned = {}
        /\ Range(devices) \union Owned = PresentFns
    BY <1>2, <1>3, Zenon DEF FunctionInv
  <2>2. c \notin Range(devices)
    BY <1>9, <2>1, Zenon
  <2>3. devices' \in Seq(Fns) /\ Range(devices') = Range(devices) \union {c} /\ IsInjective(devices')
    BY <1>1, <1>3, <2>1, <2>2, AppendOne, Zenon
  <2>4. Range(devices') \union Owned' = PresentFns /\ Range(devices') \intersect Owned' = {}
    BY <1>9, <2>1, <2>3, Zenon
  <2> QED
    BY <1>5, <2>3, <2>4, Zenon DEF FunctionInv
<1>11. DriveInv'
  BY <1>1, <1>4, <1>5, <1>6, <1>7, Zenon DEF DriveInv
<1>12. MemoryInv'
  <2>1. /\ free \subseteq Buffers
        /\ \A d \in Live : d.mem \notin free \union buffer
        /\ \A d, e \in Live : d.mem = e.mem => d = e
    BY <1>2, Zenon DEF MemoryInv
  <2>2. buffer \subseteq Buffers
    BY <1>2, Zenon DEF ControlInv
  <2>3. M \subseteq Buffers
    BY <1>2, DriveTypes, Zenon DEF M
  <2>4. ASSUME NEW d \in Live' PROVE d.mem \notin M
    BY <1>4, <1>8, <2>1, Zenon DEF M
  <2>5. free' \subseteq Buffers /\ free' \intersect buffer' = {} /\ \A d \in Live' : d.mem \notin free' \union buffer'
    BY <1>1, <1>8, <2>1, <2>2, <2>3, <2>4, Zenon
  <2> QED
    BY <1>1, <1>2, <1>8, <2>5, KeepMemory, Zenon
<1>13. ControlInv'
  <2>1. port' \in Nat
    BY <1>1
  <2> QED
    BY <1>1, <1>3, <1>5, <2>1, Zenon DEF ControlInv, Working
<1>14. QED
  BY <1>10, <1>11, <1>12, <1>13, Zenon DEF StoreInv

\* The reset of a controller stops no drive: there is none at this one yet.
LEMMA ResetStep ==
  ASSUME machine \in Plain, StoreInv, Reset
  PROVE  StoreInv'
<1>1. boot = "reset" /\ boot \in Working
  BY Zenon DEF Reset, Working
<1>2. CASE Abort /\ UNCHANGED hw
  BY <1>1, <1>2, AbortStep, Zenon
<1>3. CASE /\ boot' = "port" /\ hw' = [p \in DOMAIN hw |-> IF p[1] = Ctrl.id THEN PortOff ELSE hw[p]]
           /\ UNCHANGED <<machine, devices, ctrl, port, buffer, drives, found, DRIVES, free>>
  <2>1. ControlInv /\ FunctionInv /\ DriveInv /\ MemoryInv
    BY Zenon DEF StoreInv
  <2>2. ctrl = {Ctrl} /\ Ctrl \in Fns /\ ~InvalidEntry
    BY <1>1, <2>1, AtWork, Zenon
  <2>3. /\ drives = <<>> /\ buffer = {} /\ port \in Nat
    BY <1>1, <2>1, Zenon DEF ControlInv
  <2>4. FunctionInv' /\ DriveInv'
    BY <1>1, <1>3, <2>1, KeepFunctions, KeepDrives, Zenon
  <2>5. Live' = Live /\ HwPorts' = HwPorts /\ (InvalidEntry' <=> InvalidEntry) /\ Fns' = Fns
    BY <1>3, SameOwners, SameMachine, Zenon
  <2>6. /\ free \subseteq Buffers /\ free \intersect buffer = {}
        /\ \A d \in Live : d.mem \notin free \union buffer
        /\ \A d, e \in Live : d.mem = e.mem => d = e
        /\ DOMAIN hw = HwPorts
        /\ \A d \in Live : hw[<<d.fn.id, d.port>>] = [on |-> TRUE, mem |-> {d.mem}]
    BY <2>1, Zenon DEF MemoryInv
  <2>7. ASSUME NEW d \in Live
        PROVE  hw'[<<d.fn.id, d.port>>] = [on |-> TRUE, mem |-> {d.mem}]
    <3>1. Range(drives) = {}
      BY <2>1, <2>3, RangeType, Zenon DEF DriveInv
    <3>2. d \in Range(found) \union Kept /\ d \in Drv
      BY <2>1, <3>1, DriveTypes, Zenon DEF Live
    <3>3. d.fn # Ctrl /\ d.fn \in Fns
      BY <2>1, <2>2, <3>2, DriveTypes, Zenon DEF DriveInv
    <3>4. d.fn.id # Ctrl.id
      BY <2>2, <3>3, FunctionById, Zenon
    <3>5. <<d.fn.id, d.port>> \in DOMAIN hw
      BY <2>6, <3>2, DriveAt, Zenon
    <3>6. <<d.fn.id, d.port>>[1] = d.fn.id
      OBVIOUS
    <3> QED
      BY <1>3, <2>6, <3>4, <3>5, <3>6, Zenon
  <2>8. DOMAIN hw' = HwPorts
    BY <1>3, <2>6, Zenon
  <2>9. MemoryInv'
    BY <1>3, <2>5, <2>6, <2>7, <2>8, Zenon DEF MemoryInv
  <2>10. ControlInv'
    BY <1>3, <2>2, <2>3, <2>5, Zenon DEF ControlInv, Working
  <2>11. QED
    BY <2>4, <2>9, <2>10, Zenon DEF StoreInv
<1>4. QED
  BY <1>2, <1>3, Zenon DEF Reset, probe

\* A port is skipped.
LEMMA SkipStep ==
  ASSUME StoreInv, SkipPort
  PROVE  StoreInv'
<1>1. /\ boot = "port" /\ boot' = boot /\ port' = port + 1
      /\ UNCHANGED <<machine, devices, ctrl, buffer, drives, found, DRIVES, free, hw>>
  BY Zenon DEF SkipPort, NextPort
<1>2. ControlInv /\ FunctionInv /\ DriveInv /\ MemoryInv
  BY Zenon DEF StoreInv
<1>3. port \in Nat /\ buffer = {} /\ ~InvalidEntry /\ \E f \in Fns : ctrl = {f}
  BY <1>1, <1>2, Zenon DEF ControlInv, Working
<1>4. port + 1 \in Nat
  BY <1>3
<1>5. DriveInv'
  BY <1>1, <1>2, <1>3, PortGrows, Zenon
<1>6. FunctionInv'
  BY <1>1, <1>2, KeepFunctions, Zenon
<1>7. Live' = Live /\ (InvalidEntry' <=> InvalidEntry) /\ Fns' = Fns
  BY <1>1, SameOwners, SameMachine, Zenon
<1>8. MemoryInv'
  BY <1>1, <1>2, <1>7, KeepMemory, Zenon DEF MemoryInv
<1>9. ControlInv'
  BY <1>1, <1>3, <1>4, <1>7, Zenon DEF ControlInv, Working
<1>10. QED
  BY <1>5, <1>6, <1>8, <1>9, Zenon DEF StoreInv

\* rebase: the buffers come from free memory, and the port is no drive's.
LEMMA RebaseStep ==
  ASSUME machine \in Plain, StoreInv, Rebase
  PROVE  StoreInv'
<1>1. PICK b \in free :
        /\ boot = "port" /\ port < machine.ports /\ boot' = "identify"
        /\ buffer' = {b} /\ free' = free \ {b}
        /\ hw' = [hw EXCEPT ![<<Ctrl.id, port>>] = [on |-> TRUE, mem |-> {b}]]
        /\ UNCHANGED <<machine, devices, ctrl, port, drives, found, DRIVES>>
  BY Zenon DEF Rebase
<1>2. ControlInv /\ FunctionInv /\ DriveInv /\ MemoryInv
  BY Zenon DEF StoreInv
<1>3. ctrl = {Ctrl} /\ Ctrl \in Fns /\ ~InvalidEntry /\ boot \notin {"segments", "scan"} /\ port \in Nat
  BY <1>1, <1>2, AtWork, Zenon DEF ControlInv, Working
<1>4. FunctionInv' /\ DriveInv'
  BY <1>1, <1>2, <1>3, KeepFunctions, KeepDrives, Zenon
<1>5. Live' = Live /\ HwPorts' = HwPorts /\ (InvalidEntry' <=> InvalidEntry) /\ Fns' = Fns
  BY <1>1, SameOwners, SameMachine, Zenon
<1>6. /\ free \subseteq Buffers /\ free \intersect buffer = {}
      /\ \A d \in Live : d.mem \notin free \union buffer
      /\ \A d, e \in Live : d.mem = e.mem => d = e
      /\ DOMAIN hw = HwPorts
      /\ \A d \in Live : hw[<<d.fn.id, d.port>>] = [on |-> TRUE, mem |-> {d.mem}]
  BY <1>2, Zenon DEF MemoryInv
<1> DEFINE at == <<Ctrl.id, port>>
<1>7. at \in DOMAIN hw
  <2>1. port \in 0..(machine.ports - 1)
    <3>1. machine.ports \in Nat
      BY StorageAssumption, Zenon DEF MachineOK, Plain
    <3> QED
      BY <1>1, <1>3, <3>1
  <2>2. Ctrl.id \in {Id(k) : k \in DOMAIN machine.config}
    BY <1>3, FunctionHeader, Zenon
  <2> QED
    BY <1>6, <2>1, <2>2, Zenon DEF HwPorts
<1>8. ASSUME NEW d \in Live
      PROVE  hw'[<<d.fn.id, d.port>>] = [on |-> TRUE, mem |-> {d.mem}]
  <2>1. <<d.fn.id, d.port>> # at
    <3>1. CASE d \in Range(drives)
      <4>1. d.port < port /\ d \in Drv
        BY <1>2, <3>1, DriveTypes, Zenon DEF DriveInv
      <4>2. d.port \in 0..(machine.ports - 1)
        BY <4>1, Zenon DEF Drv
      <4>3. d.port # port
        BY <1>3, <4>1, <4>2
      <4> QED
        BY <4>3
    <3>2. CASE d \in Range(found) \union Kept
      <4>1. d.fn # Ctrl /\ d.fn \in Fns
        BY <1>2, <1>3, <3>2, DriveTypes, Zenon DEF DriveInv
      <4>2. d.fn.id # Ctrl.id
        BY <1>3, <4>1, FunctionById, Zenon
      <4> QED
        BY <4>2
    <3> QED
      BY <3>1, <3>2, Zenon DEF Live
  <2>2. <<d.fn.id, d.port>> \in DOMAIN hw
    BY <1>2, <1>6, DriveTypes, DriveAt, Zenon
  <2> HIDE DEF at
  <2>3. hw' = [hw EXCEPT ![at] = [on |-> TRUE, mem |-> {b}]]
    BY <1>1, Zenon DEF at
  <2> QED
    BY <1>6, <2>1, <2>2, <2>3, Zenon
<1>9. hw'[at] = [on |-> TRUE, mem |-> {b}] /\ DOMAIN hw' = HwPorts
  BY <1>1, <1>6, <1>7, Zenon
<1> HIDE DEF at
<1>10. free' \subseteq Buffers /\ free' \intersect buffer' = {} /\ \A d \in Live : d.mem \notin free' \union buffer'
  BY <1>1, <1>6, Zenon
<1>11. MemoryInv'
  BY <1>5, <1>6, <1>8, <1>9, <1>10, Zenon DEF MemoryInv
<1>12. ControlInv'
  <2>1. \A f \in ctrl : hw'[<<f.id, port>>] = [on |-> TRUE, mem |-> {b}]
    BY <1>3, <1>9, Zenon DEF at
  <2>2. \E x \in Buffers : buffer' = {x}
    BY <1>1, <1>6, Zenon
  <2> QED
    BY <1>1, <1>3, <1>5, <2>1, <2>2, Zenon DEF ControlInv, Working
<1>13. QED
  BY <1>4, <1>11, <1>12, Zenon DEF StoreInv

\* The buffers of a port that is not a drive become free again.
LEMMA NotADriveStep ==
  ASSUME StoreInv, NotADrive
  PROVE  StoreInv'
<1>1. /\ boot = "identify" /\ boot' = "port" /\ port' = port + 1 /\ free' = free \union buffer /\ buffer' = {}
      /\ UNCHANGED <<machine, devices, ctrl, drives, found, DRIVES, hw>>
  BY Zenon DEF NotADrive, NextPort
<1>2. ControlInv /\ FunctionInv /\ DriveInv /\ MemoryInv
  BY Zenon DEF StoreInv
<1>3. port \in Nat /\ buffer \subseteq Buffers /\ ~InvalidEntry /\ \E f \in Fns : ctrl = {f}
  BY <1>1, <1>2, Zenon DEF ControlInv, Working
<1>4. port + 1 \in Nat
  BY <1>3
<1>5. DriveInv'
  BY <1>1, <1>2, <1>3, PortGrows, Zenon
<1>6. FunctionInv'
  BY <1>1, <1>2, KeepFunctions, Zenon
<1>7. Live' = Live /\ (InvalidEntry' <=> InvalidEntry) /\ Fns' = Fns
  BY <1>1, SameOwners, SameMachine, Zenon
<1>8. free' \subseteq Buffers /\ free' \intersect buffer' = {} /\ \A d \in Live' : d.mem \notin free' \union buffer'
  BY <1>1, <1>2, <1>3, <1>7, Zenon DEF MemoryInv
<1>9. MemoryInv'
  BY <1>1, <1>2, <1>7, <1>8, KeepMemory, Zenon
<1>10. ControlInv'
  BY <1>1, <1>3, <1>4, <1>7, Zenon DEF ControlInv, Working
<1>11. QED
  BY <1>5, <1>6, <1>9, <1>10, Zenon DEF StoreInv

\* IDENTIFY succeeds: the drive owns the buffers of its port, and shares the function.
LEMMA IdentifyStep ==
  ASSUME machine \in Plain, StoreInv, Identify
  PROVE  StoreInv'
<1> DEFINE d == [fn |-> Ctrl, port |-> port, mem |-> CHOOSE b \in buffer : TRUE]
<1>1. /\ boot = "identify" /\ boot' = "port" /\ port' = port + 1 /\ buffer' = {}
      /\ drives' = Append(drives, d)
      /\ UNCHANGED <<machine, devices, ctrl, found, DRIVES, free, hw>>
  BY Zenon DEF Identify, NextPort
<1>2. ControlInv /\ FunctionInv /\ DriveInv /\ MemoryInv
  BY Zenon DEF StoreInv
<1>3. ctrl = {Ctrl} /\ Ctrl \in Fns /\ ~InvalidEntry
  BY <1>1, <1>2, AtWork, Zenon DEF Working
<1>4. /\ port \in Nat /\ port < machine.ports /\ hw[<<Ctrl.id, port>>] = [on |-> TRUE, mem |-> buffer]
      /\ \E b \in Buffers : buffer = {b}
  BY <1>1, <1>2, <1>3, Zenon DEF ControlInv
<1>5. PICK b \in Buffers : buffer = {b}
  BY <1>4, Zenon
<1>6. (CHOOSE x \in buffer : TRUE) = b
  BY <1>5, Zenon
<1>7. /\ d \in Drv /\ d.fn = Ctrl /\ d.port = port /\ d.mem = b
  <2>1. d.fn = Ctrl /\ d.port = port /\ d.mem = b
    BY <1>6, Zenon
  <2>2. port \in 0..(machine.ports - 1)
    <3>1. machine.ports \in Nat
      BY StorageAssumption, Zenon DEF MachineOK, Plain
    <3> QED
      BY <1>4, <3>1
  <2>3. d \in Drv
    BY <1>3, <1>5, <1>6, <2>2, Zenon DEF Drv
  <2> QED
    BY <2>1, <2>3, Zenon
<1> HIDE DEF d
<1>8. port + 1 \in Nat /\ port < port + 1
  BY <1>4
<1>9. /\ free \subseteq Buffers /\ free \intersect buffer = {}
      /\ \A e \in Live : e.mem \notin free \union buffer
      /\ \A e, g \in Live : e.mem = g.mem => e = g
      /\ DOMAIN hw = HwPorts
      /\ \A e \in Live : hw[<<e.fn.id, e.port>>] = [on |-> TRUE, mem |-> {e.mem}]
  BY <1>2, Zenon DEF MemoryInv
<1>10. d \notin Live
  BY <1>5, <1>7, <1>9, Zenon
<1>11. /\ drives \in Seq(Drv) /\ IsInjective(drives) /\ found \in Seq(Drv) /\ IsInjective(found)
       /\ DRIVES \in Seq(KeptDrives) /\ Range(found) \intersect Kept = {}
       /\ \A e \in Range(drives) : e.fn \in ctrl /\ e.port < port
       /\ \A e \in Range(found) \union Kept : e.fn \notin ctrl
  BY <1>2, Zenon DEF DriveInv
<1>12. d \notin Range(drives)
  BY <1>10, Zenon DEF Live
<1>13. drives' \in Seq(Drv) /\ Range(drives') = Range(drives) \union {d} /\ IsInjective(drives')
  BY <1>1, <1>7, <1>11, <1>12, AppendOne, Zenon
<1>14. /\ Fns' = Fns /\ Drv' = Drv /\ KeptDrives' = KeptDrives /\ PresentFns' = PresentFns
       /\ HwPorts' = HwPorts /\ (InvalidEntry' <=> InvalidEntry)
  BY <1>1, SameMachine, Zenon
<1>15. Kept' = Kept
  BY <1>1, Zenon DEF Kept
<1>16. Live' = Live \union {d}
  BY <1>1, <1>13, <1>15, Zenon DEF Live
<1>17. Owned' = Owned
  BY <1>1, <1>3, <1>7, <1>16, Zenon DEF Owned
<1>18. FunctionInv'
  BY <1>1, <1>2, <1>14, <1>17, Zenon DEF FunctionInv
<1>19. DriveInv'
  <2>1. \A e \in Range(drives) : e.port < port + 1
    <3>1. ASSUME NEW e \in Range(drives) PROVE e.port < port + 1
      <4>1. e.port < port /\ e.port \in 0..(machine.ports - 1)
        BY <1>2, <1>11, DriveTypes, Zenon DEF Drv
      <4> QED
        BY <1>4, <4>1
    <3> QED
      BY <3>1, Zenon
  <2>2. \A e \in Range(drives') : e.fn \in ctrl /\ e.port < port'
    BY <1>1, <1>3, <1>7, <1>8, <1>11, <1>13, <2>1, Zenon
  <2> QED
    BY <1>1, <1>11, <1>13, <1>14, <1>15, <2>2, Zenon DEF DriveInv
<1>20. MemoryInv'
  <2>1. hw[<<d.fn.id, d.port>>] = [on |-> TRUE, mem |-> {d.mem}]
    BY <1>4, <1>5, <1>7, Zenon
  <2>2. d.mem \notin free /\ \A e \in Live : e.mem # d.mem
    BY <1>5, <1>7, <1>9, Zenon
  <2>3. \A e, g \in Live' : e.mem = g.mem => e = g
    BY <1>9, <1>16, <2>2, Zenon
  <2>4. \A e \in Live' : e.mem \notin free' \union buffer'
    BY <1>1, <1>9, <1>16, <2>2, Zenon
  <2>5. \A e \in Live' : hw'[<<e.fn.id, e.port>>] = [on |-> TRUE, mem |-> {e.mem}]
    BY <1>1, <1>9, <1>16, <2>1, Zenon
  <2> QED
    BY <1>1, <1>9, <1>14, <2>3, <2>4, <2>5, Zenon DEF MemoryInv
<1>21. ControlInv'
  BY <1>1, <1>3, <1>8, <1>14, Zenon DEF ControlInv, Working
<1>22. QED
  BY <1>18, <1>19, <1>20, <1>21, Zenon DEF StoreInv

\* What a sequence has in it.
Has(t, R) == Range(t) = R

\* A function is put back into DEVICES exactly when no drive that is kept has it.
LEMMA ReleaseOne ==
  ASSUME NEW S, NEW q \in Seq(S), IsInjective(q), NEW fn \in S, fn \notin Range(q), NEW kept
  PROVE  /\ Joined(q, Release(fn, kept)) \in Seq(S) /\ IsInjective(Joined(q, Release(fn, kept)))
         /\ (\E d \in kept : d.fn = fn) => Has(Joined(q, Release(fn, kept)), Range(q))
         /\ (\A d \in kept : d.fn # fn) => Has(Joined(q, Release(fn, kept)), Range(q) \union {fn})
<1>1. CASE \E d \in kept : d.fn = fn
  <2>1. Release(fn, kept) = <<>>
    BY <1>1, Zenon DEF Release
  <2>2. Joined(q, <<>>) = q
    BY DEF Joined
  <2> QED
    BY <1>1, <2>1, <2>2, Zenon DEF Has
<1>2. CASE ~\E d \in kept : d.fn = fn
  <2>1. Release(fn, kept) = <<fn>>
    BY <1>2, Zenon DEF Release
  <2>2. Joined(q, <<fn>>) = Append(q, fn)
    BY DEF Joined
  <2> QED
    <3>1. Append(q, fn) \in Seq(S) /\ IsInjective(Append(q, fn)) /\ Has(Append(q, fn), Range(q) \union {fn})
      BY AppendOne, Zenon DEF Has
    <3> QED
      BY <1>2, <2>1, <2>2, <3>1, Zenon
<1>3. QED
  BY <1>1, <1>2, Zenon

\* ahci::init returns its drives, and with none of them the function.
LEMMA PortsDoneStep ==
  ASSUME StoreInv, PortsDone
  PROVE  StoreInv'
<1> DEFINE c == Ctrl
<1>1. /\ boot = "port" /\ boot' = "claim" /\ ctrl' = {} /\ drives' = <<>> /\ port' = 0
      /\ found' = Joined(found, drives) /\ devices' = Joined(devices, Release(c, Range(drives)))
      /\ UNCHANGED <<machine, buffer, DRIVES, free, hw>>
  BY Zenon DEF PortsDone, Joined
<1>2. ControlInv /\ FunctionInv /\ DriveInv /\ MemoryInv
  BY Zenon DEF StoreInv
<1>3. ctrl = {c} /\ c \in Fns /\ ~InvalidEntry /\ boot \notin {"segments", "scan"} /\ buffer = {}
  BY <1>1, <1>2, AtWork, Zenon DEF Working, ControlInv
<1> HIDE DEF c
<1>4. /\ drives \in Seq(Drv) /\ IsInjective(drives) /\ found \in Seq(Drv) /\ IsInjective(found)
      /\ DRIVES \in Seq(KeptDrives) /\ Range(found) \intersect Kept = {}
      /\ \A d \in Range(drives) : d.fn = c
      /\ \A d \in Range(found) \union Kept : d.fn # c
  BY <1>2, <1>3, Zenon DEF DriveInv
<1>5. /\ Fns' = Fns /\ Drv' = Drv /\ KeptDrives' = KeptDrives /\ PresentFns' = PresentFns
      /\ (InvalidEntry' <=> InvalidEntry)
  BY <1>1, SameMachine, Zenon
<1>6. /\ drives' \in Seq(Drv) /\ IsInjective(drives') /\ Range(drives') = {} /\ port' \in Nat
  <2>1. drives' \in Seq(Drv) /\ DOMAIN drives' = {} /\ port' \in Nat
    BY <1>1
  <2> QED
    BY <2>1, Zenon DEF IsInjective, Range
<1>7. Apart(found, drives)
  BY <1>4, Zenon DEF Apart
<1>8. found' \in Seq(Drv) /\ IsInjective(found') /\ Range(found') = Range(found) \union Range(drives)
  <2>1. found \in Seq(Drv) /\ drives \in Seq(Drv) /\ IsInjective(found) /\ IsInjective(drives)
    BY <1>4, Zenon
  <2>2. /\ Joined(found, drives) \in Seq(Drv) /\ IsInjective(Joined(found, drives))
        /\ Range(Joined(found, drives)) = Range(found) \union Range(drives)
    BY <1>7, <2>1, ConcatTwo, Zenon
  <2> QED
    BY <1>1, <2>2, Zenon
<1>9. Kept' = Kept
  BY <1>1, Zenon DEF Kept
<1>10. Live' = Live
  BY <1>6, <1>8, <1>9, Zenon DEF Live
<1>11. FunctionInv'
  <2>1. /\ devices \in Seq(Fns) /\ IsInjective(devices) /\ Range(devices) \intersect Owned = {}
        /\ Range(devices) \union Owned = PresentFns
    BY <1>2, <1>3, Zenon DEF FunctionInv
  <2>2. c \in Owned /\ Owned = {c} \union {d.fn : d \in Live} /\ Owned' = {d.fn : d \in Live}
    BY <1>1, <1>3, <1>10, Zenon DEF Owned
  <2>3. c \notin Range(devices)
    BY <2>1, <2>2, Zenon
  <2>4. /\ devices' \in Seq(Fns) /\ IsInjective(devices')
        /\ (\E d \in Range(drives) : d.fn = c) => Range(devices') = Range(devices)
        /\ (\A d \in Range(drives) : d.fn # c) => Range(devices') = Range(devices) \union {c}
    <3>1. devices \in Seq(Fns) /\ IsInjective(devices) /\ c \in Fns
      BY <1>3, <2>1, Zenon
    <3> DEFINE t == Joined(devices, Release(c, Range(drives)))
    <3>2. /\ t \in Seq(Fns) /\ IsInjective(t)
          /\ (\E d \in Range(drives) : d.fn = c) => Has(t, Range(devices))
          /\ (\A d \in Range(drives) : d.fn # c) => Has(t, Range(devices) \union {c})
      BY <2>3, <3>1, ReleaseOne, Zenon
    <3> QED
      BY <1>1, <3>2, Zenon DEF Has
  <2>5. Range(devices') \union Owned' = PresentFns /\ Range(devices') \intersect Owned' = {}
    <3>1. CASE \E d \in Range(drives) : d.fn = c
      <4>1. c \in Owned'
        BY <2>2, <3>1, Zenon DEF Live
      <4>2. Owned' = Owned /\ Range(devices') = Range(devices)
        BY <2>2, <2>4, <3>1, <4>1, Zenon
      <4> QED
        BY <2>1, <4>2, Zenon
    <3>2. CASE ~\E d \in Range(drives) : d.fn = c
      <4>1. c \notin Owned'
        BY <1>4, <2>2, <3>2, Zenon DEF Live
      <4>2. Owned' = Owned \ {c} /\ Range(devices') = Range(devices) \union {c}
        BY <2>2, <2>4, <3>2, <4>1, Zenon
      <4> QED
        BY <2>1, <2>2, <4>2, Zenon
    <3> QED
      BY <3>1, <3>2, Zenon
  <2> QED
    BY <1>5, <2>4, <2>5, Zenon DEF FunctionInv
<1>12. DriveInv'
  <2>1. Range(found') \intersect Kept = {}
    BY <1>4, <1>8, Zenon
  <2> QED
    BY <1>1, <1>4, <1>5, <1>6, <1>8, <1>9, <2>1, Zenon DEF DriveInv
<1>13. MemoryInv'
  BY <1>1, <1>2, <1>10, KeepMemory, Zenon DEF MemoryInv
<1>14. ControlInv'
  BY <1>1, <1>3, <1>5, <1>6, Zenon DEF ControlInv, Working
<1>15. QED
  BY <1>11, <1>12, <1>13, <1>14, Zenon DEF StoreInv

\* A drive whose partitions were found goes to DRIVES.
LEMMA ReturnStep ==
  ASSUME StoreInv, GptReturns, res \in Seq(Parts)
  PROVE  StoreInv'
<1> DEFINE h == Head(found)
           e == [inner |-> h, partitions |-> res]
<1>1. /\ boot = "gpt" /\ boot' = "claim" /\ DRIVES' = Append(DRIVES, e) /\ found' = Tail(found)
      /\ UNCHANGED <<machine, devices, ctrl, port, buffer, drives, free, hw>>
  BY Zenon DEF GptReturns, probe
<1>2. ControlInv /\ FunctionInv /\ DriveInv /\ MemoryInv
  BY Zenon DEF StoreInv
<1>3. /\ found # <<>> /\ ctrl = {} /\ drives = <<>> /\ buffer = {} /\ port \in Nat /\ ~InvalidEntry
  BY <1>1, <1>2, Zenon DEF ControlInv, Working
<1>4. /\ found \in Seq(Drv) /\ IsInjective(found) /\ DRIVES \in Seq(KeptDrives)
      /\ drives \in Seq(Drv) /\ IsInjective(drives) /\ Range(found) \intersect Kept = {}
      /\ \A d \in Range(drives) : d.fn \in ctrl /\ d.port < port
  BY <1>2, Zenon DEF DriveInv
<1>5. /\ found' \in Seq(Drv) /\ h \in Drv /\ h \in Range(found)
      /\ Range(found') = Range(found) \ {h} /\ IsInjective(found')
  BY <1>1, <1>3, <1>4, TailOne, Zenon
<1> HIDE DEF h
<1>6. e \in KeptDrives /\ e.inner = h
  BY <1>5, Zenon DEF KeptDrives
<1> HIDE DEF e
<1>7. DRIVES' \in Seq(KeptDrives) /\ Range(DRIVES') = Range(DRIVES) \union {e}
  BY <1>1, <1>4, <1>6, AppendOne, Zenon
<1>8. Kept' = Kept \union {h}
  BY <1>6, <1>7, Zenon DEF Kept
<1>9. Live' = Live
  BY <1>1, <1>5, <1>8, Zenon DEF Live
<1>10. Owned' = Owned
  BY <1>1, <1>9, Zenon DEF Owned
<1>11. /\ Fns' = Fns /\ Drv' = Drv /\ KeptDrives' = KeptDrives /\ PresentFns' = PresentFns
       /\ (InvalidEntry' <=> InvalidEntry)
  BY <1>1, SameMachine, Zenon
<1>12. FunctionInv'
  BY <1>1, <1>2, <1>10, <1>11, Zenon DEF FunctionInv
<1>13. DriveInv'
  <2>1. Range(found') \intersect Kept' = {}
    BY <1>4, <1>5, <1>8, Zenon
  <2> QED
    BY <1>1, <1>3, <1>4, <1>5, <1>7, <1>11, <2>1, Zenon DEF DriveInv
<1>14. MemoryInv'
  BY <1>1, <1>2, <1>9, KeepMemory, Zenon DEF MemoryInv
<1>15. ControlInv'
  BY <1>1, <1>3, <1>11, Zenon DEF ControlInv, Working
<1>16. QED
  BY <1>12, <1>13, <1>14, <1>15, Zenon DEF StoreInv

\* A drive is dropped: its memory becomes free, and the function goes back with the
\* last drive that has it.
LEMMA DropStep ==
  ASSUME StoreInv, DropDrive
  PROVE  StoreInv'
<1> DEFINE h == Head(found)
           rest == Kept \union Range(Tail(found))
<1>1. /\ boot = "dropping" /\ found' = Tail(found) /\ free' = free \union {h.mem}
      /\ devices' = Joined(devices, Release(h.fn, rest))
      /\ boot' = IF found' = <<>> THEN "failed" ELSE "dropping"
      /\ UNCHANGED <<machine, ctrl, port, buffer, drives, DRIVES, hw>>
  BY Zenon DEF DropDrive, probe, Joined
<1>2. ControlInv /\ FunctionInv /\ DriveInv /\ MemoryInv
  BY Zenon DEF StoreInv
<1>3. /\ found # <<>> /\ ctrl = {} /\ drives = <<>> /\ buffer = {} /\ port \in Nat /\ ~InvalidEntry
      /\ boot \notin {"segments", "scan"}
  BY <1>1, <1>2, Zenon DEF ControlInv, Working
<1>4. /\ found \in Seq(Drv) /\ IsInjective(found) /\ DRIVES \in Seq(KeptDrives)
      /\ drives \in Seq(Drv) /\ IsInjective(drives) /\ Range(found) \intersect Kept = {}
      /\ \A d \in Range(drives) : d.fn \in ctrl /\ d.port < port
  BY <1>2, Zenon DEF DriveInv
<1>5. /\ found' \in Seq(Drv) /\ h \in Drv /\ h \in Range(found)
      /\ Range(found') = Range(found) \ {h} /\ IsInjective(found')
  BY <1>1, <1>3, <1>4, TailOne, Zenon
<1>6. rest = Kept \union Range(found')
  BY <1>1, Zenon
<1> HIDE DEF h, rest
<1>7. Kept' = Kept /\ Range(drives) = {}
  BY <1>1, <1>3, <1>4, RangeType, Zenon DEF Kept
<1>8. Live' = rest /\ Live = rest \union {h} /\ h \notin rest
  BY <1>1, <1>4, <1>5, <1>6, <1>7, Zenon DEF Live
<1>9. /\ Fns' = Fns /\ Drv' = Drv /\ KeptDrives' = KeptDrives /\ PresentFns' = PresentFns
      /\ (InvalidEntry' <=> InvalidEntry)
  BY <1>1, SameMachine, Zenon
<1>10. h.fn \in Fns /\ h.mem \in Buffers
  BY <1>2, <1>5, DriveTypes, Zenon
<1>11. Owned = {h.fn} \union {d.fn : d \in rest} /\ Owned' = {d.fn : d \in rest}
  BY <1>1, <1>3, <1>8, Zenon DEF Owned
<1>12. FunctionInv'
  <2>1. /\ devices \in Seq(Fns) /\ IsInjective(devices) /\ Range(devices) \intersect Owned = {}
        /\ Range(devices) \union Owned = PresentFns
    BY <1>2, <1>3, Zenon DEF FunctionInv
  <2>2. h.fn \notin Range(devices)
    BY <1>11, <2>1, Zenon
  <2>3. /\ devices' \in Seq(Fns) /\ IsInjective(devices')
        /\ (\E d \in rest : d.fn = h.fn) => Range(devices') = Range(devices)
        /\ (\A d \in rest : d.fn # h.fn) => Range(devices') = Range(devices) \union {h.fn}
    <3>1. devices \in Seq(Fns) /\ IsInjective(devices) 
      BY <2>1, Zenon
    <3>2. h.fn \in Fns
      BY <1>10, Zenon
    <3> DEFINE t == Joined(devices, Release(h.fn, rest))
    <3>3. /\ t \in Seq(Fns) /\ IsInjective(t)
          /\ (\E d \in rest : d.fn = h.fn) => Has(t, Range(devices))
          /\ (\A d \in rest : d.fn # h.fn) => Has(t, Range(devices) \union {h.fn})
      BY <2>2, <3>1, <3>2, ReleaseOne, Zenon
    <3> QED
      BY <1>1, <3>3, Zenon DEF Has
  <2>4. Range(devices') \union Owned' = PresentFns /\ Range(devices') \intersect Owned' = {}
    <3>1. CASE \E d \in rest : d.fn = h.fn
      <4>1. Owned' = Owned /\ Range(devices') = Range(devices)
        BY <1>11, <2>3, <3>1, Zenon
      <4> QED
        BY <2>1, <4>1, Zenon
    <3>2. CASE ~\E d \in rest : d.fn = h.fn
      <4>1. h.fn \notin Owned' /\ Range(devices') = Range(devices) \union {h.fn}
        BY <1>11, <2>3, <3>2, Zenon
      <4>2. Owned' = Owned \ {h.fn} /\ h.fn \in Owned
        BY <1>11, <4>1, Zenon
      <4> QED
        BY <2>1, <4>1, <4>2, Zenon
    <3> QED
      BY <3>1, <3>2, Zenon
  <2> QED
    BY <1>9, <2>3, <2>4, Zenon DEF FunctionInv
<1>13. DriveInv'
  <2>1. Range(found') \intersect Kept = {}
    BY <1>4, <1>5, Zenon
  <2> QED
    BY <1>1, <1>3, <1>4, <1>5, <1>7, <1>9, <2>1, Zenon DEF DriveInv
<1>14. MemoryInv'
  <2>1. /\ free \subseteq Buffers
        /\ \A d \in Live : d.mem \notin free \union buffer
        /\ \A d, e \in Live : d.mem = e.mem => d = e
    BY <1>2, Zenon DEF MemoryInv
  <2>2. \A d \in rest : d.mem # h.mem
    BY <1>8, <2>1, Zenon
  <2>3. free' \subseteq Buffers /\ free' \intersect buffer' = {} /\ \A d \in Live' : d.mem \notin free' \union buffer'
    BY <1>1, <1>3, <1>8, <1>10, <2>1, <2>2, Zenon
  <2>4. Live' \subseteq Live
    BY <1>8, Zenon
  <2> QED
    BY <1>1, <1>2, <2>3, <2>4, KeepMemory, Zenon
<1>15. ControlInv'
  BY <1>1, <1>3, <1>9, Zenon DEF ControlInv, Working
<1>16. QED
  BY <1>12, <1>13, <1>14, <1>15, Zenon DEF StoreInv

-----------------------------------------------------------------------------
(* Boot.                                                                   *)

LEMMA DisjointParts ==
  ASSUME PartitionsApart
  PROVE  Disjoint(res)
BY Zenon DEF PartitionsApart, Disjoint

\* gpt::init begins with a drive of the machine.
LEMMA GptBegin ==
  ASSUME machine \in Machines, GptInv, GptBegins
  PROVE  GptInv'
<1>1. /\ image' \in DriveImages(machine) /\ pc' = "mbr" /\ isBackup' = FALSE /\ header' = image'.headers[1]
      /\ entries' = <<>> /\ offset' = 0 /\ res' = <<>> /\ boot' = "gpt" /\ DRIVES' = DRIVES
  BY Zenon DEF GptBegins
<1>2. image' \in Images
  BY <1>1, StorageAssumption, Zenon
<1>3. header' \in Headers
  BY <1>1, <1>2, ImageTypes, Zenon
<1>4. PartitionsApart'
  BY <1>1 DEF PartitionsApart
<1>5. entries' \in Seq(Entries) /\ res' \in Seq(Parts) /\ offset' \in Nat
  BY <1>1
<1>6. TableInv'
  BY <1>1, <1>2, <1>3, <1>4, <1>5, Zenon DEF TableInv
<1>7. QED
  BY <1>1, <1>6, Zenon DEF GptInv, KeptDisjoint

\* The partitions found go to DRIVES as they are.
LEMMA GptReturn ==
  ASSUME GptInv, GptReturns
  PROVE  GptInv'
<1> DEFINE e == [inner |-> Head(found), partitions |-> res]
           S == Range(DRIVES) \union {e}
<1>1. /\ boot = "gpt" /\ boot' = "claim" /\ DRIVES' = Append(DRIVES, e) /\ pc' = "off" /\ res' = <<>>
  BY Zenon DEF GptReturns, GptOver
<1>2. TableInv /\ KeptDisjoint /\ DRIVES \in Seq(Range(DRIVES))
  BY <1>1, Zenon DEF GptInv
<1>3. Disjoint(e.partitions)
  BY <1>2, DisjointParts, Zenon DEF TableInv
<1> HIDE DEF e
<1>4. e \in S /\ Range(DRIVES) \subseteq S
  BY Zenon
<1> HIDE DEF S
<1>5. DRIVES \in Seq(S)
  BY <1>2, <1>4
<1>6. DRIVES' \in Seq(S) /\ Range(DRIVES') = Range(DRIVES) \union {e}
  BY <1>1, <1>4, <1>5, AppendOne, Zenon
<1>7. KeptDisjoint'
  BY <1>2, <1>3, <1>6, Zenon DEF KeptDisjoint
<1>8. QED
  BY <1>1, <1>6, <1>7, Zenon DEF GptInv, S

\* Steps outside gpt::init.
LEMMA GptElse ==
  ASSUME GptInv, UNCHANGED <<vars, DRIVES>>, boot # "gpt", boot' # "gpt"
  PROVE  GptInv'
BY Zenon DEF GptInv, KeptDisjoint, vars

\* gpt::init depends on nothing that the scan and ahci::init do.
LEMMA GptNext ==
  ASSUME machine \in Machines, GptInv, [BootNext]_bootVars
  PROVE  GptInv'
<1>1. CASE GptBegins
  BY <1>1, GptBegin, Zenon
<1>2. CASE GptReturns
  BY <1>2, GptReturn, Zenon
<1>3. CASE GptGoesOn
  <2>1. boot = "gpt" /\ boot' = "gpt" /\ GptStep /\ DRIVES' = DRIVES
    BY <1>3, Zenon DEF GptGoesOn
  <2>2. TableInv'
    BY <2>1, TableNext, Zenon DEF GptInv, Next
  <2> QED
    BY <2>1, <2>2, Zenon DEF GptInv, KeptDisjoint
<1>4. CASE GptFails
  <2>1. boot' = "dropping" /\ pc' = "off" /\ res' = <<>> /\ DRIVES' = DRIVES
    BY <1>4, Zenon DEF GptFails, GptOver
  <2> QED
    BY <2>1, Zenon DEF GptInv, KeptDisjoint
<1>5. CASE \/ InitSegments \/ StorageUp \/ FindDevices \/ DropDrive
           \/ PushBus \/ SeedSegment \/ ScanBus \/ VisitFunction
  <2>1. boot # "gpt" /\ boot' # "gpt" /\ UNCHANGED <<vars, DRIVES>>
    BY <1>5, Zenon DEF InitSegments, StorageUp, FindDevices, DropDrive, PushBus, SeedSegment, ScanBus, VisitFunction
  <2> QED
    BY <2>1, GptElse, Zenon
<1>6. CASE \/ Claim \/ Reset \/ SkipPort \/ RebaseFails \/ Rebase \/ NotADrive \/ IdentifyFails
           \/ Identify \/ PortsDone
  <2>1. boot # "gpt" /\ boot' # "gpt" /\ UNCHANGED <<vars, DRIVES>>
    BY <1>6, Zenon
       DEF Claim, Reset, SkipPort, RebaseFails, Rebase, NotADrive, IdentifyFails, Identify, PortsDone, Abort
  <2> QED
    BY <2>1, GptElse, Zenon
<1>7. CASE UNCHANGED bootVars
  <2>1. UNCHANGED <<boot, vars, DRIVES>>
    BY <1>7, Zenon DEF bootVars
  <2>2. CASE boot # "gpt"
    BY <2>1, <2>2, GptElse, Zenon
  <2>3. CASE boot = "gpt"
    <3>1. TableInv' /\ boot' = "gpt"
      BY <2>1, <2>3, TableNext, Zenon DEF GptInv
    <3> QED
      BY <2>1, <3>1, Zenon DEF GptInv, KeptDisjoint
  <2> QED
    BY <2>2, <2>3, Zenon
<1>8. QED
  BY <1>1, <1>2, <1>3, <1>4, <1>5, <1>6, <1>7, Zenon DEF BootNext, Step

LEMMA BootStart == BootInit => BootInv
<1> SUFFICES ASSUME BootInit PROVE BootInv
  BY Zenon
<1>1. boot = "segments" /\ pc = "off" /\ res = <<>> /\ DRIVES = <<>> /\ machine \in Machines
  BY Zenon DEF BootInit, GptOff
<1>2. DOMAIN DRIVES = {} /\ DRIVES \in Seq(Range(DRIVES))
  BY <1>1
<1>3. GptInv
  BY <1>1, <1>2, Zenon DEF GptInv, KeptDisjoint, Range
<1>4. BusesApart(machine) => machine \in Plain
  BY <1>1, Zenon DEF Plain
<1>5. QED
  BY <1>1, <1>3, <1>4, ScanInit, StoreInit, Zenon DEF BootInv

\* Steps of pci::scan.
LEMMA ScanningStep ==
  ASSUME ScanInv, StoreInv, PushBus \/ SeedSegment \/ ScanBus \/ VisitFunction
  PROVE  ScanInv' /\ StoreInv'
<1>1. UNCHANGED <<machine, boot, devices, ctrl, port, buffer, drives, found, DRIVES, free, hw, vars>>
  BY Zenon DEF PushBus, SeedSegment, ScanBus, VisitFunction, probe
<1>2. ScanInv'
  BY PushStep, SeedStep, PopStep, VisitStep, Zenon
<1>3. QED
  BY <1>1, <1>2, SameStore, Zenon

\* Steps of ahci::init.
LEMMA AhciStep ==
  ASSUME ScanInv, StoreInv,
         \/ Claim \/ Reset \/ SkipPort \/ RebaseFails \/ Rebase \/ NotADrive \/ IdentifyFails
         \/ Identify \/ PortsDone
  PROVE  ScanInv' /\ StoreInv'
<1>1. machine \in Plain
  BY Zenon DEF ScanInv
<1>2. UNCHANGED <<machine, scanVars>>
  BY Zenon DEF Claim, Reset, SkipPort, RebaseFails, Rebase, NotADrive, IdentifyFails, Identify, PortsDone, Abort
<1>3. ScanInv'
  BY <1>2, SameScan, Zenon
<1>4. CASE RebaseFails \/ IdentifyFails
  <2>1. boot \in Working /\ Abort /\ hw' = hw
    BY <1>4, Zenon DEF RebaseFails, IdentifyFails, Working
  <2> QED
    BY <1>1, <1>3, <2>1, AbortStep, Zenon
<1>5. CASE Claim \/ Reset \/ SkipPort \/ Rebase \/ NotADrive \/ Identify \/ PortsDone
  <2>1. StoreInv'
    BY <1>1, <1>5, ClaimStep, ResetStep, SkipStep, RebaseStep, NotADriveStep, IdentifyStep, PortsDoneStep, Zenon
  <2> QED
    BY <1>3, <2>1, Zenon
<1>6. QED
  BY <1>4, <1>5, Zenon

\* Steps that only go to another place of boot, or within gpt::init.
LEMMA PlaceStep ==
  ASSUME ScanInv, StoreInv, InitSegments \/ GptBegins \/ GptGoesOn \/ GptFails \/ StorageUp
  PROVE  ScanInv' /\ StoreInv'
<1>1. ControlInv
  BY Zenon DEF StoreInv
<1>2. UNCHANGED <<machine, scanVars, devices, ctrl, port, buffer, drives, found, DRIVES, free, hw>>
  BY Zenon DEF InitSegments, GptBegins, GptGoesOn, GptFails, StorageUp, probe
<1>3. ScanInv'
  BY <1>2, SameScan, Zenon
<1>4. CASE GptGoesOn
  <2>1. boot' = boot
    BY <1>4, Zenon DEF GptGoesOn
  <2> QED
    BY <1>2, <1>3, <2>1, SameStore, Zenon
<1>5. CASE InitSegments
  <2>1. boot = "segments" /\ boot' = IF InvalidEntry THEN "failed" ELSE "scan"
    BY <1>5, Zenon DEF InitSegments
  <2> QED
    BY <1>1, <1>2, <1>3, <2>1, MoveOn, Zenon DEF Working
<1>6. CASE GptBegins \/ GptFails \/ StorageUp
  <2>1. /\ boot \in {"claim", "gpt"} /\ boot' \in {"gpt", "dropping", "up"}
        /\ boot' # "up" => found # <<>>
    BY <1>1, <1>6, Zenon DEF GptBegins, GptFails, StorageUp, ControlInv
  <2>2. ~InvalidEntry
    BY <1>1, <2>1, Zenon DEF ControlInv
  <2> QED
    BY <1>1, <1>2, <1>3, <2>1, <2>2, MoveOn, Zenon DEF Working
<1>7. QED
  BY <1>4, <1>5, <1>6, Zenon

\* Functions and drives, on a machine whose segments share no bus.
LEMMA PlainStep ==
  ASSUME ScanInv, StoreInv, GptInv, [BootNext]_bootVars
  PROVE  ScanInv' /\ StoreInv'
<1>1. CASE UNCHANGED bootVars
  <2>1. /\ UNCHANGED <<machine, scanVars>>
        /\ UNCHANGED <<machine, boot, devices, ctrl, port, buffer, drives, found, DRIVES, free, hw, vars>>
    BY <1>1, Zenon DEF bootVars
  <2> QED
    BY <2>1, SameScan, SameStore, Zenon
<1>2. CASE FindDevices
  <2>1. UNCHANGED <<machine, scanVars>>
    BY <1>2, Zenon DEF FindDevices
  <2> QED
    BY <1>2, <2>1, SameScan, FindStep, Zenon
<1>3. CASE GptReturns
  <2>1. UNCHANGED <<machine, scanVars>> /\ boot = "gpt"
    BY <1>3, Zenon DEF GptReturns
  <2>2. res \in Seq(Parts)
    BY <2>1, Zenon DEF GptInv, TableInv
  <2> QED
    BY <1>3, <2>1, <2>2, SameScan, ReturnStep, Zenon
<1>4. CASE DropDrive
  <2>1. UNCHANGED <<machine, scanVars>>
    BY <1>4, Zenon DEF DropDrive
  <2> QED
    BY <1>4, <2>1, SameScan, DropStep, Zenon
<1>5. QED
  BY <1>1, <1>2, <1>3, <1>4, ScanningStep, AhciStep, PlaceStep, Zenon DEF BootNext, Step

LEMMA BootStep == BootInv /\ [BootNext]_bootVars => BootInv'
<1> SUFFICES ASSUME BootInv, [BootNext]_bootVars PROVE BootInv'
  BY Zenon
<1>1. machine \in Machines /\ GptInv
  BY Zenon DEF BootInv
<1>2. machine' = machine
  BY Zenon DEF BootNext, Step, bootVars, InitSegments, PushBus, SeedSegment, ScanBus, VisitFunction, FindDevices,
       Claim, Reset, SkipPort, RebaseFails, Rebase, NotADrive, IdentifyFails, Identify, PortsDone, Abort,
       GptBegins, GptGoesOn, GptReturns, GptFails, DropDrive, StorageUp
<1>3. GptInv'
  BY <1>1, GptNext, Zenon
<1>4. BusesApart(machine) => ScanInv' /\ StoreInv'
  BY <1>1, PlainStep, Zenon DEF BootInv
<1>5. QED
  BY <1>1, <1>2, <1>3, <1>4, Zenon DEF BootInv, BusesApart, InSegment

\* Every function that the kernel can reach is in DEVICES, once, or owned, whatever
\* bridges and functions the machine has, for any segments that share no bus
\* number, and whichever of the steps of ahci::init and gpt::init fail.
THEOREM FunctionsOnce == BootSpec => []FunctionOnce
<1>1. BootInv => FunctionOnce
  <2> SUFFICES ASSUME BootInv, boot \notin {"segments", "scan"}, ~InvalidEntry, BusesApart(machine)
               PROVE  LET listed == [i \in DOMAIN devices |-> devices[i].id]
                          owned  == {f.id : f \in Owned}
                      IN  /\ IsInjective(listed) /\ Range(listed) \intersect owned = {}
                          /\ Range(listed) \union owned = Present
    BY Zenon DEF FunctionOnce
  <2> DEFINE listed == [i \in DOMAIN devices |-> devices[i].id]
             owned  == {f.id : f \in Owned}
  <2>1. /\ devices \in Seq(Fns) /\ IsInjective(devices) /\ Range(devices) \intersect Owned = {}
        /\ Range(devices) \union Owned = PresentFns /\ machine \in Plain
    BY Zenon DEF BootInv, StoreInv, FunctionInv, ScanInv
  <2>2. /\ DOMAIN listed = DOMAIN devices /\ \A i \in DOMAIN devices : listed[i] = devices[i].id
    BY Zenon
  <2> HIDE DEF listed
  <2>3. \A f \in PresentFns : f \in Fns /\ f.id \in Present
    BY Zenon DEF PresentFns
  <2>4. \A i \in DOMAIN devices : devices[i] \in Range(devices) /\ devices[i] \in PresentFns /\ devices[i] \in Fns
    BY <2>1, <2>3, Zenon DEF Range
  <2>5. IsInjective(listed)
    <3>1. ASSUME NEW i \in DOMAIN devices, NEW j \in DOMAIN devices, listed[i] = listed[j] PROVE i = j
      <4>1. devices[i] = devices[j]
        BY <2>1, <2>2, <2>4, <3>1, FunctionById, Zenon
      <4> QED
        BY <2>1, <4>1, Zenon DEF IsInjective
    <3> QED
      BY <2>2, <3>1, Zenon DEF IsInjective
  <2>6. Range(listed) = {f.id : f \in Range(devices)}
    BY <2>2, Zenon DEF Range
  <2>7. \A f \in Range(devices) : \A g \in Owned : f.id # g.id
    BY <2>1, <2>3, FunctionById, Zenon
  <2>8. Range(listed) \intersect owned = {}
    BY <2>6, <2>7, Zenon
  <2>9. ASSUME NEW k \in Present PROVE \E f \in PresentFns : f.id = k
    BY <2>1, PresentFunction, Zenon
  <2>10. Range(listed) \union owned = Present
    <3>1. Range(listed) \union owned = {f.id : f \in PresentFns}
      BY <2>1, <2>6, Zenon
    <3> QED
      BY <2>3, <2>9, <3>1, Zenon
  <2>11. QED
    BY <2>5, <2>8, <2>10, Zenon DEF listed
<1>2. QED
  BY <1>1, BootStart, BootStep, PTL DEF BootSpec

\* On such a machine a drive that is kept has a port that runs on the drive's own
\* buffers, on a controller that nobody else can claim, for every number of
\* controllers, ports and buffers.
THEOREM DrivesAreBacked == BootSpec => []DrivesBacked
<1>1. BootInv => DrivesBacked
  <2> SUFFICES ASSUME BootInv, BusesApart(machine), NEW d \in Live
               PROVE  /\ hw[<<d.fn.id, d.port>>] = [on |-> TRUE, mem |-> {d.mem}]
                      /\ d.mem \notin free \union buffer
                      /\ \A e \in Live \ {d} : e.mem # d.mem
                      /\ d.fn \notin Range(devices)
    BY Zenon DEF DrivesBacked
  <2>1. FunctionInv /\ MemoryInv
    BY Zenon DEF BootInv, StoreInv
  <2>2. d.fn \in Owned
    BY Zenon DEF Owned
  <2> QED
    BY <2>1, <2>2, Zenon DEF FunctionInv, MemoryInv
<1>2. QED
  BY <1>1, BootStart, BootStep, PTL DEF BootSpec

\* The same two facts about gpt::init when storage::init calls it at boot, for one
\* drive after another, whatever the scan and the controllers did before: the
\* partitions found so far are apart, and those that the checksums cover are
\* what was checksummed.
THEOREM BootTables == BootSpec => []PartitionsApart /\ []TableChecked
<1>1. BootInv => PartitionsApart
  <2>1. ASSUME res = <<>> PROVE PartitionsApart
    BY <2>1 DEF PartitionsApart
  <2> QED
    BY <2>1, Zenon DEF BootInv, GptInv, TableInv
<1>2. BootInv => TableChecked
  <2>1. BootInv /\ pc \in {"entries", "Ok"} => TableInv
    BY Zenon DEF BootInv, GptInv
  <2> QED
    BY <2>1, CheckedTable, Zenon DEF TableChecked
<1>3. QED
  BY <1>1, <1>2, BootStart, BootStep, PTL DEF BootSpec

\* The partitions of every drive in DRIVES are apart from one another, as long as
\* the kernel runs: what read and write bound by start and size is never shared.
THEOREM RegisteredDisjoint == BootSpec => []KeptDisjoint
<1>1. BootInv => KeptDisjoint
  BY Zenon DEF BootInv, GptInv
<1>2. QED
  BY <1>1, BootStart, BootStep, PTL DEF BootSpec
=============================================================================
