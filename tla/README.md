# A TLA+ model of the MaramOS kernel

MaramOS is a small x86-64 kernel in Rust (`src/kernel/src`). This directory
holds TLA+ modules translated from its source, TLC configurations that check
them on small instances, and TLAPS proofs about them. `PROJECT.json` lists the
runs, the source lines behind every definition, the mutations that show each
property can fail, and the hazards the properties are aimed at.

Paths below are relative to `src/kernel/src`.

## The system

| Part | State | Operations | Interacts with |
|---|---|---|---|
| Buddy allocator `allocators/buddy.rs` | a free list per order | `alloc_range`, `free_range` | slab, both users below |
| Slab sub-allocator `allocators/slab.rs` | table of 64 blocks, a free list in each | `allocate`, `free`, `add_block` | buddy |
| Physical pages `memory/physical.rs` | one buddy allocator under a lock | `init`, `alloc_pages`, `free_frames`, `try_upgrade_hhdm` | everything that owns pages, TLB flushes |
| Kernel heap `memory/heap.rs` | a second buddy allocator | `alloc`, `dealloc` | all collections |
| Interrupt mutex `helpers/interrupt_mutex.rs` | a spin lock and the saved interrupt flag | `lock`, `try_lock`, drop | all shared state |
| Schedulers `scheduling/` | per CPU: running task, ready queue | timer interrupt, `add_task`, `kill_active_task`, `idle_task` | page tables, all CPUs |
| IPIs `smp/ipi.rs` | per CPU: acknowledgement flag, address list | `tlb_shoot_all`, `halt_other_cpus`, two handlers | page tables, panic |
| SMP bring-up `smp/init.rs`, `smp/mod.rs` | table of CPUs, count of online ones | `init`, `boot`, `ap_entry` | runs once |
| Virtual memory `memory/virt.rs`, `allocators/range.rs` | free address ranges, page tables | `map`, `unmap`, `alloc`, `reserve`, `free` | physical pages |
| LemonFS `fs/lemonfs/` | bitmap, cached root directory, superblock | `create`, `delete`, `read`, `write`, `sync` | drives |
| Storage `drivers/storage/` | AHCI command slots, drives, partitions | `send_command`, `read_blocks`, `write_blocks`, GPT scan | PCI, physical pages |
| PCI `drivers/pci/` | segments, list of devices, free or claimed | `init`, `find_devices`, `claim_device`, drop | drivers |
| Keyboard `drivers/ps2/` | decoder and key queue | interrupt handler, `kmain` loop | terminal |
| Display `display/`, `stdout.rs` | frame buffer, cursor, colours | `print`, `log_ok`, `log_warn`, `log_err` | all CPUs |
| ELF loader `elf/` | none | `load` | LemonFS, virtual memory |
| Helpers | `LateInit`, clock, checksum | `init`, `get`, `wait`, `wait_timeout` | all |

The behaviours that are hard to test: several CPUs work on the same queues,
page tables and allocators; interrupts come between any two instructions that
do not run with interrupts disabled; time limits let a CPU go on before another
one has answered; allocator and file system states are the result of long
sequences of calls.

## Modules

| Module | Models |
|---|---|
| `PageSlab` | the slab table as operators on it |
| `BuddyAllocator` | the buddy allocator with its slab, as `memory/physical.rs` fills and uses it |
| `PageOwnership` | abstract specification: runs of pages are owned by at most one caller |
| `Scheduler` | the per-CPU schedulers and work stealing |
| `Shootdown` | TLB flushes after a direct-map upgrade, and halting on a panic |
| `InterruptMutex` | the interrupt-disabling spin lock, in threads and handlers |
| `RangeAllocator` | the list of free address ranges as operators on it |
| `VMem` | an address space: page tables, mappings and free addresses |
| `LemonDisk` | bitmap, link chains and directory chains of LemonFS as operators on a disk |
| `LemonFS` | the calls of a mounted LemonFS |
| `SectorStore` | abstract specification: a call writes only its own sectors |
| `PartitionDrive` | sectors of 512 bytes on drives with larger blocks |
| `Ahci` | transfers of an AHCI drive, beside an external device |
| `Gpt` | reading the partition table |
| `Pci` | enumeration of PCI functions as operators on a machine |
| `StorageInit` | bring-up of PCI, AHCI controllers and their ports, and drives, composed with `Gpt` |
| `Terminal` | the text terminal as operators on its lines of pixels |
| `Console` | from a key to the screen, beside the output of other CPUs |
| `Loader` | from an ELF file to a task |
| `BuddyProofs` | proofs about the allocator |
| `SchedulerProofs` | proofs about the schedulers |
| `InterruptMutexProofs` | proofs about the mutex |
| `AhciProofs` | proofs about AHCI transfers |
| `ShootdownDriveProofs` | proofs about `Shootdown` and, apart from them, about `PartitionDrive` |
| `StorageProofs` | proofs about `Gpt` and `StorageInit` |
| `LoaderProofs` | proofs about the loader |
| `ConsoleProofs` | proofs about `Terminal` and `Console` |
| `MC*` | instances for TLC |

Definitions whose comment starts with "Variant" are not part of the model: they
are the mutated forms that `PROJECT.json` refers to.

### BuddyAllocator, PageSlab

Addresses are counted in smallest blocks. A free list is the set of the
addresses in it, and a slab block's free list the set of its ranges: the order
of a list decides only which block is taken, and the model takes any. The code
runs under one lock, so calls do not interleave; the two loops (`alloc`
splitting, `free_with` merging) still take one step per iteration, so that the
invariants hold in the middle of a call as well. `Carve` and `NextEntry` are the
loops of `physical::init`; `AllocFromSlab`, `AllocPop`, `Split`, `AllocWhole`
and `AllocNewSlab` are the ways through `alloc_range`; `Free`, `FreeZero`,
`Donate`, `Merge` and `PushFreed` those through `free_range`. `Donate` is the
frame of a boot page table that `try_upgrade_hhdm` frees. A failing allocation
changes nothing and has no step. Callers free what they were given, with the
count they asked for, as `PhysPage` and the heap do.

Block sizes are powers of two by definition. The proofs use only the named
assumption `SizeAssumption` about them, which TLC evaluates.

### Scheduler

A step is what happens under one scheduler lock. Each CPU has a boot context
(`kmain` on CPU 0, `idle_task` elsewhere), which is a kernel task like any other
for `sched_logic`. `Tick` is the timer interrupt with the whole of
`sched_logic`, `Kill` a fault of a user task, `MainCreate`, `MainScan` and
`MainAdd` are `add_task` with an iteration of `laziest_queue` per step,
`IdleCount`, `IdleScan`, `IdleTake` and `IdlePut` an iteration of `idle_task`.
`kmain` calls `add_task` once today; the model lets it go on with further tasks.
No code builds `TaskState::Wait`, so that the sleep queue stays empty. Queues are
described by indices (`UserAt`, `Rank`, `Nth`) rather than by recursion, so that
the prover can follow them.

`Tick` ends with the CPU on the stack of the new task. In the code the lock is
released a few instructions earlier, with the old task already in the queue; the
model takes these instructions to be over before another CPU has stolen the task
and started it, which nothing in the code ensures.

### Shootdown

`Upgrade*` is `try_upgrade_hhdm`, `Shoot*` is `tlb_shoot_all`, `Tlb*` the
handler, `Panic*` and `Halt` the panic path. `stale` is the set of CPUs that may
still hold a translation of the replaced table. The time limit of `wait_acks` is
the choice to give up at any moment (`ShootGiveUp`). A panicking CPU that had
interrupts enabled goes on after `halt_loop` starts, because the timer still
switches to other tasks; one that had them disabled stops.

### InterruptMutex

`ReadStatus`, `Disable` and `Acquire` are the three instructions of `lock`;
`Unlock` and `Restore` the two of drop. `Enter` is an interrupt, `Leave` its
return, to the same or, as after a timer interrupt, to another thread. Locks are
numbered along the order in which the kernel nests them.

### RangeAllocator, VMem

Addresses are page numbers; `Top` is where a `usize` wraps. The kernel is built in
release mode, so sums wrap silently: the end of the topmost range is 0, and so is
that of a request which takes this range to its end. `allocate` serves such a request,
and no other one from that range. `VirtAddr` does not wrap: adding to it panics when the sum is
no canonical address (`Canonical`), which `map` meets when it moves past the last page of
a half and `unmap` when it adds up the end of the region. The job is then `Panicked`, and
`Halted` is all that follows. `RequestAssumption` says that no request which starts below the
kernel's image, 2 GiB below the top, is long enough to reach the top. `space` is the half that the address space
covers, the kernel's or a user's, which decides the addresses it starts with. `MmioNew` is `MMIORegion::new`, `MapFixed`
is `map_fixed`, and both start a job whose steps `MapStep`, `MapDone`,
`UnmapStep` and `UnmapDone` are the turns of the loops of `map` and `unmap`, page
size by page size. A step may fail for want of a page-table frame, and then the
code's way back is followed. `Drop` is the end of an address space. Creating and
removing tables on the way is what the `x86_64` crate does (`Needed`,
`Obstructed`, `Sweep`, external). Calls hold the allocator's lock, so that they
do not interleave.

### LemonDisk, LemonFS

A disk is a function from blocks to directory blocks, link blocks or data. Every
call of the file system takes it exclusively (`&mut self`) and is one step.
`Create`, `Delete`, `Write`, `RouteSymlink`, `Sync`, `Remount` and, as the initial
state, `format` are the calls; `Read` and `FileSize` are operators that properties
use. `Remount` is a restart: everything in memory is read again from disk.

Some sequences of calls break the tree: a write that runs out of space half-way, a
write through a symlink whose destination is gone, a restart without `sync`,
reuse of a directory block that still has old entries. The variable `damage`
records the first of these, and nothing happens after it: the properties say
what holds up to there. A workload is a set of calls; a run has one of them from
start to end.

### SectorStore, PartitionDrive

`Write` starts `write_sectors` or `zero_sectors`, `Stage` is one turn of the loop
that fills the staging buffer, `Submit` has the checks of `Drive::write`, `Put`
is one block reaching the drive, and `PutDone` ends a `write_sectors`. `ZeroBlocks`
is `Drive::zero`. `Fail` is an error at any of these points. `SectorStore` is the
abstract view: the refinement mapping takes the sectors of all blocks, and the
new values of the sectors that the current call names. Block sizes divide the
page size; sector numbers are small enough for their byte offset to fit a `u64`.

### Ahci

The steps of a caller are the register accesses of `send_command`: `FindSlot`,
`Prepare`, `WaitReady`, `Issue`, `WaitDone`, `Status`, `TaskFile`. Both polling loops
may give up at any moment at which their condition does not hold. The device
(`Start`, `Complete`, `Fail`) takes issued commands in any order and stops at the
first error, as a port does until software restarts it, which this driver does
not. `moved` is what reached or left the buffer of the current call, `timedOut`
the calls that gave up while their command was issued. `sync` is a request
without data.

### Gpt

One step per read, and one per turn of the loop over the entries. A checksum is
the content it was made of. `turn` makes a turn that changes nothing else a step.
Entries fill blocks without a rest: `PerBlock` of them. `MinCount` is the 128 entries
that a header must have, `MaxBlocks` the 16 MiB that are read at most. The array is read
in whole blocks (`EntriesRead`) and the checksum made of the entries that the header counts
(`Covered`); the loop goes on through the rest of the last block, as in the code.

### Pci, StorageInit

A machine is its MCFG entries with the functions behind them. `SeedSegment` and
`VisitFunction` give `range`, the buses of a segment or behind a bridge, of which
`PushBus` marks and pushes one at a time; `ScanBus` pops a bus (`here`) with the functions
on it that are to be visited (`left`). `Claim`, `Reset`,
`SkipPort`, `Rebase`, `NotADrive`, `Identify` and their failing forms are the way of
`ahci::init` through a controller and its ports; whether a wait ends or runs into
its limit is the hardware's choice. `Abort` is the way out through `?`, with all the
drops on it. `GptBegins`, `GptGoesOn`, `GptReturns` and `GptFails` run `gpt::init`, as
`Gpt` has it, for every drive found, and `DropDrive` drops the drives that are left after
an error. A `PCIFunction` is owned by `ctrl` and by the
drives that share it, and is back in `devices` after the last of them.

`PciID` has no segment number, so that functions on equal bus numbers of two segments have
one identifier. PCI allows such machines, and `SharedBus` is one; `BusesApart` says that a
machine is not. `FunctionOnce` and `DrivesBacked` are about machines with `BusesApart`,
the partition tables and the end of boot about all. The model knows the owner of a
controller by its identifier; on a machine without `BusesApart` it therefore follows only
controllers without ports, which are claimed and dropped again (`StorageAssumption`).

### Terminal, Console

A line of pixels is the sequence of what its columns show: a line of a glyph, in a
colour, or the background. `Scroll` moves whole lines of pixels, those below the last
row of text included. `Console` joins it with the keyboard: `Type` and `Deliver` are
the keyboard and its controller, `Enter`, `HandlerRead` and `HandlerPush` the handler,
`Unmask` is the end of `keyboard::init`, `Check`, `PrintKey` and `Hlt` the loop of `kmain`,
and `Emit` begins one `print` or log call of another CPU. `Lock` takes the lock of `TERMINAL`
for a piece of output, `Put` prints the next character of it or sets a colour, and `Unlock`
comes when nothing is left (`Emitted`, `KeyPrinted`). `page` is a history variable: all output
on a page without end, of which the screen must be the last rows; `typed`, `stream` and
`pressed` are the events so far, their bytes and their keys.

### Loader

The bytes of a file are their positions in it, so that `Seen`, what the program
finds at an address, can be compared with `Asked`, what the headers say. `owned`
is the set of page ranges that somebody owns, the page tables and the L4 table among
them. `Abort` is the way out through `?`: it leads to the function that returns the
error (`ErrorIn`), `Drop` drops one range after another in the order of the language
(`DropOrder`), and `Failed` is the return. In `load` the segments' pages are declared after the
space and go before it; in `LoadedBinary` the space is the first field. `Panic` is a copy that does
not fit (`BadCopy`), or a segment that ends at `USER_END`, which `parse_segments`
accepts and `VirtAddr` cannot hold (`BadAddress`). The page table is a function from pages, which `VMem`
describes in detail. `ByStart` is the set of results that `sort_unstable_by_key` may
give: segments with the same start come in any order.

## Runs

| Run | Shows | Instance |
|---|---|---|
| `buddy` | no block in two places, none lost, slab counts exact, frees find their way back, free buddies merged, ownership as promised | 2 memory map entries of 2 and 12 pages, orders 0 to 3, 2 slab slots, 3 live allocations of 0, 1, 2, 3 or 5 pages |
| `scheduler` | no task lost or doubled, boot contexts and killed tasks stay put, registers belong to the running task, every Ready task runs, every killed one is freed, `kmain` and the idle tasks get their turns, work does not stay on one CPU while another idles | 2 CPUs, 3 tasks, from boot and from a state with all of them on one CPU |
| `shootdown` | an acknowledgement means a flush, late CPUs still flush, halted CPUs hold no lock, upgrades end, a panic halts the others | 3 CPUs, 2 of them upgrade, one panics, an earlier upgrade has just ended |
| `mutex` | holders are not preempted, interrupt state restored, every lock granted | 2 CPUs, a thread and handlers on each, 2 locks |
| `vmem` | addresses neither lost nor handed out twice, regions backed, failures undone, no table left over, requests served exactly if there is room, but for the range at the top | 16 pages in either half, tables of 2 entries, 10 kinds of MMIO request, 57 of fixed ones |
| `lemonfs` | bitmap exact, files read back | 9 blocks; two files of up to 4 blocks in a directory, or a file through a symlink with `sync` and restarts |
| `ahci` | Ok means moved, tables of issued commands untouched, only timed-out commands outlive their call, calls return | 2 callers with 2 calls each, 2 slots, requests of one and two commands |
| `partition_drive` | `SectorStore` is implemented, reads are exact | a partition of 3 blocks of 2 sectors with a block on either side |
| `storage` | PCI functions neither lost nor owned twice, drives run on their own memory, partitions come from a checked table and the rest of its last block, ascend, and overlap neither each other nor the array, boot goes on | 6 machines of up to 2 segments and 5 functions with up to 2 ports each, 3 DMA buffers; drives of 12 blocks, with 12 x 13 pairs of headers and up to 5 entries on the machine with one port, and with a good table or a bad first block on the others |
| `gpt_loop` | violated: `init` does not return for a bad entry, which a comment says is skipped | the drives of `storage`, without the rest |
| `loader` | the program finds what its headers ask for, copies fit, mapping panics only for the last user page, mapped pages are owned, also while an error of `from_binary` drops them | pages of 2 bytes, 16 bytes of memory, files of up to 2 of 128 headers |
| `console` | keys printed once, in order and eventually, the screen is the end of the output | a screen of 2 x 3 characters with a line of pixels to spare, 3 key events, 2 other CPUs with 3 pieces of output |

The source behaves in these further ways, which the modules follow and which
limit what the properties say:

- a bitmap search sees a run only at the end of a bitmap block
  (`fs/lemonfs/bitmap.rs:114`), so that `NoSpace` may come while blocks are free;
- the cached entry of a file in the root directory keeps its old links after a
  write (`fs/lemonfs/mod.rs:306`), so that `ReadBack` is about other files;
- `create` never writes the block of a new directory (`fs/lemonfs/mod.rs:120`),
  so that its parent field is 0;
- a symlink without a destination leads to block 0 (`fs/lemonfs/mod.rs:58`): a file
  created through it is counted as damage;
- `last_usable` may be `block_count` (`drivers/storage/gpt/mod.rs:190`), one more
  than the last block, so that `PartitionsApart` is relative to the header;
- the array of a backup header must lie in front of the usable blocks
  (`drivers/storage/gpt/mod.rs:194`), where only that of a primary header does;
- the walk through the entries does not stop where the array does
  (`drivers/storage/gpt/mod.rs:142`): entries in the rest of its last block are taken without
  a checksum, and `TableChecked` says that only those are;
- a request that takes the range at the top of the kernel's half to its end is served
  (`allocators/range.rs:21`) and makes `map` panic (`memory/virt.rs:146`); `RoomIsFound` says that this
  comes only when there is no room below;
- a segment may end at `USER_END` (`elf/loader.rs:104`), where mapping panics: `ImageRight`
  says that no other file makes it panic;
- an error in `load` gives the pages of the segments back before the space that maps them
  (`elf/loader.rs:45`), which no CPU uses: `MappedOwned` is about this path when the error has
  been returned, and about all others at every moment;
- `PciID` has no segment (`drivers/pci/device.rs:87`), and a function looks its segment up by the bus
  (`drivers/pci/config.rs:107`): where two segments have the same bus number, `FunctionOnce` and
  `DrivesBacked` promise nothing;
- a key that comes between enabling the keyboard and unmasking its interrupt
  (`drivers/ps2/keyboard.rs:36`) loses its edge, and no further one comes while the byte
  is unread: `KeysPrinted` excludes this case, `Missed`, by name;
- a port that was started and turns out to be no drive goes on running on buffers
  that are freed (`drivers/storage/ahci/mod.rs:223`): `DrivesBacked` is about the drives
  that are kept;
- `println!` is two pieces of output (`stdout.rs:76`), and another CPU may print between
  them;
- `passed_nanos` overflows after 2^64 femtoseconds, about five hours
  (`acpi/hpet.rs:40`): waits give up early then, as they may at any moment in the models;
- a timed-out AHCI command goes on (`drivers/storage/ahci/mod.rs:115`), and its
  buffer is given back: `RunningOwned` says that nothing else leads there.

Bounds. The memory of `buddy` holds an entry that starts unaligned, so that
`init` carves blocks of every order, and one slot more than two slab blocks
need, so that the table runs full; three live allocations are enough for a block
of each kind next to a free one, and a request for 5 pages leaves a rest of 3
that a later request fits exactly. `scheduler` also starts from
`Lopsided`, all tasks on one CPU. Boot spreads tasks over the CPUs, so this takes
five tasks of which the two on the other CPU were killed; starting there keeps
the instance small. For the same reason `shootdown` starts from `Late`, the end of
an upgrade that went on without some of the CPUs: their acknowledgement is late for
the next one. Two CPUs give the scheduler a thief and a victim; what holds
on more of them is proved. Three CPUs give an IPI two receivers with different delays. With tables of two
entries a page of each size and a table of each level fits in a half of 16 pages; the
image is in the last L4 entry with a range up to the top behind it, which requests of 4, 6
and 7 pages can take to its end, and some fixed requests end where the user's half does.
A directory or link block of LemonFS holds one entry, and a disk nine blocks, so that
three calls make chains of two blocks and a few more fill the disk. Two
calls per caller and two slots let a command of a first call run during the second
one, and let all slots be taken by such commands. Blocks of two sectors can be
covered in front, behind, whole, or not at all. Two headers are enough for
every relation between two segments, before and after rounding to pages, in
either order. The safety properties of `mutex` are proved for any number of
threads, so that its instance is chosen for the liveness property. The machines of
`storage` have a bridge back to its own bus, one to a bus of another segment and one
whose range is reversed, a segment that could not be mapped, an MCFG entry whose range
is reversed, two segments with the same bus number, a controller without BAR 5 and one that is the second function of
its device; three buffers run out when a
machine has four working ports. A block of a drive has four entries: an array of two leaves
two behind it that are walked and not checksummed, and one of five is longer than what is
read. A screen of two rows scrolls after the second line, and
a row of three columns wraps in the middle of a key's name.

`Coalesced` holds for memory maps in which no two usable entries touch: `init`
carves each entry on its own and never merges across their border.

## Fairness

- `Scheduler`: the timer of every CPU keeps firing (weak fairness of `Tick`);
  boot contexts run only in their time slices, so they get strong fairness.
- `Shootdown`: a CPU that can go on does (weak); a lock that is freed again and
  again is acquired, and a pending interrupt is taken when interrupts are enabled
  again and again (strong). The spin lock is not fair by itself; strong
  fairness stands for the absence of an adversarial schedule.
- `InterruptMutex`: calls and critical sections go on and end (the kernel's
  critical sections are bounded loops), and spinning succeeds if the lock is
  free again and again.
- `Ahci`: a caller that can go on does (weak), which includes that its clock
  reaches the time limit. Nothing is assumed of the device.
- `StorageInit`, `Gpt`: boot goes on (weak), and its clock ends every wait.
- `Console`: the controller delivers bytes, the handler and `kmain` go on, whoever has locked
  `TERMINAL` prints on and unlocks it (interrupts are disabled meanwhile), and the timer
  keeps firing (weak). `kmain` shares CPU 0 with tasks; `NoStarvation` of
  `Scheduler` says that it gets its turn again and again.

## Proofs

All proofs hold for every value of the constants that satisfies the named
assumptions.

**Allocator** (`BuddyProofs`). `PiecesApart` alone is
not inductive: pushing or merging a block keeps blocks apart only if the block
in flight is itself one of the pieces, whole blocks lie in managed memory, and a
slab slot covers the runs cut from it. The inductive invariant `IInv` joins the
type invariant, `PiecesApart`, `PiecesManaged` (every piece is managed memory),
`TableInv` (the slab table and the runs callers hold agree), `CarveInv` (how far
`init` is), `LoopInv` (what the block in flight is), `Covered` and `TableCovered`
(every managed block is in a piece, every block of a slab block in a range or a run)
and `PiecesAligned`. One lemma per action shows that it is preserved. From it follow
`TypeOK`, `PiecesApart`, `SlabExact`, `RoutesMatch` and `NothingLost`.

For the refinement of `PageOwnership`, `HasHome` finds for every run that a caller holds
the piece it lies in. Two runs in different pieces are apart because pieces are, two in
one slab block because `TableInv` says so; an allocation therefore is a step that takes
pages nobody owns, and every other step changes neither owners nor memory, or adds
memory.

`Coalesced` speaks of the time between calls. `MergedInv` says more: at no moment do the
lists hold two buddies of an order, for the block in flight is in no list, and while `init`
carves, every block in them was the largest that its entry allowed (`CarvedMost`). The
theorem has the hypothesis `EntriesApart`, without which it is false.

The few facts about cardinalities that the lemmas need are one hypothesis,
`CardinalityFacts`, which `Cardinalities` proves from the library at the end of the module.

**Schedulers** (`SchedulerProofs`). "Every task is in
exactly one place" counts places, which is awkward to carry through a step. `SchedInv`
says it pairwise instead: no two CPUs run the same task, none is in two positions of
queues or hands, and none is in two kinds of place (`Apart`); every task has a
place, and the boot contexts have theirs on their own CPU (`Home`, `Alive`); `BootInv`
says what the boot contexts hold at each point of their loops, and `Registers` what CR3
and the stacks are. Its first lemmas are about lists: `TakeSplits`
shows that `take_user_tasks` splits a queue into what it takes and what it leaves,
`RotateFacts` that a timer interrupt permutes queue and running task, `PutDown` and
`PickUp` that tasks change between queue and hand without being lost or doubled.
`EveryTaskOnce` and `RegistersMatch` follow for any number of CPUs and tasks.

**IPIs** (`ShootdownDriveProofs`). `AckMeansFlushed` is inductive only with what ties an
acknowledgement to its request. `HHDM_LOCK` is held from the change of a table to the
end of `tlb_shoot_all`, so that one round is under way at a time; within it `ipi_ack` of
a CPU is cleared after its list of addresses was locked, so that a handler of an
earlier round has returned, and one that enters later flushes before it acknowledges.
`RoundInv` states this for the CPUs that the round has reached. It is part of the
inductive invariant `ShootInv`, with who holds which lock (`LockInv`) and where the loops
are (`LoopInv`). `AckMeansFlushed`, `StaleIsPending` and `HaltedHoldNothing` follow for any number of CPUs.

**Mutex** (`InterruptMutexProofs`). That a holder is never preempted rests on the
saved status of nested guards: only the first guard of a thread saves "enabled",
so that dropping an inner one leaves interrupts disabled. `GuardInv` states this
with the agreement of owners and guards, the lock order, and the flag of the CPU.
From it follow `HolderRuns`, `NoSelfWait` and `StatusRestored`.

**AHCI** (`AhciProofs`). That Ok means moved has to survive commands of calls that gave
up, which the device may execute at any later time. `IssuedInv` says that an issued
command is either the one its caller waits for or belongs to a call in `timedOut`,
`TimedOutInv` that the number of such a call is never used again, and `SlotInv` that the slot
a caller fills is free until it is issued and holds its own command from then on.
`MovedInv` says what has been moved at each point of a call: the blocks in front of its
offset, and those of the current chunk once the command is done. After an error a part
of a chunk may have been moved, but then the port has stopped and no command of the call
ends. `OkMeansDone`, `RunningOwned` and `SlotPrivate` follow for any number of callers,
calls, slots and requests.

**Drives** (`ShootdownDriveProofs`). `SectorStore` allows a sector that a call names to be old or new
until the call returns Ok. The invariant follows the two loops of `write_sectors`:
`Ready` says that the blocks staged so far hold, sector by sector, the new value where the
call names the sector and the drive's old value elsewhere; `Written` that the parts
already written hold the new values. A block that reaches the drive then changes sectors
of the call only. Sectors are related to blocks by a few lemmas about quotients
(`DivUnique`, `BlockEnds`, `CeilBounds`). `WritesOnlyItsSectors` and `ReadsItsSectors` hold for
blocks, pages and partitions of any size.

**Partition table** (`StorageProofs`). `TableInv` says at each step of `gpt::init` which
header it holds and that it was checked as the kind it is used as, and in the loop over the
entries (`Walked`) that a partition comes from the entry with its number. An entry that the header counts is in the checksummed
prefix of what was read, and the rest of the last block has fewer than `PerBlock`; `TableChecked` and
`PartitionsApart` follow for any content of the drive, under `GptAssumption`: a block
number plus the length of the array does not wrap around, as the 48-bit block numbers of
ATA cannot. `BootTables` says the same of `gpt::init` as boot calls it, and
`RegisteredDisjoint` of the partitions that reach `DRIVES`.

**PCI and storage at boot** (`StorageProofs`). `FunctionOnce` compares `DEVICES` with the
whole machine, so the scan must be known to miss nothing and to find nothing twice.
`ScanInv` says where a function is at each step: on a bus that is not yet marked, on one
that waits on the stack, at hand, or found, and in one of these only. Every bus of a
segment is marked by the end of the seeding (`Marked`, `Seeding`), which is why bridges,
whatever buses they name, add nothing that can be reached: the bus is marked already, or
it is in no segment with that base (`Own`). From `FindDevices` on functions change hands:
`FunctionInv` says that `DEVICES` and the owners share out the functions present,
`DriveInv` and `ControlInv` whose drives are where, and `MemoryInv` that a buffer is free, in
the hands of `ahci::init` or of exactly one drive, whose port runs on it. One lemma per
action preserves them, and `FunctionOnce` and `DrivesBacked` follow for any machine with
`BusesApart` (`Plain`), any number of ports and any set of buffers. The inductive invariant
`BootInv` has `ScanInv` and `StoreInv` for these machines only, and `GptInv`, on which `BootTables` and
`RegisteredDisjoint` rest, for all of them. `StorageAssumption` has of a machine what `MachineOK` says:
bus numbers are bytes, and a device has a function 0 that tells whether there are others.

**Loader** (`LoaderProofs`). `Sound` says what `parse_segments` leaves of a header: whole
pages of the user's half, with the bytes in them and the part from the file not longer
than the whole. `Shows` says that the pages of a range are mapped to memory that is owned and
has the right bytes, and the invariant that this holds of every segment mapped so far and of
the stack from `map_fixed` on (`SegmentsInv`, `StackInv`), and that nothing else is mapped
(`OnlyThese`). `OwnedInv` says which kinds of range are owned at each point: those that the drop
order of an error there names. While an error drops them (`Over`) the segments are no longer
shown; `OverInv` says instead that what is still mapped in `from_binary` and `new_user` is memory of
the kinds that their order has behind the page tables (`Behind`), so that the mappings go
first. A panic in `map` is a segment that ends at
`UserEnd`, whose last byte a header asks for. `ImageRight` and `MappedOwned` follow for any file and any page size. The proof does
not need the order of the segments: `map_fixed` refuses pages that are mapped.

**Screen** (`ConsoleProofs`). `Agree` says that the frame buffer is the end of the page and the
cursor is in place; `CharStep` that `print_char` keeps it so. Its cases are a glyph, which
goes to one cell of both (`RenderShows`), and a new row, for which `ScrollShows` compares
lines of pixels with lines of text: a line that moves up by a glyph's height is in the same
place of the row before, and the lines that become free, those below the last row
included, are blank. The colours of the terminal and the page agree while
`TERMINAL` is locked; that they also do when the next CPU locks it rests on `EndsWhite`: what
is left to print ends in white. `ScreenShows` follows after every character, for any sizes and any output.

**Keys** (`ConsoleProofs`). `KeysInOrder` is inductive once it says how far the decoder is: `Here`
adds that it has not seen all bytes of the next event. `Recorded` ties the events to the
stream of bytes and to the keys pressed, one event after the other, so that no induction
over the stream is needed. That the decoder ends an event exactly where the keyboard did
rests on `ConsoleAssumption`: the scancodes of no event are the beginning of another's, because
the prefixes E0 and E1 alone end none. `QueueInv` says that `kmain` has a key in
its hand only while it prints.

Only model-checked:

- all liveness properties: they need fairness and ENABLED, which the prover does not handle;
- `LemonFS`: `LemonDisk` walks chains with recursive operators, which the prover cannot use;
- `VMem`: its free list is sorted and merged by folds. What a fold computes for every input
  takes an induction over its argument. The library's induction rules have a predicate
  as parameter, which no installed prover instantiates; where an induction was needed,
  as for the least free slot in `AhciProofs`, it goes through a least counterexample
  (`LeastNat`), and this has not been done for the folds.

## Not modelled

The components with status `not_modelled` or `partly` in `PROJECT.json` give the
reason. In short:

- register layouts, ACPI tables, descriptor tables, boot requests and the handshake
  with the PS/2 controller are sequences of I/O without decisions that depend on
  anything but the hardware;
- system calls have an entry stub and a dispatcher without state, whose only call
  prints a line;
- SMP bring-up and `LateInit` work at boot: `smp::boot` waits for all CPUs before
  interrupts are enabled, and containers are filled before others use them. The modules
  with several CPUs take that order as given;
- LemonFS is not followed after damage, and a call is one step: for a crash or an I/O
  error between two block writes the code makes no promise to compare with;
- TLBs of other CPUs after `unmap` (`memory/virt.rs:153`), and page-table frames freed
  before the flush (`memory/physical.rs:133`): `VMem` has one CPU, and `Shootdown` no frames;
- the instructions between the end of `sched_logic` and the switch of stacks;
- capability lists, MSI and MSI-X, which no driver uses; the image builder in `xtask` runs on
  the host.
