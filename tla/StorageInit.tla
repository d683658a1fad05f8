---------------------------- MODULE StorageInit -----------------------------
(***************************************************************************)
(* Bring-up of the storage stack: pci::init (drivers/pci), storage::init   *)
(* (drivers/storage/mod.rs), ahci::init with its ports                     *)
(* (drivers/storage/ahci) and gpt::init of each drive (module Gpt, whose   *)
(* variables and steps are part of this machine).  PCI functions are moved *)
(* between DEVICES and their owners: a claimed function is owned by the    *)
(* controller that is being brought up and, through an Arc, by each of its *)
(* drives, and the last owner's drop puts it back.  The hardware decides   *)
(* which ports have drives and which waits run into their limit; every     *)
(* wait has one.                                                           *)
(***************************************************************************)
EXTENDS Pci, Gpt, FiniteSets, Functions

CONSTANTS
  Machines,        \* machines of Pci, with the number of ports of a controller
  DriveImages(_),  \* what may be on the drives of a machine
  Buffers          \* DMA memory: one stands for the list, FIS and tables of a port

\* What the firmware's MCFG and the PCI standard promise of a machine: bus
\* numbers are bytes, and a device has function 0, whose header tells whether
\* it has others.
MachineOK(m) ==
  /\ m.ports \in Nat
  /\ m.segments \in Seq([base : Nat, start : 0..255, end : 0..255, mapped : BOOLEAN])
  /\ DOMAIN m.config \subseteq Nat \X (0..255) \X DeviceNumbers \X FunctionNumbers
  /\ \A k \in DOMAIN m.config :
       /\ m.config[k].secondary \in 0..255 /\ m.config[k].subordinate \in 0..255
       /\ <<k[1], k[2], k[3], 0>> \in DOMAIN m.config
       /\ k[4] # 0 => m.config[<<k[1], k[2], k[3], 0>>].multi

\* No bus number is used in two segments.  PCI does not promise it: a segment
\* group has bus numbers of its own, and most machines have one group.
BusesApart(m) ==
  \A i, j \in 1..Len(m.segments) : \A bus \in 0..255 :
    InSegment(m.segments[i], bus) /\ InSegment(m.segments[j], bus) => i = j

\* The model knows an owner by the function it owns.  On machines where two
\* functions may have one identifier it follows only the scan and controllers
\* without ports, which have one owner.
ASSUME StorageAssumption ==
  /\ IsFiniteSet(Buffers)
  /\ \A m \in Machines : /\ MachineOK(m) /\ DriveImages(m) \subseteq Images
                         /\ BusesApart(m) \/ m.ports = 0

VARIABLES
  machine,   \* the machine
  boot,      \* where boot is
  range,     \* pci::scan: the buses that are being pushed, [segment, next, last], ...
  seeded,    \* ... segments whose buses were pushed, ...
  toScan,    \* ... to_scan, a stack of <<segment, bus>>, ...
  scanned,   \* ... scanned_buses, ...
  here,      \* ... the bus that is scanned, ...
  left,      \* ... its functions that are still to be visited, <<device, function>>, ...
  functions, \* ... and the functions found (devices)
  devices,   \* DEVICES
  ids,       \* controllers still to be claimed by storage::init
  ctrl,      \* the function of the controller in ahci::init, as a set
  port,      \* its next port
  buffer,    \* the buffers of that port, as a set
  drives,    \* drives of that controller, and ...
  found,     \* ... of all earlier ones (ahci_devices)
  DRIVES,    \* the drives with their partitions
  free,      \* free DMA memory
  hw         \* hw[<<id, port>>]: the port runs, and the memory it uses

scanVars == <<range, seeded, toScan, scanned, here, left, functions>>
bootVars == <<machine, boot, scanVars, devices, ids, ctrl, port, buffer, drives, found, DRIVES, free, hw, vars>>
probe == <<port, buffer, drives>>

PortOff == [on |-> FALSE, mem |-> {}]

\* gpt::init does not run.
GptOff ==
  /\ image = <<>> /\ pc = "off" /\ header = <<>> /\ isBackup = FALSE
  /\ entries = <<>> /\ offset = 0 /\ res = <<>> /\ turn = 0

GptOver ==
  /\ image' = <<>> /\ pc' = "off" /\ header' = <<>> /\ isBackup' = FALSE
  /\ entries' = <<>> /\ offset' = 0 /\ res' = <<>> /\ turn' = 0

\* The identifier of the function that has its header at k.
Id(k) == <<k[2], k[3], k[4]>>

\* The drives in DRIVES.
Kept == {d.inner : d \in Range(DRIVES)}

-----------------------------------------------------------------------------
(* pci::init.                                                              *)

InvalidEntry == \E i \in DOMAIN machine.segments : machine.segments[i].start > machine.segments[i].end

\* init_segments
InitSegments ==
  /\ boot = "segments"
  /\ boot' = IF InvalidEntry THEN "failed" ELSE "scan"
  /\ UNCHANGED <<machine, scanVars, devices, ids, ctrl, probe, found, DRIVES, free, hw, vars>>

BusRange(s, first, last) == [segment |-> s, next |-> first, last |-> last]
NoRange == BusRange(<<>>, 1, 0)
Pushing == range.next <= range.last

\* One turn of the loops over a range of buses: bus_scanned, mark_scanned, push.
PushBus ==
  /\ boot = "scan" /\ Pushing
  /\ LET key == <<range.segment.base, range.next>>
     IN  IF key \in scanned THEN UNCHANGED <<scanned, toScan>>
         ELSE /\ scanned' = scanned \union {key}
              /\ toScan' = Append(toScan, <<range.segment, range.next>>)
  /\ range' = [range EXCEPT !.next = @ + 1]
  /\ UNCHANGED <<machine, boot, seeded, here, left, functions, devices, ids, ctrl, probe, found, DRIVES, free, hw, vars>>

\* The buses of the next segment.
SeedSegment ==
  /\ boot = "scan" /\ ~Pushing /\ seeded < Len(machine.segments)
  /\ seeded' = seeded + 1
  /\ \E s \in {machine.segments[seeded + 1]} : range' = BusRange(s, s.start, s.end)
  /\ UNCHANGED <<machine, boot, toScan, scanned, here, left, functions, devices, ids, ctrl, probe, found, DRIVES, free, hw, vars>>

\* A bus is popped.
ScanBus ==
  /\ boot = "scan" /\ ~Pushing /\ seeded = Len(machine.segments) /\ left = {} /\ toScan # <<>>
  /\ here' = toScan[Len(toScan)] /\ toScan' = SubSeq(toScan, 1, Len(toScan) - 1)
  /\ left' = Visited(machine, here'[1], here'[2])
  /\ UNCHANGED <<machine, boot, range, seeded, scanned, functions, devices, ids, ctrl, probe, found, DRIVES, free, hw, vars>>

\* visit_function of the next one.  The buses of a bridge are pushed.
VisitFunction ==
  /\ boot = "scan" /\ ~Pushing
  /\ \E v \in left :
       /\ \A w \in left : w = v \/ Precedes(v, w)
       /\ left' = left \ {v}
       /\ LET new == NewFunction(machine, here[2], v[1], v[2])
              h   == Header(machine, here[1], here[2], v[1], v[2])
          IN  IF new = {} THEN UNCHANGED <<functions, range>>
              ELSE /\ \E f \in new : functions' = Append(functions, f)
                   /\ IF \E b \in h : b.bridge
                      THEN \E b \in h : range' = BusRange(here[1], b.secondary, b.subordinate)
                      ELSE UNCHANGED range
  /\ UNCHANGED <<machine, boot, seeded, toScan, scanned, here, devices, ids, ctrl, probe, found, DRIVES, free, hw, vars>>

\* The functions are put into DEVICES, and storage::init asks for the controllers.
FindDevices ==
  /\ boot = "scan" /\ ~Pushing /\ seeded = Len(machine.segments) /\ left = {} /\ toScan = <<>>
  /\ devices' = devices \o functions
  /\ ids' = [i \in DOMAIN SelectSeq(devices', LAMBDA d : d.class = "ahci") |->
               SelectSeq(devices', LAMBDA d : d.class = "ahci")[i].id]
  /\ boot' = "claim"
  /\ UNCHANGED <<machine, scanVars, ctrl, probe, found, DRIVES, free, hw, vars>>

-----------------------------------------------------------------------------
(* ahci::init.                                                             *)

\* Variant: claim_device hands out a copy.
ClaimCopy(pos) == devices

\* What claim_device leaves in DEVICES.
Claimed(pos) == SubSeq(devices, 1, pos - 1) \o SubSeq(devices, pos + 1, Len(devices))

\* Where a function is in DEVICES.
Positions(id) == {i \in DOMAIN devices : devices[i].id = id}

\* claim_device, of the first one with this identifier.
Claim ==
  /\ boot = "claim" /\ ids # <<>>
  /\ ids' = Tail(ids)
  /\ IF Positions(Head(ids)) = {} THEN UNCHANGED <<boot, devices, ctrl>>
     ELSE \E pos \in Positions(Head(ids)) :
            /\ \A i \in Positions(Head(ids)) : pos <= i
            /\ boot' = "reset" /\ ctrl' = {devices[pos]} /\ devices' = Claimed(pos)
  /\ UNCHANGED <<machine, scanVars, probe, found, DRIVES, free, hw, vars>>

Ctrl == CHOOSE f \in ctrl : TRUE

\* ahci::init returns an error, at whatever point: its drives and the buffers of
\* the port are dropped, and with the last owner the function.
Abort ==
  /\ boot' = "claim"
  /\ devices' = Append(devices, Ctrl)
  /\ ctrl' = {}
  /\ free' = free \union buffer \union {d.mem : d \in Range(drives)}
  /\ buffer' = {} /\ drives' = <<>> /\ port' = 0
  /\ UNCHANGED <<machine, scanVars, ids, found, DRIVES, vars>>

\* Up to the reset of the controller, which turns its ports off.  BAR 5 may be
\* absent, the registers may not be mapped, 64 bit addresses may be missing and
\* the waits for the firmware and for the reset may run out.
Reset ==
  /\ boot = "reset"
  /\ \/ /\ 5 \in Ctrl.bars
        /\ boot' = "port"
        /\ hw' = [p \in DOMAIN hw |-> IF p[1] = Ctrl.id THEN PortOff ELSE hw[p]]
        /\ UNCHANGED <<machine, scanVars, devices, ids, ctrl, probe, found, DRIVES, free, vars>>
     \/ Abort /\ UNCHANGED hw

\* Variant: a port that gives no drive is tried again.
TryAgain == port

NextPort == port + 1

\* The port is not implemented, has no device or the device does not come up.
SkipPort ==
  /\ boot = "port" /\ port < machine.ports
  /\ port' = NextPort
  /\ UNCHANGED <<machine, boot, scanVars, devices, ids, ctrl, buffer, drives, found, DRIVES, free, hw, vars>>

\* A page cannot be allocated, or stop_cmd or start_cmd of rebase times out: at
\* most the addresses were written.
RebaseFails ==
  /\ boot = "port" /\ port < machine.ports
  /\ Abort
  /\ UNCHANGED hw

\* rebase: the port uses the buffers and runs.
Rebase ==
  /\ boot = "port" /\ port < machine.ports
  /\ \E b \in free :
       /\ buffer' = {b} /\ free' = free \ {b}
       /\ hw' = [hw EXCEPT ![<<Ctrl.id, port>>] = [on |-> TRUE, mem |-> {b}]]
  /\ boot' = "identify"
  /\ UNCHANGED <<machine, scanVars, devices, ids, ctrl, port, drives, found, DRIVES, vars>>

\* FR is not set in time, or the signature is not that of a drive: the buffers are
\* dropped, and the port goes on running.
NotADrive ==
  /\ boot = "identify"
  /\ free' = free \union buffer /\ buffer' = {}
  /\ port' = NextPort /\ boot' = "port"
  /\ UNCHANGED <<machine, scanVars, devices, ids, ctrl, drives, found, DRIVES, hw, vars>>

\* IDENTIFY fails.
IdentifyFails ==
  /\ boot = "identify"
  /\ Abort
  /\ UNCHANGED hw

Identify ==
  /\ boot = "identify"
  /\ drives' = Append(drives, [fn |-> Ctrl, port |-> port, mem |-> CHOOSE b \in buffer : TRUE])
  /\ buffer' = {}
  /\ port' = NextPort /\ boot' = "port"
  /\ UNCHANGED <<machine, scanVars, devices, ids, ctrl, found, DRIVES, free, hw, vars>>

\* Variant: drives do not share the function, whose only owner is ahci::init.
ReleaseAlways(fn, kept) == <<fn>>

\* What is put into DEVICES when an owner of fn goes and the drives kept stay.
Release(fn, kept) == IF \E d \in kept : d.fn = fn THEN <<>> ELSE <<fn>>

\* ahci::init returns its drives.
PortsDone ==
  /\ boot = "port" /\ port = machine.ports
  /\ found' = found \o drives
  /\ devices' = devices \o Release(Ctrl, Range(drives))
  /\ ctrl' = {} /\ drives' = <<>> /\ port' = 0 /\ boot' = "claim"
  /\ UNCHANGED <<machine, scanVars, ids, buffer, DRIVES, free, hw, vars>>

-----------------------------------------------------------------------------
(* The rest of storage::init: gpt::init of every drive (module Gpt).       *)

\* gpt::init of the next drive begins ...
GptBegins ==
  /\ boot = "claim" /\ ids = <<>> /\ found # <<>>
  /\ image' \in DriveImages(machine)
  /\ pc' = "mbr" /\ isBackup' = FALSE /\ header' = image'.headers[1]
  /\ entries' = <<>> /\ offset' = 0 /\ res' = <<>> /\ turn' = 0
  /\ boot' = "gpt"
  /\ UNCHANGED <<machine, scanVars, devices, ids, ctrl, probe, found, DRIVES, free, hw>>

\* ... goes on ...
GptGoesOn ==
  /\ boot = "gpt" /\ GptStep
  /\ UNCHANGED <<machine, boot, scanVars, devices, ids, ctrl, probe, found, DRIVES, free, hw>>

\* ... and has found the partitions.
GptReturns ==
  /\ boot = "gpt" /\ pc = "Ok"
  /\ DRIVES' = Append(DRIVES, [inner |-> Head(found), partitions |-> res])
  /\ found' = Tail(found)
  /\ boot' = "claim"
  /\ GptOver
  /\ UNCHANGED <<machine, scanVars, devices, ids, ctrl, probe, free, hw>>

\* gpt::init fails, and storage::init returns the error: this drive and those
\* behind it ...
GptFails ==
  /\ boot = "gpt" /\ pc \in Results \ {"Ok"}
  /\ boot' = "dropping"
  /\ GptOver
  /\ UNCHANGED <<machine, scanVars, devices, ids, ctrl, probe, found, DRIVES, free, hw>>

\* ... are dropped, one by one.
DropDrive ==
  /\ boot = "dropping"
  /\ devices' = devices \o Release(Head(found).fn, Kept \union Range(Tail(found)))
  /\ free' = free \union {Head(found).mem}
  /\ found' = Tail(found)
  /\ boot' = IF found' = <<>> THEN "failed" ELSE "dropping"
  /\ UNCHANGED <<machine, scanVars, ids, ctrl, probe, DRIVES, hw, vars>>

StorageUp ==
  /\ boot = "claim" /\ ids = <<>> /\ found = <<>>
  /\ boot' = "up"
  /\ UNCHANGED <<machine, scanVars, devices, ids, ctrl, probe, found, DRIVES, free, hw, vars>>

-----------------------------------------------------------------------------

BootInit ==
  /\ machine \in Machines
  /\ boot = "segments"
  /\ range = NoRange /\ seeded = 0 /\ toScan = <<>> /\ scanned = {}
  /\ here = <<>> /\ left = {} /\ functions = <<>>
  /\ devices = <<>> /\ ids = <<>> /\ ctrl = {} /\ port = 0 /\ buffer = {}
  /\ drives = <<>> /\ found = <<>> /\ DRIVES = <<>>
  /\ free = Buffers
  /\ GptOff
  /\ hw = [p \in {Id(k) : k \in DOMAIN machine.config} \X (0..(machine.ports - 1)) |-> PortOff]

Step ==
  \/ InitSegments \/ PushBus \/ SeedSegment \/ ScanBus \/ VisitFunction \/ FindDevices
  \/ Claim \/ Reset \/ SkipPort \/ RebaseFails \/ Rebase
  \/ NotADrive \/ IdentifyFails \/ Identify \/ PortsDone
  \/ GptBegins \/ GptGoesOn \/ GptReturns \/ GptFails \/ DropDrive \/ StorageUp

Ended == boot \in {"up", "failed"}

BootNext == Step \/ (Ended /\ UNCHANGED bootVars)

\* The boot processor runs, and its clock ends every wait.
BootSpec == BootInit /\ [][BootNext]_bootVars /\ WF_bootVars(Step)

-----------------------------------------------------------------------------
(* Properties.                                                             *)

Live == Range(drives) \union Range(found) \union Kept

Owned == ctrl \union {d.fn : d \in Live}

\* The functions of the machine that the kernel can reach.
Present ==
  {Id(k) : k \in {k \in DOMAIN machine.config : \E i \in DOMAIN machine.segments :
     machine.segments[i].mapped /\ machine.segments[i].base = k[1] /\ InSegment(machine.segments[i], k[2])}}

\* On a machine whose segments share no bus number, from the scan on every
\* function of the machine is either in DEVICES, once, or owned by a controller
\* or its drives: none is found twice, none is handed out twice, and none is
\* lost by a failed ahci::init or gpt::init.
FunctionOnce ==
  (boot \notin {"segments", "scan"} /\ ~InvalidEntry /\ BusesApart(machine)) =>
    LET listed == [i \in DOMAIN devices |-> devices[i].id]
        owned  == {f.id : f \in Owned}
    IN  /\ IsInjective(listed)
        /\ Range(listed) \intersect owned = {}
        /\ Range(listed) \union owned = Present

\* On such a machine a drive that is kept has a port that runs on the drive's own
\* buffers, which nobody else has, on a controller that nobody can claim.
DrivesBacked ==
  BusesApart(machine) =>
    \A d \in Live :
      /\ hw[<<d.fn.id, d.port>>] = [on |-> TRUE, mem |-> {d.mem}]
      /\ d.mem \notin free \union buffer
      /\ \A e \in Live \ {d} : e.mem # d.mem
      /\ d.fn \notin Range(devices)

\* gpt::init is at an entry that it skips without going on to the next one.
AtBadEntry == boot = "gpt" /\ pc = "entries" /\ offset < Len(entries) /\ ~EntryOK(entries[offset + 1])

\* Whatever bridges name and whatever the hardware does, pci::init and
\* storage::init return, unless a partition table has a bad entry.
BootEnds == <>(Ended \/ AtBadEntry)
=============================================================================
