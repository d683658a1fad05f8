-------------------------------- MODULE Ahci --------------------------------
(***************************************************************************)
(* Transfers of an AHCI drive (drivers/storage/ahci/mod.rs, find_slot of   *)
(* port.rs): callers of read_blocks, write_blocks and sync on several CPUs *)
(* take the drive's lock, cut their request into commands, put each into a *)
(* free slot and poll the port until the device has cleared the slot's bit *)
(* of CI or five seconds have passed.  The device is external: it starts   *)
(* issued commands in any order, moves their data, and stops for good at   *)
(* the first error.  A call whose time is up returns while its command is  *)
(* still in its slot.                                                      *)
(***************************************************************************)
EXTENDS Integers, FiniteSets, FiniteSetsExt

CONSTANTS
  Callers,       \* threads that use the drive
  None,
  Ncs,           \* number of the last command slot
  BlockCount,    \* blocks of the drive
  MaxSectors,    \* MAX_SECTORS_PER_CMD, blocks that one command can ask for
  MaxPrdBlocks,  \* blocks that the descriptors of one table can name
  Requests,      \* [start, count, room, data] of calls; room is the buffer's size,
                 \* and sync is a call for one block without data
  MaxCalls       \* bound on the calls of each caller

ASSUME AhciAssumption ==
  /\ Ncs \in Nat /\ BlockCount \in Nat /\ MaxCalls \in Nat
  /\ MaxSectors \in Nat \ {0} /\ MaxPrdBlocks \in Nat \ {0}
  /\ Requests \subseteq [start : Nat, count : Nat, room : Nat, data : BOOLEAN]
  /\ None \notin Callers /\ None \notin 0..Ncs /\ None \notin Requests

Slots == 0..Ncs

VARIABLES
  lock,     \* holder of AHCIDrive::lock
  job,      \* job[c]: the call c is in
  calls,    \* calls[c]: number of calls c has begun; names the buffer
  ci,       \* bits of PxCI
  table,    \* table[s]: command that the table of slot s describes
  busy,     \* slot of the command the device executes (BSY or DRQ)
  halted,   \* the device has stopped at an error
  fatal,    \* a fatal bit of PxIS
  taskErr,  \* ERR bit of PxTFD
  moved,    \* moved[c]: [block, at] moved for the current call of c (history)
  timedOut  \* calls that have returned Timeout (history)

vars == <<lock, job, calls, ci, table, busy, halted, fatal, taskErr, moved, timedOut>>
device == <<ci, busy, halted, fatal, taskErr, moved>>

Idle == [pc |-> "idle", req |-> None, offset |-> 0, slot |-> 0, result |-> "none"]
NoCommand == [buf |-> None, block |-> 0, at |-> 0, len |-> 0]
CallId(c) == <<c, calls[c]>>

\* The job of c goes on at pc.
Goto(c, pc) == job' = [job EXCEPT ![c].pc = pc]

Return(c, result) ==
  /\ job' = [job EXCEPT ![c].pc = "returned", ![c].result = result]
  /\ lock' = None

-----------------------------------------------------------------------------
(* The driver.                                                             *)

Call(c, r) ==
  /\ job[c].pc = "idle" /\ calls[c] < MaxCalls
  /\ job' = [job EXCEPT ![c] = [Idle EXCEPT !.pc = "lock", !.req = r]]
  /\ calls' = [calls EXCEPT ![c] = @ + 1]
  /\ moved' = [moved EXCEPT ![c] = {}]
  /\ UNCHANGED <<lock, ci, table, busy, halted, fatal, taskErr, timedOut>>

\* The guard, and the checks of read_blocks and write_blocks.
Lock(c) ==
  LET r == job[c].req
  IN  /\ job[c].pc = "lock" /\ lock = None
      /\ IF r.start + r.count > BlockCount \/ r.room < r.count
         THEN Return(c, "error") /\ UNCHANGED lock
         ELSE lock' = c /\ Goto(c, "chunk")
      /\ UNCHANGED <<calls, table, timedOut, device>>

\* Variant: the limit of the descriptor table is not applied.
ChunkNoPrd(r, offset) == Min({r.count - offset, MaxSectors})

Chunk(r, offset) == Min({r.count - offset, MaxSectors, MaxPrdBlocks})

FreeSlots == Slots \ ci

\* find_slot, or the end of the loop over the chunks.
FindSlot(c) ==
  LET j == job[c]
  IN  /\ j.pc = "chunk"
      /\ CASE j.offset >= j.req.count -> Return(c, "ok")
           [] j.offset < j.req.count /\ FreeSlots = {} -> Return(c, "error")
           [] OTHER -> job' = [job EXCEPT ![c].pc = "prepare", ![c].slot = Min(FreeSlots)] /\ UNCHANGED lock
      /\ UNCHANGED <<calls, table, timedOut, device>>

\* The command of a chunk; descriptors that do not fit overwrite the next table.
Prepared(c) ==
  LET j == job[c]
      n == Chunk(j.req, j.offset)
  IN  [s \in Slots |->
         CASE s = j.slot -> [buf |-> CallId(c),
                            block |-> j.req.start + j.offset,
                            at |-> j.offset,
                            len |-> IF j.req.data THEN n ELSE 0]
           [] s = j.slot + 1 /\ n > MaxPrdBlocks -> [table[s] EXCEPT !.len = 0]
           [] OTHER -> table[s]]

\* Variant: the bit of CI is set before the wait for the device.
PrepareAndIssue(c) ==
  /\ job[c].pc = "prepare"
  /\ table' = Prepared(c)
  /\ fatal' = FALSE
  /\ ci' = ci \union {job[c].slot}
  /\ Goto(c, "ready")
  /\ UNCHANGED <<lock, calls, busy, halted, taskErr, moved, timedOut>>

\* send_command up to the write that clears PxIS.
Prepare(c) ==
  /\ job[c].pc = "prepare"
  /\ table' = Prepared(c)
  /\ fatal' = FALSE
  /\ Goto(c, "ready")
  /\ UNCHANGED <<lock, calls, ci, busy, halted, taskErr, moved, timedOut>>

\* Variant: the wait for the device has no limit.
NeverGivesUp(c) == FALSE

GivesUp(c) == TRUE

\* Wait until BSY and DRQ are clear.
WaitReady(c) ==
  /\ job[c].pc = "ready"
  /\ \/ busy = None /\ Goto(c, "issue") /\ UNCHANGED lock
     \/ GivesUp(c) /\ busy # None /\ Return(c, "error")
  /\ UNCHANGED <<calls, table, timedOut, device>>

Issue(c) ==
  /\ job[c].pc = "issue"
  /\ ci' = ci \union {job[c].slot}
  /\ Goto(c, "wait")
  /\ UNCHANGED <<lock, calls, table, busy, halted, fatal, taskErr, moved, timedOut>>

\* Variant: polls for any slot to become free.
AnyCleared(c) == ci # Slots

Cleared(c) == job[c].slot \notin ci

\* Wait until the bit of the slot is clear.
WaitDone(c) ==
  /\ job[c].pc = "wait"
  /\ \/ Cleared(c) /\ Goto(c, "status") /\ UNCHANGED <<lock, timedOut>>
     \/ /\ ~Cleared(c)
        /\ Return(c, "timeout")
        /\ timedOut' = timedOut \union {CallId(c)}
  /\ UNCHANGED <<calls, table, device>>

\* PxIS is read and cleared.
Status(c) ==
  /\ job[c].pc = "status"
  /\ fatal' = FALSE
  /\ IF fatal THEN Return(c, "error") ELSE Goto(c, "task") /\ UNCHANGED lock
  /\ UNCHANGED <<calls, table, timedOut, ci, busy, halted, taskErr, moved>>

\* PxTFD is read; the loop of the caller goes to the next chunk.
TaskFile(c) ==
  LET j == job[c]
  IN  /\ j.pc = "task"
      /\ IF taskErr THEN Return(c, "error")
         ELSE /\ job' = [job EXCEPT ![c].pc = "chunk", ![c].offset = @ + Chunk(j.req, j.offset)]
              /\ UNCHANGED lock
      /\ UNCHANGED <<calls, table, timedOut, device>>

\* The caller gives its buffer back.
Leave(c) ==
  /\ job[c].pc = "returned"
  /\ job' = [job EXCEPT ![c] = Idle]
  /\ moved' = [moved EXCEPT ![c] = {}]
  /\ UNCHANGED <<lock, calls, ci, table, busy, halted, fatal, taskErr, timedOut>>

-----------------------------------------------------------------------------
(* The device.                                                             *)

Active(id) == \E c \in Callers : id = CallId(c) /\ job[c].pc # "idle"

\* The first n blocks of command k are moved.
Move(k, n) ==
  moved' = [c \in Callers |->
              IF Active(k.buf) /\ k.buf = CallId(c)
              THEN moved[c] \union {[block |-> k.block + i, at |-> k.at + i] : i \in 0..(n - 1)}
              ELSE moved[c]]

Start ==
  /\ ~halted /\ busy = None
  /\ \E s \in ci : busy' = s
  /\ taskErr' = FALSE
  /\ UNCHANGED <<lock, job, calls, ci, table, halted, fatal, moved, timedOut>>

Complete ==
  /\ busy # None
  /\ Move(table[busy], table[busy].len)
  /\ ci' = ci \ {busy}
  /\ busy' = None
  /\ UNCHANGED <<lock, job, calls, table, halted, fatal, taskErr, timedOut>>

Fail ==
  /\ busy # None
  /\ \E n \in 0..table[busy].len : Move(table[busy], n)
  /\ halted' = TRUE /\ fatal' = TRUE /\ taskErr' = TRUE
  /\ busy' = None
  /\ UNCHANGED <<lock, job, calls, ci, table, timedOut>>

-----------------------------------------------------------------------------

Init ==
  /\ lock = None
  /\ job = [c \in Callers |-> Idle]
  /\ calls = [c \in Callers |-> 0]
  /\ ci = {} /\ busy = None
  /\ table = [s \in Slots |-> NoCommand]
  /\ halted = FALSE /\ fatal = FALSE /\ taskErr = FALSE
  /\ moved = [c \in Callers |-> {}]
  /\ timedOut = {}

Step(c) ==
  \/ Lock(c) \/ FindSlot(c) \/ Prepare(c) \/ WaitReady(c) \/ Issue(c)
  \/ WaitDone(c) \/ Status(c) \/ TaskFile(c) \/ Leave(c)

Done == \A c \in Callers : job[c].pc = "idle" /\ calls[c] = MaxCalls

Next ==
  \/ \E c \in Callers, r \in Requests : Call(c, r)
  \/ \E c \in Callers : Step(c)
  \/ Start \/ Complete \/ Fail
  \/ Done /\ UNCHANGED vars

Spec == Init /\ [][Next]_vars

\* The kernel's threads keep running and their clocks advance; nothing is
\* assumed of the device.
FairSpec == Spec /\ \A c \in Callers : WF_vars(Step(c))

-----------------------------------------------------------------------------
(* Properties.                                                             *)

\* The blocks a request asks for, each with its place in the buffer.
Wanted(r) == IF r.data THEN {[block |-> r.start + i, at |-> i] : i \in 0..(r.count - 1)} ELSE {}

\* A call that returns Ok has moved exactly the blocks it was asked for, each
\* to its place in the buffer, whatever commands of earlier calls did meanwhile.
OkMeansDone ==
  \A c \in Callers : (job[c].pc = "returned" /\ job[c].result = "ok") => moved[c] = Wanted(job[c].req)

\* A command that the device may still execute belongs to a call that has not
\* returned, unless that call ran into the time limit: only then can the device
\* still touch a buffer that was given back.
RunningOwned ==
  \A s \in ci : Active(table[s].buf) \/ table[s].buf \in timedOut

\* The table of a command is never written while the command is issued, even
\* after its call has given up.
SlotPrivate == [][\A s \in ci \cap ci' : table'[s] = table[s]]_vars

\* Whatever the device does, a call that has the lock returns.
CallReturns ==
  \A c \in Callers : job[c].pc \notin {"idle", "lock"} ~> job[c].pc = "idle"
=============================================================================
