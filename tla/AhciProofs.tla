----------------------------- MODULE AhciProofs -----------------------------
(***************************************************************************)
(* Proofs about the transfers of an AHCI drive: what a call that returns   *)
(* Ok has moved, which buffers the device may still touch, and that no     *)
(* table of an issued command is written, for any number of callers,       *)
(* slots, calls and requests.                                              *)
(***************************************************************************)
EXTENDS Ahci, TLAPS, WellFoundedInduction

PCs == {"idle", "lock", "chunk", "prepare", "ready", "issue", "wait", "status", "task", "returned"}
Holding == {"chunk", "prepare", "ready", "issue", "wait", "status", "task"}

Jobs == [pc : PCs, req : Requests \union {None}, offset : Nat, slot : Slots,
         result : {"none", "ok", "error", "timeout"}]

Commands == [buf : (Callers \X Nat) \union {None}, block : Nat, at : Nat, len : Nat]

\* Every variable keeps its type; a call that has begun has a request, and its
\* offset never passes the end of that request.
TypeOK ==
  /\ lock \in Callers \union {None}
  /\ job \in [Callers -> Jobs]
  /\ \A c \in Callers : job[c].pc # "idle" => job[c].req \in Requests /\ job[c].offset <= job[c].req.count
  /\ calls \in [Callers -> Nat]
  /\ ci \subseteq Slots
  /\ table \in [Slots -> Commands]
  /\ busy \in Slots \union {None}
  /\ halted \in BOOLEAN /\ fatal \in BOOLEAN /\ taskErr \in BOOLEAN
  /\ moved \in [Callers -> SUBSET [block : Nat, at : Nat]]
  /\ timedOut \subseteq Callers \X Nat

\* The lock has the caller that is between its checks and its return.
LockInv == \A c \in Callers : job[c].pc \in Holding <=> lock = c

\* The device executes an issued command, and nothing after an error.
DeviceInv == (busy # None => busy \in ci) /\ (halted => busy = None)

\* The command that c builds for the current chunk of job j.
CommandOf(c, j) ==
  [buf |-> CallId(c), block |-> j.req.start + j.offset, at |-> j.offset,
   len |-> IF j.req.data THEN Chunk(j.req, j.offset) ELSE 0]

\* The slot a caller fills is free until it is issued and after it is done,
\* and holds the caller's command from then on.
SlotOk(c, j) ==
  /\ j.pc \in {"prepare", "ready", "issue", "status", "task"} => j.slot \notin ci
  /\ j.pc \in {"prepare", "ready", "issue", "wait", "status", "task"} => j.offset < j.req.count
  /\ j.pc \in {"ready", "issue", "wait", "status", "task"} => table[j.slot] = CommandOf(c, j)

SlotInv == \A c \in Callers : SlotOk(c, job[c])

\* An issued command is the one its caller waits for, or its call has timed out.
IssuedInv ==
  \A s \in ci : \/ table[s].buf \in timedOut
                \/ \E c \in Callers : job[c].pc = "wait" /\ job[c].slot = s /\ table[s].buf = CallId(c)

\* A call that has timed out is over, and its number is not used again.
TimedOutInv ==
  \A c \in Callers : \A id \in timedOut : id[1] = c =>
    /\ id[2] <= calls[c]
    /\ id[2] = calls[c] => job[c].pc = "idle" \/ (job[c].pc = "returned" /\ job[c].result = "timeout")

\* The first n blocks of request r, each with its place in the buffer.
Prefix(r, n) == IF r.data THEN {[block |-> r.start + i, at |-> i] : i \in 0..(n - 1)} ELSE {}

\* Between two commands exactly the blocks before the offset have been moved;
\* a command that is done has added its chunk, and one that may have moved a
\* part of it is never reported as done, for the device has stopped.
MovedOk(c, j) ==
  /\ j.pc \in {"lock", "chunk", "prepare", "ready", "issue"} => moved[c] = Prefix(j.req, j.offset)
  /\ j.pc \in {"status", "task"} => moved[c] = Prefix(j.req, j.offset + Chunk(j.req, j.offset))
  /\ j.pc = "wait" /\ j.slot \notin ci => moved[c] = Prefix(j.req, j.offset + Chunk(j.req, j.offset))
  /\ j.pc = "wait" /\ j.slot \in ci => moved[c] = Prefix(j.req, j.offset) \/ halted
  /\ j.pc = "returned" /\ j.result = "ok" => moved[c] = Prefix(j.req, j.req.count)

MovedInv == \A c \in Callers : MovedOk(c, job[c])

IInv ==
  /\ TypeOK /\ LockInv /\ DeviceInv /\ SlotInv /\ IssuedInv /\ TimedOutInv /\ MovedInv

-----------------------------------------------------------------------------
(* The operators.                                                          *)

\* A set of natural numbers that is not empty has a least element.
LEMMA LeastNat ==
  ASSUME NEW T, T \subseteq Nat, T # {}
  PROVE  \E n \in T : \A m \in T : n <= m
<1>1. PICK x \in T : \A y \in T : ~(<<y, x>> \in OpToRel(<, Nat))
  BY NatLessThanWellFounded, WFMin, Zenon
<1>2. \A y \in T : x \in Nat /\ y \in Nat /\ ~(y < x)
  BY <1>1, Zenon DEF OpToRel
<1>3. \A y \in T : x <= y
  BY <1>2
<1>4. QED
  BY <1>3, Zenon

\* Min picks it, so find_slot returns a slot that is free.
LEMMA MinIsLeast ==
  ASSUME NEW T, T \subseteq Nat, T # {}
  PROVE  Min(T) \in T /\ \A m \in T : Min(T) <= m
<1>1. \E n \in T : \A m \in T : n <= m
  BY LeastNat, Zenon
<1>2. QED
  BY <1>1, Zenon DEF Min

\* A chunk has at least one block, fits the descriptor table, and does not
\* pass the end of the request.
LEMMA ChunkBounds ==
  ASSUME NEW r \in Requests, NEW o \in Nat, o < r.count
  PROVE  /\ Chunk(r, o) \in Nat \ {0}
         /\ Chunk(r, o) <= MaxPrdBlocks
         /\ o + Chunk(r, o) <= r.count
<1> DEFINE T == {r.count - o, MaxSectors, MaxPrdBlocks}
<1>1. r.count \in Nat
  BY AhciAssumption, Zenon
<1>2. T \subseteq Nat /\ T # {} /\ 0 \notin T
  BY <1>1, AhciAssumption
<1>3. Min(T) \in T /\ \A m \in T : Min(T) <= m
  BY <1>2, MinIsLeast, Zenon
<1>4. Chunk(r, o) \in T /\ Chunk(r, o) <= MaxPrdBlocks /\ Chunk(r, o) <= r.count - o
  BY <1>3, Zenon DEF Chunk
<1>5. QED
  BY <1>1, <1>2, <1>4

\* The blocks of a command that starts at the offset are the next ones.
LEMMA PrefixGrows ==
  ASSUME NEW r \in Requests, NEW o \in Nat, NEW n \in Nat, r.data
  PROVE  Prefix(r, o + n) =
           Prefix(r, o) \union {[block |-> r.start + o + i, at |-> o + i] : i \in 0..(n - 1)}
<1> DEFINE More == {[block |-> r.start + o + i, at |-> o + i] : i \in 0..(n - 1)}
<1>1. r.start \in Nat
  BY AhciAssumption, Zenon
<1>2. ASSUME NEW x \in Prefix(r, o + n)
      PROVE  x \in Prefix(r, o) \union More
  <2>1. PICK i \in 0..(o + n - 1) : x = [block |-> r.start + i, at |-> i]
    BY <1>2 DEF Prefix
  <2>2. CASE i <= o - 1
    <3>1. i \in 0..(o - 1)
      BY <2>2
    <3>2. QED
      BY <2>1, <3>1, Zenon DEF Prefix
  <2>3. CASE ~(i <= o - 1)
    <3>1. i - o \in 0..(n - 1) /\ r.start + i = r.start + o + (i - o) /\ i = o + (i - o)
      BY <1>1, <2>3
    <3>2. QED
      BY <2>1, <3>1, Zenon
  <2>4. QED
    BY <2>2, <2>3, Zenon
<1>3. Prefix(r, o) \subseteq Prefix(r, o + n)
  BY DEF Prefix
<1>4. ASSUME NEW x \in More
      PROVE  x \in Prefix(r, o + n)
  <2>1. PICK i \in 0..(n - 1) : x = [block |-> r.start + o + i, at |-> o + i]
    BY <1>4, Zenon
  <2>2. o + i \in 0..(o + n - 1) /\ r.start + o + i = r.start + (o + i)
    BY <1>1
  <2>3. QED
    BY <2>1, <2>2 DEF Prefix
<1>5. QED
  BY <1>2, <1>3, <1>4, Zenon

-----------------------------------------------------------------------------
(* Init and the steps of the driver.                                       *)

LEMMA InitInv == Init => IInv
<1> SUFFICES ASSUME Init PROVE IInv
  BY Zenon
<1> USE AhciAssumption DEF Init
<1>1. TypeOK
  <2>1. Idle \in Jobs /\ Idle.pc = "idle"
    BY DEF Jobs, PCs, Idle, Slots
  <2>2. NoCommand \in Commands
    BY Zenon DEF Commands, NoCommand
  <2>3. QED
    BY <2>1, <2>2, Zenon DEF TypeOK
<1>2. LockInv /\ DeviceInv /\ SlotInv /\ IssuedInv /\ TimedOutInv /\ MovedInv
  BY Zenon DEF LockInv, DeviceInv, SlotInv, SlotOk, IssuedInv, TimedOutInv, MovedInv, MovedOk, Idle, Holding
<1>3. QED
  BY <1>1, <1>2, Zenon DEF IInv

\* A step that changes only the job of c, the lock and the fatal bits keeps the
\* invariant when the new job satisfies its part of it.
LEMMA LocalStep ==
  ASSUME IInv, NEW c \in Callers, NEW j \in Jobs,
         job' = [job EXCEPT ![c] = j],
         UNCHANGED <<calls, ci, table, busy, halted, taskErr, moved, timedOut>>,
         fatal' \in BOOLEAN,
         job[c].pc \in Holding \union {"lock"},
         job[c].pc = "lock" => lock = None,
         job[c].pc = "wait" => job[c].slot \notin ci,
         lock' = IF j.pc \in Holding THEN c ELSE None,
         j.pc \notin {"idle", "wait"},
         j.req = job[c].req, j.offset <= j.req.count,
         SlotOk(c, j), MovedOk(c, j)
  PROVE  IInv'
<1> USE DEF IInv
<1>1. /\ job \in [Callers -> Jobs] /\ job'[c] = j
      /\ \A d \in Callers \ {c} : job'[d] = job[d]
  BY Zenon DEF TypeOK
<1>2. lock \in {c, None} /\ c # None /\ None \notin Callers
  BY AhciAssumption, Zenon DEF LockInv
<1>3. job[c].pc # "idle"
  BY Zenon DEF Holding
<1>4. TypeOK'
  <2>1. job' \in [Callers -> Jobs] /\ lock' \in Callers \union {None}
    BY <1>1, Zenon
  <2>2. \A d \in Callers : job'[d].pc # "idle" =>
                            job'[d].req \in Requests /\ job'[d].offset <= job'[d].req.count
    BY <1>1, <1>3, Zenon DEF TypeOK
  <2>3. QED
    BY <2>1, <2>2, Zenon DEF TypeOK
<1>5. LockInv'
  BY <1>1, <1>2, Zenon DEF LockInv
<1>6. DeviceInv'
  BY Zenon DEF DeviceInv
<1>7. SlotInv'
  BY <1>1 DEF SlotInv, SlotOk, CommandOf, CallId
<1>8. IssuedInv'
  <2>1. SUFFICES ASSUME NEW s \in ci, table[s].buf \notin timedOut
                 PROVE  \E d \in Callers : job'[d].pc = "wait" /\ job'[d].slot = s /\ table[s].buf = CallId(d)
    BY DEF IssuedInv, CallId
  <2>2. PICK d \in Callers : job[d].pc = "wait" /\ job[d].slot = s /\ table[s].buf = CallId(d)
    BY <2>1, Zenon DEF IssuedInv
  <2>3. d # c
    BY <2>1, <2>2, Zenon
  <2>4. QED
    BY <1>1, <2>2, <2>3, Zenon
<1>9. TimedOutInv'
  <2>1. SUFFICES ASSUME NEW d \in Callers, NEW id \in timedOut, id[1] = d
                 PROVE  /\ id[2] <= calls[d]
                        /\ id[2] = calls[d] =>
                             job'[d].pc = "idle" \/ (job'[d].pc = "returned" /\ job'[d].result = "timeout")
    BY Zenon DEF TimedOutInv
  <2>2. CASE d = c
    BY <2>1, <2>2, Zenon DEF TimedOutInv, Holding
  <2>3. CASE d # c
    BY <1>1, <2>1, <2>3, Zenon DEF TimedOutInv
  <2>4. QED
    BY <2>2, <2>3, Zenon
<1>10. MovedInv'
  BY <1>1 DEF MovedInv, MovedOk
<1>11. QED
  BY <1>4, <1>5, <1>6, <1>7, <1>8, <1>9, <1>10, Zenon

LEMMA LockStep ==
  ASSUME IInv, NEW c \in Callers, Lock(c)
  PROVE  IInv'
<1> DEFINE r == job[c].req
<1> DEFINE bad == r.start + r.count > BlockCount \/ r.room < r.count
<1> DEFINE j == IF bad THEN [job[c] EXCEPT !.pc = "returned", !.result = "error"]
                ELSE [job[c] EXCEPT !.pc = "chunk"]
<1>1. job[c] \in Jobs /\ job[c].pc = "lock" /\ lock = None /\ job \in [Callers -> Jobs]
  BY Zenon DEF IInv, TypeOK, Lock
<1>2. /\ j \in Jobs /\ j.req = job[c].req /\ j.offset = job[c].offset
      /\ j.pc = (IF bad THEN "returned" ELSE "chunk")
      /\ j.pc = "returned" => j.result = "error"
  BY <1>1, Zenon DEF Jobs, PCs
<1>3. job' = [job EXCEPT ![c] = j] /\ lock' = IF bad THEN None ELSE c
  <2>1. CASE bad
    BY <1>1, <2>1, Zenon DEF Lock, Return
  <2>2. CASE ~bad
    BY <1>1, <2>2, Zenon DEF Lock, Goto
  <2>3. QED
    BY <2>1, <2>2, Zenon
<1>4. SlotOk(c, j) /\ MovedOk(c, j) /\ j.offset <= j.req.count
  BY <1>1, <1>2 DEF IInv, TypeOK, SlotOk, MovedInv, MovedOk
<1>5. UNCHANGED <<calls, ci, table, busy, halted, taskErr, moved, timedOut>> /\ fatal' \in BOOLEAN
  BY Zenon DEF Lock, device, IInv, TypeOK
<1>6. lock' = IF j.pc \in Holding THEN c ELSE None
  BY <1>2, <1>3 DEF Holding
<1> HIDE DEF j
<1>7. j.pc \notin {"idle", "wait"}
  BY <1>2, Zenon
<1>8. QED
  BY <1>1, <1>2, <1>3, <1>4, <1>5, <1>6, <1>7, LocalStep, Zenon

LEMMA FindSlotStep ==
  ASSUME IInv, NEW c \in Callers, FindSlot(c)
  PROVE  IInv'
<1>1. /\ job[c] \in Jobs /\ job[c].pc = "chunk" /\ job \in [Callers -> Jobs]
      /\ job[c].req \in Requests /\ job[c].offset <= job[c].req.count
      /\ job[c].offset \in Nat /\ job[c].req.count \in Nat
  BY AhciAssumption, Zenon DEF IInv, TypeOK, FindSlot, Jobs
<1>2. UNCHANGED <<calls, ci, table, busy, halted, taskErr, moved, timedOut>> /\ fatal' \in BOOLEAN
  BY Zenon DEF FindSlot, device, IInv, TypeOK
<1>3. moved[c] = Prefix(job[c].req, job[c].offset)
  BY <1>1, Zenon DEF IInv, MovedInv, MovedOk
<1>4. lock = c
  BY <1>1, Zenon DEF IInv, LockInv, Holding
<1>5. CASE job[c].offset >= job[c].req.count
  <2> DEFINE j == [job[c] EXCEPT !.pc = "returned", !.result = "ok"]
  <2>1. j \in Jobs /\ j.req = job[c].req /\ j.offset = job[c].offset /\ j.pc = "returned"
    BY <1>1, Zenon DEF Jobs, PCs
  <2>2. job' = [job EXCEPT ![c] = j] /\ lock' = None
    <3>1. Return(c, "ok")
      BY <1>1, <1>5 DEF FindSlot
    <3>2. QED
      BY <1>1, <3>1, Zenon DEF Return
  <2>3. j.offset = j.req.count
    BY <1>1, <1>5, <2>1
  <2>4. SlotOk(c, j) /\ MovedOk(c, j) /\ j.offset <= j.req.count
    BY <1>1, <1>3, <2>1, <2>3, Zenon DEF SlotOk, MovedOk
  <2> HIDE DEF j
  <2>5. QED
    BY <1>1, <1>2, <2>1, <2>2, <2>4, LocalStep, Zenon DEF Holding
<1>6. CASE job[c].offset < job[c].req.count /\ FreeSlots = {}
  <2> DEFINE j == [job[c] EXCEPT !.pc = "returned", !.result = "error"]
  <2>1. j \in Jobs /\ j.req = job[c].req /\ j.offset = job[c].offset /\ j.pc = "returned" /\ j.result = "error"
    BY <1>1, Zenon DEF Jobs, PCs
  <2>2. job' = [job EXCEPT ![c] = j] /\ lock' = None
    <3>1. Return(c, "error")
      BY <1>1, <1>6 DEF FindSlot
    <3>2. QED
      BY <1>1, <3>1, Zenon DEF Return
  <2>4. SlotOk(c, j) /\ MovedOk(c, j) /\ j.offset <= j.req.count
    BY <1>1, <2>1, Zenon DEF SlotOk, MovedOk
  <2> HIDE DEF j
  <2>5. QED
    BY <1>1, <1>2, <2>1, <2>2, <2>4, LocalStep, Zenon DEF Holding
<1>7. CASE job[c].offset < job[c].req.count /\ FreeSlots # {}
  <2> DEFINE j == [job[c] EXCEPT !.pc = "prepare", !.slot = Min(FreeSlots)]
  <2>1. Min(FreeSlots) \in Slots /\ Min(FreeSlots) \notin ci
    BY <1>7, MinIsLeast, AhciAssumption DEF FreeSlots, Slots
  <2>2. /\ j \in Jobs /\ j.req = job[c].req /\ j.offset = job[c].offset /\ j.pc = "prepare"
        /\ j.slot \notin ci
    BY <1>1, <2>1, Zenon DEF Jobs, PCs
  <2>3. job' = [job EXCEPT ![c] = j] /\ lock' = c
    <3>1. /\ job' = [job EXCEPT ![c].pc = "prepare", ![c].slot = Min(FreeSlots)]
          /\ UNCHANGED lock
      BY <1>1, <1>7 DEF FindSlot
    <3>2. QED
      BY <1>1, <1>4, <3>1, Zenon
  <2>4. SlotOk(c, j) /\ MovedOk(c, j) /\ j.offset <= j.req.count
    BY <1>1, <1>3, <1>7, <2>2, Zenon DEF SlotOk, MovedOk
  <2> HIDE DEF j
  <2>5. QED
    BY <1>1, <1>2, <2>2, <2>3, <2>4, LocalStep, Zenon DEF Holding
<1>8. QED
  BY <1>1, <1>5, <1>6, <1>7

LEMMA WaitReadyStep ==
  ASSUME IInv, NEW c \in Callers, WaitReady(c)
  PROVE  IInv'
<1>1. /\ job[c] \in Jobs /\ job[c].pc = "ready" /\ job \in [Callers -> Jobs]
      /\ job[c].req \in Requests /\ job[c].offset <= job[c].req.count
  BY Zenon DEF IInv, TypeOK, WaitReady
<1>2. UNCHANGED <<calls, ci, table, busy, halted, taskErr, moved, timedOut>> /\ fatal' \in BOOLEAN
  BY Zenon DEF WaitReady, device, IInv, TypeOK
<1>3. lock = c /\ SlotOk(c, job[c]) /\ MovedOk(c, job[c])
  BY <1>1, Zenon DEF IInv, LockInv, Holding, SlotInv, MovedInv
<1>4. CASE busy = None
  <2> DEFINE j == [job[c] EXCEPT !.pc = "issue"]
  <2>1. /\ j \in Jobs /\ j.pc = "issue" /\ j.req = job[c].req /\ j.offset = job[c].offset
        /\ j.slot = job[c].slot
    BY <1>1, Zenon DEF Jobs, PCs
  <2>2. job' = [job EXCEPT ![c] = j] /\ lock' = c
    BY <1>1, <1>3, <1>4, Zenon DEF WaitReady, Goto
  <2>3. SlotOk(c, j) /\ MovedOk(c, j) /\ j.offset <= j.req.count
    BY <1>1, <1>3, <2>1, Zenon DEF SlotOk, MovedOk, CommandOf
  <2> HIDE DEF j
  <2>4. QED
    BY <1>1, <1>2, <2>1, <2>2, <2>3, LocalStep, Zenon DEF Holding
<1>5. CASE busy # None
  <2> DEFINE j == [job[c] EXCEPT !.pc = "returned", !.result = "error"]
  <2>1. j \in Jobs /\ j.req = job[c].req /\ j.offset = job[c].offset /\ j.pc = "returned" /\ j.result = "error"
    BY <1>1, Zenon DEF Jobs, PCs
  <2>2. job' = [job EXCEPT ![c] = j] /\ lock' = None
    BY <1>1, <1>5, Zenon DEF WaitReady, Return
  <2>3. SlotOk(c, j) /\ MovedOk(c, j) /\ j.offset <= j.req.count
    BY <1>1, <2>1, Zenon DEF SlotOk, MovedOk
  <2> HIDE DEF j
  <2>4. QED
    BY <1>1, <1>2, <2>1, <2>2, <2>3, LocalStep, Zenon DEF Holding
<1>6. QED
  BY <1>4, <1>5, Zenon

\* The call whose time is up becomes a timed-out one; its command may stay.
LEMMA TimeoutStep ==
  ASSUME IInv, NEW c \in Callers, job[c].pc = "wait", Return(c, "timeout"),
         timedOut' = timedOut \union {CallId(c)},
         UNCHANGED <<calls, ci, table, busy, halted, fatal, taskErr, moved>>
  PROVE  IInv'
<1> DEFINE j == [job[c] EXCEPT !.pc = "returned", !.result = "timeout"]
<1> USE DEF IInv
<1>1. /\ job[c] \in Jobs /\ job \in [Callers -> Jobs] /\ calls[c] \in Nat
      /\ job[c].req \in Requests /\ job[c].offset <= job[c].req.count
  BY Zenon DEF TypeOK
<1>2. /\ j \in Jobs /\ j.req = job[c].req /\ j.offset = job[c].offset
      /\ j.pc = "returned" /\ j.result = "timeout"
  BY <1>1, Zenon DEF Jobs, PCs
<1>3. job' = [job EXCEPT ![c] = j] /\ lock' = None
  BY <1>1, Zenon DEF Return
<1> HIDE DEF j
<1>4. job'[c] = j /\ \A d \in Callers \ {c} : job'[d] = job[d]
  BY <1>1, <1>3, Zenon
<1>5. lock = c /\ None \notin Callers
  BY AhciAssumption, Zenon DEF LockInv, Holding
<1>6. TypeOK'
  <2>1. job' \in [Callers -> Jobs] /\ lock' \in Callers \union {None}
    BY <1>1, <1>2, <1>3, Zenon
  <2>2. \A d \in Callers : job'[d].pc # "idle" =>
                            job'[d].req \in Requests /\ job'[d].offset <= job'[d].req.count
    BY <1>1, <1>2, <1>4, Zenon DEF TypeOK
  <2>3. timedOut' \subseteq Callers \X Nat
    BY <1>1 DEF TypeOK, CallId
  <2>4. QED
    BY <2>1, <2>2, <2>3, Zenon DEF TypeOK
<1>7. LockInv'
  BY <1>2, <1>3, <1>4, <1>5, Zenon DEF LockInv, Holding
<1>8. DeviceInv'
  BY Zenon DEF DeviceInv
<1>9. SlotInv'
  BY <1>2, <1>4 DEF SlotInv, SlotOk, CommandOf, CallId
<1>10. IssuedInv'
  <2>1. SUFFICES ASSUME NEW s \in ci, table[s].buf \notin timedOut'
                 PROVE  \E d \in Callers : job'[d].pc = "wait" /\ job'[d].slot = s /\ table[s].buf = CallId(d)
    BY DEF IssuedInv, CallId
  <2>2. PICK d \in Callers : job[d].pc = "wait" /\ job[d].slot = s /\ table[s].buf = CallId(d)
    BY <2>1, Zenon DEF IssuedInv
  <2>3. d # c
    BY <2>1, <2>2, Zenon
  <2>4. QED
    BY <1>4, <2>2, <2>3, Zenon
<1>11. TimedOutInv'
  <2>1. SUFFICES ASSUME NEW d \in Callers, NEW id \in timedOut', id[1] = d
                 PROVE  /\ id[2] <= calls[d]
                        /\ id[2] = calls[d] =>
                             job'[d].pc = "idle" \/ (job'[d].pc = "returned" /\ job'[d].result = "timeout")
    BY Zenon DEF TimedOutInv
  <2>2. CASE d = c
    <3>1. id[2] <= calls[d]
      BY <1>1, <2>1, <2>2 DEF TimedOutInv, CallId
    <3>2. QED
      BY <1>2, <1>4, <2>2, <3>1, Zenon
  <2>3. CASE d # c
    <3>1. id \in timedOut
      BY <2>1, <2>3 DEF CallId
    <3>2. QED
      BY <1>4, <2>1, <2>3, <3>1, Zenon DEF TimedOutInv
  <2>4. QED
    BY <2>2, <2>3, Zenon
<1>12. MovedInv'
  BY <1>2, <1>4 DEF MovedInv, MovedOk
<1>13. QED
  BY <1>6, <1>7, <1>8, <1>9, <1>10, <1>11, <1>12, Zenon

LEMMA WaitDoneStep ==
  ASSUME IInv, NEW c \in Callers, WaitDone(c)
  PROVE  IInv'
<1>1. /\ job[c] \in Jobs /\ job[c].pc = "wait" /\ job \in [Callers -> Jobs]
      /\ job[c].req \in Requests /\ job[c].offset <= job[c].req.count
  BY Zenon DEF IInv, TypeOK, WaitDone
<1>2. UNCHANGED <<calls, ci, table, busy, halted, fatal, taskErr, moved>> /\ fatal' \in BOOLEAN
  BY Zenon DEF WaitDone, device, IInv, TypeOK
<1>3. lock = c /\ SlotOk(c, job[c]) /\ MovedOk(c, job[c])
  BY <1>1, Zenon DEF IInv, LockInv, Holding, SlotInv, MovedInv
<1>4. CASE Cleared(c)
  <2> DEFINE j == [job[c] EXCEPT !.pc = "status"]
  <2>1. /\ j \in Jobs /\ j.pc = "status" /\ j.req = job[c].req /\ j.offset = job[c].offset
        /\ j.slot = job[c].slot
    BY <1>1, Zenon DEF Jobs, PCs
  <2>2. job' = [job EXCEPT ![c] = j] /\ lock' = c /\ timedOut' = timedOut
    BY <1>1, <1>3, <1>4, Zenon DEF WaitDone, Goto
  <2>3. job[c].slot \notin ci
    BY <1>4, Zenon DEF Cleared
  <2>4. SlotOk(c, j) /\ MovedOk(c, j) /\ j.offset <= j.req.count
    BY <1>1, <1>3, <2>1, <2>3, Zenon DEF SlotOk, MovedOk, CommandOf
  <2> HIDE DEF j
  <2>5. QED
    BY <1>1, <1>2, <2>1, <2>2, <2>3, <2>4, LocalStep, Zenon DEF Holding
<1>5. CASE ~Cleared(c)
  <2>1. Return(c, "timeout") /\ timedOut' = timedOut \union {CallId(c)}
    BY <1>5, Zenon DEF WaitDone
  <2>2. QED
    BY <1>1, <1>2, <2>1, TimeoutStep, Zenon
<1>6. QED
  BY <1>4, <1>5, Zenon

LEMMA StatusStep ==
  ASSUME IInv, NEW c \in Callers, Status(c)
  PROVE  IInv'
<1> DEFINE j == IF fatal THEN [job[c] EXCEPT !.pc = "returned", !.result = "error"]
                ELSE [job[c] EXCEPT !.pc = "task"]
<1>1. /\ job[c] \in Jobs /\ job[c].pc = "status" /\ job \in [Callers -> Jobs]
      /\ job[c].req \in Requests /\ job[c].offset <= job[c].req.count
  BY Zenon DEF IInv, TypeOK, Status
<1>2. UNCHANGED <<calls, ci, table, busy, halted, taskErr, moved, timedOut>> /\ fatal' \in BOOLEAN
  BY Zenon DEF Status
<1>3. lock = c /\ SlotOk(c, job[c]) /\ MovedOk(c, job[c])
  BY <1>1, Zenon DEF IInv, LockInv, Holding, SlotInv, MovedInv
<1>4. /\ j \in Jobs /\ j.req = job[c].req /\ j.offset = job[c].offset /\ j.slot = job[c].slot
      /\ j.pc = (IF fatal THEN "returned" ELSE "task")
      /\ j.pc = "returned" => j.result = "error"
  BY <1>1, Zenon DEF Jobs, PCs
<1>5. job' = [job EXCEPT ![c] = j] /\ lock' = IF fatal THEN None ELSE c
  <2>1. CASE fatal
    BY <1>1, <2>1, Zenon DEF Status, Return
  <2>2. CASE ~fatal
    BY <1>1, <1>3, <2>2, Zenon DEF Status, Goto
  <2>3. QED
    BY <2>1, <2>2, Zenon
<1>6. lock' = IF j.pc \in Holding THEN c ELSE None
  BY <1>4, <1>5 DEF Holding
<1> HIDE DEF j
<1>7. SlotOk(c, j) /\ MovedOk(c, j) /\ j.offset <= j.req.count /\ j.pc \notin {"idle", "wait"}
  BY <1>1, <1>3, <1>4, Zenon DEF SlotOk, MovedOk, CommandOf
<1>8. QED
  BY <1>1, <1>2, <1>4, <1>5, <1>6, <1>7, LocalStep, Zenon DEF Holding

LEMMA TaskFileStep ==
  ASSUME IInv, NEW c \in Callers, TaskFile(c)
  PROVE  IInv'
<1> DEFINE n == Chunk(job[c].req, job[c].offset)
<1> DEFINE j == IF taskErr THEN [job[c] EXCEPT !.pc = "returned", !.result = "error"]
                ELSE [job[c] EXCEPT !.pc = "chunk", !.offset = @ + n]
<1>1. /\ job[c] \in Jobs /\ job[c].pc = "task" /\ job \in [Callers -> Jobs]
      /\ job[c].req \in Requests /\ job[c].offset <= job[c].req.count /\ job[c].offset \in Nat
  BY Zenon DEF IInv, TypeOK, TaskFile, Jobs
<1>2. UNCHANGED <<calls, ci, table, busy, halted, taskErr, moved, timedOut>> /\ fatal' \in BOOLEAN
  BY Zenon DEF TaskFile, device, IInv, TypeOK
<1>3. lock = c /\ SlotOk(c, job[c]) /\ MovedOk(c, job[c])
  BY <1>1, Zenon DEF IInv, LockInv, Holding, SlotInv, MovedInv
<1>4. n \in Nat /\ job[c].offset + n <= job[c].req.count
  BY <1>1, <1>3, ChunkBounds, Zenon DEF SlotOk
<1> HIDE DEF n
<1>5. /\ j \in Jobs /\ j.req = job[c].req /\ j.slot = job[c].slot
      /\ j.pc = (IF taskErr THEN "returned" ELSE "chunk")
      /\ j.offset = (IF taskErr THEN job[c].offset ELSE job[c].offset + n)
      /\ j.pc = "returned" => j.result = "error"
  <2>1. CASE taskErr
    BY <1>1, <2>1, Zenon DEF Jobs, PCs
  <2>2. CASE ~taskErr
    <3>1. job[c].offset + n \in Nat
      BY <1>1, <1>4
    <3>2. QED
      BY <1>1, <2>2, <3>1, Zenon DEF Jobs, PCs
  <2>3. QED
    BY <2>1, <2>2, Zenon
<1>6. job' = [job EXCEPT ![c] = j] /\ lock' = IF taskErr THEN None ELSE c
  <2>1. CASE taskErr
    BY <1>1, <2>1, Zenon DEF TaskFile, Return
  <2>2. CASE ~taskErr
    BY <1>1, <1>3, <2>2, Zenon DEF TaskFile, n
  <2>3. QED
    BY <2>1, <2>2, Zenon
<1>7. lock' = IF j.pc \in Holding THEN c ELSE None
  BY <1>5, <1>6 DEF Holding
<1> HIDE DEF j
<1>8. moved[c] = Prefix(job[c].req, job[c].offset + n)
  BY <1>1, <1>3, Zenon DEF MovedOk, n
<1>9. SlotOk(c, j) /\ MovedOk(c, j) /\ j.offset <= j.req.count /\ j.pc \notin {"idle", "wait"}
  BY <1>1, <1>4, <1>5, <1>8, Zenon DEF SlotOk, MovedOk
<1>10. QED
  BY <1>1, <1>2, <1>5, <1>6, <1>7, <1>9, LocalStep, Zenon DEF Holding

LEMMA CallStep ==
  ASSUME IInv, NEW c \in Callers, NEW r \in Requests, Call(c, r)
  PROVE  IInv'
<1> DEFINE j == [Idle EXCEPT !.pc = "lock", !.req = r]
<1> USE DEF IInv
<1>1. /\ job[c].pc = "idle" /\ job \in [Callers -> Jobs] /\ calls \in [Callers -> Nat]
      /\ moved \in [Callers -> SUBSET [block : Nat, at : Nat]]
  BY Zenon DEF TypeOK, Call
<1>2. j \in Jobs /\ j.req = r /\ j.offset = 0 /\ j.pc = "lock"
  <2>1. Idle \in Jobs /\ Idle.offset = 0
    BY AhciAssumption DEF Jobs, PCs, Idle, Slots
  <2>2. QED
    BY <2>1, Zenon DEF Jobs, PCs
<1>3. /\ job' = [job EXCEPT ![c] = j] /\ calls' = [calls EXCEPT ![c] = @ + 1]
      /\ moved' = [moved EXCEPT ![c] = {}]
      /\ UNCHANGED <<lock, ci, table, busy, halted, fatal, taskErr, timedOut>>
  BY Zenon DEF Call
<1> HIDE DEF j
<1>4. /\ job'[c] = j /\ calls'[c] = calls[c] + 1 /\ moved'[c] = {}
      /\ \A d \in Callers \ {c} : job'[d] = job[d] /\ calls'[d] = calls[d] /\ moved'[d] = moved[d]
  BY <1>1, <1>3, Zenon
<1>5. r.count \in Nat
  BY AhciAssumption, Zenon
<1>6. TypeOK'
  <2>1. job' \in [Callers -> Jobs] /\ calls' \in [Callers -> Nat]
    BY <1>1, <1>2, <1>3
  <2>2. \A d \in Callers : job'[d].pc # "idle" =>
                            job'[d].req \in Requests /\ job'[d].offset <= job'[d].req.count
    BY <1>2, <1>4, <1>5 DEF TypeOK
  <2>3. moved' \in [Callers -> SUBSET [block : Nat, at : Nat]]
    BY <1>1, <1>3, Zenon
  <2>4. QED
    BY <1>3, <2>1, <2>2, <2>3, Zenon DEF TypeOK
<1>7. LockInv'
  BY <1>1, <1>2, <1>3, <1>4, Zenon DEF LockInv, Holding
<1>8. DeviceInv'
  BY <1>3, Zenon DEF DeviceInv
<1>9. SlotInv'
  BY <1>2, <1>3, <1>4 DEF SlotInv, SlotOk, CommandOf, CallId
<1>10. IssuedInv'
  <2>1. SUFFICES ASSUME NEW s \in ci, table[s].buf \notin timedOut
                 PROVE  \E d \in Callers : job'[d].pc = "wait" /\ job'[d].slot = s /\ table[s].buf = CallId(d)'
    BY <1>3, Zenon DEF IssuedInv
  <2>2. PICK d \in Callers : job[d].pc = "wait" /\ job[d].slot = s /\ table[s].buf = CallId(d)
    BY <2>1, Zenon DEF IssuedInv
  <2>3. d # c
    BY <1>1, <2>2, Zenon
  <2>4. QED
    BY <1>4, <2>2, <2>3, Zenon DEF CallId
<1>11. TimedOutInv'
  <2>1. SUFFICES ASSUME NEW d \in Callers, NEW id \in timedOut, id[1] = d
                 PROVE  /\ id[2] <= calls'[d]
                        /\ id[2] = calls'[d] =>
                             job'[d].pc = "idle" \/ (job'[d].pc = "returned" /\ job'[d].result = "timeout")
    BY <1>3, Zenon DEF TimedOutInv
  <2>2. id[2] <= calls[d] /\ id[2] \in Nat /\ calls[d] \in Nat
    BY <2>1, Zenon DEF TimedOutInv, TypeOK
  <2>3. CASE d = c
    BY <1>4, <2>2, <2>3
  <2>4. CASE d # c
    BY <1>4, <2>1, <2>4 DEF TimedOutInv
  <2>5. QED
    BY <2>3, <2>4, Zenon
<1>12. MovedInv'
  <2>1. Prefix(r, 0) = {}
    BY DEF Prefix
  <2>2. MovedOk(c, job[c])'
    BY <1>2, <1>4, <2>1, Zenon DEF MovedOk
  <2>3. ASSUME NEW d \in Callers, d # c
        PROVE  MovedOk(d, job[d])'
    BY <1>3, <1>4, <2>3 DEF MovedInv, MovedOk
  <2>4. QED
    BY <2>2, <2>3, Zenon DEF MovedInv
<1>13. QED
  BY <1>6, <1>7, <1>8, <1>9, <1>10, <1>11, <1>12, Zenon

LEMMA LeaveStep ==
  ASSUME IInv, NEW c \in Callers, Leave(c)
  PROVE  IInv'
<1> USE DEF IInv
<1>1. /\ job[c].pc = "returned" /\ job \in [Callers -> Jobs]
      /\ moved \in [Callers -> SUBSET [block : Nat, at : Nat]]
  BY Zenon DEF TypeOK, Leave
<1>2. Idle \in Jobs /\ Idle.pc = "idle"
  BY AhciAssumption DEF Jobs, PCs, Idle, Slots
<1>3. /\ job' = [job EXCEPT ![c] = Idle] /\ moved' = [moved EXCEPT ![c] = {}]
      /\ UNCHANGED <<lock, calls, ci, table, busy, halted, fatal, taskErr, timedOut>>
  BY Zenon DEF Leave
<1>4. /\ job'[c] = Idle
      /\ \A d \in Callers \ {c} : job'[d] = job[d] /\ moved'[d] = moved[d]
  BY <1>1, <1>3, Zenon
<1>5. TypeOK'
  <2>1. job' \in [Callers -> Jobs] /\ moved' \in [Callers -> SUBSET [block : Nat, at : Nat]]
    BY <1>1, <1>2, <1>3, Zenon
  <2>2. QED
    BY <1>2, <1>3, <1>4, <2>1, Zenon DEF TypeOK
<1>6. LockInv' /\ DeviceInv'
  BY <1>1, <1>2, <1>3, <1>4, Zenon DEF LockInv, Holding, DeviceInv
<1>7. SlotInv'
  BY <1>2, <1>3, <1>4 DEF SlotInv, SlotOk, CommandOf, CallId
<1>8. IssuedInv'
  BY <1>1, <1>2, <1>3, <1>4 DEF IssuedInv, CallId
<1>9. TimedOutInv'
  BY <1>2, <1>3, <1>4 DEF TimedOutInv
<1>10. MovedInv'
  BY <1>2, <1>3, <1>4 DEF MovedInv, MovedOk
<1>11. QED
  BY <1>5, <1>6, <1>7, <1>8, <1>9, <1>10, Zenon

\* The table of the free slot is written, and no other one.
LEMMA PreparedIs ==
  ASSUME IInv, NEW c \in Callers, job[c].pc = "prepare"
  PROVE  /\ Prepared(c) = [table EXCEPT ![job[c].slot] = CommandOf(c, job[c])]
         /\ CommandOf(c, job[c]) \in Commands
<1> DEFINE r == job[c].req
<1> DEFINE n == Chunk(r, job[c].offset)
<1> USE DEF IInv
<1>1. /\ r \in Requests /\ job[c].offset \in Nat /\ job[c].offset < r.count
      /\ job[c].slot \in Slots /\ table \in [Slots -> Commands] /\ calls[c] \in Nat
  BY Zenon DEF TypeOK, Jobs, SlotInv, SlotOk
<1>2. n \in Nat /\ n <= MaxPrdBlocks /\ ~(n > MaxPrdBlocks)
  BY <1>1, ChunkBounds, AhciAssumption
<1>3. r.start \in Nat /\ r.data \in BOOLEAN
  BY <1>1, AhciAssumption, Zenon
<1> HIDE DEF n
<1>4. CommandOf(c, job[c]) = [buf |-> CallId(c), block |-> r.start + job[c].offset,
                             at |-> job[c].offset, len |-> IF r.data THEN n ELSE 0]
  BY Zenon DEF CommandOf, n
<1>5. Prepared(c) = [s \in Slots |-> IF s = job[c].slot THEN CommandOf(c, job[c]) ELSE table[s]]
  BY <1>2, <1>4, Zenon DEF Prepared, n
<1>6. CommandOf(c, job[c]) \in Commands
  <2>1. CallId(c) \in Callers \X Nat
    BY <1>1, Zenon DEF CallId
  <2>2. r.start + job[c].offset \in Nat
    BY <1>1, <1>3
  <2>3. (IF r.data THEN n ELSE 0) \in Nat
    BY <1>2, <1>3, Zenon
  <2>4. QED
    BY <1>1, <1>4, <2>1, <2>2, <2>3 DEF Commands
<1>7. QED
  BY <1>1, <1>5, <1>6, Zenon

LEMMA PrepareStep ==
  ASSUME IInv, NEW c \in Callers, Prepare(c)
  PROVE  IInv'
<1> DEFINE j == [job[c] EXCEPT !.pc = "ready"]
<1> DEFINE k == CommandOf(c, job[c])
<1> USE DEF IInv
<1>1. /\ job[c].pc = "prepare" /\ job[c] \in Jobs /\ job \in [Callers -> Jobs]
      /\ job[c].slot \in Slots /\ table \in [Slots -> Commands]
      /\ job[c].req \in Requests /\ job[c].offset <= job[c].req.count
      /\ job[c].offset < job[c].req.count /\ job[c].slot \notin ci
  BY Zenon DEF TypeOK, Prepare, Jobs, SlotInv, SlotOk
<1>2. /\ j \in Jobs /\ j.pc = "ready" /\ j.req = job[c].req /\ j.offset = job[c].offset
      /\ j.slot = job[c].slot
  BY <1>1, Zenon DEF Jobs, PCs
<1>3. /\ job' = [job EXCEPT ![c] = j] /\ table' = [table EXCEPT ![job[c].slot] = k] /\ fatal' = FALSE
      /\ k \in Commands
      /\ UNCHANGED <<lock, calls, ci, busy, halted, taskErr, moved, timedOut>>
  BY <1>1, PreparedIs, Zenon DEF Prepare, Goto
<1>4. CommandOf(c, j) = k
  BY <1>2 DEF CommandOf
<1> HIDE DEF j, k
<1>5. /\ job'[c] = j /\ \A d \in Callers \ {c} : job'[d] = job[d]
      /\ table'[job[c].slot] = k /\ \A s \in Slots \ {job[c].slot} : table'[s] = table[s]
  BY <1>1, <1>3, Zenon
<1>6. lock = c /\ \A d \in Callers \ {c} : job[d].pc \notin Holding
  BY <1>1, Zenon DEF LockInv, Holding
<1>7. TypeOK'
  <2>1. job' \in [Callers -> Jobs] /\ table' \in [Slots -> Commands]
    BY <1>1, <1>2, <1>3, Zenon
  <2>2. \A d \in Callers : job'[d].pc # "idle" =>
                            job'[d].req \in Requests /\ job'[d].offset <= job'[d].req.count
    BY <1>1, <1>2, <1>5, Zenon DEF TypeOK
  <2>3. QED
    BY <1>3, <2>1, <2>2, Zenon DEF TypeOK
<1>8. LockInv' /\ DeviceInv'
  BY <1>1, <1>2, <1>3, <1>5, Zenon DEF LockInv, Holding, DeviceInv
<1>9. SlotInv'
  <2>1. SlotOk(c, job[c])'
    BY <1>1, <1>2, <1>3, <1>4, <1>5, Zenon DEF SlotOk, CommandOf, CallId
  <2>2. ASSUME NEW d \in Callers, d # c
        PROVE  SlotOk(d, job[d])'
    BY <1>5, <1>6, <2>2, Zenon DEF SlotOk, Holding
  <2>3. QED
    BY <2>1, <2>2, Zenon DEF SlotInv
<1>10. IssuedInv'
  <2>1. SUFFICES ASSUME NEW s \in ci, table[s].buf \notin timedOut
                 PROVE  \E d \in Callers : job'[d].pc = "wait" /\ job'[d].slot = s /\ table[s].buf = CallId(d)'
    BY <1>1, <1>3, <1>5 DEF IssuedInv, TypeOK
  <2>2. PICK d \in Callers : job[d].pc = "wait" /\ job[d].slot = s /\ table[s].buf = CallId(d)
    BY <2>1, Zenon DEF IssuedInv
  <2>3. QED
    BY <1>6, <1>1, <2>2, Zenon DEF Holding
<1>11. TimedOutInv'
  BY <1>1, <1>2, <1>3, <1>5 DEF TimedOutInv
<1>12. MovedInv'
  <2>1. MovedOk(c, job[c])'
    BY <1>1, <1>2, <1>3, <1>5, Zenon DEF MovedInv, MovedOk
  <2>2. ASSUME NEW d \in Callers, d # c
        PROVE  MovedOk(d, job[d])'
    BY <1>3, <1>5, <2>2 DEF MovedInv, MovedOk
  <2>3. QED
    BY <2>1, <2>2, Zenon DEF MovedInv
<1>13. QED
  BY <1>7, <1>8, <1>9, <1>10, <1>11, <1>12, Zenon

LEMMA IssueStep ==
  ASSUME IInv, NEW c \in Callers, Issue(c)
  PROVE  IInv'
<1> DEFINE j == [job[c] EXCEPT !.pc = "wait"]
<1> USE DEF IInv
<1>1. /\ job[c].pc = "issue" /\ job[c] \in Jobs /\ job \in [Callers -> Jobs]
      /\ job[c].slot \in Slots /\ SlotOk(c, job[c]) /\ MovedOk(c, job[c])
      /\ job[c].req \in Requests /\ job[c].offset <= job[c].req.count
  BY Zenon DEF TypeOK, Issue, Jobs, SlotInv, MovedInv
<1>2. /\ j \in Jobs /\ j.pc = "wait" /\ j.req = job[c].req /\ j.offset = job[c].offset
      /\ j.slot = job[c].slot
  BY <1>1, Zenon DEF Jobs, PCs
<1>3. /\ job' = [job EXCEPT ![c] = j] /\ ci' = ci \union {job[c].slot}
      /\ UNCHANGED <<lock, calls, table, busy, halted, fatal, taskErr, moved, timedOut>>
  BY <1>1, Zenon DEF Issue, Goto
<1> HIDE DEF j
<1>5. job'[c] = j /\ \A d \in Callers \ {c} : job'[d] = job[d]
  BY <1>1, <1>3, Zenon
<1>6. lock = c /\ \A d \in Callers \ {c} : job[d].pc \notin Holding
  BY <1>1, Zenon DEF LockInv, Holding
<1>7. TypeOK'
  <2>1. job' \in [Callers -> Jobs] /\ ci' \subseteq Slots
    BY <1>1, <1>2, <1>3, Zenon DEF TypeOK
  <2>2. \A d \in Callers : job'[d].pc # "idle" =>
                            job'[d].req \in Requests /\ job'[d].offset <= job'[d].req.count
    BY <1>1, <1>2, <1>5, Zenon DEF TypeOK
  <2>3. QED
    BY <1>3, <2>1, <2>2, Zenon DEF TypeOK
<1>8. LockInv' /\ DeviceInv'
  BY <1>1, <1>2, <1>3, <1>5, Zenon DEF LockInv, Holding, DeviceInv
<1>9. SlotInv'
  <2>1. SlotOk(c, job[c])'
    BY <1>1, <1>2, <1>3, <1>5, Zenon DEF SlotOk, CommandOf, CallId
  <2>2. ASSUME NEW d \in Callers, d # c
        PROVE  SlotOk(d, job[d])'
    BY <1>5, <1>6, <2>2, Zenon DEF SlotOk, Holding
  <2>3. QED
    BY <2>1, <2>2, Zenon DEF SlotInv
<1>10. IssuedInv'
  <2>1. SUFFICES ASSUME NEW s \in ci', table[s].buf \notin timedOut
                 PROVE  \E d \in Callers : job'[d].pc = "wait" /\ job'[d].slot = s /\ table[s].buf = CallId(d)
    BY <1>3 DEF IssuedInv, CallId
  <2>2. CASE s = job[c].slot
    BY <1>1, <1>2, <1>5, <2>2 DEF SlotOk, CommandOf
  <2>3. CASE s # job[c].slot
    <3>1. PICK d \in Callers : job[d].pc = "wait" /\ job[d].slot = s /\ table[s].buf = CallId(d)
      BY <1>3, <2>1, <2>3, Zenon DEF IssuedInv
    <3>2. QED
      BY <1>1, <1>6, <3>1, Zenon DEF Holding
  <2>4. QED
    BY <2>2, <2>3, Zenon
<1>11. TimedOutInv'
  BY <1>1, <1>2, <1>3, <1>5, Zenon DEF TimedOutInv
<1>12. MovedInv'
  <2>1. MovedOk(c, job[c])'
    BY <1>1, <1>2, <1>3, <1>5, Zenon DEF MovedOk
  <2>2. ASSUME NEW d \in Callers, d # c
        PROVE  MovedOk(d, job[d])'
    BY <1>3, <1>5, <1>6, <2>2, Zenon DEF MovedInv, MovedOk, Holding
  <2>3. QED
    BY <2>1, <2>2, Zenon DEF MovedInv
<1>13. QED
  BY <1>7, <1>8, <1>9, <1>10, <1>11, <1>12, Zenon

-----------------------------------------------------------------------------
(* The steps of the device.                                                *)

LEMMA StartStep ==
  ASSUME IInv, Start
  PROVE  IInv'
<1> USE DEF IInv, Start
<1>1. /\ busy' \in ci /\ ~halted /\ taskErr' = FALSE
      /\ UNCHANGED <<lock, job, calls, ci, table, halted, fatal, moved, timedOut>>
  BY Zenon
<1>2. TypeOK'
  BY <1>1, Zenon DEF TypeOK
<1>3. LockInv' /\ DeviceInv'
  BY <1>1 DEF LockInv, DeviceInv
<1>4. SlotInv'
  BY <1>1, Zenon DEF SlotInv, SlotOk, CommandOf, CallId
<1>5. IssuedInv'
  BY <1>1 DEF IssuedInv, CallId
<1>6. TimedOutInv'
  BY <1>1, Zenon DEF TimedOutInv
<1>7. MovedInv'
  BY <1>1, Zenon DEF MovedInv, MovedOk
<1>8. QED
  BY <1>2, <1>3, <1>4, <1>5, <1>6, <1>7, Zenon

\* Only the call that waits for the command, or one that has timed out, sees
\* the data of an issued command.
LEMMA MoveIs ==
  ASSUME IInv, NEW n \in Nat, busy # None, n <= table[busy].len, Move(table[busy], n)
  PROVE  /\ moved' \in [Callers -> SUBSET [block : Nat, at : Nat]]
         /\ \A c \in Callers :
              \/ moved'[c] = moved[c]
              \/ CallId(c) \in timedOut
              \/ /\ job[c].pc = "wait" /\ job[c].slot = busy
                 /\ moved'[c] = moved[c] \union
                      {[block |-> table[busy].block + i, at |-> table[busy].at + i] : i \in 0..(n - 1)}
<1> DEFINE k == table[busy]
<1> DEFINE New == {[block |-> k.block + i, at |-> k.at + i] : i \in 0..(n - 1)}
<1> USE DEF IInv
<1>1. busy \in ci /\ k \in Commands /\ k.block \in Nat /\ k.at \in Nat
  BY Zenon DEF DeviceInv, TypeOK, Commands
<1>2. New \subseteq [block : Nat, at : Nat]
  BY <1>1
<1>3. moved' = [c \in Callers |-> IF Active(k.buf) /\ k.buf = CallId(c) THEN moved[c] \union New ELSE moved[c]]
  BY Zenon DEF Move
<1>4. moved' \in [Callers -> SUBSET [block : Nat, at : Nat]]
  <2>1. moved \in [Callers -> SUBSET [block : Nat, at : Nat]]
    BY Zenon DEF TypeOK
  <2> HIDE DEF New
  <2>2. QED
    BY <1>2, <1>3, <2>1, Zenon
<1>5. ASSUME NEW c \in Callers, moved'[c] # moved[c], CallId(c) \notin timedOut
      PROVE  job[c].pc = "wait" /\ job[c].slot = busy /\ moved'[c] = moved[c] \union New
  <2> HIDE DEF New
  <2>1. k.buf = CallId(c) /\ moved'[c] = moved[c] \union New
    BY <1>3, <1>5, Zenon
  <2>2. PICK d \in Callers : job[d].pc = "wait" /\ job[d].slot = busy /\ k.buf = CallId(d)
    BY <1>1, <1>5, <2>1, Zenon DEF IssuedInv
  <2>3. d = c
    BY <2>1, <2>2 DEF CallId
  <2>4. QED
    BY <2>1, <2>2, <2>3, Zenon
<1>6. QED
  BY <1>4, <1>5, Zenon

\* A timed-out call has no claim about its data.
LEMMA TimedOutMoved ==
  ASSUME IInv, NEW c \in Callers, CallId(c) \in timedOut
  PROVE  job[c].pc = "idle" \/ (job[c].pc = "returned" /\ job[c].result = "timeout")
<1>1. CallId(c)[1] = c /\ CallId(c)[2] = calls[c]
  BY Zenon DEF CallId
<1>2. QED
  BY <1>1, Zenon DEF IInv, TimedOutInv

LEMMA CompleteStep ==
  ASSUME IInv, Complete
  PROVE  IInv'
<1> USE DEF IInv
<1>1. /\ busy # None /\ busy \in ci /\ busy \in Slots /\ ci' = ci \ {busy} /\ busy' = None
      /\ Move(table[busy], table[busy].len) /\ table[busy].len \in Nat
      /\ UNCHANGED <<lock, job, calls, table, halted, fatal, taskErr, timedOut>>
  BY Zenon DEF Complete, DeviceInv, TypeOK, Commands
<1>2. /\ moved' \in [Callers -> SUBSET [block : Nat, at : Nat]]
      /\ \A c \in Callers :
           \/ moved'[c] = moved[c]
           \/ CallId(c) \in timedOut
           \/ /\ job[c].pc = "wait" /\ job[c].slot = busy
              /\ moved'[c] = moved[c] \union
                   {[block |-> table[busy].block + i, at |-> table[busy].at + i] : i \in 0..(table[busy].len - 1)}
  <2>1. table[busy].len <= table[busy].len
    BY <1>1
  <2>2. QED
    BY <1>1, <2>1, MoveIs, Zenon
<1>3. TypeOK'
  BY <1>1, <1>2, Zenon DEF TypeOK
<1>4. LockInv' /\ DeviceInv' /\ IssuedInv' /\ TimedOutInv'
  <2>1. LockInv'
    BY <1>1, Zenon DEF LockInv, Holding
  <2>2. DeviceInv'
    BY <1>1, Zenon DEF DeviceInv
  <2>3. IssuedInv'
    <3>1. SUFFICES ASSUME NEW s \in ci', table'[s].buf \notin timedOut'
                   PROVE  \E c \in Callers : job'[c].pc = "wait" /\ job'[c].slot = s /\ table'[s].buf = CallId(c)'
      BY Zenon DEF IssuedInv
    <3>2. s \in ci /\ table[s].buf \notin timedOut
      BY <1>1, <3>1, Zenon
    <3>3. PICK c \in Callers : job[c].pc = "wait" /\ job[c].slot = s /\ table[s].buf = CallId(c)
      BY <3>2, Zenon DEF IssuedInv
    <3>4. QED
      BY <1>1, <3>3, Zenon DEF CallId
  <2>4. TimedOutInv'
    BY <1>1, Zenon DEF TimedOutInv
  <2>5. QED
    BY <2>1, <2>2, <2>3, <2>4, Zenon
<1>5. SlotInv'
  BY <1>1, Zenon DEF SlotInv, SlotOk, CommandOf, CallId
<1>6. MovedInv'
  <2>1. SUFFICES ASSUME NEW c \in Callers PROVE MovedOk(c, job[c])'
    BY Zenon DEF MovedInv
  <2>2. MovedOk(c, job[c]) /\ SlotOk(c, job[c])
    BY Zenon DEF MovedInv, SlotInv
  <2>3. CASE CallId(c) \in timedOut
    BY <1>1, <2>3, TimedOutMoved, Zenon DEF MovedOk
  <2>4. CASE job[c].pc = "wait" /\ job[c].slot = busy
    <3> DEFINE r == job[c].req
    <3> DEFINE o == job[c].offset
    <3> DEFINE n == Chunk(r, o)
    <3>1. /\ r \in Requests /\ o \in Nat /\ o < r.count
          /\ table[busy] = CommandOf(c, job[c])
      BY <2>2, <2>4, Zenon DEF TypeOK, Jobs, SlotOk
    <3>2. n \in Nat
      BY <3>1, ChunkBounds, Zenon
    <3>3. moved[c] = Prefix(r, o)
      BY <1>1, <2>2, <2>4, Zenon DEF MovedOk, DeviceInv
    <3> HIDE DEF n
    <3>4. /\ table[busy].block = r.start + o /\ table[busy].at = o
          /\ table[busy].len = IF r.data THEN n ELSE 0
      BY <3>1 DEF CommandOf, n
    <3>5. CallId(c) \notin timedOut
      BY <2>4, TimedOutMoved, Zenon
    <3>6. table[busy].buf = CallId(c) /\ Active(CallId(c))
      BY <2>4, <3>1 DEF CommandOf, Active
    <3>7. moved'[c] = moved[c] \union
            {[block |-> table[busy].block + i, at |-> table[busy].at + i] : i \in 0..(table[busy].len - 1)}
      BY <1>1, <3>6, Zenon DEF Move
    <3>8. moved'[c] = Prefix(r, o + n)
      <4>1. CASE r.data
        <5>1. moved'[c] = Prefix(r, o) \union {[block |-> r.start + o + i, at |-> o + i] : i \in 0..(n - 1)}
          BY <3>3, <3>4, <3>7, <4>1, Zenon
        <5>2. QED
          BY <3>1, <3>2, <4>1, <5>1, PrefixGrows, Zenon
      <4>2. CASE ~r.data
        <5>1. moved'[c] = moved[c]
          BY <3>4, <3>7, <4>2
        <5>2. QED
          BY <3>3, <4>2, <5>1, Zenon DEF Prefix
      <4>3. QED
        BY <4>1, <4>2, Zenon
    <3>9. QED
      BY <1>1, <2>4, <3>8, Zenon DEF MovedOk, n
  <2>5. CASE CallId(c) \notin timedOut /\ ~(job[c].pc = "wait" /\ job[c].slot = busy)
    <3>1. moved'[c] = moved[c]
      BY <1>2, <2>5, Zenon
    <3>2. QED
      BY <1>1, <2>2, <2>5, <3>1, Zenon DEF MovedOk
  <2>6. QED
    BY <2>3, <2>4, <2>5, Zenon
<1>7. QED
  BY <1>3, <1>4, <1>5, <1>6, Zenon

LEMMA FailStep ==
  ASSUME IInv, Fail
  PROVE  IInv'
<1> USE DEF IInv
<1>1. /\ busy # None /\ busy \in ci /\ busy' = None /\ table[busy].len \in Nat
      /\ halted' = TRUE /\ fatal' = TRUE /\ taskErr' = TRUE
      /\ UNCHANGED <<lock, job, calls, ci, table, timedOut>>
  BY Zenon DEF Fail, DeviceInv, TypeOK, Commands
<1>2. PICK n \in 0..table[busy].len : Move(table[busy], n)
  BY Zenon DEF Fail
<1>3. n \in Nat /\ n <= table[busy].len
  BY <1>1
<1>4. /\ moved' \in [Callers -> SUBSET [block : Nat, at : Nat]]
      /\ \A c \in Callers : \/ moved'[c] = moved[c]
                            \/ CallId(c) \in timedOut
                            \/ job[c].pc = "wait" /\ job[c].slot = busy
  BY <1>1, <1>2, <1>3, MoveIs, Zenon
<1>5. TypeOK'
  BY <1>1, <1>4, Zenon DEF TypeOK
<1>6. LockInv' /\ DeviceInv' /\ IssuedInv' /\ TimedOutInv' /\ SlotInv'
  <2>1. LockInv'
    BY <1>1, Zenon DEF LockInv, Holding
  <2>2. DeviceInv'
    BY <1>1, Zenon DEF DeviceInv
  <2>3. IssuedInv'
    BY <1>1, Zenon DEF IssuedInv, CallId
  <2>4. TimedOutInv'
    BY <1>1, Zenon DEF TimedOutInv
  <2>5. SlotInv'
    BY <1>1, Zenon DEF SlotInv, SlotOk, CommandOf, CallId
  <2>6. QED
    BY <2>1, <2>2, <2>3, <2>4, <2>5, Zenon
<1>7. MovedInv'
  <2>1. SUFFICES ASSUME NEW c \in Callers PROVE MovedOk(c, job[c])'
    BY Zenon DEF MovedInv
  <2>2. CASE CallId(c) \in timedOut
    BY <1>1, <2>2, TimedOutMoved, Zenon DEF MovedOk
  <2>3. CASE job[c].pc = "wait" /\ job[c].slot = busy
    BY <1>1, <2>3, Zenon DEF MovedOk
  <2>4. CASE moved'[c] = moved[c]
    BY <1>1, <2>4, Zenon DEF MovedInv, MovedOk
  <2>5. QED
    BY <1>4, <2>2, <2>3, <2>4, Zenon
<1>8. QED
  BY <1>5, <1>6, <1>7, Zenon

-----------------------------------------------------------------------------
(* The theorems.                                                           *)

LEMMA NextInv ==
  ASSUME IInv, [Next]_vars
  PROVE  IInv'
<1>1. CASE UNCHANGED vars
  <2>1. UNCHANGED <<lock, job, calls, ci, table, busy, halted, fatal, taskErr, moved, timedOut>>
    BY <1>1, Zenon DEF vars
  <2>2. TypeOK' /\ LockInv' /\ DeviceInv'
    BY <2>1, Zenon DEF IInv, TypeOK, LockInv, DeviceInv
  <2>3. SlotInv'
    BY <2>1, Zenon DEF IInv, SlotInv, SlotOk, CommandOf, CallId
  <2>4. IssuedInv' /\ TimedOutInv'
    <3>1. IssuedInv'
      BY <2>1, Zenon DEF IInv, IssuedInv, CallId
    <3>2. TimedOutInv'
      BY <2>1, Zenon DEF IInv, TimedOutInv
    <3>3. QED
      BY <3>1, <3>2, Zenon
  <2>5. MovedInv'
    BY <2>1, Zenon DEF IInv, MovedInv, MovedOk
  <2>6. QED
    BY <2>2, <2>3, <2>4, <2>5, Zenon DEF IInv
<1>2. ASSUME NEW c \in Callers, NEW r \in Requests, Call(c, r)
      PROVE  IInv'
  BY <1>2, CallStep, Zenon
<1>3. ASSUME NEW c \in Callers, Step(c)
      PROVE  IInv'
  BY <1>3, LockStep, FindSlotStep, PrepareStep, WaitReadyStep, IssueStep, WaitDoneStep, StatusStep,
     TaskFileStep, LeaveStep, Zenon DEF Step
<1>4. QED
  BY <1>1, <1>2, <1>3, StartStep, CompleteStep, FailStep, Zenon DEF Next

LEMMA Invariance == Spec => []IInv
<1>1. QED
  BY InitInv, NextInv, PTL DEF Spec

\* A call of read_blocks or write_blocks that returns Ok has moved exactly the
\* blocks it was asked for, each to its place in the buffer, whatever commands
\* of timed-out calls the device still executes.
THEOREM OkIsDone == Spec => []OkMeansDone
<1>1. IInv => OkMeansDone
  BY Zenon DEF IInv, MovedInv, MovedOk, OkMeansDone, Prefix, Wanted
<1>2. QED
  BY <1>1, Invariance, PTL

\* Once a call has returned, the device can touch its buffer only when the call
\* returned Timeout from send_command.
THEOREM BuffersOwned == Spec => []RunningOwned
<1>1. IInv => RunningOwned
  BY Zenon DEF IInv, IssuedInv, RunningOwned, Active
<1>2. QED
  BY <1>1, Invariance, PTL

\* send_command never writes the table of an issued command: the slot of
\* find_slot is free, and a chunk has no more blocks than its own table names.
THEOREM TablesPrivate == Spec => SlotPrivate
<1>1. ASSUME IInv, [Next]_vars
      PROVE  [\A s \in ci \cap ci' : table'[s] = table[s]]_vars
  <2>1. ASSUME NEW c \in Callers, Prepare(c)
        PROVE  \A s \in ci \cap ci' : table'[s] = table[s]
    BY <1>1, <2>1, PreparedIs, Zenon DEF Prepare, IInv, SlotInv, SlotOk, TypeOK, Jobs
  <2>2. CASE \E c \in Callers : Prepare(c)
    BY <2>1, <2>2, Zenon
  <2>3. CASE ~\E c \in Callers : Prepare(c)
    <3>1. table' = table
      BY <1>1, <2>3, Zenon DEF Next, Step, Call, Lock, FindSlot, WaitReady, Issue, WaitDone, Status, TaskFile,
                        Leave, Start, Complete, Fail, vars
    <3>2. QED
      BY <3>1, Zenon
  <2>4. QED
    BY <2>2, <2>3, Zenon
<1>2. QED
  BY <1>1, Invariance, PTL DEF Spec, SlotPrivate
=============================================================================
