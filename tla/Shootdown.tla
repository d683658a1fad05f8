----------------------------- MODULE Shootdown -----------------------------
(***************************************************************************)
(* Inter-processor interrupts (smp/ipi.rs): flushing all TLBs after a page *)
(* table of the direct map was replaced by a huge page                     *)
(* (memory/physical.rs), and halting the other CPUs on a panic (main.rs).  *)
(*                                                                         *)
(* All CPUs are online: smp::boot waits for them before anything here is   *)
(* called.  There are at least two: with one, the functions below return   *)
(* before their loops.  Interrupts are enabled at pc "run" outside of the  *)
(* handlers and disabled everywhere else, because InterruptMutex disables  *)
(* them while a CPU waits for or holds a lock.                             *)
(*                                                                         *)
(* A CPU gives up waiting for an acknowledgement after 100 ms.  The model  *)
(* lets it give up at any time.  tlb_shootdown, which flushes single       *)
(* addresses, has no caller.                                               *)
(***************************************************************************)
EXTENDS Integers, FiniteSets

CONSTANTS
  NCpu,       \* CPUS.len()
  Tables,     \* bound: page tables that a huge page can still replace
  MayUpgrade, \* the CPUs that allocate pages
  MayPanic    \* the CPUs on which a panic may happen

CPUs == 0..(NCpu - 1)

NoCpu == NCpu

ASSUME ShootdownAssumption ==
  NCpu \in Nat \ {0, 1} /\ Tables \in Nat /\ MayUpgrade \union MayPanic \subseteq CPUs

VARIABLES
  pc,       \* pc[c]: what CPU c is doing
  handler,  \* handler[c]: how far ipi_tlb_handler is on CPU c, or "none"
  masked,   \* masked[c]: the panicking code on CPU c had interrupts disabled
  at,       \* at[c]: the CPU that a loop over CPUS has reached on CPU c
  hhdm,     \* holder of HHDM_LOCK, or NoCpu
  ipi,      \* holder of IPI_LOCK, or NoCpu
  tlb,      \* tlb[c]: holder of the tlb_addresses lock of CPU c, or NoCpu
  ack,      \* ack[c]: ipi_ack
  pend,     \* pend[c]: vectors pending at the local APIC of CPU c
  stale,    \* the CPUs whose TLB may hold a replaced translation
  gaveUp,   \* gaveUp[c]: the CPUs that did not acknowledge CPU c in time
  left      \* page tables that can still be replaced

vars == <<pc, handler, masked, at, hhdm, ipi, tlb, ack, pend, stale, gaveUp, left>>

Init ==
  /\ pc = [c \in CPUs |-> "run"]
  /\ handler = [c \in CPUs |-> "none"]
  /\ masked = [c \in CPUs |-> FALSE]
  /\ at = [c \in CPUs |-> 0]
  /\ hhdm = NoCpu /\ ipi = NoCpu
  /\ tlb = [c \in CPUs |-> NoCpu]
  /\ ack = [c \in CPUs |-> FALSE]
  /\ pend = [c \in CPUs |-> {}]
  /\ stale = {}
  /\ gaveUp = [c \in CPUs |-> {}]
  /\ left = Tables

\* Thread code on CPU c goes on; a handler that runs there comes first.
Goto(c, from, to) ==
  /\ pc[c] = from /\ handler[c] = "none"
  /\ pc' = [pc EXCEPT ![c] = to]

\* The loops over CPUS skip the own CPU.
Skip(c, i) == IF i = c THEN i + 1 ELSE i

StartLoop(c) == at' = [at EXCEPT ![c] = Skip(c, 0)]

Advance(c) == at' = [at EXCEPT ![c] = Skip(c, @ + 1)]

SentToFirst(c, v) ==
  [pend EXCEPT ![IF c = 0 THEN 1 ELSE 0] = @ \union {v}]

\* send_ipi to AllExcludingSelf: the vector is pending at every other CPU.
Sent(c, v) == [d \in CPUs |-> IF d = c THEN pend[d] ELSE pend[d] \union {v}]

-----------------------------------------------------------------------------
(* try_upgrade_hhdm and tlb_shoot_all.                                     *)

\* alloc_pages calls try_upgrade_hhdm: interrupts go off before the lock.
UpgradeStart(c) ==
  /\ c \in MayUpgrade
  /\ Goto(c, "run", "hhdm")
  /\ UNCHANGED <<handler, masked, at, hhdm, ipi, tlb, ack, pend, stale, gaveUp, left>>

UpgradeLock(c) ==
  /\ hhdm = NoCpu /\ hhdm' = c
  /\ Goto(c, "hhdm", "upgrade")
  /\ UNCHANGED <<handler, masked, at, ipi, tlb, ack, pend, stale, gaveUp, left>>

\* The table is already replaced or cannot be: return.
UpgradeNothing(c) ==
  /\ hhdm' = NoCpu
  /\ Goto(c, "upgrade", "run")
  /\ UNCHANGED <<handler, masked, at, ipi, tlb, ack, pend, stale, gaveUp, left>>

\* The entry is overwritten.  Any CPU may hold the old translation.
UpgradeTable(c) ==
  /\ left > 0 /\ left' = left - 1
  /\ Goto(c, "upgrade", "ipi")
  /\ stale' = CPUs
  /\ UNCHANGED <<handler, masked, at, hhdm, ipi, tlb, ack, pend, gaveUp>>

ShootLock(c) ==
  /\ ipi = NoCpu /\ ipi' = c
  /\ Goto(c, "ipi", "flush")
  /\ UNCHANGED <<handler, masked, at, hhdm, tlb, ack, pend, stale, gaveUp, left>>

ShootFlush(c) ==
  /\ Goto(c, "flush", "clear")
  /\ stale' = stale \ {c}
  /\ StartLoop(c)
  /\ UNCHANGED <<handler, masked, hhdm, ipi, tlb, ack, pend, gaveUp, left>>

ShootClearUnlocked(c) ==
  /\ at[c] \in CPUs
  /\ Goto(c, "clear", "unack")
  /\ UNCHANGED <<handler, masked, at, hhdm, ipi, tlb, ack, pend, stale, gaveUp, left>>

\* tlb_addresses.lock().clear(): waits while the handler holds the lock.
ShootClear(c) ==
  /\ at[c] \in CPUs /\ tlb[at[c]] = NoCpu
  /\ Goto(c, "clear", "unack")
  /\ UNCHANGED <<handler, masked, at, hhdm, ipi, tlb, ack, pend, stale, gaveUp, left>>

ShootUnack(c) ==
  /\ Goto(c, "unack", "clear")
  /\ ack' = [ack EXCEPT ![at[c]] = FALSE]
  /\ Advance(c)
  /\ UNCHANGED <<handler, masked, hhdm, ipi, tlb, pend, stale, gaveUp, left>>

ShootSend(c) ==
  /\ at[c] \notin CPUs
  /\ Goto(c, "clear", "wait")
  /\ pend' = Sent(c, "tlb")
  /\ StartLoop(c)
  /\ UNCHANGED <<handler, masked, hhdm, ipi, tlb, ack, stale, gaveUp, left>>

\* wait_acks: one CPU has acknowledged, or time is up for it.
ShootAcked(c) ==
  /\ pc[c] = "wait" /\ at[c] \in CPUs /\ ack[at[c]]
  /\ Advance(c)
  /\ UNCHANGED <<pc, handler, masked, hhdm, ipi, tlb, ack, pend, stale, gaveUp, left>>

ShootRetry(c) ==
  /\ pc[c] = "wait" /\ at[c] \in CPUs /\ ~ack[at[c]]
  /\ StartLoop(c)
  /\ UNCHANGED <<pc, handler, masked, hhdm, ipi, tlb, ack, pend, stale, gaveUp, left>>

ShootGiveUp(c) ==
  /\ pc[c] = "wait" /\ at[c] \in CPUs /\ ~ack[at[c]]
  /\ gaveUp' = [gaveUp EXCEPT ![c] = @ \union {at[c]}]
  /\ Advance(c)
  /\ UNCHANGED <<pc, handler, masked, hhdm, ipi, tlb, ack, pend, stale, left>>

ShootDone(c) ==
  /\ at[c] \notin CPUs
  /\ Goto(c, "wait", "return")
  /\ ipi' = NoCpu
  /\ UNCHANGED <<handler, masked, at, hhdm, tlb, ack, pend, stale, gaveUp, left>>

UpgradeDone(c) ==
  /\ Goto(c, "return", "run")
  /\ hhdm' = NoCpu
  /\ at' = [at EXCEPT ![c] = 0] /\ gaveUp' = [gaveUp EXCEPT ![c] = {}]
  /\ UNCHANGED <<handler, masked, ipi, tlb, ack, pend, stale, left>>

-----------------------------------------------------------------------------
(* The handlers, which run where interrupts are enabled.                   *)

OpenInLocks(c) == pc[c] # "halted" /\ handler[c] = "none"

Open(c) == pc[c] = "run" /\ handler[c] = "none"

\* ipi_tlb_handler: the guard of tlb_addresses lives until the handler
\* returns.  Other CPUs hold that lock for a step only, so that it is free.
TlbEnter(c) ==
  /\ Open(c) /\ "tlb" \in pend[c]
  /\ pend' = [pend EXCEPT ![c] = @ \ {"tlb"}]
  /\ tlb' = [tlb EXCEPT ![c] = c]
  /\ handler' = [handler EXCEPT ![c] = "flush"]
  /\ UNCHANGED <<pc, masked, at, hhdm, ipi, ack, stale, gaveUp, left>>

TlbFlush(c) ==
  /\ handler[c] = "flush"
  /\ handler' = [handler EXCEPT ![c] = "ack"]
  /\ stale' = stale \ {c}
  /\ UNCHANGED <<pc, masked, at, hhdm, ipi, tlb, ack, pend, gaveUp, left>>

TlbAck(c) ==
  /\ handler[c] = "ack"
  /\ handler' = [handler EXCEPT ![c] = "return"]
  /\ ack' = [ack EXCEPT ![c] = TRUE]
  /\ UNCHANGED <<pc, masked, at, hhdm, ipi, tlb, pend, stale, gaveUp, left>>

TlbReturn(c) ==
  /\ handler[c] = "return"
  /\ handler' = [handler EXCEPT ![c] = "none"]
  /\ tlb' = [tlb EXCEPT ![c] = NoCpu]
  /\ UNCHANGED <<pc, masked, at, hhdm, ipi, ack, pend, stale, gaveUp, left>>

\* ipi_halt_handler never returns and leaves interrupts disabled.
Halt(c) ==
  /\ Open(c) /\ "halt" \in pend[c]
  /\ pend' = [pend EXCEPT ![c] = @ \ {"halt"}]
  /\ ack' = [ack EXCEPT ![c] = TRUE]
  /\ pc' = [pc EXCEPT ![c] = "halted"]
  /\ UNCHANGED <<handler, masked, at, hhdm, ipi, tlb, stale, gaveUp, left>>

-----------------------------------------------------------------------------
(* panic: halt_other_cpus, then halt_loop.                                 *)

PanicStart(c) ==
  /\ c \in MayPanic
  /\ Goto(c, "run", "p.ipi")
  /\ \E m \in BOOLEAN : masked' = [masked EXCEPT ![c] = m]
  /\ UNCHANGED <<handler, at, hhdm, ipi, tlb, ack, pend, stale, gaveUp, left>>

PanicLock(c) ==
  /\ ipi = NoCpu /\ ipi' = c
  /\ Goto(c, "p.ipi", "p.unack")
  /\ StartLoop(c)
  /\ UNCHANGED <<handler, masked, hhdm, tlb, ack, pend, stale, gaveUp, left>>

PanicUnack(c) ==
  /\ pc[c] = "p.unack" /\ at[c] \in CPUs
  /\ ack' = [ack EXCEPT ![at[c]] = FALSE]
  /\ Advance(c)
  /\ UNCHANGED <<pc, handler, masked, hhdm, ipi, tlb, pend, stale, gaveUp, left>>

PanicSend(c) ==
  /\ at[c] \notin CPUs
  /\ Goto(c, "p.unack", "p.wait")
  /\ pend' = Sent(c, "halt")
  /\ StartLoop(c)
  /\ UNCHANGED <<handler, masked, hhdm, ipi, tlb, ack, stale, gaveUp, left>>

\* One iteration of wait_acks, with or without the acknowledgement.
PanicWait(c) ==
  /\ pc[c] = "p.wait" /\ at[c] \in CPUs
  /\ Advance(c)
  /\ UNCHANGED <<pc, handler, masked, hhdm, ipi, tlb, ack, pend, stale, gaveUp, left>>

\* halt_loop: hlt with interrupts disabled stops the CPU.  With interrupts
\* enabled the timer goes on to switch to other tasks.
PanicDone(c) ==
  /\ at[c] \notin CPUs
  /\ Goto(c, "p.wait", IF masked[c] THEN "halted" ELSE "run")
  /\ ipi' = NoCpu
  /\ at' = [at EXCEPT ![c] = 0] /\ masked' = [masked EXCEPT ![c] = FALSE]
  /\ UNCHANGED <<handler, hhdm, tlb, ack, pend, stale, gaveUp, left>>

-----------------------------------------------------------------------------

\* Every step of CPU c but the ones that start something new.
Step(c) ==
  \/ UpgradeLock(c) \/ UpgradeNothing(c) \/ UpgradeTable(c)
  \/ ShootLock(c) \/ ShootFlush(c) \/ ShootClear(c) \/ ShootUnack(c) \/ ShootSend(c)
  \/ ShootAcked(c) \/ ShootGiveUp(c) \/ ShootDone(c) \/ UpgradeDone(c)
  \/ TlbEnter(c) \/ TlbFlush(c) \/ TlbAck(c) \/ TlbReturn(c) \/ Halt(c)
  \/ PanicLock(c) \/ PanicUnack(c) \/ PanicSend(c) \/ PanicWait(c) \/ PanicDone(c)

\* A machine whose CPUs have all stopped stays so.
Stopped == (\A c \in CPUs : pc[c] = "halted") /\ UNCHANGED vars

Next == (\E c \in CPUs : Step(c) \/ UpgradeStart(c) \/ PanicStart(c)) \/ Stopped

Spec == Init /\ [][Next]_vars

\* CPU c acquires a lock that others compete for.
Acquire(c) == UpgradeLock(c) \/ ShootLock(c) \/ PanicLock(c)

\* CPU c takes an interrupt.
Interrupt(c) == TlbEnter(c) \/ Halt(c)

\* A CPU that can go on does.  One that waits for a lock that is freed again
\* and again gets it, and a pending interrupt is taken when code that disables
\* interrupts enables them again and again.
Fairness == \A c \in CPUs :
  WF_vars(Step(c)) /\ SF_vars(Acquire(c)) /\ SF_vars(Interrupt(c))

FairSpec == Spec /\ Fairness

-----------------------------------------------------------------------------

\* wait_acks can be trusted: when tlb_shoot_all returns, every CPU that
\* acknowledged in time has flushed its TLB after the table was replaced, even
\* if it answered an interrupt of an earlier round late, or has stopped for
\* good (the acknowledgement of a halt is taken for one of a flush).
AckMeansFlushed ==
  \A c \in CPUs : pc[c] = "return" =>
    \A d \in stale : d \in gaveUp[c] \/ pc[d] = "halted"

\* A CPU that did not acknowledge in time still flushes: unless an upgrade is
\* under way, a stale CPU has the interrupt pending or is about to flush in
\* the handler.
StaleIsPending ==
  (\A c \in CPUs : pc[c] \notin {"ipi", "flush", "clear", "unack"}) =>
    \A d \in stale : "tlb" \in pend[d] \/ handler[d] = "flush"

\* A CPU stopped by ipi_halt_handler holds none of the locks, so that the
\* panicking CPU can go on to use them.
HaltedHoldNothing ==
  \A c \in CPUs : pc[c] = "halted" => c \notin {hhdm, ipi} /\ tlb[c] # c

\* An upgrade ends: the time limit of wait_acks resolves the cycle in which
\* one CPU waits for an acknowledgement of another that waits, with interrupts
\* disabled, for the HHDM_LOCK of the first.
UpgradeEnds == \A c \in MayUpgrade : (pc[c] = "hhdm") ~> (pc[c] = "run")

\* After a panic every other CPU stops, even one that is in the middle of an
\* upgrade or waits for a lock with interrupts disabled.
OthersHalt ==
  \A c \in MayPanic : (pc[c] = "p.ipi") ~> (\A d \in CPUs \ {c} : pc[d] = "halted")
=============================================================================
