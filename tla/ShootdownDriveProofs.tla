------------------------ MODULE ShootdownDriveProofs ------------------------
(***************************************************************************)
(* Proofs about two components that have nothing in common: Shootdown, for *)
(* any number of CPUs and page tables, and PartitionDrive, for every size  *)
(* of blocks, pages, drive and partition and every set of calls.           *)
(*                                                                         *)
(* HHDM_LOCK is held from the replacement of a table to the end of         *)
(* tlb_shoot_all, so that one round of interrupts is under way at a time.  *)
(* Within the round an acknowledgement can be trusted because ipi_ack is   *)
(* cleared after the tlb_addresses lock was free: a handler of an earlier  *)
(* round has then returned, and one that enters later flushes before it    *)
(* acknowledges.  RoundInv states this for the CPUs that the round has     *)
(* already reached.                                                        *)
(*                                                                         *)
(* write_sectors is a write of exactly its sectors because each block that *)
(* it puts on the drive is one of the staging buffer that holds the new    *)
(* values of the sectors named and the stored ones of the others.  JobInv  *)
(* states this at every step of a call.                                    *)
(***************************************************************************)
EXTENDS Shootdown, PartitionDrive, TLAPS

-----------------------------------------------------------------------------
(* Shootdown.                                                              *)

InUpgrade == {"upgrade", "ipi", "flush", "clear", "unack", "wait", "return"}
InIpi == {"flush", "clear", "unack", "wait", "p.unack", "p.wait"}
Flushed == {"clear", "unack", "wait", "return"}

TypeOK ==
  /\ pc \in [CPUs -> {"run", "hhdm", "p.ipi", "halted"} \union InUpgrade \union InIpi]
  /\ handler \in [CPUs -> {"none", "flush", "ack", "return"}]
  /\ masked \in [CPUs -> BOOLEAN]
  /\ at \in [CPUs -> Nat]
  /\ hhdm \in CPUs \union {NoCpu} /\ ipi \in CPUs \union {NoCpu}
  /\ tlb \in [CPUs -> CPUs \union {NoCpu}]
  /\ ack \in [CPUs -> BOOLEAN]
  /\ pend \in [CPUs -> SUBSET {"tlb", "halt"}]
  /\ stale \in SUBSET CPUs
  /\ gaveUp \in [CPUs -> SUBSET CPUs]
  /\ left \in Nat

\* Who holds which lock, and that handlers run where interrupts are enabled.
LockInv ==
  \A c \in CPUs :
    /\ hhdm = c <=> pc[c] \in InUpgrade
    /\ ipi = c <=> pc[c] \in InIpi
    /\ tlb[c] = c <=> handler[c] # "none"
    /\ tlb[c] # c => tlb[c] = NoCpu
    /\ handler[c] # "none" => pc[c] = "run"

\* Where the loops over CPUS are.
LoopInv ==
  \A c \in CPUs :
    /\ pc[c] \in {"clear", "unack", "wait"} => at[c] # c
    /\ pc[c] = "unack" => at[c] \in CPUs

\* A handler on d that acknowledges next has flushed for the round of c, ...
HandlerFlushed(c, d) ==
  \/ pc[c] = "clear" /\ d < at[c]
  \/ pc[c] = "unack" /\ d <= at[c]
  \/ pc[c] \in {"wait", "return"}

\* ... and so has d itself if its acknowledgement is set.
AckCounts(c, d) ==
  \/ pc[c] \in {"clear", "unack"} /\ d < at[c]
  \/ pc[c] \in {"wait", "return"}

\* c has waited for d.
Waited(c, d) ==
  \/ pc[c] = "wait" /\ d < at[c]
  \/ pc[c] = "return"

RoundInv ==
  \A c \in CPUs :
    /\ pc[c] \in Flushed => c \notin stale
    /\ \A d \in CPUs \ {c} :
         /\ HandlerFlushed(c, d) /\ handler[d] \in {"ack", "return"} => d \notin stale
         /\ AckCounts(c, d) /\ ack[d] => d \notin stale \/ pc[d] = "halted"
         /\ Waited(c, d) /\ d \in stale => d \in gaveUp[c] \/ pc[d] = "halted"

ShootInv == TypeOK /\ LockInv /\ LoopInv /\ StaleIsPending /\ RoundInv

-----------------------------------------------------------------------------

\* Lock holders are CPUs, and no CPU is NoCpu.
LEMMA CpuFacts == NoCpu \notin CPUs /\ NoCpu \in Nat /\ CPUs \subseteq Nat /\ \A i \in Nat : i \in CPUs <=> i < NoCpu
BY ShootdownAssumption DEF NoCpu, CPUs

\* At the start nothing is stale and nobody holds a lock.
LEMMA ShootInit == Init => ShootInv
PROOF
<1> SUFFICES ASSUME Init PROVE ShootInv
  BY Zenon
<1> USE CpuFacts, ShootdownAssumption DEF Init
<1>1. TypeOK
  BY Zenon DEF TypeOK
<1>2. LockInv
  BY Zenon DEF LockInv, InUpgrade, InIpi
<1>3. LoopInv
  BY Zenon DEF LoopInv
<1>4. StaleIsPending
  BY Zenon DEF StaleIsPending
<1>5. RoundInv
  BY Zenon DEF RoundInv, Flushed, HandlerFlushed, AckCounts, Waited
<1> QED
  BY <1>1, <1>2, <1>3, <1>4, <1>5, Zenon DEF ShootInv

\* Every step keeps the types.
LEMMA TypeNext ==
  ASSUME TypeOK, LoopInv, [Next]_vars
  PROVE  TypeOK'
PROOF
<1> USE CpuFacts, ShootdownAssumption DEF TypeOK, InUpgrade, InIpi, LoopInv
<1>1. ASSUME NEW c \in CPUs, UpgradeStart(c) PROVE TypeOK'
  BY <1>1, Zenon DEF UpgradeStart, Goto
<1>2. ASSUME NEW c \in CPUs, UpgradeLock(c) PROVE TypeOK'
  BY <1>2, Zenon DEF UpgradeLock, Goto
<1>3. ASSUME NEW c \in CPUs, UpgradeNothing(c) PROVE TypeOK'
  BY <1>3, Zenon DEF UpgradeNothing, Goto
<1>4. ASSUME NEW c \in CPUs, UpgradeTable(c) PROVE TypeOK'
  BY <1>4 DEF UpgradeTable, Goto
<1>5. ASSUME NEW c \in CPUs, ShootLock(c) PROVE TypeOK'
  BY <1>5, Zenon DEF ShootLock, Goto
<1>6. ASSUME NEW c \in CPUs, ShootFlush(c) PROVE TypeOK'
  BY <1>6 DEF ShootFlush, Goto, StartLoop, Skip
<1>7. ASSUME NEW c \in CPUs, ShootClear(c) PROVE TypeOK'
  BY <1>7, Zenon DEF ShootClear, Goto
<1>8. ASSUME NEW c \in CPUs, ShootUnack(c) PROVE TypeOK'
  BY <1>8 DEF ShootUnack, Goto, Advance, Skip
<1>9. ASSUME NEW c \in CPUs, ShootSend(c) PROVE TypeOK'
  BY <1>9 DEF ShootSend, Goto, StartLoop, Skip, Sent
<1>10. ASSUME NEW c \in CPUs, ShootAcked(c) PROVE TypeOK'
  BY <1>10 DEF ShootAcked, Advance, Skip
<1>11. ASSUME NEW c \in CPUs, ShootGiveUp(c) PROVE TypeOK'
  BY <1>11 DEF ShootGiveUp, Advance, Skip
<1>12. ASSUME NEW c \in CPUs, ShootDone(c) PROVE TypeOK'
  BY <1>12, Zenon DEF ShootDone, Goto
<1>13. ASSUME NEW c \in CPUs, UpgradeDone(c) PROVE TypeOK'
  BY <1>13, Zenon DEF UpgradeDone, Goto
<1>14. ASSUME NEW c \in CPUs, TlbEnter(c) PROVE TypeOK'
  BY <1>14, Zenon DEF TlbEnter, Open
<1>15. ASSUME NEW c \in CPUs, TlbFlush(c) PROVE TypeOK'
  BY <1>15, Zenon DEF TlbFlush
<1>16. ASSUME NEW c \in CPUs, TlbAck(c) PROVE TypeOK'
  BY <1>16, Zenon DEF TlbAck
<1>17. ASSUME NEW c \in CPUs, TlbReturn(c) PROVE TypeOK'
  BY <1>17, Zenon DEF TlbReturn
<1>18. ASSUME NEW c \in CPUs, Halt(c) PROVE TypeOK'
  BY <1>18, Zenon DEF Halt, Open
<1>19. ASSUME NEW c \in CPUs, PanicStart(c) PROVE TypeOK'
  BY <1>19 DEF PanicStart, Goto
<1>20. ASSUME NEW c \in CPUs, PanicLock(c) PROVE TypeOK'
  BY <1>20 DEF PanicLock, Goto, StartLoop, Skip
<1>21. ASSUME NEW c \in CPUs, PanicUnack(c) PROVE TypeOK'
  BY <1>21 DEF PanicUnack, Advance, Skip
<1>22. ASSUME NEW c \in CPUs, PanicSend(c) PROVE TypeOK'
  BY <1>22 DEF PanicSend, Goto, StartLoop, Skip, Sent
<1>23. ASSUME NEW c \in CPUs, PanicWait(c) PROVE TypeOK'
  BY <1>23 DEF PanicWait, Advance, Skip
<1>24. ASSUME NEW c \in CPUs, PanicDone(c) PROVE TypeOK'
  BY <1>24, Zenon DEF PanicDone, Goto
<1>25. CASE UNCHANGED vars
  BY <1>25, Zenon DEF vars
<1> QED
  BY <1>1, <1>2, <1>3, <1>4, <1>5, <1>6, <1>7, <1>8, <1>9, <1>10, <1>11, <1>12, <1>13, <1>14, <1>15, <1>16, <1>17, <1>18, <1>19, <1>20, <1>21, <1>22, <1>23, <1>24, <1>25, Zenon DEF Next, Step, Stopped

\* Every step keeps track of the locks.
LEMMA LockNext ==
  ASSUME TypeOK, LockInv, [Next]_vars
  PROVE  LockInv'
PROOF
<1> USE CpuFacts, ShootdownAssumption DEF TypeOK, InUpgrade, InIpi, LockInv
<1>1. ASSUME NEW c \in CPUs, UpgradeStart(c) PROVE LockInv'
  BY <1>1 DEF UpgradeStart, Goto
<1>2. ASSUME NEW c \in CPUs, UpgradeLock(c) PROVE LockInv'
  BY <1>2 DEF UpgradeLock, Goto
<1>3. ASSUME NEW c \in CPUs, UpgradeNothing(c) PROVE LockInv'
  BY <1>3 DEF UpgradeNothing, Goto
<1>4. ASSUME NEW c \in CPUs, UpgradeTable(c) PROVE LockInv'
  BY <1>4 DEF UpgradeTable, Goto
<1>5. ASSUME NEW c \in CPUs, ShootLock(c) PROVE LockInv'
  BY <1>5 DEF ShootLock, Goto
<1>6. ASSUME NEW c \in CPUs, ShootFlush(c) PROVE LockInv'
  BY <1>6 DEF ShootFlush, Goto, StartLoop, Skip
<1>7. ASSUME NEW c \in CPUs, ShootClear(c) PROVE LockInv'
  BY <1>7 DEF ShootClear, Goto
<1>8. ASSUME NEW c \in CPUs, ShootUnack(c) PROVE LockInv'
  BY <1>8 DEF ShootUnack, Goto, Advance, Skip
<1>9. ASSUME NEW c \in CPUs, ShootSend(c) PROVE LockInv'
  BY <1>9 DEF ShootSend, Goto, StartLoop, Skip, Sent
<1>10. ASSUME NEW c \in CPUs, ShootAcked(c) PROVE LockInv'
  BY <1>10, Zenon DEF ShootAcked, Advance, Skip
<1>11. ASSUME NEW c \in CPUs, ShootGiveUp(c) PROVE LockInv'
  BY <1>11, Zenon DEF ShootGiveUp, Advance, Skip
<1>12. ASSUME NEW c \in CPUs, ShootDone(c) PROVE LockInv'
  BY <1>12 DEF ShootDone, Goto
<1>13. ASSUME NEW c \in CPUs, UpgradeDone(c) PROVE LockInv'
  BY <1>13 DEF UpgradeDone, Goto
<1>14. ASSUME NEW c \in CPUs, TlbEnter(c) PROVE LockInv'
  BY <1>14 DEF TlbEnter, Open
<1>15. ASSUME NEW c \in CPUs, TlbFlush(c) PROVE LockInv'
  BY <1>15 DEF TlbFlush
<1>16. ASSUME NEW c \in CPUs, TlbAck(c) PROVE LockInv'
  BY <1>16 DEF TlbAck
<1>17. ASSUME NEW c \in CPUs, TlbReturn(c) PROVE LockInv'
  BY <1>17 DEF TlbReturn
<1>18. ASSUME NEW c \in CPUs, Halt(c) PROVE LockInv'
  BY <1>18 DEF Halt, Open
<1>19. ASSUME NEW c \in CPUs, PanicStart(c) PROVE LockInv'
  BY <1>19 DEF PanicStart, Goto
<1>20. ASSUME NEW c \in CPUs, PanicLock(c) PROVE LockInv'
  BY <1>20 DEF PanicLock, Goto, StartLoop, Skip
<1>21. ASSUME NEW c \in CPUs, PanicUnack(c) PROVE LockInv'
  BY <1>21, Zenon DEF PanicUnack, Advance, Skip
<1>22. ASSUME NEW c \in CPUs, PanicSend(c) PROVE LockInv'
  BY <1>22 DEF PanicSend, Goto, StartLoop, Skip, Sent
<1>23. ASSUME NEW c \in CPUs, PanicWait(c) PROVE LockInv'
  BY <1>23, Zenon DEF PanicWait, Advance, Skip
<1>24. ASSUME NEW c \in CPUs, PanicDone(c) PROVE LockInv'
  BY <1>24 DEF PanicDone, Goto
<1>25. CASE UNCHANGED vars
  BY <1>25, Zenon DEF vars
<1> QED
  BY <1>1, <1>2, <1>3, <1>4, <1>5, <1>6, <1>7, <1>8, <1>9, <1>10, <1>11, <1>12, <1>13, <1>14, <1>15, <1>16, <1>17, <1>18, <1>19, <1>20, <1>21, <1>22, <1>23, <1>24, <1>25, Zenon DEF Next, Step, Stopped

\* Every step keeps the loops in range.
LEMMA LoopNext ==
  ASSUME TypeOK, LoopInv, [Next]_vars
  PROVE  LoopInv'
PROOF
<1> USE CpuFacts, ShootdownAssumption DEF TypeOK, InUpgrade, InIpi, LoopInv
<1>1. ASSUME NEW c \in CPUs, UpgradeStart(c) PROVE LoopInv'
  BY <1>1, Zenon DEF UpgradeStart, Goto
<1>2. ASSUME NEW c \in CPUs, UpgradeLock(c) PROVE LoopInv'
  BY <1>2, Zenon DEF UpgradeLock, Goto
<1>3. ASSUME NEW c \in CPUs, UpgradeNothing(c) PROVE LoopInv'
  BY <1>3, Zenon DEF UpgradeNothing, Goto
<1>4. ASSUME NEW c \in CPUs, UpgradeTable(c) PROVE LoopInv'
  BY <1>4, Zenon DEF UpgradeTable, Goto
<1>5. ASSUME NEW c \in CPUs, ShootLock(c) PROVE LoopInv'
  BY <1>5, Zenon DEF ShootLock, Goto
<1>6. ASSUME NEW c \in CPUs, ShootFlush(c) PROVE LoopInv'
  BY <1>6 DEF ShootFlush, Goto, StartLoop, Skip
<1>7. ASSUME NEW c \in CPUs, ShootClear(c) PROVE LoopInv'
  BY <1>7, Zenon DEF ShootClear, Goto
<1>8. ASSUME NEW c \in CPUs, ShootUnack(c) PROVE LoopInv'
  BY <1>8 DEF ShootUnack, Goto, Advance, Skip
<1>9. ASSUME NEW c \in CPUs, ShootSend(c) PROVE LoopInv'
  BY <1>9 DEF ShootSend, Goto, StartLoop, Skip, Sent
<1>10. ASSUME NEW c \in CPUs, ShootAcked(c) PROVE LoopInv'
  BY <1>10 DEF ShootAcked, Advance, Skip
<1>11. ASSUME NEW c \in CPUs, ShootGiveUp(c) PROVE LoopInv'
  BY <1>11 DEF ShootGiveUp, Advance, Skip
<1>12. ASSUME NEW c \in CPUs, ShootDone(c) PROVE LoopInv'
  BY <1>12, Zenon DEF ShootDone, Goto
<1>13. ASSUME NEW c \in CPUs, UpgradeDone(c) PROVE LoopInv'
  BY <1>13, Zenon DEF UpgradeDone, Goto
<1>14. ASSUME NEW c \in CPUs, TlbEnter(c) PROVE LoopInv'
  BY <1>14, Zenon DEF TlbEnter, Open
<1>15. ASSUME NEW c \in CPUs, TlbFlush(c) PROVE LoopInv'
  BY <1>15, Zenon DEF TlbFlush
<1>16. ASSUME NEW c \in CPUs, TlbAck(c) PROVE LoopInv'
  BY <1>16, Zenon DEF TlbAck
<1>17. ASSUME NEW c \in CPUs, TlbReturn(c) PROVE LoopInv'
  BY <1>17, Zenon DEF TlbReturn
<1>18. ASSUME NEW c \in CPUs, Halt(c) PROVE LoopInv'
  BY <1>18, Zenon DEF Halt, Open
<1>19. ASSUME NEW c \in CPUs, PanicStart(c) PROVE LoopInv'
  BY <1>19 DEF PanicStart, Goto
<1>20. ASSUME NEW c \in CPUs, PanicLock(c) PROVE LoopInv'
  BY <1>20, Zenon DEF PanicLock, Goto, StartLoop, Skip
<1>21. ASSUME NEW c \in CPUs, PanicUnack(c) PROVE LoopInv'
  BY <1>21 DEF PanicUnack, Advance, Skip
<1>22. ASSUME NEW c \in CPUs, PanicSend(c) PROVE LoopInv'
  BY <1>22, Zenon DEF PanicSend, Goto, StartLoop, Skip, Sent
<1>23. ASSUME NEW c \in CPUs, PanicWait(c) PROVE LoopInv'
  BY <1>23 DEF PanicWait, Advance, Skip
<1>24. ASSUME NEW c \in CPUs, PanicDone(c) PROVE LoopInv'
  BY <1>24, Zenon DEF PanicDone, Goto
<1>25. CASE UNCHANGED vars
  BY <1>25, Zenon DEF vars
<1> QED
  BY <1>1, <1>2, <1>3, <1>4, <1>5, <1>6, <1>7, <1>8, <1>9, <1>10, <1>11, <1>12, <1>13, <1>14, <1>15, <1>16, <1>17, <1>18, <1>19, <1>20, <1>21, <1>22, <1>23, <1>24, <1>25, Zenon DEF Next, Step, Stopped

\* Only ShootSend ends a round's first half, and it leaves the interrupt pending.
LEMMA StaleNext ==
  ASSUME TypeOK, LockInv, LoopInv, RoundInv, StaleIsPending, [Next]_vars
  PROVE  StaleIsPending'
PROOF
<1> USE CpuFacts, ShootdownAssumption DEF TypeOK, InUpgrade, InIpi, LockInv, LoopInv, RoundInv, StaleIsPending, Flushed
<1>1. ASSUME NEW c \in CPUs, UpgradeStart(c) PROVE StaleIsPending'
  BY <1>1 DEF UpgradeStart, Goto
<1>2. ASSUME NEW c \in CPUs, UpgradeLock(c) PROVE StaleIsPending'
  BY <1>2 DEF UpgradeLock, Goto
<1>3. ASSUME NEW c \in CPUs, UpgradeNothing(c) PROVE StaleIsPending'
  BY <1>3 DEF UpgradeNothing, Goto
<1>4. ASSUME NEW c \in CPUs, UpgradeTable(c) PROVE StaleIsPending'
  BY <1>4 DEF UpgradeTable, Goto
<1>5. ASSUME NEW c \in CPUs, ShootLock(c) PROVE StaleIsPending'
  BY <1>5 DEF ShootLock, Goto
<1>6. ASSUME NEW c \in CPUs, ShootFlush(c) PROVE StaleIsPending'
  BY <1>6 DEF ShootFlush, Goto, StartLoop, Skip
<1>7. ASSUME NEW c \in CPUs, ShootClear(c) PROVE StaleIsPending'
  BY <1>7 DEF ShootClear, Goto
<1>8. ASSUME NEW c \in CPUs, ShootUnack(c) PROVE StaleIsPending'
  BY <1>8 DEF ShootUnack, Goto, Advance, Skip
<1>9. ASSUME NEW c \in CPUs, ShootSend(c) PROVE StaleIsPending'
  BY <1>9, Zenon DEF ShootSend, Goto, StartLoop, Skip, Sent
<1>10. ASSUME NEW c \in CPUs, ShootAcked(c) PROVE StaleIsPending'
  BY <1>10, Zenon DEF ShootAcked, Advance, Skip
<1>11. ASSUME NEW c \in CPUs, ShootGiveUp(c) PROVE StaleIsPending'
  BY <1>11, Zenon DEF ShootGiveUp, Advance, Skip
<1>12. ASSUME NEW c \in CPUs, ShootDone(c) PROVE StaleIsPending'
  BY <1>12 DEF ShootDone, Goto
<1>13. ASSUME NEW c \in CPUs, UpgradeDone(c) PROVE StaleIsPending'
  BY <1>13 DEF UpgradeDone, Goto
<1>14. ASSUME NEW c \in CPUs, TlbEnter(c) PROVE StaleIsPending'
  BY <1>14 DEF TlbEnter, Open
<1>15. ASSUME NEW c \in CPUs, TlbFlush(c) PROVE StaleIsPending'
  BY <1>15 DEF TlbFlush
<1>16. ASSUME NEW c \in CPUs, TlbAck(c) PROVE StaleIsPending'
  BY <1>16 DEF TlbAck
<1>17. ASSUME NEW c \in CPUs, TlbReturn(c) PROVE StaleIsPending'
  BY <1>17 DEF TlbReturn
<1>18. ASSUME NEW c \in CPUs, Halt(c) PROVE StaleIsPending'
  BY <1>18 DEF Halt, Open
<1>19. ASSUME NEW c \in CPUs, PanicStart(c) PROVE StaleIsPending'
  BY <1>19 DEF PanicStart, Goto
<1>20. ASSUME NEW c \in CPUs, PanicLock(c) PROVE StaleIsPending'
  BY <1>20 DEF PanicLock, Goto, StartLoop, Skip
<1>21. ASSUME NEW c \in CPUs, PanicUnack(c) PROVE StaleIsPending'
  BY <1>21, Zenon DEF PanicUnack, Advance, Skip
<1>22. ASSUME NEW c \in CPUs, PanicSend(c) PROVE StaleIsPending'
  BY <1>22 DEF PanicSend, Goto, StartLoop, Skip, Sent
<1>23. ASSUME NEW c \in CPUs, PanicWait(c) PROVE StaleIsPending'
  BY <1>23, Zenon DEF PanicWait, Advance, Skip
<1>24. ASSUME NEW c \in CPUs, PanicDone(c) PROVE StaleIsPending'
  BY <1>24 DEF PanicDone, Goto
<1>25. CASE UNCHANGED vars
  BY <1>25, Zenon DEF vars
<1> QED
  BY <1>1, <1>2, <1>3, <1>4, <1>5, <1>6, <1>7, <1>8, <1>9, <1>10, <1>11, <1>12, <1>13, <1>14, <1>15, <1>16, <1>17, <1>18, <1>19, <1>20, <1>21, <1>22, <1>23, <1>24, <1>25, Zenon DEF Next, Step, Stopped

\* Every step keeps the acknowledgements honest.
LEMMA RoundNext ==
  ASSUME TypeOK, LockInv, LoopInv, RoundInv, [Next]_vars
  PROVE  RoundInv'
PROOF
<1> USE CpuFacts, ShootdownAssumption DEF TypeOK, InUpgrade, InIpi, LockInv, LoopInv, RoundInv, Flushed, HandlerFlushed, AckCounts, Waited
<1>1. ASSUME NEW c \in CPUs, UpgradeStart(c) PROVE RoundInv'
  BY <1>1 DEF UpgradeStart, Goto
<1>2. ASSUME NEW c \in CPUs, UpgradeLock(c) PROVE RoundInv'
  BY <1>2 DEF UpgradeLock, Goto
<1>3. ASSUME NEW c \in CPUs, UpgradeNothing(c) PROVE RoundInv'
  BY <1>3 DEF UpgradeNothing, Goto
<1>4. ASSUME NEW c \in CPUs, UpgradeTable(c) PROVE RoundInv'
  BY <1>4 DEF UpgradeTable, Goto
<1>5. ASSUME NEW c \in CPUs, ShootLock(c) PROVE RoundInv'
  BY <1>5 DEF ShootLock, Goto
<1>6. ASSUME NEW c \in CPUs, ShootFlush(c) PROVE RoundInv'
  BY <1>6 DEF ShootFlush, Goto, StartLoop, Skip
<1>7. ASSUME NEW c \in CPUs, ShootClear(c) PROVE RoundInv'
  BY <1>7 DEF ShootClear, Goto
<1>8. ASSUME NEW c \in CPUs, ShootUnack(c) PROVE RoundInv'
  BY <1>8 DEF ShootUnack, Goto, Advance, Skip
<1>9. ASSUME NEW c \in CPUs, ShootSend(c) PROVE RoundInv'
  BY <1>9 DEF ShootSend, Goto, StartLoop, Skip, Sent
<1>10. ASSUME NEW c \in CPUs, ShootAcked(c) PROVE RoundInv'
  BY <1>10 DEF ShootAcked, Advance, Skip
<1>11. ASSUME NEW c \in CPUs, ShootGiveUp(c) PROVE RoundInv'
  BY <1>11 DEF ShootGiveUp, Advance, Skip
<1>12. ASSUME NEW c \in CPUs, ShootDone(c) PROVE RoundInv'
  BY <1>12 DEF ShootDone, Goto
<1>13. ASSUME NEW c \in CPUs, UpgradeDone(c) PROVE RoundInv'
  BY <1>13 DEF UpgradeDone, Goto
<1>14. ASSUME NEW c \in CPUs, TlbEnter(c) PROVE RoundInv'
  BY <1>14 DEF TlbEnter, Open
<1>15. ASSUME NEW c \in CPUs, TlbFlush(c) PROVE RoundInv'
  BY <1>15 DEF TlbFlush
<1>16. ASSUME NEW c \in CPUs, TlbAck(c) PROVE RoundInv'
  BY <1>16 DEF TlbAck
<1>17. ASSUME NEW c \in CPUs, TlbReturn(c) PROVE RoundInv'
  BY <1>17 DEF TlbReturn
<1>18. ASSUME NEW c \in CPUs, Halt(c) PROVE RoundInv'
  BY <1>18 DEF Halt, Open
<1>19. ASSUME NEW c \in CPUs, PanicStart(c) PROVE RoundInv'
  BY <1>19 DEF PanicStart, Goto
<1>20. ASSUME NEW c \in CPUs, PanicLock(c) PROVE RoundInv'
  BY <1>20 DEF PanicLock, Goto, StartLoop, Skip
<1>21. ASSUME NEW c \in CPUs, PanicUnack(c) PROVE RoundInv'
  BY <1>21 DEF PanicUnack, Advance, Skip
<1>22. ASSUME NEW c \in CPUs, PanicSend(c) PROVE RoundInv'
  BY <1>22 DEF PanicSend, Goto, StartLoop, Skip, Sent
<1>23. ASSUME NEW c \in CPUs, PanicWait(c) PROVE RoundInv'
  BY <1>23 DEF PanicWait, Advance, Skip
<1>24. ASSUME NEW c \in CPUs, PanicDone(c) PROVE RoundInv'
  BY <1>24 DEF PanicDone, Goto
<1>25. CASE UNCHANGED vars
  BY <1>25 DEF vars
<1> QED
  BY <1>1, <1>2, <1>3, <1>4, <1>5, <1>6, <1>7, <1>8, <1>9, <1>10, <1>11, <1>12, <1>13, <1>14, <1>15, <1>16, <1>17, <1>18, <1>19, <1>20, <1>21, <1>22, <1>23, <1>24, <1>25, Zenon DEF Next, Step, Stopped

-----------------------------------------------------------------------------

\* ShootInv is an invariant of tlb_shoot_all, the handlers and the panic path.
THEOREM ShootInvariant == Spec => []ShootInv
PROOF
<1>1. ShootInv /\ [Next]_vars => ShootInv'
  BY TypeNext, LockNext, LoopNext, StaleNext, RoundNext, Zenon DEF ShootInv
<1> QED
  BY ShootInit, <1>1, PTL DEF Spec

\* When tlb_shoot_all returns, every CPU that acknowledged in time has flushed or
\* has stopped for good.
THEOREM AcksAreHonest == Spec => []AckMeansFlushed
PROOF
<1>1. ShootInv => AckMeansFlushed
  BY CpuFacts DEF ShootInv, TypeOK, RoundInv, AckMeansFlushed, Waited, Flushed
<1> QED
  BY ShootInvariant, <1>1, PTL

\* Outside of a round, a CPU with an old translation still has the interrupt
\* pending or is about to flush.
THEOREM StaleFlushesLater == Spec => []StaleIsPending
PROOF
<1>1. ShootInv => StaleIsPending
  BY Zenon DEF ShootInv
<1> QED
  BY ShootInvariant, <1>1, PTL

\* A CPU stopped by ipi_halt_handler holds none of the locks.
THEOREM HaltedAreFree == Spec => []HaltedHoldNothing
PROOF
<1>1. ShootInv => HaltedHoldNothing
  BY Zenon DEF ShootInv, LockInv, HaltedHoldNothing, InUpgrade, InIpi
<1> QED
  BY ShootInvariant, <1>1, PTL

-----------------------------------------------------------------------------
(* PartitionDrive.                                                         *)

\* The block of the partition that holds its sector n, and what is in it.
BlockOf(n) == n \div SectorsPerBlock
Stored(n) == Block(BlockOf(n))[n % SectorsPerBlock]

SectorCalls == [kind : {"write", "zero", "blocks"}, start : Nat, count : Nat, room : Nat]
Buffers == UNION {[0..(n - 1) -> Nat] : n \in Nat}
Disks == [0..(DiskBlocks - 1) -> [0..(SectorsPerBlock - 1) -> Nat]]
Jobs == [call : SectorCalls, pc : {"stage", "put"}, done : Nat, start : Nat, count : Nat,
         i : Nat, native : Nat, staging : Buffers]

\* What write_sectors has to leave in sector n: the new value or the old one.
Wanted(j, n) ==
  IF n \in j.start..(j.start + j.count - 1) THEN Data(j.call.kind, n - j.call.start) ELSE Stored(n)

\* The first m blocks of the staging buffer are ready.
Ready(j, m) ==
  \A n \in Nat : BlockOf(n) \in NativeStart(j.start)..(NativeStart(j.start) + m - 1) =>
    j.staging[n - NativeStart(j.start) * SectorsPerBlock] = Wanted(j, n)

\* The earlier parts of the call are on the drive, and m blocks of this one.
Written(j, m) ==
  \A n \in Nat :
    /\ j.call.start <= n /\ n < j.start + j.count
    /\ n < j.start \/ BlockOf(n) < NativeStart(j.start) + m
    => BlockOf(n) < PartBlocks /\ Stored(n) = Data(j.call.kind, n - j.call.start)

\* The local variables of write_sectors and zero_sectors.
Shape(j) ==
  /\ j \in Jobs
  /\ j.start = j.call.start + j.done /\ j.done + j.count <= j.call.count
  /\ j.call.kind # "zero" => j.done = 0 /\ j.count = j.call.count
  /\ j.native = NativeEnd(j.start, j.count) - NativeStart(j.start)
  /\ DOMAIN j.staging = 0..(StagingSize(j.count, j.native) - 1)
  /\ j.i <= j.native
  /\ NewValues(j.call) # None

JobInv(j) ==
  /\ Shape(j)
  /\ j.pc = "stage" => Ready(j, j.i) /\ Written(j, 0)
  /\ j.pc = "put" => /\ Ready(j, j.native) /\ Written(j, j.i)
                     /\ InPartition(NativeStart(j.start), j.native)

IInv ==
  /\ disk \in Disks
  /\ job = Idle \/ JobInv(job)

-----------------------------------------------------------------------------
(* Sectors, blocks and pages.                                              *)

\* A number is its quotient and its remainder.
LEMMA DivMod ==
  ASSUME NEW a \in Nat, NEW s \in Nat \ {0}
  PROVE  /\ a \div s \in Nat /\ a % s \in 0..(s - 1)
         /\ a = s * (a \div s) + (a % s)
OBVIOUS

\* More wholes are more by a whole at least.
LEMMA Wholes ==
  ASSUME NEW p \in Nat, NEW q \in Nat, NEW s \in Nat \ {0}, p < q
  PROVE  s * p + s <= s * q
<1> DEFINE d == q - p - 1
<1>1. d \in Nat /\ q = p + 1 + d
  OBVIOUS
<1> HIDE DEF d
<1>2. s * q = s * p + s + s * d /\ s * d >= 0
  BY <1>1
<1>3. QED
  BY <1>2

\* The quotient is the only one that leaves less than a whole.
LEMMA DivUnique ==
  ASSUME NEW q \in Nat, NEW s \in Nat \ {0}, NEW k \in 0..(s - 1),
         NEW a \in Nat, a = s * q + k
  PROVE  a \div s = q /\ a % s = k
<1>1. a \in Nat
  BY Zenon
<1> DEFINE p == a \div s
           m == a % s
<1>2. p \in Nat /\ m \in 0..(s - 1) /\ a = s * p + m
  BY <1>1, DivMod, Zenon
<1> HIDE DEF p, m
<1>3. ASSUME p < q PROVE FALSE
  BY <1>2, <1>3, Wholes
<1>4. ASSUME q < p PROVE FALSE
  BY <1>2, <1>4, Wholes
<1>5. CASE p = q
  BY <1>2, <1>5 DEF p, m
<1>6. QED
  BY <1>2, <1>3, <1>4, <1>5

\* A larger number has no smaller quotient.
LEMMA DivGrows ==
  ASSUME NEW a \in Nat, NEW b \in Nat, NEW s \in Nat \ {0}, a <= b
  PROVE  a \div s <= b \div s
<1> DEFINE p == a \div s
           q == b \div s
<1>1. /\ p \in Nat /\ a % s \in 0..(s - 1) /\ a = s * p + (a % s)
      /\ q \in Nat /\ b % s \in 0..(s - 1) /\ b = s * q + (b % s)
  BY DivMod, Zenon
<1> HIDE DEF p, q
<1>2. ASSUME q < p PROVE FALSE
  BY <1>1, <1>2, Wholes
<1>3. QED
  BY <1>1, <1>2 DEF p, q

\* div_ceil: enough wholes, and no more than needed.
LEMMA CeilBounds ==
  ASSUME NEW n \in Nat, NEW d \in Nat \ {0}
  PROVE  /\ DivCeil(n, d) \in Nat /\ n <= d * DivCeil(n, d)
         /\ \A q \in Nat : n <= d * q => DivCeil(n, d) <= q
<1> DEFINE c == DivCeil(n, d)
           m == (n + d - 1) % d
<1>1. n + d - 1 \in Nat
  OBVIOUS
<1>2. c \in Nat /\ m \in 0..(d - 1) /\ n + d - 1 = d * c + m
  BY <1>1, DivMod, Zenon DEF DivCeil
<1> HIDE DEF c, m
<1>3. n <= d * c
  BY <1>2
<1>4. ASSUME NEW q \in Nat, n <= d * q, q < c
      PROVE  FALSE
  BY <1>2, <1>4, Wholes
<1>5. QED
  BY <1>2, <1>3, <1>4 DEF c

\* The block of a sector, and the place of the sector in it.
LEMMA InBlock ==
  ASSUME NEW n \in Nat
  PROVE  /\ BlockOf(n) \in Nat /\ n % SectorsPerBlock \in 0..(SectorsPerBlock - 1)
         /\ n = SectorsPerBlock * BlockOf(n) + (n % SectorsPerBlock)
         /\ SectorsPerBlock \in Nat \ {0}
BY DivMod, DriveAssumption, Zenon DEF BlockOf

\* A sector lies between the ends of its block and of no other.
LEMMA BlockEnds ==
  ASSUME NEW n \in Nat, NEW b \in Nat
  PROVE  /\ b * SectorsPerBlock \in Nat
         /\ BlockOf(n) = b <=> n \in (b * SectorsPerBlock)..(b * SectorsPerBlock + SectorsPerBlock - 1)
         /\ BlockOf(n) = b => n % SectorsPerBlock = n - b * SectorsPerBlock
<1> DEFINE s == SectorsPerBlock
           k == n - s * b
<1>1. s \in Nat \ {0} /\ b * s \in Nat /\ b * s = s * b
  BY DriveAssumption
<1>2. BlockOf(n) \in Nat /\ n % s \in 0..(s - 1) /\ n = s * BlockOf(n) + (n % s)
  BY InBlock, Zenon
<1>3. ASSUME n \in (s * b)..(s * b + s - 1) PROVE BlockOf(n) = b
  <2>1. k \in 0..(s - 1) /\ n = s * b + k
    BY <1>1, <1>3
  <2> HIDE DEF k
  <2>2. QED
    BY <1>1, <2>1, DivUnique, Zenon DEF BlockOf
<1> DEFINE m == n % s
<1> HIDE DEF m, s
<1>4. ASSUME BlockOf(n) = b PROVE n \in (s * b)..(s * b + s - 1) /\ m = n - s * b
  <2>1. n = s * b + m /\ m \in 0..(s - 1)
    BY <1>2, <1>4, Zenon DEF m
  <2>2. QED
    BY <1>1, <2>1
<1>5. QED
  BY <1>1, <1>3, <1>4, Zenon DEF m, s

\* The sectors of k blocks from block a on, counted from the first of them.
LEMMA Position ==
  ASSUME NEW n \in Nat, NEW a \in Nat, NEW k \in Nat, BlockOf(n) \in a..(a + k - 1)
  PROVE  n - a * SectorsPerBlock \in 0..(k * SectorsPerBlock - 1)
<1> DEFINE s == SectorsPerBlock
           d == BlockOf(n) - a
           m == n % s
           e == k - 1 - d
<1>1. s \in Nat \ {0} /\ m \in 0..(s - 1) /\ n = s * BlockOf(n) + m /\ BlockOf(n) \in Nat
  BY InBlock, Zenon
<1>2. d \in Nat /\ e \in Nat /\ BlockOf(n) = a + d /\ k = d + 1 + e
  BY <1>1
<1> HIDE DEF d, e, m, s
<1>3. s * BlockOf(n) = s * a + s * d /\ k * s = s * d + s + s * e
  BY <1>1, <1>2
<1>4. s * d \in Nat /\ s * e \in Nat /\ s * a \in Nat /\ a * s = s * a
  BY <1>1, <1>2
<1>5. n - a * s = s * d + m
  <2> DEFINE x == s * a
             y == s * d
  <2>1. n = x + y + m /\ a * s = x /\ x \in Nat /\ y \in Nat /\ m \in Nat
    BY <1>1, <1>3, <1>4
  <2> HIDE DEF x, y
  <2>2. n - a * s = y + m
    BY <2>1
  <2>3. QED
    BY <2>2, Zenon DEF y
<1>6. n - a * s \in 0..(k * s - 1)
  BY <1>1, <1>3, <1>4, <1>5
<1>7. QED
  BY <1>6, Zenon DEF s

\* The native blocks of a call hold all its sectors.
LEMMA NativeBlocks ==
  ASSUME NEW start \in Nat, NEW count \in Nat
  PROVE  /\ NativeStart(start) \in Nat /\ NativeEnd(start, count) \in Nat
         /\ NativeStart(start) <= NativeEnd(start, count)
         /\ \A n \in Nat : n < start + count => BlockOf(n) < NativeEnd(start, count)
<1> DEFINE s == SectorsPerBlock
           e == NativeEnd(start, count)
           b == NativeStart(start)
<1>1. s \in Nat \ {0} /\ b \in Nat /\ start % s \in 0..(s - 1) /\ start = s * b + (start % s)
  BY InBlock, Zenon DEF BlockOf, NativeStart
<1>2. e \in Nat /\ start + count <= s * e
  <2> DEFINE t == start + count
  <2>1. t \in Nat
    OBVIOUS
  <2> HIDE DEF t
  <2>2. DivCeil(t, s) \in Nat /\ t <= s * DivCeil(t, s)
    BY <1>1, <2>1, CeilBounds, Zenon
  <2>3. QED
    BY <2>2, Zenon DEF NativeEnd, t
<1> HIDE DEF s, e, b
<1>3. ASSUME e < b PROVE FALSE
  <2>1. s * e + s <= s * b
    BY <1>1, <1>2, <1>3, Wholes, Zenon
  <2>2. QED
    BY <1>1, <1>2, <2>1
<1>4. ASSUME NEW n \in Nat, n < start + count, ~(BlockOf(n) < e) PROVE FALSE
  <2>1. BlockOf(n) \in Nat /\ n % s \in 0..(s - 1) /\ n = s * BlockOf(n) + (n % s)
    BY InBlock, Zenon DEF s
  <2>2. CASE e = BlockOf(n)
    BY <1>1, <1>2, <1>4, <2>1, <2>2
  <2>3. CASE e < BlockOf(n)
    <3>1. s * e + s <= s * BlockOf(n)
      BY <1>1, <1>2, <2>1, <2>3, Wholes, Zenon
    <3>2. QED
      BY <1>1, <1>2, <1>4, <2>1, <3>1
  <2>4. QED
    BY <1>2, <1>4, <2>1, <2>2, <2>3
<1>5. QED
  BY <1>1, <1>2, <1>3, <1>4 DEF e, b

\* A buffer in whole pages has room for what was asked.
LEMMA Rooms ==
  ASSUME NEW count, NEW native \in Nat
  PROVE  /\ StagingSize(count, native) \in Nat
         /\ native * SectorsPerBlock \in Nat
         /\ native * SectorsPerBlock <= StagingSize(count, native)
<1> DEFINE n == native * SectorsPerBlock
           c == DivCeil(n, SectorsPerPage)
<1>1. n \in Nat /\ SectorsPerPage \in Nat \ {0}
  BY DriveAssumption
<1> HIDE DEF n
<1>2. c \in Nat /\ n <= SectorsPerPage * c
  BY <1>1, CeilBounds, Zenon
<1> HIDE DEF c
<1>3. c * SectorsPerPage \in Nat /\ n <= c * SectorsPerPage
  BY <1>1, <1>2
<1>4. QED
  BY <1>1, <1>3, Zenon DEF n, c, StagingSize, Pages

\* Sector n of the partition on the drive.
LEMMA OnDrive ==
  ASSUME NEW n \in Nat
  PROVE  /\ First \in Nat /\ (First + n) \div SectorsPerBlock = PartStart + BlockOf(n)
         /\ (First + n) % SectorsPerBlock = n % SectorsPerBlock
<1> DEFINE s == SectorsPerBlock
           b == BlockOf(n)
           m == n % s
           q == PartStart + b
<1>1. s \in Nat \ {0} /\ b \in Nat /\ m \in 0..(s - 1) /\ n = s * b + m /\ PartStart \in Nat
  BY InBlock, DriveAssumption, Zenon
<1>2. First = PartStart * s
  BY Zenon DEF First
<1> HIDE DEF s, b, m
<1>3. First \in Nat /\ First = s * PartStart /\ q \in Nat /\ s * q = s * PartStart + s * b
  BY <1>1, <1>2
<1>4. First + n = s * q + m
  BY <1>1, <1>3
<1> HIDE DEF q
<1>5. (First + n) \div s = q /\ (First + n) % s = m
  BY <1>1, <1>3, <1>4, DivUnique
<1>6. QED
  BY <1>3, <1>5, Zenon DEF s, b, m, q

\* The sectors of the drive lie in its blocks, and those of the partition are
\* sectors of the drive.
LEMMA DriveSectors ==
  /\ \A x \in 0..(DiskBlocks * SectorsPerBlock - 1) :
       /\ x \in Nat /\ BlockOf(x) \in 0..(DiskBlocks - 1)
       /\ x % SectorsPerBlock \in 0..(SectorsPerBlock - 1)
  /\ \A n \in Nat : BlockOf(n) < PartBlocks =>
       /\ First + n \in 0..(DiskBlocks * SectorsPerBlock - 1)
       /\ PartStart + BlockOf(n) \in 0..(DiskBlocks - 1)
       /\ Sectors[First + n] = Stored(n)
<1> DEFINE s == SectorsPerBlock
<1>1. s \in Nat \ {0} /\ DiskBlocks \in Nat /\ DiskBlocks * s = s * DiskBlocks
  BY DriveAssumption
<1>2. ASSUME NEW x \in 0..(DiskBlocks * s - 1)
      PROVE  x \in Nat /\ BlockOf(x) \in 0..(DiskBlocks - 1) /\ x % s \in 0..(s - 1)
  <2>1. x \in Nat /\ x < s * DiskBlocks
    BY <1>1
  <2>2. BlockOf(x) \in Nat /\ x % s \in 0..(s - 1) /\ x = s * BlockOf(x) + (x % s)
    BY <2>1, InBlock, Zenon
  <2> HIDE DEF s
  <2>3. CASE DiskBlocks < BlockOf(x)
    <3>1. s * DiskBlocks + s <= s * BlockOf(x)
      BY <1>1, <2>2, <2>3, Wholes, Zenon
    <3>2. QED
      BY <1>1, <2>1, <2>2, <3>1
  <2>4. CASE DiskBlocks = BlockOf(x)
    BY <1>1, <2>1, <2>2, <2>4
  <2>5. QED
    BY <1>1, <2>1, <2>2, <2>3, <2>4
<1>3. ASSUME NEW n \in Nat, BlockOf(n) < PartBlocks
      PROVE  /\ First + n \in 0..(DiskBlocks * s - 1)
             /\ PartStart + BlockOf(n) \in 0..(DiskBlocks - 1)
             /\ Sectors[First + n] = Stored(n)
  <2>1. /\ First \in Nat /\ (First + n) \div s = PartStart + BlockOf(n)
        /\ (First + n) % s = n % s
    BY OnDrive, Zenon
  <2>2. PartStart + BlockOf(n) \in 0..(DiskBlocks - 1)
    <3>1. BlockOf(n) \in Nat
      BY InBlock, Zenon
    <3>2. {DiskBlocks, PartStart, PartBlocks} \subseteq Nat /\ PartStart + PartBlocks <= DiskBlocks
      BY DriveAssumption, Zenon
    <3>3. QED
      BY <1>3, <3>1, <3>2
  <2> DEFINE x == First + n
             b == PartStart + BlockOf(n)
             m == x % s
  <2>3. x \in Nat /\ b \in Nat /\ b < DiskBlocks /\ x \div s = b /\ m \in 0..(s - 1)
    BY <1>1, <2>1, <2>2, DivMod
  <2> HIDE DEF x, b
  <2>4. x = s * b + m
    BY <1>1, <2>3, DivMod, Zenon
  <2>5. s * b + s <= s * DiskBlocks
    BY <1>1, <2>3, Wholes, Zenon
  <2> HIDE DEF m, s
  <2>6. x \in 0..(DiskBlocks * s - 1)
    BY <1>1, <2>3, <2>4, <2>5
  <2>7. Sectors[x] = disk[x \div s][x % s]
    BY <2>6, Zenon DEF Sectors, s
  <2>8. QED
    BY <2>1, <2>2, <2>6, <2>7, Zenon DEF x, Stored, Block, s
<1>4. QED
  BY <1>2, <1>3, Zenon

-----------------------------------------------------------------------------
(* Reads.                                                                  *)

\* Drive::read takes every read of sectors of the partition.
LEMMA ReadTaken ==
  ASSUME NEW start \in Nat, NEW count \in Nat, start + count <= PartBlocks * SectorsPerBlock
  PROVE  /\ NativeEnd(start, count) <= PartBlocks
         /\ ReadOK(NativeStart(start), NativeEnd(start, count) - NativeStart(start))
<1> DEFINE s == SectorsPerBlock
           w == SectorsPerPage
           b == NativeStart(start)
           e == NativeEnd(start, count)
           k == w \div s
           g == e - b
           t == start + count
<1>1. /\ s \in Nat \ {0} /\ w \in Nat \ {0} /\ PartBlocks \in Nat /\ w % s = 0
      /\ PartBlocks * s = s * PartBlocks
  BY DriveAssumption
<1>2. b \in Nat /\ e \in Nat /\ b <= e /\ g \in Nat
  BY NativeBlocks
<1>3. e <= PartBlocks
  <2>1. t \in Nat /\ t <= s * PartBlocks
    BY <1>1
  <2> HIDE DEF t, s
  <2>2. DivCeil(t, s) <= PartBlocks
    BY <1>1, <2>1, CeilBounds, Zenon
  <2>3. QED
    BY <2>2, Zenon DEF NativeEnd, t, s
<1>4. InPartition(b, g)
  BY <1>1, <1>2, <1>3 DEF InPartition
<1>5. k \in Nat \ {0} /\ w = s * k
  <2>1. k \in Nat /\ w = s * k + (w % s)
    BY <1>1, DivMod, Zenon
  <2> HIDE DEF k, s, w
  <2>2. QED
    BY <1>1, <2>1
<1> HIDE DEF k, g, s, w
<1>6. DivCeil(w, s) = k
  <2>1. w + s - 1 = s * k + (s - 1) /\ s - 1 \in 0..(s - 1)
    BY <1>1, <1>5
  <2> DEFINE x == w + s - 1
             m == s - 1
  <2>2. x = s * k + m /\ m \in 0..(s - 1)
    BY <2>1, Zenon
  <2> HIDE DEF x, m
  <2>3. x \div s = k
    BY <1>1, <1>5, <2>2, DivUnique
  <2>4. QED
    BY <2>3, Zenon DEF DivCeil, x
<1>7. DivCeil(g, k) * w >= g * s
  <2> DEFINE c == DivCeil(g, k)
  <2>1. c \in Nat /\ g <= k * c
    BY <1>2, <1>5, CeilBounds, Zenon
  <2> HIDE DEF c
  <2> DEFINE d == k * c - g
             r == k * c
  <2>2. r \in Nat
    BY <1>5, <2>1
  <2>3. d \in Nat /\ r = g + d
    BY <1>2, <2>1, <2>2
  <2>4. c * w = s * r
    BY <1>1, <1>5, <2>1
  <2> HIDE DEF r, d
  <2>5. s * r = g * s + s * d /\ s * d >= 0
    BY <1>1, <1>2, <2>3
  <2>6. g * s \in Nat /\ s * d \in Nat /\ s * r \in Nat
    BY <1>1, <1>2, <2>2, <2>3
  <2>7. c * w >= g * s
    BY <2>4, <2>5, <2>6
  <2>8. QED
    BY <2>7, Zenon DEF c
<1>8. QED
  BY <1>3, <1>4, <1>6, <1>7, Zenon DEF ReadOK, g, s, w

\* Sector n, looked for in blocks that begin at block a.
LEMMA SameSector ==
  ASSUME NEW n \in Nat, NEW a \in Nat, a <= BlockOf(n)
  PROVE  LET off == n - a * SectorsPerBlock
         IN  /\ off \in Nat
             /\ a + (off \div SectorsPerBlock) = BlockOf(n)
             /\ off % SectorsPerBlock = n % SectorsPerBlock
<1> DEFINE s == SectorsPerBlock
           b == BlockOf(n)
           m == n % s
           q == b - a
           off == n - a * s
<1>1. s \in Nat \ {0} /\ b \in Nat /\ m \in 0..(s - 1) /\ n = s * b + m
  BY InBlock, Zenon
<1> HIDE DEF s, b, m
<1>2. q \in Nat /\ b = a + q
  BY <1>1 DEF b
<1> HIDE DEF q
<1>3. s * b = s * a + s * q /\ s * a \in Nat /\ s * q \in Nat /\ a * s = s * a
  BY <1>1, <1>2
<1>4. off = s * q + m /\ off \in Nat
  BY <1>1, <1>3
<1> HIDE DEF off
<1>5. off \div s = q /\ off % s = m
  <2>1. s \in Nat \ {0} /\ q \in Nat /\ m \in 0..(s - 1) /\ off = s * q + m
    BY <1>1, <1>2, <1>4, Zenon
  <2>2. QED
    BY <2>1, DivUnique
<1>6. QED
  BY <1>2, <1>4, <1>5, Zenon DEF off, s, b, m

\* read_sectors, in every state of the drive.
LEMMA Reads == ReadsItsSectors
<1> DEFINE s == SectorsPerBlock
<1>1. s \in Nat \ {0} /\ PartBlocks \in Nat /\ PartBlocks * s \in Nat
  BY DriveAssumption
<1> SUFFICES ASSUME NEW start \in 0..(PartBlocks * s - 1), NEW count \in 1..(PartBlocks * s - start)
             PROVE  /\ ReadOK(NativeStart(start), NativeEnd(start, count) - NativeStart(start))
                    /\ ReadSectors(start, count) = [i \in 0..(count - 1) |-> Sectors[First + start + i]]
  BY Zenon DEF ReadsItsSectors
<1>2. start \in Nat /\ count \in Nat /\ start + count <= PartBlocks * s
  BY <1>1
<1> HIDE DEF s
<1>3. /\ NativeEnd(start, count) <= PartBlocks
      /\ ReadOK(NativeStart(start), NativeEnd(start, count) - NativeStart(start))
  BY <1>2, ReadTaken, Zenon DEF s
<1>4. ASSUME NEW i \in 0..(count - 1)
      PROVE  LET off == start + i - NativeStart(start) * s
             IN  Block(NativeStart(start) + (off \div s))[off % s] = Sectors[First + start + i]
  <2> DEFINE n == start + i
             a == NativeStart(start)
  <2>1. n \in Nat /\ start <= n /\ n < start + count
    BY <1>2
  <2> HIDE DEF n
  <2>2. a \in Nat /\ NativeEnd(start, count) \in Nat /\ BlockOf(n) < NativeEnd(start, count)
    BY <1>2, <2>1, NativeBlocks, Zenon
  <2>3. a <= BlockOf(n)
    BY <1>1, <1>2, <2>1, DivGrows, Zenon DEF NativeStart, BlockOf, s
  <2>4. BlockOf(n) \in Nat /\ BlockOf(n) < PartBlocks
    BY <1>1, <1>3, <2>1, <2>2, InBlock
  <2> HIDE DEF a
  <2> DEFINE off == n - a * s
  <2>5. a + (off \div s) = BlockOf(n) /\ off % s = n % s
    BY <2>1, <2>2, <2>3, SameSector, Zenon DEF s
  <2> HIDE DEF off
  <2>6. Sectors[First + n] = Block(BlockOf(n))[n % s]
    BY <2>1, <2>4, DriveSectors, Zenon DEF Stored, s
  <2>7. First + n = First + start + i
    <3>1. First \in Nat
      BY <2>1, OnDrive, Zenon
    <3>2. QED
      BY <1>2, <3>1 DEF n
  <2>8. Block(a + (off \div s))[off % s] = Sectors[First + start + i]
    BY <2>5, <2>6, <2>7, Zenon
  <2>9. off = start + i - NativeStart(start) * s
    BY <1>1, <1>2, <2>2 DEF off, n, a
  <2>10. QED
    BY <2>8, <2>9, Zenon DEF a
<1>5. QED
  BY <1>3, <1>4, Zenon DEF ReadSectors, s

-----------------------------------------------------------------------------
(* The beginning of write_sectors.                                         *)

LEMMA MinPair ==
  ASSUME NEW a \in Int, NEW b \in Int
  PROVE  Min({a, b}) \in {a, b} /\ Min({a, b}) <= a /\ Min({a, b}) <= b
<1> DEFINE m == IF a <= b THEN a ELSE b
<1>1. m \in {a, b} /\ \A y \in {a, b} : m <= y
  OBVIOUS
<1>2. Min({a, b}) \in {a, b} /\ \A y \in {a, b} : Min({a, b}) <= y
  BY <1>1, Zenon DEF Min
<1>3. QED
  BY <1>2, Zenon

LEMMA MaxPair ==
  ASSUME NEW a \in Nat, NEW b \in Nat
  PROVE  Max({a, b}) \in {a, b} /\ a <= Max({a, b}) /\ b <= Max({a, b})
<1> DEFINE m == IF a <= b THEN b ELSE a
<1>1. m \in {a, b} /\ \A y \in {a, b} : m >= y
  OBVIOUS
<1>2. Max({a, b}) \in {a, b} /\ \A y \in {a, b} : Max({a, b}) >= y
  BY <1>1, Zenon DEF Max
<1>3. QED
  BY <1>2, Zenon

\* What a call writes is a value of a sector.
LEMMA DataTypes ==
  ASSUME NEW kind, NEW i \in Nat
  PROVE  Data(kind, i) \in Nat
BY DEF Data

\* The local variables at the beginning of a part.
LEMMA JobShape ==
  ASSUME NEW c \in SectorCalls, NewValues(c) # None, NEW done \in Nat, done <= c.count,
         c.kind # "zero" => done = 0
  PROVE  /\ Shape(Job(c, done)) /\ Ready(Job(c, done), 0)
         /\ Job(c, done).call = c /\ Job(c, done).pc = "stage" /\ Job(c, done).i = 0
         /\ Job(c, done).start = c.start + done /\ Job(c, done).count = Part(c, done)
         /\ \A x \in DOMAIN Job(c, done).staging : Job(c, done).staging[x] = 0
<1> DEFINE j == Job(c, done)
           start == c.start + done
           count == Part(c, done)
           native == NativeEnd(start, count) - NativeStart(start)
           size == StagingSize(count, native)
<1>1. /\ j.call = c /\ j.pc = "stage" /\ j.done = done /\ j.start = start /\ j.count = count
      /\ j.i = 0 /\ j.native = native /\ j.staging = [x \in 0..(size - 1) |-> 0]
      /\ j = [call |-> c, pc |-> "stage", done |-> done, start |-> start, count |-> count,
              i |-> 0, native |-> native, staging |-> [x \in 0..(size - 1) |-> 0]]
  BY Zenon DEF Job
<1>2. c.start \in Nat /\ c.count \in Nat /\ start \in Nat
  BY DEF SectorCalls
<1>3. count \in Nat /\ done + count <= c.count /\ (c.kind # "zero" => count = c.count)
  <2>1. CASE c.kind = "zero"
    <3>1. c.count - done \in Nat /\ MaxSectors \in Nat
      BY <1>2, DriveAssumption
    <3> DEFINE rest == c.count - done
    <3>2. rest \in Int /\ MaxSectors \in Int
      BY <3>1
    <3> HIDE DEF rest
    <3>3. Min({rest, MaxSectors}) \in {rest, MaxSectors} /\ Min({rest, MaxSectors}) <= rest
      BY <3>2, MinPair, Zenon
    <3>4. QED
      BY <1>2, <2>1, <3>1, <3>3 DEF Part, rest
  <2>2. CASE c.kind # "zero"
    BY <1>2, <2>2 DEF Part
  <2>3. QED
    BY <2>1, <2>2, Zenon
<1> HIDE DEF start, count
<1>4. NativeStart(start) \in Nat /\ native \in Nat
  <2>1. /\ NativeStart(start) \in Nat /\ NativeEnd(start, count) \in Nat
        /\ NativeStart(start) <= NativeEnd(start, count)
    BY <1>2, <1>3, NativeBlocks, Zenon
  <2>2. QED
    BY <2>1
<1> HIDE DEF native
<1>5. size \in Nat
  BY <1>4, Rooms, Zenon
<1> HIDE DEF size
<1>6. [x \in 0..(size - 1) |-> 0] \in Buffers
  BY <1>5 DEF Buffers
<1>7. j \in Jobs
  BY <1>1, <1>2, <1>3, <1>4, <1>6 DEF Jobs
<1> HIDE DEF j
<1>8. Shape(j)
  <2>1. DOMAIN j.staging = 0..(StagingSize(j.count, j.native) - 1)
    BY <1>1, Zenon DEF size
  <2>2. j.native = NativeEnd(j.start, j.count) - NativeStart(j.start)
    BY <1>1, Zenon DEF native
  <2>3. j.start = j.call.start + j.done
    BY <1>1, Zenon DEF start
  <2>4. QED
    BY <1>1, <1>2, <1>3, <1>4, <1>7, <2>1, <2>2, <2>3 DEF Shape
<1>9. Ready(j, 0)
  BY <1>1, <1>4, InBlock DEF Ready
<1>10. QED
  BY <1>1, <1>8, <1>9, Zenon DEF j, start, count

\* Before the first part, nothing has to be on the drive.
LEMMA NothingWritten ==
  ASSUME NEW j, Shape(j), j.done = 0
  PROVE  Written(j, 0)
<1>1. j.start \in Nat /\ j.start = j.call.start /\ NativeStart(j.start) \in Nat
  <2>1. j.start \in Nat /\ j.count \in Nat /\ j.start = j.call.start + 0 /\ j.call.start \in Nat
    BY Zenon DEF Shape, Jobs, SectorCalls
  <2>2. j.start = j.call.start
    BY <2>1
  <2>3. NativeStart(j.start) \in Nat
    BY <2>1, InBlock, Zenon DEF NativeStart, BlockOf
  <2>4. QED
    BY <2>1, <2>2, <2>3, Zenon
<1>2. ASSUME NEW n \in Nat, j.call.start <= n PROVE NativeStart(j.start) <= BlockOf(n)
  BY <1>1, <1>2, DivGrows, DriveAssumption, Zenon DEF NativeStart, BlockOf
<1>3. ASSUME NEW n \in Nat, j.call.start <= n, n < j.start \/ BlockOf(n) < NativeStart(j.start) + 0
      PROVE  FALSE
  <2>1. NativeStart(j.start) <= BlockOf(n) /\ BlockOf(n) \in Nat
    BY <1>2, <1>3, InBlock, Zenon
  <2>2. QED
    BY <1>1, <1>3, <2>1
<1>4. QED
  BY <1>3, Zenon DEF Written

\* The blocks of a part are those of its sectors, and the staging buffer has
\* room for them.
LEMMA Bounds ==
  ASSUME NEW j, Shape(j)
  PROVE  /\ j.call \in SectorCalls /\ {j.done, j.start, j.count, j.i, j.native} \subseteq Nat
         /\ j.call.start \in Nat /\ j.call.count \in Nat
         /\ NativeStart(j.start) \in Nat
         /\ \A n \in Nat : n < j.start + j.count => BlockOf(n) < NativeStart(j.start) + j.native
         /\ \A n \in Nat : BlockOf(n) \in NativeStart(j.start)..(NativeStart(j.start) + j.native - 1) =>
              n - NativeStart(j.start) * SectorsPerBlock \in DOMAIN j.staging
         /\ \A x \in DOMAIN j.staging : x \in Nat /\ j.staging[x] \in Nat
<1> DEFINE a == NativeStart(j.start)
           e == NativeEnd(j.start, j.count)
           size == StagingSize(j.count, j.native)
<1>1. /\ j.call \in SectorCalls /\ {j.done, j.start, j.count, j.i, j.native} \subseteq Nat
      /\ j.staging \in Buffers /\ j.native = e - a /\ DOMAIN j.staging = 0..(size - 1)
  BY Zenon DEF Shape, Jobs
<1>2. j.call.start \in Nat /\ j.call.count \in Nat
  BY <1>1, Zenon DEF SectorCalls
<1>3. /\ a \in Nat /\ e \in Nat /\ a <= e
      /\ \A n \in Nat : n < j.start + j.count => BlockOf(n) < e
  BY <1>1, NativeBlocks, Zenon
<1> HIDE DEF a, e
<1>4. e = a + j.native
  BY <1>1, <1>3
<1>5. size \in Nat /\ j.native * SectorsPerBlock \in Nat /\ j.native * SectorsPerBlock <= size
  BY <1>1, Rooms, Zenon
<1> HIDE DEF size
<1>6. ASSUME NEW n \in Nat, BlockOf(n) \in a..(a + j.native - 1)
      PROVE  n - a * SectorsPerBlock \in DOMAIN j.staging
  <2>1. n - a * SectorsPerBlock \in 0..(j.native * SectorsPerBlock - 1)
    BY <1>1, <1>3, <1>6, Position, Zenon
  <2>2. QED
    BY <1>1, <1>5, <2>1
<1>7. ASSUME NEW x \in DOMAIN j.staging PROVE x \in Nat /\ j.staging[x] \in Nat
  <2>1. PICK k \in Nat : j.staging \in [0..(k - 1) -> Nat]
    BY <1>1, Zenon DEF Buffers
  <2>2. QED
    BY <2>1
<1>8. QED
  BY <1>1, <1>2, <1>3, <1>4, <1>6, <1>7, Zenon DEF a

-----------------------------------------------------------------------------
(* The steps: each keeps the invariant, and is a step of SectorStore or    *)
(* leaves what it sees unchanged.                                          *)

LEMMA InitInv == DriveInit => IInv /\ Store!Init
<1> SUFFICES ASSUME DriveInit PROVE IInv /\ Store!Init
  BY Zenon
<1>1. disk \in Disks
  BY Zenon DEF DriveInit, Disks
<1>2. job = Idle /\ job.pc = "idle" /\ result = "none"
  BY Zenon DEF DriveInit, Idle
<1>3. QED
  BY <1>1, <1>2, Zenon DEF IInv, Store!Init, Pending

\* A call in progress.
LEMMA Busy ==
  ASSUME IInv, job.pc # "idle"
  PROVE  /\ JobInv(job) /\ Shape(job) /\ disk \in Disks
         /\ Pending = NewValues(job.call) /\ Pending # None
<1>1. job # Idle
  BY DEF Idle
<1>2. JobInv(job) /\ Shape(job) /\ disk \in Disks
  BY <1>1, Zenon DEF IInv, JobInv
<1>3. QED
  BY <1>2, Zenon DEF Pending, Shape

\* The new values of a call are values.
LEMMA NewTypes ==
  ASSUME NEW c \in SectorCalls
  PROVE  \A x \in DOMAIN NewValues(c) : NewValues(c)[x] \in Nat
<1>1. c.start \in Nat /\ c.count \in Nat /\ First \in Nat
  BY OnDrive, Zenon DEF SectorCalls
<1> SUFFICES ASSUME NEW x \in (First + c.start)..(First + c.start + c.count - 1)
             PROVE  Data(c.kind, x - First - c.start) \in Nat
  BY Zenon DEF NewValues
<1>2. x - First - c.start \in Nat
  BY <1>1
<1>3. QED
  BY <1>2, DataTypes, Zenon

LEMMA WriteStep ==
  ASSUME IInv, NEW c \in Calls, Write(c)
  PROVE  IInv' /\ Store!Begin
<1>1. /\ job.pc = "idle" /\ job' = Job(c, 0) /\ disk' = disk /\ result' = result
      /\ c \in SectorCalls /\ c.count \in Nat
  BY DriveAssumption, Zenon DEF Write, SectorCalls
<1>2. NewValues(c) # None
  BY NoneAssumption, Zenon
<1>3. /\ Shape(job') /\ job'.call = c /\ job'.pc = "stage" /\ job'.i = 0 /\ job'.done = 0
  <2>1. Job(c, 0).done = 0
    BY Zenon DEF Job
  <2>2. QED
    BY <1>1, <1>2, <2>1, JobShape
<1>4. Written(job', 0)
  BY <1>3, NothingWritten, Zenon
<1>5. JobInv(job)'
  <2>1. Ready(job', 0)
    BY <1>1, <1>2, JobShape
  <2>2. Ready(job, job.i)' /\ Written(job, 0)'
    BY <1>1, <1>3, <1>4, <2>1, Zenon DEF Ready, Written, Wanted, Stored, Block
  <2>3. QED
    BY <1>3, <2>2, Zenon DEF JobInv
<1>6. IInv'
  BY <1>1, <1>5, Zenon DEF IInv
<1>7. Pending = None /\ Pending' = NewValues(c)
  BY <1>1, <1>3, Zenon DEF Pending
<1>8. QED
  BY <1>1, <1>2, <1>6, <1>7, NewTypes, Zenon DEF Store!Begin, Sectors

\* The sectors of whole blocks fill these blocks.
LEMMA WholeBlocks ==
  ASSUME NEW start \in Nat, NEW count \in Nat
  PROVE  LET first == start * SectorsPerBlock
             size == count * SectorsPerBlock
         IN  /\ first \in Nat /\ size \in Nat
             /\ NativeStart(first) = start /\ NativeEnd(first, size) = start + count
             /\ \A n \in Nat : BlockOf(n) \in start..(start + count - 1) => n \in first..(first + size - 1)
<1> DEFINE s == SectorsPerBlock
           first == start * s
           size == count * s
           t == first + size
           e == start + count
<1>1. s \in Nat \ {0}
  BY DriveAssumption, Zenon
<1> HIDE DEF s
<1>2. first \in Nat /\ size \in Nat /\ first = s * start + 0 /\ t = s * e /\ t \in Nat /\ e \in Nat
  BY <1>1
<1>3. first \div s = start
  <2>1. 0 \in 0..(s - 1)
    BY <1>1
  <2> HIDE DEF first
  <2>2. QED
    BY <1>1, <1>2, <2>1, DivUnique, Zenon
<1>4. DivCeil(t, s) = e
  <2> DEFINE q == DivCeil(t, s)
  <2> HIDE DEF t, e
  <2>1. q \in Nat /\ t <= s * q /\ (t <= s * e => q <= e)
    BY <1>1, <1>2, CeilBounds, Zenon
  <2> HIDE DEF q
  <2>2. q <= e
    BY <1>1, <1>2, <2>1
  <2>3. ASSUME q < e PROVE FALSE
    <3>1. s * q + s <= s * e
      BY <1>1, <1>2, <2>1, <2>3, Wholes, Zenon
    <3> DEFINE u == s * q
    <3>2. u \in Nat /\ u + s <= t /\ t <= u
      BY <1>1, <1>2, <2>1, <3>1
    <3> HIDE DEF u
    <3>3. QED
      BY <1>1, <1>2, <3>2
  <2>4. QED
    BY <1>2, <2>1, <2>2, <2>3 DEF q
<1>5. ASSUME NEW n \in Nat, BlockOf(n) \in start..(start + count - 1) PROVE n \in first..(first + size - 1)
  <2>1. n - start * s \in 0..(count * s - 1)
    BY <1>5, Position, Zenon DEF s
  <2>2. QED
    BY <1>2, <2>1
<1>6. QED
  BY <1>2, <1>3, <1>4, <1>5, Zenon DEF NativeStart, NativeEnd, s

LEMMA ZeroBlocksStep ==
  ASSUME IInv, NEW c \in Calls, ZeroBlocks(c)
  PROVE  IInv' /\ Store!Begin
<1> DEFINE d == InSectors(c)
           j == Job(d, 0)
<1>1. /\ job.pc = "idle" /\ job' = [j EXCEPT !.pc = "put"] /\ disk' = disk /\ result' = result
      /\ c \in SectorCalls /\ c.count \in Nat /\ c.start \in Nat /\ c.kind = "blocks"
      /\ InPartition(c.start, c.count)
  BY DriveAssumption, Zenon DEF ZeroBlocks, SectorCalls
<1>2. /\ c.start * SectorsPerBlock \in Nat /\ c.count * SectorsPerBlock \in Nat
      /\ NativeStart(c.start * SectorsPerBlock) = c.start
      /\ NativeEnd(c.start * SectorsPerBlock, c.count * SectorsPerBlock) = c.start + c.count
      /\ \A n \in Nat : BlockOf(n) \in c.start..(c.start + c.count - 1) =>
           n \in (c.start * SectorsPerBlock)..(c.start * SectorsPerBlock + c.count * SectorsPerBlock - 1)
  BY <1>1, WholeBlocks, Zenon
<1>3. /\ d \in SectorCalls /\ d.kind = "blocks"
      /\ d.start = c.start * SectorsPerBlock /\ d.count = c.count * SectorsPerBlock
  BY <1>1, <1>2, Zenon DEF InSectors, SectorCalls
<1>4. NewValues(d) # None
  BY NoneAssumption, Zenon
<1> HIDE DEF d
<1>5. /\ Shape(j) /\ j.call = d /\ j.i = 0
      /\ j.start = d.start + 0 /\ j.count = Part(d, 0)
      /\ \A x \in DOMAIN j.staging : j.staging[x] = 0
  BY <1>2, <1>3, <1>4, JobShape
<1>6. j.done = 0 /\ j.start = d.start /\ j.count = d.count
  <2>1. j.done = 0
    BY Zenon DEF Job
  <2>2. d.kind # "zero"
    BY <1>3, Zenon
  <2>3. Part(d, 0) = d.count
    BY <2>2, Zenon DEF Part
  <2>4. d.start \in Nat
    BY <1>2, <1>3, Zenon
  <2>5. d.start + 0 = d.start
    BY <2>4
  <2>6. QED
    BY <1>5, <2>1, <2>3, <2>5, Zenon
<1>7. j \in Jobs /\ j.native = c.count
  <2>1. j \in Jobs /\ j.native = NativeEnd(j.start, j.count) - NativeStart(j.start)
    BY <1>5, Zenon DEF Shape
  <2>2. QED
    BY <1>1, <1>2, <1>3, <1>6, <2>1
<1> HIDE DEF j
<1>8. /\ job' \in Jobs /\ job'.pc = "put" /\ job'.call = d /\ job'.i = 0 /\ job'.done = 0
      /\ job'.start = j.start /\ job'.count = j.count /\ job'.native = j.native
      /\ job'.staging = j.staging
  BY <1>1, <1>5, <1>6, <1>7, Zenon DEF Jobs
<1>9. Shape(job')
  BY <1>5, <1>6, <1>8, Zenon DEF Shape
<1>10. Written(job', 0)
  BY <1>8, <1>9, NothingWritten, Zenon
<1>11. Ready(job', job'.native)
  <2> SUFFICES ASSUME NEW n \in Nat,
                      BlockOf(n) \in NativeStart(job'.start)..(NativeStart(job'.start) + job'.native - 1)
               PROVE  job'.staging[n - NativeStart(job'.start) * SectorsPerBlock] = Wanted(job', n)
    BY Zenon DEF Ready
  <2>1. n - NativeStart(job'.start) * SectorsPerBlock \in DOMAIN job'.staging
    BY <1>9, Bounds, Zenon
  <2>2. n \in job'.start..(job'.start + job'.count - 1)
    BY <1>2, <1>3, <1>6, <1>7, <1>8, Zenon
  <2>3. Wanted(job', n) = 0
    BY <1>3, <1>8, <2>2, Zenon DEF Wanted, Data
  <2>4. QED
    BY <1>5, <1>8, <2>1, <2>3, Zenon
<1>12. InPartition(NativeStart(job'.start), job'.native)
  BY <1>1, <1>2, <1>3, <1>6, <1>7, <1>8, Zenon
<1>13. JobInv(job)'
  <2>1. Ready(job, job.native)' /\ Written(job, job.i)'
    BY <1>1, <1>8, <1>10, <1>11 DEF Ready, Written, Wanted, Stored, Block
  <2>2. QED
    BY <1>8, <1>9, <1>12, <2>1, Zenon DEF JobInv
<1>14. IInv'
  BY <1>1, <1>13, Zenon DEF IInv
<1>15. Pending = None /\ Pending' = NewValues(d)
  BY <1>1, <1>8, Zenon DEF Pending
<1>16. QED
  BY <1>1, <1>3, <1>4, <1>14, <1>15, NewTypes, Zenon DEF Store!Begin, Sectors

\* One turn of the loop of write_sectors: block b of the buffer becomes ready,
\* and the blocks before it stay so.
LEMMA StagedBlocks ==
  ASSUME IInv, job.pc = "stage", job.i < job.native,
         NEW b, b = NativeStart(job.start) + job.i,
         NEW old, NEW staging, staging = Staged(job, b, old),
         Partly(b * SectorsPerBlock, (b + 1) * SectorsPerBlock - 1, job.start, job.start + job.count - 1)
           => InPartition(b, 1) /\ old = Block(b)
  PROVE  /\ staging \in [DOMAIN job.staging -> Nat]
         /\ \A n \in Nat : BlockOf(n) \in NativeStart(job.start)..b =>
              staging[n - NativeStart(job.start) * SectorsPerBlock] = Wanted(job, n)
<1> DEFINE s == SectorsPerBlock
           a == NativeStart(job.start)
           first == b * s
           last == first + s - 1
           end == job.start + job.count - 1
           base == a * s
           lo == Max({first, job.start})
           hi == Min({last, end})
<1>1. JobInv(job) /\ Shape(job) /\ disk \in Disks
  BY Busy, Zenon
<1>2. /\ {job.done, job.start, job.count, job.i, job.native} \subseteq Nat /\ a \in Nat
      /\ job.call.start \in Nat /\ job.start = job.call.start + job.done
      /\ \A n \in Nat : n < job.start + job.count => BlockOf(n) < a + job.native
      /\ \A n \in Nat : BlockOf(n) \in a..(a + job.native - 1) => n - base \in DOMAIN job.staging
      /\ \A x \in DOMAIN job.staging : x \in Nat /\ job.staging[x] \in Nat
  BY <1>1, Bounds, Zenon DEF Shape
<1>3. s \in Nat \ {0} /\ b \in Nat /\ first \in Nat /\ last \in Nat /\ base \in Nat /\ (b + 1) * s - 1 = last
  BY <1>2, DriveAssumption
<1>4. b < a + job.native
  BY <1>2
<1>5. ASSUME NEW n \in Nat
      PROVE  n \in lo..hi <=> n \in first..last /\ n \in job.start..end
  <2>1. lo \in {first, job.start} /\ first <= lo /\ job.start <= lo
    BY <1>2, <1>3, MaxPair, Zenon
  <2> HIDE DEF lo, first, last, end
  <2>2. last \in Int /\ end \in Int /\ hi \in {last, end} /\ hi <= last /\ hi <= end
    <3>1. last \in Int /\ end \in Int
      BY <1>2, <1>3 DEF end
    <3>2. QED
      BY <3>1, MinPair, Zenon
  <2> HIDE DEF hi
  <2>3. QED
    BY <1>2, <1>3, <2>1, <2>2
<1>6. ASSUME NEW n \in Nat
      PROVE  BlockOf(n) = b <=> n \in first..last
  BY <1>3, BlockEnds, Zenon
<1>7. ASSUME NEW n \in Nat, BlockOf(n) = b PROVE n % s = n - first
  BY <1>3, <1>7, BlockEnds, Zenon
<1>8. staging = [x \in DOMAIN job.staging |->
                   IF x + base \in lo..hi THEN Data(job.call.kind, job.done + (x + base) - job.start)
                   ELSE IF x + base \in first..last /\ Partly(first, last, job.start, end)
                        THEN old[(x + base) - first]
                        ELSE job.staging[x]]
  BY Zenon DEF Staged
<1>9. Partly(first, last, job.start, end) => InPartition(b, 1) /\ old = Block(b)
  BY <1>3, Zenon
<1>10. ASSUME InPartition(b, 1) PROVE Block(b) \in [0..(s - 1) -> Nat]
  <2>1. PartStart + b \in 0..(DiskBlocks - 1)
    BY <1>3, <1>10, DriveAssumption DEF InPartition
  <2>2. QED
    BY <1>1, <2>1, Zenon DEF Disks, Block
<1> HIDE DEF lo, hi, first, last, base, end, s
<1>11. ASSUME NEW x \in DOMAIN job.staging, NEW n \in Nat, n = x + base
       PROVE  staging[x] = IF BlockOf(n) = b THEN Wanted(job, n) ELSE job.staging[x]
  <2>1. CASE n \in lo..hi
    <3>1. n \in job.start..end /\ BlockOf(n) = b
      BY <1>5, <1>6, <2>1, Zenon
    <3>2. job.done + n - job.start = n - job.call.start
      BY <1>2
    <3>3. Wanted(job, n) = Data(job.call.kind, n - job.call.start)
      BY <3>1, Zenon DEF Wanted, end
    <3>4. staging[x] = Data(job.call.kind, job.done + n - job.start)
      BY <1>8, <1>11, <2>1, Zenon
    <3>5. QED
      BY <3>1, <3>2, <3>3, <3>4, Zenon
  <2>2. CASE n \notin lo..hi /\ n \in first..last
    <3>1. n \notin job.start..end /\ BlockOf(n) = b
      BY <1>5, <1>6, <2>2, Zenon
    <3>2. Partly(first, last, job.start, end)
      BY <1>2, <1>3, <2>2, <3>1 DEF Partly, end
    <3>3. old = Block(b) /\ n % s = n - first
      BY <1>7, <1>9, <3>1, <3>2, Zenon
    <3>4. Wanted(job, n) = Block(b)[n % s]
      BY <3>1, Zenon DEF Wanted, end, Stored, s
    <3>5. staging[x] = old[n - first]
      BY <1>8, <1>11, <2>2, <3>2, Zenon
    <3>6. QED
      BY <3>1, <3>3, <3>4, <3>5, Zenon
  <2>3. CASE n \notin first..last
    <3>1. BlockOf(n) # b /\ n \notin lo..hi
      BY <1>5, <1>6, <2>3, Zenon
    <3>2. QED
      BY <1>8, <1>11, <2>3, <3>1, Zenon
  <2>4. QED
    BY <2>1, <2>2, <2>3, Zenon
<1>12. ASSUME NEW n \in Nat, BlockOf(n) = b PROVE Wanted(job, n) \in Nat
  <2>1. CASE n \in job.start..end
    <3>1. n - job.call.start \in Nat
      BY <1>2, <2>1
    <3>2. QED
      BY <2>1, <3>1, DataTypes, Zenon DEF Wanted, end
  <2>2. CASE n \notin job.start..end
    <3>1. n \in first..last
      BY <1>6, <1>12, Zenon
    <3>2. Partly(first, last, job.start, end)
      BY <1>2, <1>3, <2>2, <3>1 DEF Partly, end
    <3>3. n % s \in 0..(s - 1)
      BY InBlock, Zenon DEF s
    <3>4. QED
      BY <1>9, <1>10, <1>12, <2>2, <3>2, <3>3, Zenon DEF Wanted, end, Stored, s
  <2>3. QED
    BY <2>1, <2>2, Zenon
<1>13. staging \in [DOMAIN job.staging -> Nat]
  <2>1. ASSUME NEW x \in DOMAIN job.staging PROVE staging[x] \in Nat
    <3>1. x + base \in Nat
      BY <1>2, <1>3
    <3>2. QED
      BY <1>2, <1>11, <1>12, <3>1
  <2>2. QED
    BY <1>8, <2>1, Zenon
<1>14. ASSUME NEW n \in Nat, BlockOf(n) \in a..b PROVE staging[n - base] = Wanted(job, n)
  <2>1. BlockOf(n) \in Nat /\ BlockOf(n) \in a..(a + job.native - 1)
    <3>1. BlockOf(n) \in Nat
      BY InBlock, Zenon
    <3>2. QED
      BY <1>2, <1>3, <1>4, <1>14, <3>1
  <2>2. n - base \in DOMAIN job.staging /\ n = (n - base) + base
    BY <1>2, <1>3, <2>1
  <2>3. staging[n - base] = IF BlockOf(n) = b THEN Wanted(job, n) ELSE job.staging[n - base]
    BY <1>11, <2>2, Zenon
  <2>4. CASE BlockOf(n) # b
    <3>1. BlockOf(n) \in a..(a + job.i - 1)
      BY <1>2, <1>3, <1>14, <2>1, <2>4
    <3>2. Ready(job, job.i)
      BY <1>1, Zenon DEF JobInv
    <3>3. job.staging[n - base] = Wanted(job, n)
      BY <3>1, <3>2, Zenon DEF Ready, base, s
    <3>4. QED
      BY <2>3, <2>4, <3>3, Zenon
  <2>5. QED
    BY <2>3, <2>4, Zenon
<1>15. QED
  BY <1>13, <1>14, Zenon DEF base, s

\* What StagedBlocks says of the buffer, for the whole action.
LEMMA StageStep ==
  ASSUME IInv, Stage
  PROVE  IInv' /\ UNCHANGED Store!vars
<1> DEFINE a == NativeStart(job.start)
           b == a + job.i
           old == IF InPartition(b, 1) THEN Block(b) ELSE [k \in {} |-> 0]
           staging == Staged(job, b, old)
<1>1. /\ job.pc = "stage" /\ job.i < job.native /\ disk' = disk /\ result' = result
      /\ Partly(b * SectorsPerBlock, (b + 1) * SectorsPerBlock - 1, job.start, job.start + job.count - 1)
           => ReadOK(b, 1)
      /\ job' = [job EXCEPT !.i = @ + 1, !.staging = staging]
  BY Zenon DEF Stage
<1>2. JobInv(job) /\ Shape(job) /\ disk \in Disks
  BY <1>1, Busy, Zenon
<1>3. Partly(b * SectorsPerBlock, (b + 1) * SectorsPerBlock - 1, job.start, job.start + job.count - 1)
        => InPartition(b, 1) /\ old = Block(b)
  BY <1>1, Zenon DEF ReadOK
<1> HIDE DEF staging, old
<1>4. /\ staging \in [DOMAIN job.staging -> Nat]
      /\ \A n \in Nat : BlockOf(n) \in a..b => staging[n - a * SectorsPerBlock] = Wanted(job, n)
  BY <1>1, <1>3, StagedBlocks, Zenon DEF staging
<1>5. /\ job \in Jobs /\ {job.i, job.native} \subseteq Nat /\ a \in Nat
      /\ DOMAIN job.staging = 0..(StagingSize(job.count, job.native) - 1)
      /\ StagingSize(job.count, job.native) \in Nat
  BY <1>2, Bounds, Rooms, Zenon DEF Shape
<1>6. staging \in Buffers /\ DOMAIN staging = DOMAIN job.staging
  BY <1>4, <1>5, Zenon DEF Buffers
<1>7. /\ job' \in Jobs /\ job'.pc = "stage" /\ job'.call = job.call /\ job'.done = job.done
      /\ job'.start = job.start /\ job'.count = job.count /\ job'.native = job.native
      /\ job'.i = job.i + 1 /\ job'.staging = staging
  <2> DEFINE i == job.i + 1
  <2>1. i \in Nat /\ job \in Jobs /\ staging \in Buffers /\ job.pc = "stage"
    BY <1>1, <1>5, <1>6
  <2>2. job' = [job EXCEPT !.i = i, !.staging = staging]
    BY <1>1, Zenon
  <2> HIDE DEF i
  <2>3. /\ job' \in Jobs /\ job'.pc = "stage" /\ job'.call = job.call /\ job'.done = job.done
        /\ job'.start = job.start /\ job'.count = job.count /\ job'.native = job.native
        /\ job'.i = i /\ job'.staging = staging
    BY <2>1, <2>2, Zenon DEF Jobs
  <2>4. QED
    BY <2>3, Zenon DEF i
<1>8. Shape(job')
  BY <1>1, <1>2, <1>5, <1>6, <1>7 DEF Shape
<1>9. Written(job, 0)'
  <2>1. Written(job, 0)
    BY <1>1, <1>2, Zenon DEF JobInv
  <2>2. QED
    BY <1>1, <1>7, <2>1, Zenon DEF Written, Stored, Block
<1>10. Ready(job, job.i)'
  <2>1. a + (job.i + 1) - 1 = b
    BY <1>5
  <2>2. Ready(job', job'.i)
    BY <1>4, <1>7, <2>1, Zenon DEF Ready, Wanted
  <2>3. QED
    BY <1>1, <2>2 DEF Ready, Wanted, Stored, Block
<1>11. IInv'
  BY <1>1, <1>2, <1>7, <1>8, <1>9, <1>10, Zenon DEF IInv, JobInv
<1>12. QED
  BY <1>1, <1>7, <1>11 DEF Store!vars, Pending, Sectors

LEMMA SubmitStep ==
  ASSUME IInv, Submit
  PROVE  IInv' /\ UNCHANGED Store!vars
<1>1. /\ job.pc = "stage" /\ job.i = job.native /\ disk' = disk /\ result' = result
      /\ InPartition(NativeStart(job.start), job.native)
      /\ job' = [job EXCEPT !.pc = "put", !.i = 0]
  BY Zenon DEF Submit
<1>2. /\ Shape(job) /\ disk \in Disks /\ job \in Jobs /\ job.native \in Nat
      /\ Ready(job, job.native) /\ Written(job, 0)
  BY <1>1, Busy, Bounds, Zenon DEF JobInv, Shape
<1>3. /\ job' \in Jobs /\ job'.pc = "put" /\ job'.call = job.call /\ job'.done = job.done
      /\ job'.start = job.start /\ job'.count = job.count /\ job'.native = job.native
      /\ job'.i = 0 /\ job'.staging = job.staging
  BY <1>1, <1>2, Zenon DEF Jobs
<1>4. Shape(job')
  BY <1>2, <1>3 DEF Shape
<1>5. Ready(job, job.native)' /\ Written(job, job.i)'
  BY <1>1, <1>2, <1>3 DEF Ready, Written, Wanted, Stored, Block
<1>6. IInv'
  BY <1>1, <1>2, <1>3, <1>4, <1>5, Zenon DEF IInv, JobInv
<1>7. QED
  BY <1>1, <1>3, <1>6 DEF Store!vars, Pending, Sectors

LEMMA FailStep ==
  ASSUME IInv, Fail
  PROVE  IInv' /\ Store!End
<1>1. job.pc # "idle" /\ job' = Idle /\ result' = "error" /\ disk' = disk
  BY Zenon DEF Fail, Finish
<1>2. disk \in Disks /\ Pending # None
  BY <1>1, Busy, Zenon
<1>3. Pending' = None
  BY <1>1, Zenon DEF Pending, Idle
<1>4. QED
  BY <1>1, <1>2, <1>3, Zenon DEF IInv, Store!End, Sectors

\* The block that reaches the drive holds what its sectors must hold, and no
\* other block changes.
LEMMA PutBlock ==
  ASSUME IInv, Put
  PROVE  LET b == NativeStart(job.start) + job.i
         IN  /\ b \in Nat /\ b < PartBlocks /\ disk' \in Disks
             /\ \A n \in Nat : PartStart + BlockOf(n) \in 0..(DiskBlocks - 1) =>
                  Stored(n)' = IF BlockOf(n) = b THEN Wanted(job, n) ELSE Stored(n)
             /\ \A x \in 0..(DiskBlocks - 1) : x # PartStart + b => disk'[x] = disk[x]
<1> DEFINE s == SectorsPerBlock
           a == NativeStart(job.start)
           i == job.i
           b == a + i
           new == [k \in 0..(s - 1) |-> job.staging[i * s + k]]
<1>1. /\ job.pc = "put" /\ i < job.native
      /\ disk' = [disk EXCEPT ![PartStart + a + i] = new]
  BY Zenon DEF Put
<1>2. JobInv(job) /\ Shape(job) /\ disk \in Disks
  BY <1>1, Busy, Zenon
<1>3. Ready(job, job.native) /\ InPartition(a, job.native)
  BY <1>1, <1>2, Zenon DEF JobInv
<1>4. /\ {i, job.native} \subseteq Nat /\ a \in Nat
      /\ \A n \in Nat : BlockOf(n) \in a..(a + job.native - 1) => n - a * s \in DOMAIN job.staging
      /\ \A x \in DOMAIN job.staging : job.staging[x] \in Nat
  BY <1>2, Bounds, Zenon
<1>5. /\ s \in Nat \ {0} /\ {PartStart, PartBlocks, DiskBlocks} \subseteq Nat
      /\ PartStart + PartBlocks <= DiskBlocks
  BY DriveAssumption, Zenon
<1> HIDE DEF a, i, s, new
<1>6. b \in Nat /\ b < PartBlocks /\ b \in a..(a + job.native - 1)
  BY <1>1, <1>3, <1>4, <1>5 DEF InPartition
<1>7. PartStart + b \in 0..(DiskBlocks - 1) /\ PartStart + a + i = PartStart + b
  BY <1>4, <1>5, <1>6
<1> HIDE DEF b
<1>8. disk' = [disk EXCEPT ![PartStart + b] = new]
  BY <1>1, <1>7, Zenon
<1>9. ASSUME NEW n \in Nat, BlockOf(n) = b
      PROVE  n % s \in 0..(s - 1) /\ new[n % s] = Wanted(job, n)
  <2>1. n % s = n - b * s /\ n % s \in 0..(s - 1)
    BY <1>6, <1>9, BlockEnds, InBlock, Zenon DEF s
  <2>2. i * s + (n - b * s) = n - a * s
    <3>1. b * s = a * s + i * s /\ a * s \in Nat /\ i * s \in Nat
      BY <1>4, <1>5 DEF b
    <3> DEFINE x == a * s
               y == i * s
    <3>2. b * s = x + y /\ x \in Nat /\ y \in Nat
      BY <3>1, Zenon
    <3> HIDE DEF x, y
    <3>3. y + (n - b * s) = n - x
      BY <3>2
    <3>4. QED
      BY <3>3, Zenon DEF x, y
  <2>3. new[n % s] = job.staging[i * s + (n % s)]
    BY <2>1, Zenon DEF new
  <2>4. job.staging[n - a * s] = Wanted(job, n)
    BY <1>3, <1>6, <1>9, Zenon DEF Ready, a, s
  <2>5. QED
    BY <2>1, <2>2, <2>3, <2>4, Zenon
<1>10. new \in [0..(s - 1) -> Nat]
  <2> SUFFICES ASSUME NEW k \in 0..(s - 1) PROVE new[k] \in Nat
    BY Zenon DEF new
  <2> DEFINE n == b * s + k
  <2>1. n \in Nat /\ n \in (b * s)..(b * s + s - 1) /\ n - b * s = k
    BY <1>5, <1>6
  <2> HIDE DEF n
  <2>2. BlockOf(n) = b
    BY <1>6, <2>1, BlockEnds, Zenon DEF s
  <2>3. n - a * s \in DOMAIN job.staging
    BY <1>4, <1>6, <2>1, <2>2, Zenon
  <2>4. n % s = k
    BY <1>6, <2>1, <2>2, BlockEnds, Zenon DEF s
  <2>5. new[k] = job.staging[n - a * s]
    <3>1. new[k] = Wanted(job, n)
      BY <1>9, <2>1, <2>2, <2>4, Zenon
    <3>2. job.staging[n - a * s] = Wanted(job, n)
      BY <1>3, <1>6, <2>1, <2>2, Zenon DEF Ready, a, s
    <3>3. QED
      BY <3>1, <3>2, Zenon
  <2>6. QED
    BY <1>4, <2>3, <2>5, Zenon
<1>11. disk' \in Disks
  BY <1>2, <1>7, <1>8, <1>10, Zenon DEF Disks, s
<1>12. ASSUME NEW n \in Nat, PartStart + BlockOf(n) \in 0..(DiskBlocks - 1)
       PROVE  Stored(n)' = IF BlockOf(n) = b THEN Wanted(job, n) ELSE Stored(n)
  <2>1. Stored(n)' = disk'[PartStart + BlockOf(n)][n % s]
    BY Zenon DEF Stored, Block, s
  <2>2. Stored(n) = disk[PartStart + BlockOf(n)][n % s]
    BY Zenon DEF Stored, Block, s
  <2>3. DOMAIN disk = 0..(DiskBlocks - 1)
    BY <1>2, Zenon DEF Disks
  <2>4. CASE BlockOf(n) = b
    BY <1>7, <1>8, <1>9, <2>1, <2>3, <2>4, Zenon
  <2>5. CASE BlockOf(n) # b
    <3>1. PartStart + BlockOf(n) # PartStart + b
      <4>1. BlockOf(n) \in Nat
        BY InBlock, Zenon
      <4>2. QED
        BY <1>5, <1>6, <2>5, <4>1
    <3>2. QED
      BY <1>8, <1>12, <2>1, <2>2, <2>3, <2>5, <3>1, Zenon
  <2>6. QED
    BY <2>4, <2>5, Zenon
<1>13. ASSUME NEW x \in 0..(DiskBlocks - 1), x # PartStart + b PROVE disk'[x] = disk[x]
  BY <1>2, <1>8, <1>13, Zenon DEF Disks
<1>14. QED
  BY <1>6, <1>11, <1>12, <1>13, Zenon DEF a, b, i

LEMMA PutStep ==
  ASSUME IInv, Put
  PROVE  IInv' /\ Store!Put
<1> DEFINE a == NativeStart(job.start)
           b == a + job.i
<1>1. job.pc = "put" /\ job.i < job.native /\ job' = [job EXCEPT !.i = @ + 1] /\ result' = result
  BY Zenon DEF Put
<1>2. /\ JobInv(job) /\ Shape(job) /\ disk \in Disks /\ job \in Jobs
      /\ Pending = NewValues(job.call) /\ Pending # None
  BY <1>1, Busy, Zenon DEF Shape
<1>3. Ready(job, job.native) /\ Written(job, job.i) /\ InPartition(a, job.native)
  BY <1>1, <1>2, Zenon DEF JobInv
<1>4. /\ {job.done, job.start, job.count, job.i, job.native} \subseteq Nat /\ a \in Nat
      /\ job.call.start \in Nat /\ job.call.count \in Nat
      /\ job.start = job.call.start + job.done /\ job.done + job.count <= job.call.count
  BY <1>2, Bounds, Zenon DEF Shape
<1>5. /\ b \in Nat /\ b < PartBlocks /\ disk' \in Disks
      /\ \A n \in Nat : PartStart + BlockOf(n) \in 0..(DiskBlocks - 1) =>
           Stored(n)' = IF BlockOf(n) = b THEN Wanted(job, n) ELSE Stored(n)
      /\ \A x \in 0..(DiskBlocks - 1) : x # PartStart + b => disk'[x] = disk[x]
  BY PutBlock, Zenon
<1>6. /\ job' \in Jobs /\ job'.pc = "put" /\ job'.call = job.call /\ job'.done = job.done
      /\ job'.start = job.start /\ job'.count = job.count /\ job'.native = job.native
      /\ job'.i = job.i + 1 /\ job'.staging = job.staging
  <2>1. job.i + 1 \in Nat
    BY <1>4
  <2>2. QED
    BY <1>1, <1>2, <2>1, Zenon DEF Jobs
<1>7. Shape(job')
  BY <1>1, <1>2, <1>4, <1>6 DEF Shape
<1>8. ASSUME NEW n \in Nat, BlockOf(n) < PartBlocks
      PROVE  Stored(n)' = IF BlockOf(n) = b THEN Wanted(job, n) ELSE Stored(n)
  BY <1>5, <1>8, DriveSectors, Zenon
<1>9. Ready(job, job.native)'
  <2> SUFFICES ASSUME NEW n \in Nat, BlockOf(n) \in a..(a + job.native - 1)
               PROVE  job.staging[n - a * SectorsPerBlock] = Wanted(job, n)'
    BY <1>6, Zenon DEF Ready
  <2>1. BlockOf(n) < PartBlocks
    <3>1. BlockOf(n) \in Nat /\ PartBlocks \in Nat
      BY InBlock, DriveAssumption, Zenon
    <3>2. QED
      BY <1>3, <1>4, <3>1 DEF InPartition
  <2>2. job.staging[n - a * SectorsPerBlock] = Wanted(job, n)
    BY <1>3, Zenon DEF Ready
  <2>3. Wanted(job, n)' = Wanted(job, n)
    BY <1>6, <1>8, <2>1, Zenon DEF Wanted
  <2>4. QED
    BY <2>2, <2>3, Zenon
<1>10. Written(job, job.i)'
  <2> SUFFICES ASSUME NEW n \in Nat, job.call.start <= n, n < job.start + job.count,
                      n < job.start \/ BlockOf(n) < a + (job.i + 1)
               PROVE  BlockOf(n) < PartBlocks /\ Stored(n)' = Data(job.call.kind, n - job.call.start)
    BY <1>6, Zenon DEF Written
  <2>1. CASE n < job.start \/ BlockOf(n) < a + job.i
    <3>1. BlockOf(n) < PartBlocks /\ Stored(n) = Data(job.call.kind, n - job.call.start)
      BY <1>3, <2>1, Zenon DEF Written
    <3>2. Wanted(job, n) = Data(job.call.kind, n - job.call.start)
      BY <3>1, Zenon DEF Wanted
    <3>3. QED
      BY <1>8, <3>1, <3>2, Zenon
  <2>2. CASE ~(n < job.start \/ BlockOf(n) < a + job.i)
    <3>1. BlockOf(n) = b
      <4>1. BlockOf(n) \in Nat
        BY InBlock, Zenon
      <4>2. BlockOf(n) < a + (job.i + 1) /\ ~(BlockOf(n) < a + job.i) /\ a \in Nat /\ job.i \in Nat
        BY <1>4, <2>2, Zenon
      <4> HIDE DEF a
      <4>3. QED
        BY <4>1, <4>2
    <3>2. n \in job.start..(job.start + job.count - 1)
      BY <1>4, <2>2
    <3>3. Wanted(job, n) = Data(job.call.kind, n - job.call.start)
      BY <3>2, Zenon DEF Wanted
    <3>4. QED
      BY <1>5, <1>8, <3>1, <3>3, Zenon
  <2>3. QED
    BY <2>1, <2>2, Zenon
<1>11. IInv'
  BY <1>3, <1>5, <1>6, <1>7, <1>9, <1>10, Zenon DEF IInv, JobInv
<1>12. ASSUME NEW x \in DOMAIN Sectors
       PROVE  \/ Sectors'[x] = Sectors[x]
              \/ x \in DOMAIN Pending /\ Sectors'[x] = Pending[x]
  <2>1. /\ x \in 0..(DiskBlocks * SectorsPerBlock - 1)
        /\ Sectors'[x] = disk'[BlockOf(x)][x % SectorsPerBlock]
        /\ Sectors[x] = disk[BlockOf(x)][x % SectorsPerBlock]
    BY Zenon DEF Sectors, BlockOf
  <2>2. x \in Nat /\ BlockOf(x) \in 0..(DiskBlocks - 1)
    BY <2>1, DriveSectors, Zenon
  <2>3. CASE BlockOf(x) # PartStart + b
    BY <1>5, <2>1, <2>2, <2>3, Zenon
  <2>4. CASE BlockOf(x) = PartStart + b
    <3> DEFINE n == x - First
    <3>1. PartStart \in Nat /\ First = PartStart * SectorsPerBlock /\ First \in Nat
      BY OnDrive, DriveAssumption, Zenon DEF First
    <3>2. n \in Nat /\ x = First + n
      BY <1>5, <2>2, <2>4, <3>1, SameSector
    <3> HIDE DEF n
    <3>3. PartStart + BlockOf(n) = BlockOf(x) /\ x % SectorsPerBlock = n % SectorsPerBlock
      BY <3>2, OnDrive, Zenon DEF BlockOf
    <3>4. BlockOf(n) = b
      <4>1. BlockOf(n) \in Nat
        BY <3>2, InBlock, Zenon
      <4>2. QED
        BY <1>5, <2>4, <3>1, <3>2, <3>3, <4>1
    <3>5. Sectors'[x] = Stored(n)' /\ Sectors[x] = Stored(n)
      BY <2>1, <3>3, Zenon DEF Stored, Block
    <3>6. Stored(n)' = Wanted(job, n)
      BY <1>5, <1>8, <3>2, <3>4, Zenon
    <3>7. CASE n \in job.start..(job.start + job.count - 1)
      <4>1. x \in (First + job.call.start)..(First + job.call.start + job.call.count - 1)
        BY <1>4, <3>1, <3>2, <3>7
      <4>2. x - First - job.call.start = n - job.call.start
        BY <1>4, <3>1, <3>2
      <4>3. x \in DOMAIN Pending /\ Pending[x] = Data(job.call.kind, n - job.call.start)
        BY <1>2, <4>1, <4>2, Zenon DEF NewValues
      <4>4. QED
        BY <3>5, <3>6, <3>7, <4>3, Zenon DEF Wanted
    <3>8. CASE n \notin job.start..(job.start + job.count - 1)
      BY <3>5, <3>6, <3>8, Zenon DEF Wanted
    <3>9. QED
      BY <3>7, <3>8, Zenon
  <2>5. QED
    BY <2>3, <2>4, Zenon
<1>13. DOMAIN Sectors' = DOMAIN Sectors
  BY Zenon DEF Sectors
<1>14. Pending' = Pending
  BY <1>1, <1>6 DEF Pending
<1>15. QED
  BY <1>1, <1>2, <1>11, <1>12, <1>13, <1>14, Zenon DEF Store!Put

\* write_sectors returned: the next part begins, or the call is over.
LEMMA PutDoneStep ==
  ASSUME IInv, PutDone
  PROVE  IInv' /\ (Store!End \/ UNCHANGED Store!vars)
<1> DEFINE a == NativeStart(job.start)
           c == job.call
           done == job.done + job.count
<1>1. /\ job.pc = "put" /\ job.i = job.native /\ disk' = disk
      /\ IF LastPart(job) THEN Finish("ok") ELSE job' = Job(c, done) /\ result' = result
  BY Zenon DEF PutDone
<1>2. /\ JobInv(job) /\ Shape(job) /\ disk \in Disks
      /\ Pending = NewValues(c) /\ Pending # None
  BY <1>1, Busy, Zenon
<1>3. Written(job, job.native)
  BY <1>1, <1>2, Zenon DEF JobInv
<1>4. /\ {job.done, job.start, job.count, job.native} \subseteq Nat /\ a \in Nat
      /\ c \in SectorCalls /\ c.start \in Nat /\ c.count \in Nat
      /\ job.start = c.start + job.done /\ done <= c.count
      /\ (c.kind # "zero" => job.done = 0 /\ job.count = c.count)
      /\ \A n \in Nat : n < job.start + job.count => BlockOf(n) < a + job.native
  BY <1>2, Bounds, Zenon DEF Shape
<1>5. ASSUME NEW n \in Nat, c.start <= n, n < job.start + job.count
      PROVE  BlockOf(n) < PartBlocks /\ Stored(n) = Data(c.kind, n - c.start)
  BY <1>3, <1>4, <1>5, Zenon DEF Written
<1>6. CASE LastPart(job)
  <2>1. job' = Idle /\ result' = "ok" /\ done = c.count
    BY <1>1, <1>4, <1>6 DEF Finish, LastPart
  <2>2. IInv' /\ Pending' = None /\ Sectors' = Sectors
    BY <1>1, <1>2, <2>1, Zenon DEF IInv, Pending, Idle, Sectors
  <2>3. ASSUME NEW x \in DOMAIN Pending
        PROVE  x \in DOMAIN Sectors /\ Sectors[x] = Pending[x]
    <3> DEFINE n == x - First
    <3>1. /\ x \in (First + c.start)..(First + c.start + c.count - 1)
          /\ Pending[x] = Data(c.kind, x - First - c.start)
      BY <1>2, Zenon DEF NewValues
    <3>2. First \in Nat
      BY <1>4, OnDrive, Zenon
    <3>3. n \in Nat /\ x = First + n /\ c.start <= n /\ n < job.start + job.count
      BY <1>4, <2>1, <3>1, <3>2
    <3>4. x - First - c.start = n - c.start
      BY Zenon
    <3> HIDE DEF n
    <3>5. BlockOf(n) < PartBlocks /\ Stored(n) = Data(c.kind, n - c.start)
      BY <1>5, <3>3, Zenon
    <3>6. x \in 0..(DiskBlocks * SectorsPerBlock - 1) /\ Sectors[x] = Stored(n)
      BY <3>3, <3>5, DriveSectors, Zenon
    <3>7. QED
      BY <3>1, <3>4, <3>5, <3>6, Zenon DEF Sectors
  <2>4. QED
    BY <1>2, <2>1, <2>2, <2>3, Zenon DEF Store!End
<1>7. CASE ~LastPart(job)
  <2>1. job' = Job(c, done) /\ result' = result /\ done \in Nat /\ done < c.count
    BY <1>1, <1>4, <1>7 DEF LastPart
  <2>2. c.kind # "zero" => done = 0
    BY <1>4, <2>1
  <2> HIDE DEF c, done
  <2>3. /\ Shape(job') /\ Ready(job', 0) /\ job'.call = c /\ job'.pc = "stage" /\ job'.i = 0
        /\ job'.start = c.start + done
    BY <1>2, <1>4, <2>1, <2>2, JobShape
  <2>4. {job'.start, job'.count} \subseteq Nat /\ NativeStart(job'.start) \in Nat
    BY <2>3, Bounds, Zenon
  <2>5. job'.start = job.start + job.count
    BY <1>4, <2>3 DEF done
  <2>6. ASSUME NEW n \in Nat, n < job'.start \/ BlockOf(n) < NativeStart(job'.start) + 0
        PROVE  n < job'.start
    <3>1. ASSUME job'.start <= n PROVE NativeStart(job'.start) <= BlockOf(n)
      BY <2>4, <3>1, DivGrows, DriveAssumption, Zenon DEF NativeStart, BlockOf
    <3>2. BlockOf(n) \in Nat
      BY InBlock, Zenon
    <3>3. QED
      BY <2>4, <2>6, <3>1, <3>2
  <2>7. Written(job', 0)
    BY <1>5, <2>3, <2>5, <2>6, Zenon DEF Written
  <2>8. Ready(job, job.i)' /\ Written(job, 0)'
    BY <1>1, <2>3, <2>7, Zenon DEF Ready, Written, Wanted, Stored, Block
  <2>9. IInv'
    BY <1>1, <1>2, <2>3, <2>8, Zenon DEF IInv, JobInv
  <2>10. QED
    BY <1>1, <1>2, <2>1, <2>3, <2>9, Zenon DEF Store!vars, Pending, Sectors
<1>8. QED
  BY <1>6, <1>7, Zenon

-----------------------------------------------------------------------------
(* The theorems.                                                           *)

LEMMA NextInv == IInv /\ [DriveNext]_driveVars => IInv' /\ [Store!Next]_(Store!vars)
<1> SUFFICES ASSUME IInv, [DriveNext]_driveVars PROVE IInv' /\ [Store!Next]_(Store!vars)
  BY Zenon
<1>1. ASSUME NEW c \in Calls, Write(c) \/ ZeroBlocks(c) PROVE IInv' /\ Store!Next
  BY <1>1, WriteStep, ZeroBlocksStep, Zenon DEF Store!Next
<1>2. CASE Stage
  BY <1>2, StageStep, Zenon
<1>3. CASE Submit
  BY <1>3, SubmitStep, Zenon
<1>4. CASE Put
  BY <1>4, PutStep, Zenon DEF Store!Next
<1>5. CASE PutDone
  BY <1>5, PutDoneStep, Zenon DEF Store!Next
<1>6. CASE Fail
  BY <1>6, FailStep, Zenon DEF Store!Next
<1>7. CASE UNCHANGED driveVars
  <2>1. disk' = disk /\ job' = job /\ result' = result
    BY <1>7, Zenon DEF driveVars
  <2>2. IInv'
    BY <2>1, Zenon DEF IInv, JobInv, Ready, Written, Wanted, Stored, Block
  <2>3. UNCHANGED Store!vars
    BY <2>1, Zenon DEF Store!vars, Pending, Sectors
  <2>4. QED
    BY <2>2, <2>3, Zenon
<1>8. QED
  BY <1>1, <1>2, <1>3, <1>4, <1>5, <1>6, <1>7, Zenon DEF DriveNext

\* write_sectors, zero_sectors and Drive::zero change exactly their own
\* sectors, each from old to new, and return Ok only when all are written:
\* with blocks, pages and partitions of every size, wherever a call begins and
\* ends in its blocks, and whatever fails.
THEOREM OwnSectorsOnly == DriveSpec => WritesOnlyItsSectors
<1>1. IInv /\ [DriveNext]_driveVars => IInv' /\ [Store!Next]_(Store!vars)
  BY NextInv, Zenon
<1>2. DriveInit => IInv /\ Store!Init
  BY InitInv, Zenon
<1>3. QED
  BY <1>1, <1>2, PTL DEF DriveSpec, WritesOnlyItsSectors, Store!Spec

\* read_sectors returns the sectors asked for and Drive::read takes every read
\* within the partition: offsets and lengths need no alignment.
THEOREM ReadsRight == DriveSpec => []ReadsItsSectors
<1>1. ReadsItsSectors
  BY Reads, Zenon
<1>2. QED
  BY <1>1, PTL
=============================================================================
