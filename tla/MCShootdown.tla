---------------------------- MODULE MCShootdown ----------------------------
EXTENDS Shootdown

\* A state that takes one more table to reach: CPU 0 has replaced a table and
\* gone on without some of the others, whose interrupt is still pending.
Late ==
  /\ pc = [c \in CPUs |-> "run"]
  /\ handler = [c \in CPUs |-> "none"]
  /\ masked = [c \in CPUs |-> FALSE]
  /\ at = [c \in CPUs |-> 0]
  /\ hhdm = NoCpu /\ ipi = NoCpu
  /\ tlb = [c \in CPUs |-> NoCpu]
  /\ stale \in SUBSET (CPUs \ {0})
  /\ ack = [c \in CPUs |-> c # 0 /\ c \notin stale]
  /\ pend = [c \in CPUs |-> IF c \in stale THEN {"tlb"} ELSE {}]
  /\ gaveUp = [c \in CPUs |-> {}]
  /\ left = Tables

LateSpec == Late /\ [][Next]_vars /\ Fairness
=============================================================================
