---------------------------- MODULE MCScheduler ----------------------------
(* Instances of the scheduler.                                             *)
EXTENDS Scheduler

\* A state that takes more tasks to reach: kmain has handed out as many tasks
\* to the other CPUs as to CPU 0, and those have all been killed and freed.
\* Freed tasks are not in Users.
Lopsided ==
  /\ \E q \in [1..Cardinality(Users) -> Users] :
       /\ \A i, j \in DOMAIN q : q[i] = q[j] => i = j
       /\ ready = [c \in CPUs |-> IF c = 0 THEN q ELSE <<>>]
  /\ state = [u \in Users |-> "Ready"]
  /\ curr = [c \in CPUs |-> c]
  /\ space = [c \in CPUs |-> None]
  /\ stacks = [c \in CPUs |-> None]
  /\ pc = [c \in CPUs |-> "rest"]
  /\ scan = [c \in CPUs |-> StartScan]
  /\ mine = [c \in CPUs |-> 0]
  /\ hand = [c \in CPUs |-> <<>>]

\* The scheduler from boot on and from such a state on.
LiveSpec == (Init \/ Lopsided) /\ [][Next]_vars /\ Fairness
=============================================================================
