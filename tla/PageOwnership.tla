--------------------------- MODULE PageOwnership ---------------------------
(***************************************************************************)
(* What the holders of physical pages rely on: the abstract specification  *)
(* of alloc_range and free_range (allocators/buddy.rs).  owned is the set  *)
(* of runs held by callers, memory the set of pages under management.      *)
(***************************************************************************)
EXTENDS Integers

VARIABLES owned, memory

RunPages(h) == h.addr..(h.addr + h.count - 1)

Init == owned = {} /\ memory = {}

\* Pages are brought under management and are never taken out again.
Grow ==
  /\ memory \subseteq memory' /\ memory' # memory
  /\ memory' \ memory \subseteq Nat \ {0}
  /\ \A h \in owned : RunPages(h) \cap (memory' \ memory) = {}
  /\ UNCHANGED owned

\* A caller receives a run of managed pages that nobody else holds.
Acquire(h) ==
  /\ RunPages(h) \subseteq memory
  /\ \A g \in owned : RunPages(g) \cap RunPages(h) = {}
  /\ owned' = owned \union {h}
  /\ UNCHANGED memory

Release(h) ==
  /\ h \in owned
  /\ owned' = owned \ {h}
  /\ UNCHANGED memory

Next ==
  \/ Grow
  \/ \E h \in owned' \ owned : Acquire(h)
  \/ \E h \in owned : Release(h)

Spec == Init /\ [][Next]_<<owned, memory>>
=============================================================================
