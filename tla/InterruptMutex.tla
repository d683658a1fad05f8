--------------------------- MODULE InterruptMutex ---------------------------
(***************************************************************************)
(* The spin lock that disables interrupts (helpers/interrupt_mutex.rs),    *)
(* and the code that uses it on several CPUs: threads, and an interrupt    *)
(* handler per CPU that may come between any two instructions of a thread  *)
(* and return to another one (the timer handler).                          *)
(*                                                                         *)
(* lock, try_lock and drop take one step per instruction that matters:     *)
(* reading the interrupt flag, clearing it, taking or releasing the inner  *)
(* spin::Mutex, and setting the flag again.                                *)
(*                                                                         *)
(* The kernel nests its locks along one hierarchy (the virtual memory      *)
(* allocator, HHDM_LOCK, IPI_LOCK, tlb_addresses, the physical allocator,  *)
(* the heap, the terminal) and drops guards in the reverse order.  Locks   *)
(* are numbered along it.                                                  *)
(***************************************************************************)
EXTENDS Integers, Sequences

CONSTANTS
  NCpu,       \* number of CPUs
  NThread,    \* threads per CPU
  NLock       \* number of locks

ASSUME MutexAssumption ==
  NCpu \in Nat \ {0} /\ NThread \in Nat \ {0} /\ NLock \in Nat

CPUs == 1..NCpu

Locks == 1..NLock

\* Context <<c, k>> is thread k of CPU c, <<c, 0>> its interrupt handler.
Contexts == CPUs \X (0..NThread)

Free == <<0, 0>>

VARIABLES
  enabled,   \* enabled[c]: the interrupt flag of CPU c
  running,   \* running[c]: the thread CPU c runs, 0 for the handler
  owner,     \* owner[l]: the context that holds lock l, or Free
  pc,        \* pc[x]: where context x is
  want,      \* want[x]: the lock that x is about to take, 0 for none
  status,    \* status[x]: int_status of the lock call that x is in
  guards     \* guards[x]: the guards x holds, innermost last

vars == <<enabled, running, owner, pc, want, status, guards>>

Guard(l, saved) == [lock |-> l, saved |-> saved]

Init ==
  /\ enabled = [c \in CPUs |-> TRUE]
  /\ running = [c \in CPUs |-> 1]
  /\ owner = [l \in Locks |-> Free]
  /\ pc = [x \in Contexts |-> "run"]
  /\ want = [x \in Contexts |-> 0]
  /\ status = [x \in Contexts |-> FALSE]
  /\ guards = [x \in Contexts |-> <<>>]

Runs(x) == running[x[1]] = x[2]

Innermost(x) == guards[x][Len(guards[x])]

-----------------------------------------------------------------------------
(* Interrupts.                                                             *)

\* An interrupt gate disables interrupts.
Enter(c) ==
  /\ enabled[c] /\ running[c] # 0
  /\ enabled' = [enabled EXCEPT ![c] = FALSE]
  /\ running' = [running EXCEPT ![c] = 0]
  /\ UNCHANGED <<owner, pc, want, status, guards>>

\* iretq into a thread.  Threads are only interrupted, and started, with
\* interrupts enabled.
Leave(c) ==
  /\ running[c] = 0 /\ pc[<<c, 0>>] = "run" /\ guards[<<c, 0>>] = <<>>
  /\ enabled' = [enabled EXCEPT ![c] = TRUE]
  /\ \E k \in 1..NThread : running' = [running EXCEPT ![c] = k]
  /\ UNCHANGED <<owner, pc, want, status, guards>>

-----------------------------------------------------------------------------
(* lock and try_lock.                                                      *)

\* are_enabled.
ReadStatus(x, l, call) ==
  /\ Runs(x) /\ pc[x] = "run"
  /\ guards[x] # <<>> => Innermost(x).lock < l
  /\ status' = [status EXCEPT ![x] = enabled[x[1]]]
  /\ want' = [want EXCEPT ![x] = l]
  /\ pc' = [pc EXCEPT ![x] = call]
  /\ UNCHANGED <<enabled, running, owner, guards>>

\* Variant: interrupts stay as they are.
DisableNot(x) ==
  /\ Runs(x) /\ pc[x] \in {"lock", "try_lock"}
  /\ pc' = [pc EXCEPT ![x] = IF @ = "lock" THEN "spin" ELSE "try"]
  /\ UNCHANGED <<enabled, running, owner, want, status, guards>>

\* interrupts::disable.
Disable(x) ==
  /\ Runs(x) /\ pc[x] \in {"lock", "try_lock"}
  /\ enabled' = [enabled EXCEPT ![x[1]] = FALSE]
  /\ pc' = [pc EXCEPT ![x] = IF @ = "lock" THEN "spin" ELSE "try"]
  /\ UNCHANGED <<running, owner, want, status, guards>>

\* The inner lock is taken and the guard returned.
Acquire(x) ==
  /\ Runs(x) /\ pc[x] \in {"spin", "try"} /\ owner[want[x]] = Free
  /\ owner' = [owner EXCEPT ![want[x]] = x]
  /\ guards' = [guards EXCEPT ![x] = Append(@, Guard(want[x], status[x]))]
  /\ pc' = [pc EXCEPT ![x] = "run"]
  /\ want' = [want EXCEPT ![x] = 0]
  /\ UNCHANGED <<enabled, running, status>>

\* try_lock finds the lock held and restores the interrupt flag.
TryFails(x) ==
  /\ Runs(x) /\ pc[x] = "try" /\ owner[want[x]] # Free
  /\ enabled' = [enabled EXCEPT ![x[1]] = @ \/ status[x]]
  /\ pc' = [pc EXCEPT ![x] = "run"]
  /\ want' = [want EXCEPT ![x] = 0]
  /\ UNCHANGED <<running, owner, status, guards>>

-----------------------------------------------------------------------------
(* drop.                                                                   *)

\* The inner guard is dropped ...
Unlock(x) ==
  /\ Runs(x) /\ pc[x] = "run" /\ guards[x] # <<>>
  /\ owner' = [owner EXCEPT ![Innermost(x).lock] = Free]
  /\ pc' = [pc EXCEPT ![x] = "restore"]
  /\ UNCHANGED <<enabled, running, want, status, guards>>

\* Variant: interrupts are never enabled again.
RestoreNever(x) ==
  /\ Runs(x) /\ pc[x] = "restore"
  /\ guards' = [guards EXCEPT ![x] = SubSeq(@, 1, Len(@) - 1)]
  /\ pc' = [pc EXCEPT ![x] = "run"]
  /\ UNCHANGED <<enabled, running, owner, want, status>>

\* ... before interrupts are enabled, if they were when lock was called.
Restore(x) ==
  /\ Runs(x) /\ pc[x] = "restore"
  /\ enabled' = [enabled EXCEPT ![x[1]] = @ \/ Innermost(x).saved]
  /\ guards' = [guards EXCEPT ![x] = SubSeq(@, 1, Len(@) - 1)]
  /\ pc' = [pc EXCEPT ![x] = "run"]
  /\ UNCHANGED <<running, owner, want, status>>

-----------------------------------------------------------------------------

\* What context x does once it is in a call, or holds a lock.
Continue(x) == Disable(x) \/ Acquire(x) \/ TryFails(x) \/ Unlock(x) \/ Restore(x)

Next ==
  \/ \E c \in CPUs : Enter(c) \/ Leave(c)
  \/ \E x \in Contexts : Continue(x)
  \/ \E x \in Contexts, l \in Locks, call \in {"lock", "try_lock"} : ReadStatus(x, l, call)

Spec == Init /\ [][Next]_vars

\* A context releases the first lock it took.
Finish(x) == Len(guards[x]) = 1 /\ Unlock(x)

\* Code in a call or with a lock goes on, critical sections are finite, and a
\* context that spins sees the lock free in the end.
Fairness == \A x \in Contexts :
  WF_vars(Continue(x)) /\ SF_vars(Finish(x)) /\ SF_vars(Acquire(x))

FairSpec == Spec /\ Fairness

-----------------------------------------------------------------------------

TypeOK ==
  /\ enabled \in [CPUs -> BOOLEAN]
  /\ running \in [CPUs -> 0..NThread]
  /\ owner \in [Locks -> Contexts \union {Free}]
  /\ pc \in [Contexts -> {"run", "lock", "try_lock", "spin", "try", "restore"}]
  /\ want \in [Contexts -> {0} \union Locks]
  /\ \A x \in Contexts : want[x] = 0 <=> pc[x] \in {"run", "restore"}
  /\ status \in [Contexts -> BOOLEAN]
  /\ guards \in [Contexts -> Seq([lock : Locks, saved : BOOLEAN])]

\* A lock holder is never preempted: whoever holds a lock is what its CPU
\* runs, with interrupts disabled, from taking the lock to releasing it.
HolderRuns ==
  \A l \in Locks : owner[l] # Free => Runs(owner[l]) /\ ~enabled[owner[l][1]]

\* No context waits for a lock that its own CPU holds: the deadlock between
\* a handler and the code it interrupted that the lock is there to prevent.
NoSelfWait ==
  \A x \in Contexts :
    pc[x] = "spin" /\ Runs(x) => owner[want[x]] = Free \/ owner[want[x]][1] # x[1]

\* The previous interrupt state is restored: code that holds no guard and is
\* in no call finds interrupts as they were before it took the first lock,
\* enabled in a thread and disabled in a handler.
StatusRestored ==
  \A x \in Contexts :
    Runs(x) /\ pc[x] = "run" /\ guards[x] = <<>> => (enabled[x[1]] <=> x[2] # 0)

\* Whoever waits for a lock gets it, however the critical sections of other
\* CPUs nest and whatever interrupts come.
EveryLockGranted ==
  \A x \in Contexts : (pc[x] = "spin") ~> (pc[x] = "run")
=============================================================================
