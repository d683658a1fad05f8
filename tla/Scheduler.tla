----------------------------- MODULE Scheduler -----------------------------
(***************************************************************************)
(* The per-CPU round-robin schedulers and the work stealing between them   *)
(* (scheduling/mod.rs, scheduling/scheduler.rs).                           *)
(*                                                                         *)
(* Every CPU c starts in a boot context, which is also called c: kmain on  *)
(* CPU 0, idle_task on the others.  It is the Kernel task that             *)
(* Scheduler::new puts into curr.  All other tasks are user tasks.         *)
(*                                                                         *)
(* The code between locking and unlocking a scheduler is one step; the     *)
(* steps of a boot context, the timer interrupts and the faults of user    *)
(* tasks on all CPUs interleave.  yield_now raises the timer interrupt on  *)
(* the own CPU, and a timer interrupt may come at any moment anyway, so    *)
(* yield_now needs no step of its own.                                     *)
(*                                                                         *)
(* No code builds TaskState::Wait, so that sleep stays empty and has no    *)
(* variable.  sched_logic clears terminate right after the only push to    *)
(* it: the task in it is freed in the same step.                           *)
(***************************************************************************)
EXTENDS Integers, Sequences, FiniteSets

CONSTANTS
  NCpu,      \* CPUS.len()
  Users,     \* the user tasks that are ever created
  None       \* no CPU, or no user task

CPUs == 0..(NCpu - 1)

ASSUME SchedulerAssumption ==
  /\ NCpu \in Nat \ {0}
  /\ Users \cap CPUs = {}
  /\ None \notin Users \union CPUs

VARIABLES
  curr,     \* curr[c]: the task CPU c runs
  ready,    \* ready[c]: the queue of CPU c
  state,    \* state[u]: "new", "Ready", "Terminate" or, once freed, "freed"
  space,    \* space[c]: whose page table CR3 of CPU c holds, None for KERNEL_L4
  stacks,   \* stacks[c]: whose priv_stack and syscall_stack CPU c enters on
  pc,       \* pc[c]: where the boot context of CPU c is
  scan,     \* scan[c]: locals of busiest_queue and laziest_queue
  mine,     \* mine[c]: task_count of idle_task
  hand      \* hand[c]: tasks that the boot context of CPU c holds

vars == <<curr, ready, state, space, stacks, pc, scan, mine, hand>>

boot == <<pc, scan, mine, hand>>

StartScan == [at |-> 0, best |-> None, load |-> 0]

Init ==
  /\ curr = [c \in CPUs |-> c]
  /\ ready = [c \in CPUs |-> <<>>]
  /\ state = [u \in Users |-> "new"]
  /\ space = [c \in CPUs |-> None]
  /\ stacks = [c \in CPUs |-> None]
  /\ pc = [c \in CPUs |-> "rest"]
  /\ scan = [c \in CPUs |-> StartScan]
  /\ mine = [c \in CPUs |-> 0]
  /\ hand = [c \in CPUs |-> <<>>]

\* Indices of the user tasks of a queue, and task_count().1.
UserAt(q) == {i \in DOMAIN q : q[i] \in Users}
UserCount(q) == Cardinality(UserAt(q))

\* The place of i in a set of indices, and the index in a place.
Rank(I, i) == Cardinality({j \in I : j <= i})
Nth(I, k) == CHOOSE i \in I : Rank(I, i) = k

\* take_user_tasks: the indices of the first count user tasks (pop_queue), ...
FirstUsers(q, count) == {i \in UserAt(q) : Rank(UserAt(q), i) <= count}

\* ... whose tasks come out in reverse order, ...
Taken(q, count) ==
  LET n == Cardinality(FirstUsers(q, count))
  IN  [k \in 1..n |-> q[Nth(FirstUsers(q, count), n + 1 - k)]]

\* Variant: the tasks are copied, not removed.
LeftWhole(q, count) == q

\* ... and what stays in the queue.
Left(q, count) ==
  LET rest == DOMAIN q \ FirstUsers(q, count)
  IN  [k \in 1..Cardinality(rest) |-> q[Nth(rest, k)]]

IsReady(t) == t \in Users => state[t] = "Ready"

\* Variant: the page table of a user task stays for kernel tasks.
SpaceKept(c, t) == IF t \in Users THEN t ELSE space[c]

\* sched_logic: what CR3 gets when CPU c switches to t.
SpaceFor(c, t) == IF t \in Users THEN t ELSE None

\* Variant: the old task is queued in front.
RequeueFront(q, t) == <<t>> \o q

\* move_to_queue for a Ready task.
Requeue(q, t) == Append(q, t)

\* Variant: a queue of two tasks is left alone.
WorthTwoMore(c, best, load) == best \notin {None, c} /\ load > 2

\* idle_task goes on to steal from CPU best.
WorthStealing(c, best, load) == best \notin {None, c} /\ load >= 2

\* busiest_queue and laziest_queue have another CPU to look at.
ScanGoesOn(at) == at < NCpu

-----------------------------------------------------------------------------
(* Interrupts and faults.                                                  *)

\* timer_handler and sched_logic on CPU c.  With an empty queue the current
\* task goes on if it is Ready, else a copy of the idle task would start.
Tick(c) ==
  LET old  == curr[c]
      next == IF ready[c] = <<>> THEN c ELSE Head(ready[c])
      rest == IF ready[c] = <<>> THEN <<>> ELSE Tail(ready[c])
  IN  /\ ready[c] # <<>> \/ ~IsReady(old)
      /\ curr' = [curr EXCEPT ![c] = next]
      /\ space' = [space EXCEPT ![c] = SpaceFor(c, next)]
      /\ stacks' = [stacks EXCEPT ![c] = IF next \in Users THEN next ELSE @]
      /\ IF IsReady(old)
         THEN /\ ready' = [ready EXCEPT ![c] = Requeue(rest, old)]
              /\ UNCHANGED state
         ELSE /\ ready' = [ready EXCEPT ![c] = rest]
              /\ state' = [state EXCEPT ![old] = "freed"]
      /\ UNCHANGED boot

\* A user task faults: kill_active_task.
Kill(c) ==
  /\ curr[c] \in Users
  /\ state' = [state EXCEPT ![curr[c]] = "Terminate"]
  /\ UNCHANGED <<curr, ready, space, stacks, boot>>

-----------------------------------------------------------------------------
(* kmain on CPU 0 hands out new tasks: add_task.                           *)

MainCreate ==
  /\ curr[0] = 0 /\ pc[0] = "rest"
  /\ \E u \in Users :
       /\ state[u] = "new"
       /\ state' = [state EXCEPT ![u] = "Ready"]
       /\ hand' = [hand EXCEPT ![0] = <<u>>]
  /\ pc' = [pc EXCEPT ![0] = "scan"]
  /\ scan' = [scan EXCEPT ![0] = StartScan]
  /\ UNCHANGED <<curr, ready, space, stacks, mine>>

\* One iteration of laziest_queue.  An empty queue ends the search.
MainScan ==
  LET s     == scan[0]
      count == UserCount(ready[s.at])
      best  == IF s.best = None \/ count < s.load
               THEN [s EXCEPT !.best = s.at, !.load = count] ELSE s
  IN  /\ curr[0] = 0 /\ pc[0] = "scan"
      /\ scan' = [scan EXCEPT ![0] = [best EXCEPT !.at = @ + 1]]
      /\ pc' = [pc EXCEPT ![0] = IF count # 0 /\ ScanGoesOn(s.at + 1) THEN "scan" ELSE "add"]
      /\ UNCHANGED <<curr, ready, state, space, stacks, mine, hand>>

MainAdd ==
  /\ curr[0] = 0 /\ pc[0] = "add"
  /\ ready' = [ready EXCEPT ![scan[0].best] = @ \o hand[0]]
  /\ hand' = [hand EXCEPT ![0] = <<>>]
  /\ pc' = [pc EXCEPT ![0] = "rest"]
  /\ UNCHANGED <<curr, state, space, stacks, scan, mine>>

-----------------------------------------------------------------------------
(* idle_task on the other CPUs takes tasks from the busiest one.           *)

IdleCount(c) ==
  /\ c # 0 /\ curr[c] = c /\ pc[c] = "rest"
  /\ mine' = [mine EXCEPT ![c] = UserCount(ready[c])]
  /\ scan' = [scan EXCEPT ![c] = StartScan]
  /\ pc' = [pc EXCEPT ![c] = "scan"]
  /\ UNCHANGED <<curr, ready, state, space, stacks, hand>>

\* One iteration of busiest_queue, and the decision after the last one.
IdleScan(c) ==
  LET s     == scan[c]
      count == UserCount(ready[s.at])
      best  == IF count > s.load THEN [s EXCEPT !.best = s.at, !.load = count] ELSE s
  IN  /\ c # 0 /\ curr[c] = c /\ pc[c] = "scan"
      /\ scan' = [scan EXCEPT ![c] = [best EXCEPT !.at = @ + 1]]
      /\ pc' = [pc EXCEPT ![c] = IF ScanGoesOn(s.at + 1) THEN "scan"
                                 ELSE IF WorthStealing(c, best.best, best.load) THEN "take" ELSE "rest"]
      /\ UNCHANGED <<curr, ready, state, space, stacks, mine, hand>>

\* The queue is counted again under its lock; saturating_sub.
IdleTake(c) ==
  LET q     == ready[scan[c].best]
      extra == UserCount(q) - mine[c]
      count == IF extra > 0 THEN extra \div 2 ELSE 0
  IN  /\ c # 0 /\ curr[c] = c /\ pc[c] = "take"
      /\ hand' = [hand EXCEPT ![c] = Taken(q, count)]
      /\ ready' = [ready EXCEPT ![scan[c].best] = Left(q, count)]
      /\ pc' = [pc EXCEPT ![c] = "put"]
      /\ UNCHANGED <<curr, state, space, stacks, scan, mine>>

IdlePut(c) ==
  /\ c # 0 /\ curr[c] = c /\ pc[c] = "put"
  /\ ready' = [ready EXCEPT ![c] = @ \o hand[c]]
  /\ hand' = [hand EXCEPT ![c] = <<>>]
  /\ pc' = [pc EXCEPT ![c] = "rest"]
  /\ UNCHANGED <<curr, state, space, stacks, scan, mine>>

-----------------------------------------------------------------------------

MainStep == MainCreate \/ MainScan \/ MainAdd

IdleStep(c) == IdleCount(c) \/ IdleScan(c) \/ IdleTake(c) \/ IdlePut(c)

Next ==
  \/ MainStep
  \/ \E c \in CPUs : Tick(c) \/ Kill(c) \/ IdleStep(c)

\* The timer of every CPU keeps firing, and a boot context that gets a time
\* slice again and again makes progress in some of them.
Fairness ==
  /\ SF_vars(MainStep)
  /\ \A c \in CPUs : WF_vars(Tick(c)) /\ SF_vars(IdleStep(c))

Spec == Init /\ [][Next]_vars

FairSpec == Spec /\ Fairness

-----------------------------------------------------------------------------

Tasks == CPUs \union Users

\* The places where a Task value can be: running, at a position of a queue,
\* or in the hands of a boot context.
InCurr(t) == {<<"curr", c, 0>> : c \in {d \in CPUs : curr[d] = t}}
InReady(t) == UNION {{<<"ready", c, i>> : i \in {j \in 1..Len(ready[c]) : ready[c][j] = t}} : c \in CPUs}
InHand(t) == UNION {{<<"hand", c, i>> : i \in {j \in 1..Len(hand[c]) : hand[c][j] = t}} : c \in CPUs}
Places(t) == InCurr(t) \union InReady(t) \union InHand(t)

\* No task is lost and none exists twice: through preemption, stealing and
\* killing, in any order on any CPU, every task is in exactly one place from
\* add_task until it is freed (sched_logic, take_user_tasks, idle_task).  A
\* boot context stays on its own CPU, and a killed task where it was killed:
\* sched_logic never has to start its copy of the idle task.
EveryTaskOnce ==
  /\ \A c \in CPUs : \E p \in Places(c) : Places(c) = {p} /\ p[2] = c
  /\ \A u \in Users :
       IF state[u] \in {"Ready", "Terminate"} THEN \E p \in Places(u) : Places(u) = {p}
       ELSE Places(u) = {}
  /\ \A u \in Users : state[u] = "Terminate" => \E c \in CPUs : curr[c] = u

\* The registers of a CPU belong to the task it runs: CR3 holds its page
\* table, and entries from user mode use its own kernel stacks, none of
\* which has been freed.
RegistersMatch ==
  \A c \in CPUs :
    /\ space[c] = IF curr[c] \in Users THEN curr[c] ELSE None
    /\ curr[c] \in Users => stacks[c] = curr[c] /\ state[curr[c]] # "freed"

\* Every task gets on: one that is Ready runs, because round robin with stealing
\* starves nobody, a killed one is freed, because its CPU leaves it at the next
\* timer interrupt, and kmain and the idle tasks get their turn again and again.
NoStarvation ==
  /\ \A c \in CPUs : []<>(curr[c] = c)
  /\ \A u \in Users :
       /\ (state[u] = "Ready") ~> (\E c \in CPUs : curr[c] = u)
       /\ (state[u] = "Terminate") ~> (state[u] = "freed")

\* User tasks that CPU c has, the running one included.
Load(c) == UserCount(ready[c]) + (IF curr[c] \in Users THEN 1 ELSE 0)

\* Work spreads: no CPU keeps three user tasks forever, so that at least two
\* always wait, while another one that runs idle_task has none.
WorkSpreads ==
  \A b \in CPUs, c \in CPUs \ {0} : []<>(Load(b) < 3 \/ Load(c) > 0)
=============================================================================
