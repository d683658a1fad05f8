------------------------ MODULE InterruptMutexProofs ------------------------
(***************************************************************************)
(* Proofs about InterruptMutex for any number of CPUs, threads and locks.  *)
(*                                                                         *)
(* A lock holder is never preempted because interrupts stay disabled while *)
(* any guard exists.  With nested guards this rests on the saved status:   *)
(* only the first guard of a thread saves "enabled", so that dropping an   *)
(* inner guard never enables interrupts.  GuardInv states this together    *)
(* with who holds what, and is inductive.                                  *)
(***************************************************************************)
EXTENDS InterruptMutex, SequenceTheorems, TLAPS

InCall(x) == pc[x] \in {"lock", "try_lock", "spin", "try"}

\* The guards of x whose lock is still held: the innermost one has given it
\* up when drop is halfway.
Held(x) == IF pc[x] = "restore" THEN 1..(Len(guards[x]) - 1) ELSE 1..Len(guards[x])

\* Owners and guards agree.
OwnerInv ==
  /\ \A l \in Locks, x \in Contexts : owner[l] = x =>
       \E i \in Held(x) : guards[x][i].lock = l
  /\ \A x \in Contexts : \A i \in Held(x) : owner[guards[x][i].lock] = x

\* Locks are taken along the hierarchy.
OrderInv ==
  \A x \in Contexts :
    /\ \A i, j \in 1..Len(guards[x]) : i < j => guards[x][i].lock < guards[x][j].lock
    /\ InCall(x) => \A i \in 1..Len(guards[x]) : guards[x][i].lock < want[x]

\* The first guard of a thread, and only it, saved an enabled flag.
SavedInv ==
  \A x \in Contexts :
    /\ \A i \in 1..Len(guards[x]) : guards[x][i].saved <=> (i = 1 /\ x[2] # 0)
    /\ InCall(x) => (status[x] <=> (guards[x] = <<>> /\ x[2] # 0))
    /\ pc[x] = "restore" => guards[x] # <<>>

\* Before the flag is cleared, a context is as it was found.
Outside(x) == guards[x] = <<>> /\ pc[x] \in {"run", "lock", "try_lock"}

FlagInv ==
  \A x \in Contexts :
    IF Runs(x)
    THEN enabled[x[1]] <=> (Outside(x) /\ x[2] # 0)
    ELSE Outside(x) /\ (x[2] = 0 => pc[x] = "run")

GuardInv == TypeOK /\ OwnerInv /\ OrderInv /\ SavedInv /\ FlagInv

-----------------------------------------------------------------------------

\* An element of a sequence is of the type of its elements.
LEMMA ElementType ==
  ASSUME NEW S, NEW s \in Seq(S), NEW i \in 1..Len(s)
  PROVE  s[i] \in S
OBVIOUS

\* Every guard is for a lock.
LEMMA GuardTypes ==
  ASSUME TypeOK, NEW x \in Contexts, NEW i \in 1..Len(guards[x])
  PROVE  /\ guards[x][i].lock \in Locks /\ guards[x][i].lock \in Int
         /\ guards[x][i].saved \in BOOLEAN
PROOF
<1>1. guards[x] \in Seq([lock : Locks, saved : BOOLEAN])
  BY Zenon DEF TypeOK
<1>2. guards[x][i] \in [lock : Locks, saved : BOOLEAN]
  BY <1>1, ElementType, Zenon
<1> QED
  BY <1>2 DEF Locks

\* At the start nobody holds a lock.
LEMMA GuardInit == Init => GuardInv
PROOF
<1> SUFFICES ASSUME Init PROVE GuardInv
  BY Zenon
<1> USE MutexAssumption
<1>1. TypeOK
  BY DEF Init, TypeOK, Contexts, CPUs, Locks, Free
<1>2. OwnerInv
  <2>1. \A x \in Contexts : x # Free /\ Held(x) = {}
    BY DEF Init, Held, Contexts, CPUs, Free
  <2> QED
    BY <2>1, Zenon DEF Init, OwnerInv
<1>3. OrderInv
  BY DEF Init, OrderInv, InCall
<1>4. SavedInv
  BY DEF Init, SavedInv, InCall
<1>5. FlagInv
  BY DEF Init, FlagInv, Outside, Runs, Contexts
<1> QED
  BY <1>1, <1>2, <1>3, <1>4, <1>5, Zenon DEF GuardInv

\* Taking an interrupt, and returning from one, moves no lock.
LEMMA SwitchStep ==
  ASSUME GuardInv, NEW c \in CPUs, Enter(c) \/ Leave(c)
  PROVE  GuardInv'
PROOF
<1> USE MutexAssumption
<1>1. TypeOK'
  <2>1. CASE Enter(c)
    <3>1. 0 \in 0..NThread
      OBVIOUS
    <3> QED
      BY <2>1, <3>1, Zenon DEF GuardInv, TypeOK, Enter
  <2>2. CASE Leave(c)
    <3>1. PICK k \in 1..NThread : running' = [running EXCEPT ![c] = k]
      BY <2>2, Zenon DEF Leave
    <3>2. k \in 0..NThread
      OBVIOUS
    <3> QED
      BY <2>2, <3>1, <3>2, Zenon DEF GuardInv, TypeOK, Leave
  <2> QED
    BY <2>1, <2>2, Zenon
<1>2. OwnerInv' /\ OrderInv' /\ SavedInv'
  <2>1. UNCHANGED <<owner, pc, want, status, guards>>
    BY Zenon DEF Enter, Leave
  <2> QED
    BY <2>1 DEF GuardInv, OwnerInv, OrderInv, SavedInv, Held, InCall
<1>3. FlagInv'
  <2> SUFFICES ASSUME NEW x \in Contexts
               PROVE  IF Runs(x)'
                      THEN enabled'[x[1]] <=> (Outside(x)' /\ x[2] # 0)
                      ELSE Outside(x)' /\ (x[2] = 0 => pc'[x] = "run")
    BY Zenon DEF FlagInv
  <2>1. UNCHANGED <<owner, pc, want, status, guards>> /\ (Outside(x)' <=> Outside(x))
    BY Zenon DEF Enter, Leave, Outside
  <2>2. IF Runs(x) THEN enabled[x[1]] <=> (Outside(x) /\ x[2] # 0)
                   ELSE Outside(x) /\ (x[2] = 0 => pc[x] = "run")
    BY Zenon DEF GuardInv, FlagInv
  <2>3. CASE x[1] # c
    BY <2>1, <2>2, <2>3 DEF Enter, Leave, Runs, GuardInv, TypeOK, Contexts
  <2>4. CASE x[1] = c /\ Enter(c)
    BY <2>1, <2>2, <2>4, Zenon DEF Enter, Runs, GuardInv, TypeOK, Contexts
  <2>5. CASE x[1] = c /\ Leave(c)
    <3>1. <<c, 0>> \in Contexts /\ x = <<c, x[2]>> /\ x[2] \in 0..NThread
      BY <2>5 DEF Contexts
    <3>2. x[2] = 0 => Outside(x) /\ pc[x] = "run"
      BY <2>5, <3>1, Zenon DEF Leave, Outside
    <3>3. x[2] # 0 => Outside(x)
      BY <2>2, <2>5, <3>1, Zenon DEF Leave, Runs
    <3>4. enabled'[c] = TRUE /\ running'[c] # 0
      BY <2>5 DEF Leave, GuardInv, TypeOK
    <3> QED
      BY <2>1, <2>5, <3>2, <3>3, <3>4, Zenon DEF Runs
  <2> QED
    BY <2>3, <2>4, <2>5, Zenon
<1> QED
  BY <1>1, <1>2, <1>3, Zenon DEF GuardInv

\* Two contexts of one CPU are never running at the same time.
LEMMA OneRuns ==
  ASSUME NEW x \in Contexts, NEW y \in Contexts, Runs(x), Runs(y), x[1] = y[1]
  PROVE  x = y
BY DEF Runs, Contexts

\* are_enabled only looks.
LEMMA ReadStep ==
  ASSUME GuardInv, NEW x \in Contexts, NEW l \in Locks,
         NEW call \in {"lock", "try_lock"}, ReadStatus(x, l, call)
  PROVE  GuardInv'
PROOF
<1> USE MutexAssumption
<1>1. TypeOK'
  <2>1. enabled[x[1]] \in BOOLEAN
    BY Zenon DEF GuardInv, TypeOK, Contexts
  <2>2. status' \in [Contexts -> BOOLEAN]
    BY <2>1, Zenon DEF GuardInv, TypeOK, ReadStatus
  <2>3. l # 0
    BY DEF Locks
  <2>4. \A y \in Contexts : want'[y] = 0 <=> pc'[y] \in {"run", "restore"}
    BY <2>3, Zenon DEF GuardInv, TypeOK, ReadStatus
  <2> QED
    BY <2>2, <2>4, Zenon DEF GuardInv, TypeOK, ReadStatus
<1>2. \A y \in Contexts : /\ Held(y)' = Held(y)
                          /\ Outside(y)' <=> Outside(y)
                          /\ Runs(y)' <=> Runs(y)
                          /\ y # x => (InCall(y)' <=> InCall(y)) /\ pc'[y] = pc[y]
                                        /\ want'[y] = want[y] /\ status'[y] = status[y]
  BY Zenon DEF GuardInv, TypeOK, ReadStatus, Held, Outside, Runs, InCall
<1>3. OwnerInv'
  BY <1>2 DEF GuardInv, TypeOK, OwnerInv, ReadStatus, Free
<1>4. OrderInv'
  <2>1. InCall(x) => FALSE
    BY Zenon DEF ReadStatus, InCall
  <2>2. \A i \in 1..Len(guards[x]) : guards[x][i].lock < l
    <3>1. guards[x] \in Seq([lock : Locks, saved : BOOLEAN])
      BY Zenon DEF GuardInv, TypeOK
    <3> SUFFICES ASSUME NEW i \in 1..Len(guards[x]) PROVE guards[x][i].lock < l
      BY Zenon
    <3>2. guards[x] # <<>> /\ Len(guards[x]) \in Nat
      BY <3>1
    <3>3. guards[x][Len(guards[x])].lock < l
      BY <3>2, Zenon DEF ReadStatus, Innermost
    <3>4. guards[x][i].lock \in Int /\ guards[x][Len(guards[x])].lock \in Int /\ l \in Int
      BY <3>2, GuardTypes DEF GuardInv, Locks
    <3>5. i < Len(guards[x]) => guards[x][i].lock < guards[x][Len(guards[x])].lock
      BY <3>2 DEF GuardInv, OrderInv
    <3> QED
      BY <3>2, <3>3, <3>4, <3>5
  <2>3. want'[x] = l
    BY Zenon DEF ReadStatus, GuardInv, TypeOK
  <2> QED
    BY <1>2, <2>2, <2>3, Zenon DEF GuardInv, OrderInv, ReadStatus
<1>5. SavedInv'
  <2>1. status'[x] = enabled[x[1]] /\ pc'[x] = call /\ Runs(x) /\ pc[x] = "run"
    BY Zenon DEF ReadStatus, GuardInv, TypeOK
  <2>2. enabled[x[1]] <=> (guards[x] = <<>> /\ x[2] # 0)
    BY <2>1, Zenon DEF GuardInv, FlagInv, Outside
  <2> QED
    BY <1>2, <2>1, <2>2 DEF GuardInv, SavedInv, ReadStatus
<1>6. FlagInv'
  <2>1. \A y \in Contexts : y[2] = 0 /\ ~Runs(y) => pc'[y] = "run"
    BY <1>2, Zenon DEF GuardInv, FlagInv, ReadStatus
  <2> QED
    BY <1>2, <2>1, Zenon DEF GuardInv, FlagInv, ReadStatus
<1> QED
  BY <1>1, <1>3, <1>4, <1>5, <1>6, Zenon DEF GuardInv

\* Clearing the flag: from here on nothing interrupts x.
LEMMA DisableStep ==
  ASSUME GuardInv, NEW x \in Contexts, Disable(x)
  PROVE  GuardInv'
PROOF
<1> USE MutexAssumption
<1>1. x[1] \in CPUs /\ x[2] \in 0..NThread
  BY Zenon DEF Contexts
<1>2. TypeOK'
  <2>1. \A y \in Contexts : want'[y] = 0 <=> pc'[y] \in {"run", "restore"}
    BY Zenon DEF GuardInv, TypeOK, Disable
  <2> QED
    BY <1>1, <2>1, Zenon DEF GuardInv, TypeOK, Disable
<1>3. \A y \in Contexts : /\ Held(y)' = Held(y)
                          /\ InCall(y)' <=> InCall(y)
                          /\ Runs(y)' <=> Runs(y)
                          /\ pc'[y] = "restore" <=> pc[y] = "restore"
                          /\ y # x => pc'[y] = pc[y] /\ (Outside(y)' <=> Outside(y))
  BY Zenon DEF GuardInv, TypeOK, Disable, Held, InCall, Runs, Outside
<1>4. OwnerInv' /\ OrderInv' /\ SavedInv'
  <2>1. OwnerInv'
    BY <1>3 DEF GuardInv, TypeOK, OwnerInv, Disable, Free
  <2>2. OrderInv'
    BY <1>3, Zenon DEF GuardInv, OrderInv, Disable
  <2>3. SavedInv'
    BY <1>3, Zenon DEF GuardInv, SavedInv, Disable
  <2> QED
    BY <2>1, <2>2, <2>3, Zenon
<1>5. FlagInv'
  <2>1. enabled'[x[1]] = FALSE /\ Runs(x) /\ ~Outside(x)'
    BY <1>1, Zenon DEF GuardInv, TypeOK, Disable, Outside
  <2>2. \A c \in CPUs : c # x[1] => enabled'[c] = enabled[c]
    BY Zenon DEF GuardInv, TypeOK, Disable
  <2>3. ASSUME NEW y \in Contexts, y # x
        PROVE  IF Runs(y) THEN enabled'[y[1]] <=> (Outside(y) /\ y[2] # 0)
                          ELSE Outside(y) /\ (y[2] = 0 => pc'[y] = "run")
    <3>1. y[1] \in CPUs
      BY Zenon DEF Contexts
    <3>2. Runs(y) => y[1] # x[1]
      BY <2>1, <2>3, OneRuns, Zenon
    <3> QED
      BY <1>3, <2>2, <2>3, <3>1, <3>2, Zenon DEF GuardInv, FlagInv
  <2> QED
    BY <1>3, <2>1, <2>3, Zenon DEF FlagInv
<1> QED
  BY <1>2, <1>4, <1>5, Zenon DEF GuardInv

\* Taking the lock: x is running with the flag cleared, and keeps it so.
LEMMA AcquireStep ==
  ASSUME GuardInv, NEW x \in Contexts, Acquire(x)
  PROVE  GuardInv'
PROOF
<1> USE MutexAssumption
<1> DEFINE n == Len(guards[x])
           g == Guard(want[x], status[x])
<1>1. x[1] \in CPUs /\ x[2] \in 0..NThread /\ want[x] \in Locks /\ status[x] \in BOOLEAN
  BY Zenon DEF GuardInv, TypeOK, Acquire, Contexts
<1>2. guards[x] \in Seq([lock : Locks, saved : BOOLEAN]) /\ n \in Nat
  <2>1. guards[x] \in Seq([lock : Locks, saved : BOOLEAN])
    BY Zenon DEF GuardInv, TypeOK
  <2> QED
    BY <2>1
<1>3. g \in [lock : Locks, saved : BOOLEAN]
  BY <1>1, Zenon DEF Guard
<1>4. /\ guards'[x] = Append(guards[x], g)
      /\ Len(guards'[x]) = n + 1 /\ guards'[x][n + 1] = g
      /\ \A i \in 1..n : guards'[x][i] = guards[x][i]
      /\ \A y \in Contexts : y # x => guards'[y] = guards[y]
  BY <1>2, <1>3 DEF GuardInv, TypeOK, Acquire
<1>5. TypeOK'
  <2>1. \A y \in Contexts : want'[y] = 0 <=> pc'[y] \in {"run", "restore"}
    BY Zenon DEF GuardInv, TypeOK, Acquire
  <2>2. guards' \in [Contexts -> Seq([lock : Locks, saved : BOOLEAN])]
    <3>1. Append(guards[x], g) \in Seq([lock : Locks, saved : BOOLEAN])
      BY <1>2, <1>3
    <3> QED
      BY <3>1, Zenon DEF GuardInv, TypeOK, Acquire
  <2> QED
    BY <1>1, <2>1, <2>2, Zenon DEF GuardInv, TypeOK, Acquire
<1>6. /\ Held(x) = 1..n /\ Held(x)' = 1..(n + 1) /\ InCall(x) /\ ~InCall(x)'
      /\ pc'[x] = "run"
      /\ \A y \in Contexts : y # x => /\ Held(y)' = Held(y) /\ (InCall(y)' <=> InCall(y))
                                      /\ pc'[y] = pc[y] /\ (Outside(y)' <=> Outside(y))
                                      /\ want'[y] = want[y]
      /\ \A y \in Contexts : Runs(y)' <=> Runs(y)
  BY <1>4, Zenon DEF GuardInv, TypeOK, Acquire, Held, InCall, Runs, Outside
<1>7. g.lock = want[x] /\ g.saved = status[x]
  BY Zenon DEF Guard
<1> HIDE DEF n, g
<1>8. OwnerInv'
  <2>1. owner[want[x]] = Free /\ owner'[want[x]] = x
        /\ \A l \in Locks : l # want[x] => owner'[l] = owner[l]
    BY <1>1, Zenon DEF GuardInv, TypeOK, Acquire
  <2>2. ASSUME NEW l \in Locks, NEW y \in Contexts, owner'[l] = y
        PROVE  \E i \in Held(y)' : guards'[y][i].lock = l
    <3>1. CASE l = want[x]
      <4>1. n + 1 \in 1..(n + 1) /\ y = x
        BY <1>2, <2>1, <2>2, <3>1 DEF n
      <4> QED
        BY <1>4, <1>6, <1>7, <2>1, <3>1, <4>1, Zenon
    <3>2. CASE l # want[x]
      <4>1. PICK i \in Held(y) : guards[y][i].lock = l
        BY <2>1, <2>2, <3>2 DEF GuardInv, OwnerInv
      <4>2. y = x => i \in 1..n /\ i \in 1..(n + 1)
        BY <1>2, <1>6, <4>1 DEF n
      <4> QED
        BY <1>4, <1>6, <4>1, <4>2, Zenon
    <3> QED
      BY <3>1, <3>2, Zenon
  <2>3. ASSUME NEW y \in Contexts, NEW i \in Held(y)'
        PROVE  owner'[guards'[y][i].lock] = y
    <3>1. CASE y = x /\ i = n + 1
      BY <1>4, <1>7, <2>1, <3>1, Zenon
    <3>2. CASE ~(y = x /\ i = n + 1)
      <4>1. i \in Held(y) /\ guards'[y][i] = guards[y][i]
        <5>1. y = x => i \in 1..n
          BY <1>2, <1>6, <2>3, <3>2 DEF n
        <5> QED
          BY <1>4, <1>6, <2>3, <5>1, Zenon
      <4>2. owner[guards[y][i].lock] = y /\ i \in 1..Len(guards[y])
        BY <4>1 DEF GuardInv, OwnerInv, TypeOK, Held
      <4>3. guards[y][i].lock \in Locks
        BY <4>2, GuardTypes, Zenon DEF GuardInv
      <4>4. y # Free
        BY DEF Contexts, CPUs, Free
      <4> QED
        BY <2>1, <4>1, <4>2, <4>3, <4>4, Zenon
    <3> QED
      BY <3>1, <3>2, Zenon
  <2> QED
    BY <2>2, <2>3, Zenon DEF OwnerInv
<1>9. OrderInv'
  <2>1. ASSUME NEW i \in 1..(n + 1), NEW j \in 1..(n + 1), i < j
        PROVE  guards'[x][i].lock < guards'[x][j].lock
    <3>1. i \in 1..n /\ (j \in 1..n \/ j = n + 1)
      BY <1>2, <2>1 DEF n
    <3>2. guards[x][i].lock < want[x]
      BY <1>6, <3>1, Zenon DEF GuardInv, OrderInv, n
    <3> QED
      BY <1>4, <1>7, <2>1, <3>1, <3>2, Zenon DEF GuardInv, OrderInv, n
  <2> QED
    BY <1>4, <1>6, <2>1, Zenon DEF GuardInv, OrderInv
<1>10. SavedInv'
  <2>1. status[x] <=> (n + 1 = 1 /\ x[2] # 0)
    BY <1>2, <1>6 DEF GuardInv, SavedInv, n
  <2>2. ASSUME NEW i \in 1..(n + 1)
        PROVE  guards'[x][i].saved <=> (i = 1 /\ x[2] # 0)
    <3>1. i \in 1..n \/ i = n + 1
      BY <1>2 DEF n
    <3> QED
      BY <1>4, <1>7, <2>1, <3>1 DEF GuardInv, SavedInv, n
  <2>3. status' = status
    BY Zenon DEF Acquire
  <2>4. ASSUME NEW y \in Contexts, y # x
        PROVE  /\ \A i \in 1..Len(guards'[y]) : guards'[y][i].saved <=> (i = 1 /\ y[2] # 0)
               /\ InCall(y)' => (status'[y] <=> (guards'[y] = <<>> /\ y[2] # 0))
               /\ pc'[y] = "restore" => guards'[y] # <<>>
    <3>1. guards'[y] = guards[y] /\ (InCall(y)' <=> InCall(y)) /\ pc'[y] = pc[y]
      BY <1>4, <1>6, <2>4, Zenon
    <3> QED
      BY <2>3, <3>1, Zenon DEF GuardInv, SavedInv
  <2>5. /\ \A i \in 1..Len(guards'[x]) : guards'[x][i].saved <=> (i = 1 /\ x[2] # 0)
        /\ ~InCall(x)' /\ pc'[x] # "restore"
    BY <1>4, <1>6, <2>2, Zenon
  <2> QED
    BY <2>4, <2>5 DEF SavedInv
<1>11. FlagInv'
  <2>1. ~Outside(x) /\ ~Outside(x)' /\ Runs(x)
    BY <1>2, <1>4 DEF Acquire, Outside, n
  <2>2. enabled' = enabled
    BY Zenon DEF Acquire
  <2> QED
    BY <1>6, <2>1, <2>2, Zenon DEF GuardInv, FlagInv
<1> QED
  BY <1>5, <1>8, <1>9, <1>10, <1>11, Zenon DEF GuardInv

\* A failed try_lock restores the flag that its call found.
LEMMA TryFailsStep ==
  ASSUME GuardInv, NEW x \in Contexts, TryFails(x)
  PROVE  GuardInv'
PROOF
<1> USE MutexAssumption
<1>1. x[1] \in CPUs /\ x[2] \in 0..NThread /\ status[x] \in BOOLEAN
  BY Zenon DEF GuardInv, TypeOK, Contexts
<1>2. TypeOK'
  <2>1. \A y \in Contexts : want'[y] = 0 <=> pc'[y] \in {"run", "restore"}
    BY Zenon DEF GuardInv, TypeOK, TryFails
  <2>2. enabled' \in [CPUs -> BOOLEAN]
    BY <1>1, Zenon DEF GuardInv, TypeOK, TryFails
  <2> QED
    BY <2>1, <2>2, Zenon DEF GuardInv, TypeOK, TryFails
<1>3. /\ \A y \in Contexts : /\ Held(y)' = Held(y)
                             /\ Runs(y)' <=> Runs(y)
                             /\ InCall(y)' => InCall(y) /\ want'[y] = want[y]
                             /\ pc'[y] = "restore" <=> pc[y] = "restore"
                             /\ y # x => pc'[y] = pc[y] /\ (Outside(y)' <=> Outside(y))
      /\ UNCHANGED <<owner, status, guards>>
  BY Zenon DEF GuardInv, TypeOK, TryFails, Held, InCall, Runs, Outside
<1>4. OwnerInv'
  BY <1>3 DEF GuardInv, OwnerInv
<1>5. OrderInv'
  BY <1>3, Zenon DEF GuardInv, OrderInv
<1>6. SavedInv'
  BY <1>3, Zenon DEF GuardInv, SavedInv
<1>7. FlagInv'
  <2>1. Runs(x) /\ pc[x] = "try" /\ pc'[x] = "run" /\ InCall(x) /\ ~Outside(x)
    BY Zenon DEF GuardInv, TypeOK, TryFails, InCall, Outside
  <2>2. ~enabled[x[1]]
    BY <2>1, Zenon DEF GuardInv, FlagInv
  <2>3. enabled'[x[1]] <=> (guards[x] = <<>> /\ x[2] # 0)
    BY <1>1, <2>1, <2>2 DEF GuardInv, TypeOK, SavedInv, TryFails
  <2>4. Outside(x)' <=> guards[x] = <<>>
    BY <1>3, <2>1, Zenon DEF Outside
  <2>5. ASSUME NEW y \in Contexts, y # x
        PROVE  IF Runs(y) THEN enabled'[y[1]] <=> (Outside(y) /\ y[2] # 0)
                          ELSE Outside(y) /\ (y[2] = 0 => pc'[y] = "run")
    <3>1. y[1] \in CPUs
      BY Zenon DEF Contexts
    <3>2. Runs(y) => y[1] # x[1]
      BY <2>1, <2>5, OneRuns, Zenon
    <3>3. Runs(y) => enabled'[y[1]] = enabled[y[1]]
      BY <3>1, <3>2, Zenon DEF GuardInv, TypeOK, TryFails
    <3> QED
      BY <1>3, <2>5, <3>3, Zenon DEF GuardInv, FlagInv
  <2> QED
    BY <1>3, <2>1, <2>3, <2>4, <2>5, Zenon DEF FlagInv
<1> QED
  BY <1>2, <1>4, <1>5, <1>6, <1>7, Zenon DEF GuardInv

\* The first half of drop releases the innermost lock.
LEMMA UnlockStep ==
  ASSUME GuardInv, NEW x \in Contexts, Unlock(x)
  PROVE  GuardInv'
PROOF
<1> USE MutexAssumption
<1> DEFINE n == Len(guards[x])
<1>1. n \in Nat \ {0} /\ n \in 1..n
  <2>1. guards[x] \in Seq([lock : Locks, saved : BOOLEAN]) /\ guards[x] # <<>>
    BY Zenon DEF GuardInv, TypeOK, Unlock
  <2> QED
    BY <2>1
<1>2. guards[x][n].lock \in Locks
  BY <1>1, GuardTypes, Zenon DEF GuardInv
<1>3. TypeOK'
  <2>1. \A y \in Contexts : want'[y] = 0 <=> pc'[y] \in {"run", "restore"}
    BY Zenon DEF GuardInv, TypeOK, Unlock
  <2> QED
    BY <1>2, <2>1, Zenon DEF GuardInv, TypeOK, Unlock, Innermost
<1>4. /\ Held(x) = 1..n /\ Held(x)' = 1..(n - 1) /\ pc[x] = "run" /\ pc'[x] = "restore"
      /\ ~InCall(x)' /\ Runs(x) /\ guards[x] # <<>>
      /\ \A y \in Contexts : y # x => /\ Held(y)' = Held(y) /\ (InCall(y)' <=> InCall(y))
                                      /\ pc'[y] = pc[y] /\ (Outside(y)' <=> Outside(y))
      /\ \A y \in Contexts : Runs(y)' <=> Runs(y)
      /\ UNCHANGED <<enabled, want, status, guards>>
  BY Zenon DEF GuardInv, TypeOK, Unlock, Held, InCall, Runs, Outside
<1>5. /\ owner'[guards[x][n].lock] = Free
      /\ \A l \in Locks : l # guards[x][n].lock => owner'[l] = owner[l]
  BY <1>2, Zenon DEF GuardInv, TypeOK, Unlock, Innermost
<1> HIDE DEF n
<1>6. OwnerInv'
  <2>1. ASSUME NEW l \in Locks, NEW y \in Contexts, owner'[l] = y
        PROVE  \E i \in Held(y)' : guards'[y][i].lock = l
    <3>1. y # Free
      BY DEF Contexts, CPUs, Free
    <3>2. l # guards[x][n].lock /\ owner[l] = y
      BY <1>5, <2>1, <3>1, Zenon
    <3>3. PICK i \in Held(y) : guards[y][i].lock = l
      BY <3>2, Zenon DEF GuardInv, OwnerInv
    <3>4. y = x => i \in 1..(n - 1)
      BY <1>1, <1>4, <3>2, <3>3
    <3> QED
      BY <1>4, <3>3, <3>4, Zenon
  <2>2. ASSUME NEW y \in Contexts, NEW i \in Held(y)'
        PROVE  owner'[guards'[y][i].lock] = y
    <3>1. i \in Held(y) /\ (y = x => i \in 1..n /\ i < n)
      BY <1>1, <1>4, <2>2
    <3>2. owner[guards[y][i].lock] = y /\ i \in 1..Len(guards[y])
      <4>1. Len(guards[y]) \in Nat
        <5>1. guards[y] \in Seq([lock : Locks, saved : BOOLEAN])
          BY Zenon DEF GuardInv, TypeOK
        <5> QED
          BY <5>1
      <4> QED
        BY <3>1, <4>1 DEF GuardInv, OwnerInv, Held
    <3>3. guards[y][i].lock \in Locks /\ guards[y][i].lock \in Int
      BY <3>2, GuardTypes, Zenon DEF GuardInv
    <3>4. guards[y][i].lock # guards[x][n].lock
      <4>1. CASE y = x
        <5>1. guards[x][i].lock < guards[x][n].lock
          BY <1>1, <3>1, <4>1, Zenon DEF GuardInv, OrderInv, n
        <5>2. guards[x][n].lock \in Int
          BY <1>2 DEF Locks
        <5> QED
          BY <3>3, <4>1, <5>1, <5>2
      <4>2. CASE y # x
        <5>1. owner[guards[x][n].lock] = x
          BY <1>1, <1>4 DEF GuardInv, OwnerInv
        <5> QED
          BY <3>2, <4>2, <5>1, Zenon
      <4> QED
        BY <4>1, <4>2, Zenon
    <3> QED
      BY <1>4, <1>5, <3>2, <3>3, <3>4, Zenon
  <2> QED
    BY <2>1, <2>2, Zenon DEF OwnerInv
<1>7. OrderInv'
  BY <1>4, Zenon DEF GuardInv, OrderInv
<1>8. SavedInv'
  BY <1>4 DEF GuardInv, SavedInv
<1>9. FlagInv'
  <2>1. ~Outside(x) /\ ~Outside(x)'
    BY <1>4, Zenon DEF Outside
  <2> QED
    BY <1>4, <2>1, Zenon DEF GuardInv, FlagInv
<1> QED
  BY <1>3, <1>6, <1>7, <1>8, <1>9, Zenon DEF GuardInv

\* The second half of drop: only the last guard of a thread enables
\* interrupts again.
LEMMA RestoreStep ==
  ASSUME GuardInv, NEW x \in Contexts, Restore(x)
  PROVE  GuardInv'
PROOF
<1> USE MutexAssumption
<1> DEFINE n == Len(guards[x])
<1>1. /\ guards[x] \in Seq([lock : Locks, saved : BOOLEAN])
      /\ n \in Nat \ {0} /\ n \in 1..n
  <2>1. guards[x] \in Seq([lock : Locks, saved : BOOLEAN]) /\ guards[x] # <<>>
    BY Zenon DEF GuardInv, TypeOK, SavedInv, Restore
  <2> QED
    BY <2>1
<1>2. guards[x][n].saved \in BOOLEAN /\ x[1] \in CPUs /\ x[2] \in 0..NThread
  BY <1>1, GuardTypes, Zenon DEF GuardInv, Contexts
<1>3. /\ guards'[x] = SubSeq(guards[x], 1, n - 1)
      /\ guards'[x] \in Seq([lock : Locks, saved : BOOLEAN])
      /\ Len(guards'[x]) = n - 1
      /\ \A i \in 1..(n - 1) : guards'[x][i] = guards[x][i]
      /\ \A y \in Contexts : y # x => guards'[y] = guards[y]
  <2>1. guards'[x] = SubSeq(guards[x], 1, n - 1)
        /\ \A y \in Contexts : y # x => guards'[y] = guards[y]
    BY Zenon DEF GuardInv, TypeOK, Restore
  <2>2. 1 \in 1..(Len(guards[x]) + 1) /\ n - 1 \in 0..Len(guards[x])
    BY <1>1
  <2>3. SubSeq(guards[x], 1, n - 1) \in Seq([lock : Locks, saved : BOOLEAN])
    <3>1. \A i \in 1..(n - 1) : guards[x][i] \in [lock : Locks, saved : BOOLEAN]
      <4>1. ASSUME NEW i \in 1..(n - 1) PROVE i \in 1..Len(guards[x])
        BY <1>1
      <4> QED
        BY <1>1, <4>1, ElementType, Zenon
    <3> HIDE DEF n
    <3>2. n - 1 \in Int
      BY <1>1
    <3> QED
      BY <3>1, <3>2, SubSeqProperties
  <2>4. Len(SubSeq(guards[x], 1, n - 1)) = n - 1
        /\ \A i \in 1..(n - 1) : SubSeq(guards[x], 1, n - 1)[i] = guards[x][i]
    BY <1>1, <2>2
  <2> QED
    BY <2>1, <2>3, <2>4, Zenon
<1>4. TypeOK'
  <2>1. \A y \in Contexts : want'[y] = 0 <=> pc'[y] \in {"run", "restore"}
    BY Zenon DEF GuardInv, TypeOK, Restore
  <2>2. enabled' \in [CPUs -> BOOLEAN]
    BY <1>2, Zenon DEF GuardInv, TypeOK, Restore, Innermost
  <2>3. guards' \in [Contexts -> Seq([lock : Locks, saved : BOOLEAN])]
    BY <1>3, Zenon DEF GuardInv, TypeOK, Restore
  <2> QED
    BY <2>1, <2>2, <2>3, Zenon DEF GuardInv, TypeOK, Restore
<1>5. /\ Held(x) = 1..(n - 1) /\ Held(x)' = 1..(n - 1) /\ pc[x] = "restore" /\ pc'[x] = "run"
      /\ ~InCall(x)' /\ Runs(x)
      /\ \A y \in Contexts : y # x => /\ Held(y)' = Held(y) /\ (InCall(y)' <=> InCall(y))
                                      /\ pc'[y] = pc[y] /\ (Outside(y)' <=> Outside(y))
      /\ \A y \in Contexts : Runs(y)' <=> Runs(y)
      /\ UNCHANGED <<owner, want, status>>
  BY <1>3, Zenon DEF GuardInv, TypeOK, Restore, Held, InCall, Runs, Outside
<1>6. enabled'[x[1]] <=> (enabled[x[1]] \/ guards[x][n].saved)
  BY <1>2, Zenon DEF GuardInv, TypeOK, Restore, Innermost
<1> HIDE DEF n
<1>7. OwnerInv'
  <2>1. \A y \in Contexts : Held(y)' = Held(y) /\ \A i \in Held(y) : guards'[y][i] = guards[y][i]
    BY <1>3, <1>5, Zenon
  <2>2. owner' = owner
    BY <1>5, Zenon
  <2> QED
    BY <2>1, <2>2 DEF GuardInv, OwnerInv
<1>8. OrderInv'
  <2>1. \A i \in 1..(n - 1) : i \in 1..Len(guards[x])
    BY <1>1 DEF n
  <2>2. \A i, j \in 1..Len(guards'[x]) : i < j => guards'[x][i].lock < guards'[x][j].lock
    BY <1>3, <2>1, Zenon DEF GuardInv, OrderInv
  <2>3. ASSUME NEW y \in Contexts, y # x
        PROVE  /\ \A i, j \in 1..Len(guards'[y]) :
                    i < j => guards'[y][i].lock < guards'[y][j].lock
               /\ InCall(y)' => \A i \in 1..Len(guards'[y]) : guards'[y][i].lock < want'[y]
    <3>1. guards'[y] = guards[y] /\ want'[y] = want[y] /\ (InCall(y)' <=> InCall(y))
      BY <1>3, <1>5, <2>3, Zenon
    <3> QED
      BY <3>1, Zenon DEF GuardInv, OrderInv
  <2>4. ~InCall(x)'
    BY <1>5, Zenon
  <2> QED
    BY <2>2, <2>3, <2>4, Zenon DEF OrderInv
<1>9. SavedInv'
  <2>1. \A i \in 1..(n - 1) : i \in 1..Len(guards[x])
    BY <1>1 DEF n
  <2>2. \A i \in 1..Len(guards'[x]) : guards'[x][i].saved <=> (i = 1 /\ x[2] # 0)
    <3>1. \A i \in 1..Len(guards[x]) : guards[x][i].saved <=> (i = 1 /\ x[2] # 0)
      BY Zenon DEF GuardInv, SavedInv
    <3>2. ASSUME NEW i \in 1..Len(guards'[x])
          PROVE  i \in 1..Len(guards[x]) /\ guards'[x][i] = guards[x][i]
      BY <1>3, <2>1, Zenon
    <3> QED
      BY <3>1, <3>2, Zenon
  <2>3. ASSUME NEW y \in Contexts, y # x
        PROVE  /\ \A i \in 1..Len(guards'[y]) : guards'[y][i].saved <=> (i = 1 /\ y[2] # 0)
               /\ InCall(y)' => (status'[y] <=> (guards'[y] = <<>> /\ y[2] # 0))
               /\ pc'[y] = "restore" => guards'[y] # <<>>
    <3>1. guards'[y] = guards[y] /\ status'[y] = status[y] /\ (InCall(y)' <=> InCall(y))
          /\ pc'[y] = pc[y]
      BY <1>3, <1>5, <2>3, Zenon
    <3> QED
      BY <3>1, Zenon DEF GuardInv, SavedInv
  <2>4. ~InCall(x)' /\ pc'[x] # "restore"
    BY <1>5, Zenon
  <2> QED
    BY <2>2, <2>3, <2>4 DEF SavedInv
<1>10. FlagInv'
  <2>1. ~enabled[x[1]]
    <3>1. ~Outside(x)
      BY <1>5, Zenon DEF Outside
    <3> QED
      BY <1>5, <3>1, Zenon DEF GuardInv, FlagInv
  <2>2. guards[x][n].saved <=> (n = 1 /\ x[2] # 0)
    BY <1>1, Zenon DEF GuardInv, SavedInv, n
  <2>3. guards'[x] = <<>> <=> n = 1
    <3>1. guards'[x] = <<>> <=> Len(guards'[x]) = 0
      BY <1>3, EmptySeq, Zenon
    <3> QED
      BY <1>1, <1>3, <3>1
  <2>4. Outside(x)' <=> n = 1
    BY <1>5, <2>3, Zenon DEF Outside
  <2>5. enabled'[x[1]] <=> (Outside(x)' /\ x[2] # 0)
    BY <1>6, <2>1, <2>2, <2>4, Zenon
  <2>6. ASSUME NEW y \in Contexts, y # x
        PROVE  IF Runs(y) THEN enabled'[y[1]] <=> (Outside(y) /\ y[2] # 0)
                          ELSE Outside(y) /\ (y[2] = 0 => pc'[y] = "run")
    <3>1. y[1] \in CPUs
      BY Zenon DEF Contexts
    <3>2. Runs(y) => y[1] # x[1]
      BY <1>5, <2>6, OneRuns, Zenon
    <3>3. Runs(y) => enabled'[y[1]] = enabled[y[1]]
      BY <3>1, <3>2, Zenon DEF GuardInv, TypeOK, Restore
    <3> QED
      BY <1>5, <2>6, <3>3, Zenon DEF GuardInv, FlagInv
  <2> QED
    BY <1>5, <2>5, <2>6, Zenon DEF FlagInv
<1> QED
  BY <1>4, <1>7, <1>8, <1>9, <1>10, Zenon DEF GuardInv

-----------------------------------------------------------------------------

\* GuardInv holds throughout.
THEOREM GuardsInvariant == Spec => []GuardInv
PROOF
<1>1. ASSUME GuardInv, [Next]_vars PROVE GuardInv'
  <2>1. ASSUME NEW c \in CPUs, Enter(c) \/ Leave(c) PROVE GuardInv'
    BY <1>1, <2>1, SwitchStep, Zenon
  <2>2. ASSUME NEW x \in Contexts, Continue(x) PROVE GuardInv'
    BY <1>1, <2>2, DisableStep, AcquireStep, TryFailsStep, UnlockStep, RestoreStep, Zenon
       DEF Continue
  <2>3. ASSUME NEW x \in Contexts, NEW l \in Locks, NEW call \in {"lock", "try_lock"},
               ReadStatus(x, l, call)
        PROVE  GuardInv'
    BY <1>1, <2>3, ReadStep, Zenon
  <2>4. CASE UNCHANGED vars
    <3>1. \A x \in Contexts : /\ Held(x)' = Held(x) /\ (InCall(x)' <=> InCall(x))
                              /\ (Outside(x)' <=> Outside(x)) /\ (Runs(x)' <=> Runs(x))
      BY <2>4, Zenon DEF vars, Held, InCall, Outside, Runs
    <3>2. TypeOK'
      BY <1>1, <2>4, Zenon DEF vars, GuardInv, TypeOK
    <3>6. OwnerInv'
      BY <1>1, <2>4, <3>1 DEF vars, GuardInv, OwnerInv
    <3>3. OrderInv'
      BY <1>1, <2>4, <3>1, Zenon DEF vars, GuardInv, OrderInv
    <3>4. SavedInv'
      BY <1>1, <2>4, <3>1, Zenon DEF vars, GuardInv, SavedInv
    <3>5. FlagInv'
      BY <1>1, <2>4, <3>1, Zenon DEF vars, GuardInv, FlagInv
    <3> QED
      BY <3>2, <3>6, <3>3, <3>4, <3>5, Zenon DEF GuardInv
  <2> QED
    BY <1>1, <2>1, <2>2, <2>3, <2>4, Zenon DEF Next
<1> QED
  BY <1>1, GuardInit, PTL DEF Spec

\* lock, try_lock and drop keep every variable in its type.
THEOREM MutexTypes == Spec => []TypeOK
PROOF
<1>1. GuardInv => TypeOK
  BY Zenon DEF GuardInv
<1> QED
  BY <1>1, GuardsInvariant, PTL

\* A lock holder is never preempted, for any number of CPUs, threads, locks
\* and nested guards.
THEOREM HoldersRun == Spec => []HolderRuns
PROOF
<1>1. ASSUME GuardInv PROVE HolderRuns
  <2> SUFFICES ASSUME NEW l \in Locks, owner[l] # Free
               PROVE  Runs(owner[l]) /\ ~enabled[owner[l][1]]
    BY Zenon DEF HolderRuns
  <2>1. owner[l] \in Contexts
    BY <1>1, Zenon DEF GuardInv, TypeOK
  <2>2. PICK i \in Held(owner[l]) : guards[owner[l]][i].lock = l
    BY <1>1, <2>1, Zenon DEF GuardInv, OwnerInv
  <2>3. ~Outside(owner[l])
    BY <2>2 DEF Held, Outside
  <2> QED
    BY <1>1, <2>1, <2>3, Zenon DEF GuardInv, FlagInv
<1> QED
  BY <1>1, GuardsInvariant, PTL

\* A CPU never waits for a lock that it holds itself.
THEOREM NoSelfWaiting == Spec => []NoSelfWait
PROOF
<1>1. ASSUME GuardInv PROVE NoSelfWait
  <2> SUFFICES ASSUME NEW x \in Contexts, pc[x] = "spin", Runs(x),
                      owner[want[x]] # Free, owner[want[x]][1] = x[1]
               PROVE  FALSE
    BY Zenon DEF NoSelfWait
  <2>1. want[x] \in Locks /\ owner[want[x]] \in Contexts
    BY <1>1, Zenon DEF GuardInv, TypeOK
  <2>2. PICK i \in Held(owner[want[x]]) : guards[owner[want[x]]][i].lock = want[x]
    BY <1>1, <2>1, Zenon DEF GuardInv, OwnerInv
  <2>3. ~Outside(owner[want[x]])
    BY <2>2 DEF Held, Outside
  <2>4. owner[want[x]] = x
    BY <1>1, <2>1, <2>3, OneRuns, Zenon DEF GuardInv, FlagInv
  <2>5. i \in 1..Len(guards[x]) /\ guards[x][i].lock = want[x]
    BY <2>2, <2>4, Zenon DEF Held
  <2>6. guards[x][i].lock < want[x]
    BY <1>1, <2>5, Zenon DEF GuardInv, OrderInv, InCall
  <2> QED
    BY <2>1, <2>5, <2>6 DEF Locks
<1> QED
  BY <1>1, GuardsInvariant, PTL

\* Dropping the last guard restores the interrupt state of before the first
\* lock.
THEOREM RestoresStatus == Spec => []StatusRestored
PROOF
<1>1. GuardInv => StatusRestored
  BY Zenon DEF GuardInv, FlagInv, Outside, StatusRestored
<1> QED
  BY <1>1, GuardsInvariant, PTL
=============================================================================
