-------------------------- MODULE SchedulerProofs ---------------------------
(***************************************************************************)
(* Every task is in one place and runs on its own registers, for any       *)
(* number of CPUs and user tasks: each action of Scheduler keeps SchedInv. *)
(***************************************************************************)
EXTENDS Scheduler, FiniteSetTheorems, FunctionTheorems, SequenceTheorems, TLAPS

-----------------------------------------------------------------------------
(* Queues.                                                                 *)

\* Ranks number a finite set of indices from 1 on, without gaps.
LEMMA RankFacts ==
  ASSUME NEW I \in SUBSET Nat, IsFiniteSet(I)
  PROVE  /\ Cardinality(I) \in Nat
         /\ \A i \in I : Rank(I, i) \in 1..Cardinality(I)
         /\ \A i, j \in I : Rank(I, i) = Rank(I, j) => i = j
         /\ \A k \in 1..Cardinality(I) : Nth(I, k) \in I /\ Rank(I, Nth(I, k)) = k
PROOF
<1> DEFINE N == Cardinality(I)
           Upto(i) == {j \in I : j <= i}
           f == [i \in I |-> Rank(I, i)]
<1>1. N \in Nat
  BY FS_CardinalityType, Zenon
<1>2. ASSUME NEW i \in I
      PROVE  IsFiniteSet(Upto(i)) /\ Rank(I, i) \in 1..N
  <2>1. Upto(i) \in SUBSET I
    BY Zenon
  <2>2. IsFiniteSet(Upto(i)) /\ Cardinality(Upto(i)) <= N
    BY <2>1, FS_Subset, Zenon
  <2>3. Cardinality(Upto(i)) \in Nat
    BY <2>2, FS_CardinalityType, Zenon
  <2>4. Upto(i) # {}
    BY DEF Upto
  <2>5. Cardinality(Upto(i)) # 0
    BY <2>2, <2>4, FS_EmptySet, Zenon
  <2> QED
    BY <1>1, <2>2, <2>3, <2>5 DEF Rank
<1>3. ASSUME NEW i \in I, NEW j \in I, i < j
      PROVE  Rank(I, i) # Rank(I, j)
  <2>0. i \in Nat /\ j \in Nat /\ \A k \in I : k \in Nat
    BY Zenon
  <2>1. Upto(i) \in SUBSET Upto(j) /\ j \in Upto(j) /\ j \notin Upto(i)
    <3>1. \A k \in Upto(i) : k \in Upto(j)
      BY <1>3, <2>0
    <3>2. j \in Upto(j) /\ j \notin Upto(i)
      BY <1>3, <2>0
    <3> HIDE DEF Upto
    <3> QED
      BY <3>1, <3>2, Zenon
  <2>2. Cardinality(Upto(j)) # Cardinality(Upto(i))
    BY <1>2, <2>1, FS_Subset, Zenon
  <2> QED
    BY <2>2, Zenon DEF Rank
<1>4. \A i, j \in I : Rank(I, i) = Rank(I, j) => i = j
  <2> SUFFICES ASSUME NEW i \in I, NEW j \in I, i # j PROVE Rank(I, i) # Rank(I, j)
    BY Zenon
  <2>1. i < j \/ j < i
    OBVIOUS
  <2> QED
    BY <1>3, <2>1, Zenon
<1>5. f \in Injection(I, 1..N)
  BY <1>2, <1>4, Fun_IsInj, Zenon
<1>6. IsFiniteSet(1..N) /\ Cardinality(1..N) = N
  BY <1>1, FS_Interval
<1>7. f \in Surjection(I, 1..N)
  BY <1>5, <1>6, FS_Injection, Zenon
<1>8. ASSUME NEW k \in 1..N
      PROVE  Nth(I, k) \in I /\ Rank(I, Nth(I, k)) = k
  <2>1. \E i \in I : f[i] = k
    <3> HIDE DEF f
    <3> QED
      BY <1>7, Zenon DEF Surjection
  <2>2. \E i \in I : Rank(I, i) = k
    BY <2>1, Zenon
  <2> QED
    BY <2>2, Zenon DEF Nth
<1> QED
  BY <1>1, <1>2, <1>4, <1>8, Zenon

\* take_user_tasks splits queue q into out and rest: every index goes to exactly
\* one of the two, those of F to out, and what is in out are user tasks.
Splits(q, out, rest, F, a, b) ==
  /\ F \in SUBSET (1..Len(q))
  /\ \A k \in 1..Len(out) : a[k] \in F /\ out[k] = q[a[k]] /\ q[a[k]] \in Users
  /\ \A k \in 1..Len(rest) : b[k] \in (1..Len(q)) \ F /\ rest[k] = q[b[k]]
  /\ \A k, l \in 1..Len(out) : a[k] = a[l] => k = l
  /\ \A k, l \in 1..Len(rest) : b[k] = b[l] => k = l
  /\ \A i \in F : \E k \in 1..Len(out) : a[k] = i
  /\ \A i \in (1..Len(q)) \ F : \E k \in 1..Len(rest) : b[k] = i

LEMMA TakeSplits ==
  ASSUME NEW T, NEW q \in Seq(T), NEW count
  PROVE  /\ Taken(q, count) \in Seq(T) /\ Left(q, count) \in Seq(T)
         /\ \E F, a, b : Splits(q, Taken(q, count), Left(q, count), F, a, b)
PROOF
<1> DEFINE F == FirstUsers(q, count)
           R == (1..Len(q)) \ F
           n == Cardinality(F)
           m == Cardinality(R)
           a == [k \in 1..n |-> Nth(F, n + 1 - k)]
           b == [k \in 1..m |-> Nth(R, k)]
<1>1. DOMAIN q = 1..Len(q) /\ Len(q) \in Nat
  OBVIOUS
<1>2. F \in SUBSET (1..Len(q)) /\ \A i \in F : q[i] \in Users
  BY <1>1, Zenon DEF FirstUsers, UserAt
<1>3. IsFiniteSet(1..Len(q))
  BY <1>1, FS_Interval
<1>4. IsFiniteSet(F) /\ IsFiniteSet(R) /\ F \in SUBSET Nat /\ R \in SUBSET Nat
  <2>1. R \in SUBSET (1..Len(q))
    BY Zenon
  <2> QED
    BY <1>1, <1>2, <1>3, <2>1, FS_Subset
<1> HIDE DEF F, R
<1>5. /\ n \in Nat
      /\ \A i \in F : Rank(F, i) \in 1..n
      /\ \A i, j \in F : Rank(F, i) = Rank(F, j) => i = j
      /\ \A k \in 1..n : Nth(F, k) \in F /\ Rank(F, Nth(F, k)) = k
  BY <1>4, RankFacts, Zenon
<1>6. /\ m \in Nat
      /\ \A i \in R : Rank(R, i) \in 1..m
      /\ \A i, j \in R : Rank(R, i) = Rank(R, j) => i = j
      /\ \A k \in 1..m : Nth(R, k) \in R /\ Rank(R, Nth(R, k)) = k
  BY <1>4, RankFacts, Zenon
<1> HIDE DEF n, m
<1>7. a \in [1..n -> F]
  <2> SUFFICES ASSUME NEW k \in 1..n PROVE Nth(F, n + 1 - k) \in F
    BY Zenon
  <2>1. n + 1 - k \in 1..n
    BY <1>5
  <2> QED
    BY <1>5, <2>1, Zenon
<1>8. b \in [1..m -> R]
  BY <1>6, Zenon
<1>9. Taken(q, count) = [k \in 1..n |-> q[Nth(F, n + 1 - k)]]
  BY Zenon DEF Taken, F, n
<1>10. Left(q, count) = [k \in 1..m |-> q[Nth(R, k)]]
  BY <1>1, Zenon DEF Left, F, R, m
<1>11. \A i \in 1..Len(q) : q[i] \in T
  OBVIOUS
<1>12. Taken(q, count) \in Seq(T) /\ Len(Taken(q, count)) = n
  <2>1. \A k \in 1..n : a[k] \in 1..Len(q) /\ a[k] = Nth(F, n + 1 - k)
    BY <1>2, <1>7, Zenon DEF F
  <2>2. Taken(q, count) \in [1..n -> T]
    BY <1>9, <1>11, <2>1, Zenon
  <2> QED
    BY <1>5, <2>2
<1>13. Left(q, count) \in Seq(T) /\ Len(Left(q, count)) = m
  <2>1. \A k \in 1..m : b[k] \in 1..Len(q) /\ b[k] = Nth(R, k)
    BY <1>8, Zenon DEF R
  <2>2. Left(q, count) \in [1..m -> T]
    BY <1>10, <1>11, <2>1, Zenon
  <2> QED
    BY <1>6, <2>2
<1>14. \A k, l \in 1..n : a[k] = a[l] => k = l
  <2> SUFFICES ASSUME NEW k \in 1..n, NEW l \in 1..n, Nth(F, n + 1 - k) = Nth(F, n + 1 - l) PROVE k = l
    BY Zenon
  <2>1. n + 1 - k \in 1..n /\ n + 1 - l \in 1..n
    BY <1>5
  <2>2. n + 1 - k = n + 1 - l
    BY <1>5, <2>1, Zenon
  <2> QED
    BY <1>5, <2>2
<1>15. \A k, l \in 1..m : b[k] = b[l] => k = l
  BY <1>6, Zenon
<1>16. \A i \in F : \E k \in 1..n : a[k] = i
  <2> SUFFICES ASSUME NEW i \in F PROVE \E k \in 1..n : a[k] = i
    BY Zenon
  <2> DEFINE k == n + 1 - Rank(F, i)
  <2>1. k \in 1..n /\ n + 1 - k = Rank(F, i)
    BY <1>5
  <2>2. Nth(F, Rank(F, i)) = i
    BY <1>5, Zenon
  <2>3. a[k] = i
    BY <2>1, <2>2, Zenon
  <2> QED
    BY <2>1, <2>3, Zenon
<1>17. \A i \in R : \E k \in 1..m : b[k] = i
  <2> SUFFICES ASSUME NEW i \in R PROVE \E k \in 1..m : b[k] = i
    BY Zenon
  <2>1. Rank(R, i) \in 1..m /\ Nth(R, Rank(R, i)) = i
    BY <1>6, Zenon
  <2> QED
    BY <2>1, Zenon
<1>18. /\ \A k \in 1..n : Taken(q, count)[k] = q[a[k]] /\ q[a[k]] \in Users
       /\ \A k \in 1..m : Left(q, count)[k] = q[b[k]]
  BY <1>2, <1>7, <1>9, <1>10, Zenon DEF F
<1> HIDE DEF a, b
<1>19. F \in SUBSET (1..Len(q)) /\ R = (1..Len(q)) \ F
  BY <1>2, Zenon DEF F, R
<1> HIDE DEF F, R
<1>20. Splits(q, Taken(q, count), Left(q, count), F, a, b)
  BY <1>7, <1>8, <1>12, <1>13, <1>14, <1>15, <1>16, <1>17, <1>18, <1>19, Zenon DEF Splits
<1> QED
  BY <1>12, <1>13, <1>20, Zenon

\* task_count is a number.
LEMMA CountType ==
  ASSUME NEW T, NEW q \in Seq(T)
  PROVE  UserCount(q) \in Nat
PROOF
<1>1. IsFiniteSet(1..Len(q))
  BY FS_Interval
<1>2. UserAt(q) \in SUBSET (1..Len(q))
  BY DEF UserAt
<1>3. IsFiniteSet(UserAt(q))
  BY <1>1, <1>2, FS_Subset, Zenon
<1> QED
  BY <1>3, FS_CardinalityType, Zenon DEF UserCount

-----------------------------------------------------------------------------
(* The invariant.                                                          *)

TypeOK ==
  /\ curr \in [CPUs -> Tasks]
  /\ ready \in [CPUs -> Seq(Tasks)]
  /\ state \in [Users -> {"new", "Ready", "Terminate", "freed"}]
  /\ space \in [CPUs -> Users \union {None}]
  /\ stacks \in [CPUs -> Users \union {None}]
  /\ pc \in [CPUs -> {"rest", "scan", "add", "take", "put"}]
  /\ scan \in [CPUs -> [at : Nat, best : CPUs \union {None}, load : Nat]]
  /\ mine \in [CPUs -> Nat]
  /\ hand \in [CPUs -> Seq(Tasks)]

\* Where the boot contexts are: a search looks at CPUs and ends with one, which
\* idle_task does not steal from itself, and only between taking tasks and
\* putting them down does a boot context hold any.
BootInv ==
  \A c \in CPUs :
    /\ c = 0 => pc[c] \notin {"take", "put"}
    /\ c # 0 => pc[c] # "add"
    /\ pc[c] = "scan" => scan[c].at \in CPUs
    /\ pc[c] = "add" => scan[c].best \in CPUs
    /\ pc[c] = "take" => scan[c].best \in CPUs \ {c}
    /\ pc[c] \in {"rest", "take"} \/ (c # 0 /\ pc[c] = "scan") => hand[c] = <<>>

\* No task is in two places.
RunOnce == \A c, d \in CPUs : curr[c] = curr[d] => c = d
RunOrWait == \A c, d \in CPUs : \A i \in 1..Len(ready[d]) : ready[d][i] # curr[c]
RunOrHeld == \A c, d \in CPUs : \A i \in 1..Len(hand[d]) : hand[d][i] # curr[c]
WaitOnce ==
  \A c, d \in CPUs : \A i \in 1..Len(ready[c]), j \in 1..Len(ready[d]) :
    ready[c][i] = ready[d][j] => c = d /\ i = j
WaitOrHeld ==
  \A c, d \in CPUs : \A i \in 1..Len(ready[c]), j \in 1..Len(hand[d]) : ready[c][i] # hand[d][j]
HeldOnce ==
  \A c, d \in CPUs : \A i \in 1..Len(hand[c]), j \in 1..Len(hand[d]) :
    hand[c][i] = hand[d][j] => c = d /\ i = j
Apart == RunOnce /\ RunOrWait /\ RunOrHeld /\ WaitOnce /\ WaitOrHeld /\ HeldOnce

Runs(t) == \E c \in CPUs : curr[c] = t
Waits(t) == \E c \in CPUs : \E i \in 1..Len(ready[c]) : ready[c][i] = t
Held(t) == \E c \in CPUs : \E i \in 1..Len(hand[c]) : hand[c][i] = t

\* Every boot context is on its CPU.
Home == \A c \in CPUs : curr[c] = c \/ \E i \in 1..Len(ready[c]) : ready[c][i] = c

\* The tasks between creation and death are somewhere, and only they.
Alive ==
  \A u \in Users :
    /\ state[u] \in {"Ready", "Terminate"} <=> (Runs(u) \/ Waits(u) \/ Held(u))
    /\ state[u] = "Terminate" => Runs(u)

Registers ==
  \A c \in CPUs :
    /\ space[c] = IF curr[c] \in Users THEN curr[c] ELSE None
    /\ curr[c] \in Users => stacks[c] = curr[c]

SchedInv == TypeOK /\ BootInv /\ Apart /\ Home /\ Alive /\ Registers

-----------------------------------------------------------------------------
(* Every step keeps it.                                                    *)

LEMMA Basics ==
  /\ 0 \in CPUs /\ CPUs \subseteq Nat /\ CPUs \cap Users = {} /\ None \notin Tasks
  /\ CPUs \subseteq Tasks /\ Users \subseteq Tasks
BY SchedulerAssumption DEF CPUs, Tasks

LEMMA SchedInit == Init => SchedInv
PROOF
<1> SUFFICES ASSUME Init PROVE SchedInv
  BY Zenon
<1> USE Basics
<1>1. TypeOK
  BY DEF Init, TypeOK, StartScan
<1>2. BootInv
  BY Zenon DEF Init, BootInv
<1>3. Apart
  BY DEF Init, Apart, RunOnce, RunOrWait, RunOrHeld, WaitOnce, WaitOrHeld, HeldOnce
<1>4. Home
  BY Zenon DEF Init, Home
<1>5. Alive
  <2>1. \A u \in Users : ~Runs(u)
    BY Zenon DEF Init, Runs
  <2>2. \A u \in Users : ~Waits(u) /\ ~Held(u)
    BY DEF Init, Waits, Held
  <2> QED
    BY <2>1, <2>2, Zenon DEF Init, Alive
<1>6. Registers
  BY Zenon DEF Init, Registers
<1> QED
  BY <1>1, <1>2, <1>3, <1>4, <1>5, <1>6, Zenon DEF SchedInv

\* What is in a queue r after queue p was extended by q.
Extended(r, p, q) ==
  /\ \A i \in 1..Len(r) :
       \/ i \in 1..Len(p) /\ r[i] = p[i]
       \/ i - Len(p) \in 1..Len(q) /\ r[i] = q[i - Len(p)]
  /\ \A i \in 1..Len(p) : i \in 1..Len(r) /\ r[i] = p[i]
  /\ \A i \in 1..Len(q) : Len(p) + i \in 1..Len(r) /\ r[Len(p) + i] = q[i]

LEMMA ConcatFacts ==
  ASSUME NEW T, NEW p \in Seq(T), NEW q \in Seq(T)
  PROVE  p \o q \in Seq(T) /\ Extended(p \o q, p, q)
PROOF
<1>1. p \o q \in Seq(T) /\ Len(p \o q) = Len(p) + Len(q) /\ Len(p) \in Nat /\ Len(q) \in Nat
  OBVIOUS
<1>2. \A i \in 1..Len(p) : i \in 1..Len(p \o q) /\ (p \o q)[i] = p[i]
  OBVIOUS
<1>3. \A i \in 1..Len(q) : Len(p) + i \in 1..Len(p \o q) /\ (p \o q)[Len(p) + i] = q[i]
  OBVIOUS
<1>4. ASSUME NEW i \in 1..Len(p \o q), i \notin 1..Len(p)
      PROVE  i - Len(p) \in 1..Len(q) /\ (p \o q)[i] = q[i - Len(p)]
  <2>1. i - Len(p) \in 1..Len(q) /\ Len(p) + (i - Len(p)) = i
    BY <1>1, <1>4
  <2> QED
    BY <1>3, <2>1, Zenon
<1> QED
  BY <1>1, <1>2, <1>3, <1>4, Zenon DEF Extended

\* The end of add_task and of idle_task: CPU c puts what it holds at the end of
\* the queue of CPU d.
PutsDown(c, d) ==
  /\ ready' = [ready EXCEPT ![d] = @ \o hand[c]]
  /\ hand' = [hand EXCEPT ![c] = <<>>]
  /\ curr' = curr /\ state' = state

LEMMA PutDown ==
  ASSUME TypeOK, Apart, Home, Alive, NEW c \in CPUs, NEW d \in CPUs, PutsDown(c, d)
  PROVE  Apart' /\ Home' /\ Alive'
PROOF
<1> DEFINE n == Len(ready[d])
<1>1. /\ \A e \in CPUs : ready[e] \in Seq(Tasks) /\ hand[e] \in Seq(Tasks)
      /\ \A e \in CPUs : Len(ready[e]) \in Nat /\ Len(hand[e]) \in Nat
  <2>1. \A e \in CPUs : ready[e] \in Seq(Tasks) /\ hand[e] \in Seq(Tasks)
    BY Zenon DEF TypeOK
  <2> QED
    BY <2>1, LenProperties, Zenon
<1>2. /\ \A e \in CPUs : e # d => ready'[e] = ready[e]
      /\ ready'[d] = ready[d] \o hand[c]
      /\ \A e \in CPUs : e # c => hand'[e] = hand[e]
      /\ hand'[c] = <<>>
      /\ curr' = curr /\ state' = state
  BY Zenon DEF TypeOK, PutsDown
<1>3. /\ \A i \in 1..Len(ready'[d]) :
           \/ i \in 1..Len(ready[d]) /\ ready'[d][i] = ready[d][i]
           \/ i - n \in 1..Len(hand[c]) /\ ready'[d][i] = hand[c][i - n]
      /\ \A i \in 1..Len(ready[d]) : i \in 1..Len(ready'[d]) /\ ready'[d][i] = ready[d][i]
      /\ \A i \in 1..Len(hand[c]) : n + i \in 1..Len(ready'[d]) /\ ready'[d][n + i] = hand[c][i]
  <2>1. ready[d] \in Seq(Tasks) /\ hand[c] \in Seq(Tasks)
    BY <1>1, Zenon
  <2>2. Extended(ready'[d], ready[d], hand[c])
    BY <1>2, <2>1, ConcatFacts, Zenon
  <2> QED
    BY <2>2, Zenon DEF Extended
<1>n. n \in Nat
  BY <1>1, Zenon
<1> HIDE DEF n
<1>4. ASSUME NEW e \in CPUs, NEW i \in 1..Len(ready'[e])
      PROVE  \/ i \in 1..Len(ready[e]) /\ ready'[e][i] = ready[e][i]
             \/ e = d /\ i - n \in 1..Len(hand[c]) /\ ready'[e][i] = hand[c][i - n]
  BY <1>2, <1>3, Zenon
<1>5. /\ \A e \in CPUs : \A i \in 1..Len(ready[e]) : i \in 1..Len(ready'[e]) /\ ready'[e][i] = ready[e][i]
      /\ \A i \in 1..Len(hand[c]) : n + i \in 1..Len(ready'[d]) /\ ready'[d][n + i] = hand[c][i]
  BY <1>2, <1>3, Zenon
<1>6. \A e \in CPUs : \A i \in 1..Len(hand'[e]) : e # c /\ i \in 1..Len(hand[e]) /\ hand'[e][i] = hand[e][i]
  BY <1>2
<1>7. Apart'
  <2>1. RunOnce' /\ RunOrHeld'
    BY <1>2, <1>6 DEF Apart, RunOnce, RunOrHeld
  <2>2. HeldOnce'
    BY <1>6 DEF Apart, HeldOnce
  <2>3. RunOrWait'
    BY <1>2, <1>4 DEF Apart, RunOrWait, RunOrHeld
  <2>4. WaitOrHeld'
    <3> SUFFICES ASSUME NEW e \in CPUs, NEW f \in CPUs,
                        NEW i \in 1..Len(ready'[e]), NEW j \in 1..Len(hand'[f])
                 PROVE  ready'[e][i] # hand'[f][j]
      BY Zenon DEF WaitOrHeld
    <3>1. f # c /\ j \in 1..Len(hand[f]) /\ hand'[f][j] = hand[f][j]
      BY <1>6, Zenon
    <3>2. CASE i \in 1..Len(ready[e]) /\ ready'[e][i] = ready[e][i]
      BY <3>1, <3>2, Zenon DEF Apart, WaitOrHeld
    <3>3. CASE e = d /\ i - n \in 1..Len(hand[c]) /\ ready'[e][i] = hand[c][i - n]
      BY <3>1, <3>3 DEF Apart, HeldOnce
    <3> QED
      BY <1>4, <3>2, <3>3, Zenon
  <2>5. WaitOnce'
    <3> SUFFICES ASSUME NEW e \in CPUs, NEW f \in CPUs,
                        NEW i \in 1..Len(ready'[e]), NEW j \in 1..Len(ready'[f]), ready'[e][i] = ready'[f][j]
                 PROVE  e = f /\ i = j
      BY Zenon DEF WaitOnce
    <3>1. CASE i \in 1..Len(ready[e]) /\ ready'[e][i] = ready[e][i]
      <4>1. j \in 1..Len(ready[f]) /\ ready'[f][j] = ready[f][j]
        <5>1. CASE f = d /\ j - n \in 1..Len(hand[c]) /\ ready'[f][j] = hand[c][j - n]
          <6>1. ready[e][i] = hand[c][j - n]
            BY <3>1, <5>1, Zenon
          <6> QED
            BY <3>1, <5>1, <6>1, Zenon DEF Apart, WaitOrHeld
        <5> QED
          BY <1>4, <5>1, Zenon
      <4>2. ready[e][i] = ready[f][j]
        BY <3>1, <4>1, Zenon
      <4> QED
        BY <3>1, <4>1, <4>2 DEF Apart, WaitOnce
    <3>2. CASE e = d /\ i - n \in 1..Len(hand[c]) /\ ready'[e][i] = hand[c][i - n]
      <4>1. f = d /\ j - n \in 1..Len(hand[c]) /\ ready'[f][j] = hand[c][j - n]
        BY <1>4, <3>2 DEF Apart, WaitOrHeld
      <4>2. i - n = j - n
        BY <3>2, <4>1 DEF Apart, HeldOnce
      <4>3. i \in Int /\ j \in Int
        BY <1>1, <1>2
      <4> QED
        BY <1>n, <3>2, <4>1, <4>2, <4>3
    <3> QED
      BY <1>4, <3>1, <3>2, Zenon
  <2> QED
    BY <2>1, <2>2, <2>3, <2>4, <2>5, Zenon DEF Apart
<1>8. Home'
  BY <1>2, <1>5 DEF Home
<1>9. Alive'
  <2> SUFFICES ASSUME NEW u \in Users
               PROVE  /\ Runs(u)' <=> Runs(u)
                      /\ (Waits(u) \/ Held(u))' <=> (Waits(u) \/ Held(u))
    BY <1>2, Zenon DEF Alive
  <2>1. Runs(u)' <=> Runs(u)
    BY <1>2, Zenon DEF Runs
  <2>2. Waits(u) => Waits(u)'
    BY <1>5 DEF Waits
  <2>3. Held(u) => (Waits(u) \/ Held(u))'
    <3> SUFFICES ASSUME NEW e \in CPUs, NEW i \in 1..Len(hand[e]), hand[e][i] = u
                 PROVE  (Waits(u) \/ Held(u))'
      BY Zenon DEF Held
    <3>1. CASE e = c
      BY <1>5, <3>1, Zenon DEF Waits
    <3>2. CASE e # c
      BY <1>2, <3>2, Zenon DEF Held
    <3> QED
      BY <3>1, <3>2, Zenon
  <2>4. Waits(u)' => Waits(u) \/ Held(u)
    BY <1>4 DEF Waits, Held
  <2>5. Held(u)' => Held(u)
    BY <1>6, Zenon DEF Held
  <2> QED
    BY <2>1, <2>2, <2>3, <2>4, <2>5, Zenon
<1> QED
  BY <1>7, <1>8, <1>9, Zenon

\* take_user_tasks for idle_task: CPU c, which holds nothing, takes tasks from the
\* queue of CPU d.
PicksUp(c, d, count) ==
  /\ ready' = [ready EXCEPT ![d] = Left(ready[d], count)]
  /\ hand' = [hand EXCEPT ![c] = Taken(ready[d], count)]
  /\ curr' = curr /\ state' = state

\* A task waits at one place of a queue.
LEMMA SamePlace ==
  ASSUME WaitOnce, NEW e \in CPUs,
         NEW m \in 1..Len(ready[e]), NEW n \in 1..Len(ready[e]), ready[e][m] = ready[e][n]
  PROVE  m = n
  BY DEF WaitOnce

LEMMA PickUp ==
  ASSUME TypeOK, Apart, Home, Alive, NEW c \in CPUs, NEW d \in CPUs, NEW count,
         hand[c] = <<>>, PicksUp(c, d, count)
  PROVE  Apart' /\ Home' /\ Alive'
PROOF
<1>1. /\ \A e \in CPUs : e # d => ready'[e] = ready[e]
      /\ ready'[d] = Left(ready[d], count)
      /\ \A e \in CPUs : e # c => hand'[e] = hand[e]
      /\ hand'[c] = Taken(ready[d], count)
      /\ curr' = curr /\ state' = state
  BY Zenon DEF TypeOK, PicksUp
<1>2. \E F, a, b : Splits(ready[d], hand'[c], ready'[d], F, a, b)
  <2>1. ready[d] \in Seq(Tasks)
    BY Zenon DEF TypeOK
  <2>2. \E F, a, b : Splits(ready[d], Taken(ready[d], count), Left(ready[d], count), F, a, b)
    BY <2>1, TakeSplits, Zenon
  <2> QED
    BY <1>1, <2>2, Zenon
<1>3. PICK F, a, b : Splits(ready[d], hand'[c], ready'[d], F, a, b)
  BY <1>2, Zenon
<1>4. /\ \A k \in 1..Len(hand'[c]) : a[k] \in F /\ a[k] \in 1..Len(ready[d]) /\ hand'[c][k] = ready[d][a[k]]
      /\ \A k \in 1..Len(hand'[c]) : hand'[c][k] \in Users
      /\ \A k \in 1..Len(ready'[d]) : b[k] \notin F /\ b[k] \in 1..Len(ready[d]) /\ ready'[d][k] = ready[d][b[k]]
      /\ \A k, l \in 1..Len(hand'[c]) : a[k] = a[l] => k = l
      /\ \A k, l \in 1..Len(ready'[d]) : b[k] = b[l] => k = l
      /\ \A i \in F : \E k \in 1..Len(hand'[c]) : a[k] = i
      /\ \A i \in (1..Len(ready[d])) \ F : \E k \in 1..Len(ready'[d]) : b[k] = i
  BY <1>3, Zenon DEF Splits
<1>5. Len(hand[c]) = 0
  OBVIOUS
<1>6. Apart'
  <2>0. RunOnce /\ RunOrWait /\ RunOrHeld /\ WaitOnce /\ WaitOrHeld /\ HeldOnce
    BY Zenon DEF Apart
  <2>1. RunOnce'
    BY <1>1, Zenon, <2>0 DEF RunOnce
  <2>2. RunOrWait'
    <3> SUFFICES ASSUME NEW e \in CPUs, NEW f \in CPUs, NEW i \in 1..Len(ready'[f])
                 PROVE  ready'[f][i] # curr[e]
      BY <1>1, Zenon DEF RunOrWait
    <3>1. CASE f = d
      <4>1. b[i] \notin F /\ b[i] \in 1..Len(ready[d]) /\ ready'[d][i] = ready[d][b[i]]
        BY <1>4, <3>1, Zenon
      <4> QED
        BY <1>1, <1>4, <3>1, <4>1, <2>0 DEF RunOrWait
    <3>2. CASE f # d
      BY <1>1, <3>2, <2>0 DEF RunOrWait
    <3> QED
      BY <3>1, <3>2, Zenon
  <2>3. RunOrHeld'
    <3> SUFFICES ASSUME NEW e \in CPUs, NEW f \in CPUs, NEW i \in 1..Len(hand'[f])
                 PROVE  hand'[f][i] # curr[e]
      BY <1>1 DEF RunOrHeld
    <3>1. CASE f = c
      <4>1. a[i] \in F /\ a[i] \in 1..Len(ready[d]) /\ hand'[c][i] = ready[d][a[i]]
        BY <1>4, <3>1, Zenon
      <4> QED
        BY <1>1, <1>4, <3>1, <4>1, <2>0 DEF RunOrWait
    <3>2. CASE f # c
      BY <1>1, <3>2, <2>0 DEF RunOrHeld
    <3> QED
      BY <3>1, <3>2, Zenon
  <2>4. WaitOnce'
    <3> SUFFICES ASSUME NEW e \in CPUs, NEW f \in CPUs,
                        NEW i \in 1..Len(ready'[e]), NEW j \in 1..Len(ready'[f]), ready'[e][i] = ready'[f][j]
                 PROVE  e = f /\ i = j
      BY Zenon DEF WaitOnce
    <3>1. CASE e = d /\ f = d
      <4>1. b[i] \notin F /\ b[i] \in 1..Len(ready[d]) /\ ready'[d][i] = ready[d][b[i]]
        BY <1>4, <3>1, Zenon
      <4>2. b[j] \notin F /\ b[j] \in 1..Len(ready[d]) /\ ready'[d][j] = ready[d][b[j]]
        BY <1>4, <3>1, Zenon
      <4>3. ready[d][b[i]] = ready[d][b[j]]
        BY <1>1, <3>1, <4>1, <4>2, Zenon
      <4>4. b[i] = b[j]
        BY <2>0, <4>1, <4>2, <4>3, SamePlace, Zenon
      <4> QED
        BY <1>4, <3>1, <4>4, Zenon
    <3>2. CASE e = d /\ f # d
      <4>1. b[i] \notin F /\ b[i] \in 1..Len(ready[d]) /\ ready'[d][i] = ready[d][b[i]]
        BY <1>4, <3>2, Zenon
      <4>2. ready[d][b[i]] = ready[f][j]
        BY <1>1, <3>2, <4>1, Zenon
      <4> QED
        BY <1>1, <1>4, <3>2, <4>1, <4>2, <2>0 DEF WaitOnce
    <3>3. CASE e # d /\ f = d
      <4>1. b[j] \notin F /\ b[j] \in 1..Len(ready[d]) /\ ready'[d][j] = ready[d][b[j]]
        BY <1>4, <3>3, Zenon
      <4>2. ready[e][i] = ready[d][b[j]]
        BY <1>1, <3>3, <4>1, Zenon
      <4> QED
        BY <1>1, <1>4, <3>3, <4>1, <4>2, <2>0 DEF WaitOnce
    <3>4. CASE e # d /\ f # d
      BY <1>1, <3>4, <2>0 DEF WaitOnce
    <3> QED
      BY <3>1, <3>2, <3>3, <3>4, Zenon
  <2>5. WaitOrHeld'
    <3> SUFFICES ASSUME NEW e \in CPUs, NEW f \in CPUs,
                        NEW i \in 1..Len(ready'[e]), NEW j \in 1..Len(hand'[f]), ready'[e][i] = hand'[f][j]
                 PROVE  FALSE
      BY Zenon DEF WaitOrHeld
    <3>1. CASE e = d /\ f = c
      <4>1. b[i] \notin F /\ b[i] \in 1..Len(ready[d]) /\ ready'[d][i] = ready[d][b[i]]
        BY <1>4, <3>1, Zenon
      <4>2. a[j] \in F /\ a[j] \in 1..Len(ready[d]) /\ hand'[c][j] = ready[d][a[j]]
        BY <1>4, <3>1, Zenon
      <4>3. ready[d][b[i]] = ready[d][a[j]]
        BY <1>1, <3>1, <4>1, <4>2, Zenon
      <4>4. b[i] = a[j]
        BY <2>0, <4>1, <4>2, <4>3, SamePlace, Zenon
      <4> QED
        BY <1>4, <3>1, <4>1, <4>2, <4>4, Zenon
    <3>2. CASE e = d /\ f # c
      <4>1. b[i] \notin F /\ b[i] \in 1..Len(ready[d]) /\ ready'[d][i] = ready[d][b[i]]
        BY <1>4, <3>2, Zenon
      <4>2. ready[d][b[i]] = hand[f][j]
        BY <1>1, <3>2, <4>1, Zenon
      <4> QED
        BY <1>1, <1>4, <3>2, <4>1, <4>2, <2>0 DEF WaitOrHeld
    <3>3. CASE e # d /\ f = c
      <4>1. a[j] \in F /\ a[j] \in 1..Len(ready[d]) /\ hand'[c][j] = ready[d][a[j]]
        BY <1>4, <3>3, Zenon
      <4>2. ready[e][i] = ready[d][a[j]]
        BY <1>1, <3>3, <4>1, Zenon
      <4> QED
        BY <1>1, <1>4, <3>3, <4>1, <4>2, <2>0 DEF WaitOnce
    <3>4. CASE e # d /\ f # c
      BY <1>1, <3>4, <2>0 DEF WaitOrHeld
    <3> QED
      BY <3>1, <3>2, <3>3, <3>4, Zenon
  <2>6. HeldOnce'
    <3> SUFFICES ASSUME NEW e \in CPUs, NEW f \in CPUs,
                        NEW i \in 1..Len(hand'[e]), NEW j \in 1..Len(hand'[f]), hand'[e][i] = hand'[f][j]
                 PROVE  e = f /\ i = j
      BY Zenon DEF HeldOnce
    <3>1. CASE e = c /\ f = c
      <4>1. a[i] \in F /\ a[i] \in 1..Len(ready[d]) /\ hand'[c][i] = ready[d][a[i]]
        BY <1>4, <3>1, Zenon
      <4>2. a[j] \in F /\ a[j] \in 1..Len(ready[d]) /\ hand'[c][j] = ready[d][a[j]]
        BY <1>4, <3>1, Zenon
      <4>3. ready[d][a[i]] = ready[d][a[j]]
        BY <1>1, <3>1, <4>1, <4>2
      <4>4. a[i] = a[j]
        BY <2>0, <4>1, <4>2, <4>3, SamePlace, Zenon
      <4> QED
        BY <1>4, <3>1, <4>1, <4>2, <4>4
    <3>2. CASE e = c /\ f # c
      <4>1. a[i] \in F /\ a[i] \in 1..Len(ready[d]) /\ hand'[c][i] = ready[d][a[i]]
        BY <1>4, <3>2, Zenon
      <4>2. ready[d][a[i]] = hand[f][j]
        BY <1>1, <3>2, <4>1, Zenon
      <4> QED
        BY <1>1, <1>4, <3>2, <4>1, <4>2, <2>0 DEF WaitOrHeld
    <3>3. CASE e # c /\ f = c
      <4>1. a[j] \in F /\ a[j] \in 1..Len(ready[d]) /\ hand'[c][j] = ready[d][a[j]]
        BY <1>4, <3>3, Zenon
      <4>2. hand[e][i] = ready[d][a[j]]
        BY <1>1, <3>3, <4>1, Zenon
      <4> QED
        BY <1>1, <1>4, <3>3, <4>1, <4>2, <2>0 DEF WaitOrHeld
    <3>4. CASE e # c /\ f # c
      BY <1>1, <3>4, <2>0 DEF HeldOnce
    <3> QED
      BY <3>1, <3>2, <3>3, <3>4, Zenon
  <2> QED
    BY <2>1, <2>2, <2>3, <2>4, <2>5, <2>6 DEF Apart
<1>7. ASSUME NEW e \in CPUs, NEW i \in 1..Len(ready[e])
      PROVE  \/ \E k \in 1..Len(ready'[e]) : ready'[e][k] = ready[e][i]
             \/ ready[e][i] \in Users /\ \E k \in 1..Len(hand'[c]) : hand'[c][k] = ready[e][i]
  <2>1. CASE e # d
    BY <1>1, <2>1, Zenon
  <2>2. CASE e = d /\ i \in F
    BY <1>4, <2>2
  <2>3. CASE e = d /\ i \notin F
    BY <1>4, <2>3
  <2> QED
    BY <2>1, <2>2, <2>3, Zenon
<1>8. Home'
  <2> SUFFICES ASSUME NEW e \in CPUs, curr[e] # e
               PROVE  \E k \in 1..Len(ready'[e]) : ready'[e][k] = e
    BY <1>1, Zenon DEF Home
  <2>1. PICK i \in 1..Len(ready[e]) : ready[e][i] = e
    BY Zenon DEF Home
  <2>2. e \notin Users
    BY Basics, Zenon
  <2> QED
    BY <1>7, <2>1, <2>2
<1>9. Alive'
  <2> SUFFICES ASSUME NEW u \in Users
               PROVE  /\ Runs(u)' <=> Runs(u)
                      /\ (Waits(u) \/ Held(u))' <=> (Waits(u) \/ Held(u))
    BY <1>1, Zenon DEF Alive
  <2>1. Runs(u)' <=> Runs(u)
    BY <1>1, Zenon DEF Runs
  <2>2. Waits(u) => (Waits(u) \/ Held(u))'
    <3> SUFFICES ASSUME NEW e \in CPUs, NEW i \in 1..Len(ready[e]), ready[e][i] = u
                 PROVE  (Waits(u) \/ Held(u))'
      BY Zenon DEF Waits
    <3>1. CASE \E k \in 1..Len(ready'[e]) : ready'[e][k] = ready[e][i]
      BY <3>1, Zenon DEF Waits
    <3>2. CASE \E k \in 1..Len(hand'[c]) : hand'[c][k] = ready[e][i]
      BY <3>2, Zenon DEF Held
    <3> QED
      BY <1>7, <3>1, <3>2, Zenon
  <2>3. Held(u) => Held(u)'
    <3> SUFFICES ASSUME NEW e \in CPUs, NEW i \in 1..Len(hand[e]), hand[e][i] = u
                 PROVE  Held(u)'
      BY Zenon DEF Held
    <3>1. e # c
      BY <1>5
    <3> QED
      BY <1>1, <3>1, Zenon DEF Held
  <2>4. Waits(u)' => Waits(u)
    <3> SUFFICES ASSUME NEW e \in CPUs, NEW i \in 1..Len(ready'[e]), ready'[e][i] = u
                 PROVE  Waits(u)
      BY Zenon DEF Waits
    <3>1. CASE e = d
      <4>1. b[i] \in 1..Len(ready[d]) /\ ready[d][b[i]] = u
        BY <1>4, <3>1, Zenon
      <4> QED
        BY <4>1, Zenon DEF Waits
    <3>2. CASE e # d
      BY <1>1, <3>2, Zenon DEF Waits
    <3> QED
      BY <3>1, <3>2, Zenon
  <2>5. Held(u)' => Waits(u) \/ Held(u)
    <3> SUFFICES ASSUME NEW e \in CPUs, NEW i \in 1..Len(hand'[e]), hand'[e][i] = u
                 PROVE  Waits(u) \/ Held(u)
      BY Zenon DEF Held
    <3>1. CASE e = c
      BY <1>4, <3>1 DEF Waits
    <3>2. CASE e # c
      BY <1>1, <3>2, Zenon DEF Held
    <3> QED
      BY <3>1, <3>2, Zenon
  <2> QED
    BY <2>1, <2>2, <2>3, <2>4, <2>5, Zenon
<1> QED
  BY <1>6, <1>8, <1>9, Zenon

\* The queue r of a CPU after a timer interrupt: q without its head, and the old
\* task behind it if that goes on.
Rotated(r, q, old, goesOn) ==
  /\ 1 \in 1..Len(q)
  /\ \A i \in 1..Len(r) :
       \/ i + 1 \in 1..Len(q) /\ i + 1 # 1 /\ r[i] = q[i + 1]
       \/ goesOn /\ i = Len(q) /\ r[i] = old
  /\ \A i \in 1..Len(q) : i = 1 \/ (i - 1 \in 1..Len(r) /\ r[i - 1] = q[i])
  /\ goesOn => Len(q) \in 1..Len(r) /\ r[Len(q)] = old

LEMMA RotateFacts ==
  ASSUME NEW T, NEW q \in Seq(T), q # <<>>, NEW old \in T
  PROVE  /\ Tail(q) \in Seq(T) /\ Append(Tail(q), old) \in Seq(T)
         /\ Head(q) = q[1] /\ Head(q) \in T
         /\ Rotated(Tail(q), q, old, FALSE)
         /\ Rotated(Append(Tail(q), old), q, old, TRUE)
PROOF
<1> DEFINE n == Len(q)
<1>1. n \in Nat /\ n >= 1 /\ q \in [1..n -> T]
  OBVIOUS
<1>2. /\ Tail(q) \in Seq(T) /\ Len(Tail(q)) = n - 1
      /\ \A i \in 1..(n - 1) : Tail(q)[i] = q[i + 1]
  OBVIOUS
<1>3. /\ Append(Tail(q), old) \in Seq(T) /\ Len(Append(Tail(q), old)) = n
      /\ \A i \in 1..(n - 1) : Append(Tail(q), old)[i] = q[i + 1]
      /\ Append(Tail(q), old)[n] = old
  BY <1>1, <1>2
<1> HIDE DEF n
<1>4. /\ 1 \in 1..n /\ n \in 1..n
      /\ \A i \in 1..n : i = 1 \/ (i - 1 \in 1..n /\ i - 1 \in 1..(n - 1) /\ (i - 1) + 1 = i)
      /\ \A i \in 1..(n - 1) : i + 1 \in 1..n /\ i + 1 # 1
      /\ \A i \in 1..n : i = n \/ i \in 1..(n - 1)
  BY <1>1
<1>5. Rotated(Tail(q), q, old, FALSE)
  BY <1>2, <1>4, Zenon DEF Rotated, n
<1>6. Rotated(Append(Tail(q), old), q, old, TRUE)
  BY <1>3, <1>4, Zenon DEF Rotated, n
<1>7. Head(q) = q[1] /\ q[1] \in T
  BY <1>1 DEF n
<1> QED
  BY <1>2, <1>3, <1>5, <1>6, <1>7, Zenon

\* sched_logic on CPU c: the head of its queue runs, and the old task goes on in
\* the queue or is freed.
Switches(c, goesOn) ==
  /\ curr'[c] = ready[c][1]
  /\ Rotated(ready'[c], ready[c], curr[c], goesOn)
  /\ \A e \in CPUs : e # c => curr'[e] = curr[e] /\ ready'[e] = ready[e]
  /\ hand' = hand

LEMMA SwitchApart ==
  ASSUME Apart, NEW c \in CPUs, NEW goesOn, Switches(c, goesOn)
  PROVE  Apart'
PROOF
<1> DEFINE q == ready[c]
<1>1. /\ curr'[c] = q[1] /\ 1 \in 1..Len(q)
      /\ \A i \in 1..Len(ready'[c]) :
           \/ i + 1 \in 1..Len(q) /\ i + 1 # 1 /\ ready'[c][i] = q[i + 1]
           \/ i = Len(q) /\ ready'[c][i] = curr[c]
      /\ \A e \in CPUs : e # c => curr'[e] = curr[e] /\ ready'[e] = ready[e]
      /\ hand' = hand
  BY Zenon DEF Switches, Rotated
<1>2. RunOnce'
  <2> SUFFICES ASSUME NEW e \in CPUs, NEW f \in CPUs, curr'[e] = curr'[f]
               PROVE  e = f
    BY Zenon DEF RunOnce
  <2>1. CASE e # c /\ f # c
    BY <1>1, <2>1, Zenon DEF Apart, RunOnce
  <2>2. CASE e = c /\ f # c
    BY <1>1, <2>2 DEF Apart, RunOrWait
  <2>3. CASE e # c /\ f = c
    BY <1>1, <2>3 DEF Apart, RunOrWait
  <2> QED
    BY <2>1, <2>2, <2>3, Zenon
<1>3. RunOrWait'
  <2> SUFFICES ASSUME NEW e \in CPUs, NEW f \in CPUs, NEW i \in 1..Len(ready'[f]), ready'[f][i] = curr'[e]
               PROVE  FALSE
    BY Zenon DEF RunOrWait
  <2>1. CASE e # c /\ f # c
    BY <1>1, <2>1 DEF Apart, RunOrWait
  <2>2. CASE e = c /\ f # c
    <3>1. q[1] = ready[f][i] /\ i \in 1..Len(ready[f])
      BY <1>1, <2>2, Zenon
    <3> QED
      BY <1>1, <2>2, <3>1 DEF Apart, WaitOnce
  <2>3. CASE f = c /\ i + 1 \in 1..Len(q) /\ i + 1 # 1 /\ ready'[c][i] = q[i + 1]
    <3>1. CASE e = c
      <4>1. q[1] = q[i + 1]
        BY <1>1, <2>3, <3>1, Zenon
      <4> QED
        BY <1>1, <2>3, <4>1 DEF Apart, WaitOnce
    <3>2. CASE e # c
      <4>1. q[i + 1] = curr[e]
        BY <1>1, <2>3, <3>2
      <4> QED
        BY <2>3, <4>1, Zenon DEF Apart, RunOrWait
    <3> QED
      BY <3>1, <3>2, Zenon
  <2>4. CASE f = c /\ ready'[c][i] = curr[c]
    <3>1. CASE e = c
      <4>1. q[1] = curr[c]
        BY <1>1, <2>4, <3>1, Zenon
      <4> QED
        BY <1>1, <4>1 DEF Apart, RunOrWait
    <3>2. CASE e # c
      BY <1>1, <2>4, <3>2 DEF Apart, RunOnce
    <3> QED
      BY <3>1, <3>2, Zenon
  <2> QED
    BY <1>1, <2>1, <2>2, <2>3, <2>4, Zenon
<1>4. RunOrHeld'
  <2> SUFFICES ASSUME NEW e \in CPUs, NEW f \in CPUs, NEW i \in 1..Len(hand[f])
               PROVE  hand[f][i] # curr'[e]
    BY <1>1 DEF RunOrHeld
  <2>1. CASE e = c
    BY <1>1, <2>1 DEF Apart, WaitOrHeld
  <2>2. CASE e # c
    BY <1>1, <2>2 DEF Apart, RunOrHeld
  <2> QED
    BY <2>1, <2>2, Zenon
<1>5. WaitOnce'
  <2> SUFFICES ASSUME NEW e \in CPUs, NEW f \in CPUs,
                      NEW i \in 1..Len(ready'[e]), NEW j \in 1..Len(ready'[f]), ready'[e][i] = ready'[f][j]
               PROVE  e = f /\ i = j
    BY Zenon DEF WaitOnce
  <2>1. CASE e # c /\ f # c
    BY <1>1, <2>1 DEF Apart, WaitOnce
  <2>2. CASE e # c /\ f = c
    <3>1. i \in 1..Len(ready[e]) /\ ready[e][i] = ready'[c][j]
      BY <1>1, <2>2, Zenon
    <3>2. CASE ready'[c][j] = curr[c]
      BY <2>2, <3>1, <3>2, Zenon DEF Apart, RunOrWait
    <3>3. CASE j + 1 \in 1..Len(q) /\ ready'[c][j] = q[j + 1]
      BY <2>2, <3>1, <3>3 DEF Apart, WaitOnce
    <3> QED
      BY <1>1, <2>2, <3>2, <3>3, Zenon
  <2>3. CASE e = c /\ f # c
    <3>1. j \in 1..Len(ready[f]) /\ ready[f][j] = ready'[c][i]
      BY <1>1, <2>3, Zenon
    <3>2. CASE ready'[c][i] = curr[c]
      BY <2>3, <3>1, <3>2, Zenon DEF Apart, RunOrWait
    <3>3. CASE i + 1 \in 1..Len(q) /\ ready'[c][i] = q[i + 1]
      BY <2>3, <3>1, <3>3 DEF Apart, WaitOnce
    <3> QED
      BY <1>1, <2>3, <3>2, <3>3, Zenon
  <2>4. CASE e = c /\ f = c
    <3>0. i \in 1..Len(ready'[c]) /\ j \in 1..Len(ready'[c]) /\ ready'[c][i] = ready'[c][j]
      BY <2>4, Zenon
    <3>1. CASE i + 1 \in 1..Len(q) /\ ready'[c][i] = q[i + 1]
      <4>1. ready'[c][j] # curr[c]
        BY <3>0, <3>1, Zenon DEF Apart, RunOrWait
      <4>2. j + 1 \in 1..Len(q) /\ ready'[c][j] = q[j + 1]
        BY <1>1, <3>0, <4>1, Zenon
      <4>3. q[i + 1] = q[j + 1]
        BY <3>0, <3>1, <4>2, Zenon
      <4>4. i + 1 = j + 1
        BY <3>1, <4>2, <4>3 DEF Apart, WaitOnce
      <4> QED
        BY <2>4, <4>4
    <3>2. CASE i = Len(q) /\ ready'[c][i] = curr[c]
      <4>1. ~(j + 1 \in 1..Len(q) /\ ready'[c][j] = q[j + 1])
        BY <3>0, <3>2, Zenon DEF Apart, RunOrWait
      <4> QED
        BY <1>1, <2>4, <3>0, <3>2, <4>1, Zenon
    <3> QED
      BY <1>1, <3>0, <3>1, <3>2, Zenon
  <2> QED
    BY <2>1, <2>2, <2>3, <2>4, Zenon
<1>6. WaitOrHeld'
  <2> SUFFICES ASSUME NEW e \in CPUs, NEW f \in CPUs,
                      NEW i \in 1..Len(ready'[e]), NEW j \in 1..Len(hand[f])
               PROVE  ready'[e][i] # hand[f][j]
    BY <1>1 DEF WaitOrHeld
  <2>1. CASE e # c
    BY <1>1, <2>1 DEF Apart, WaitOrHeld
  <2>2. CASE e = c /\ ready'[c][i] = curr[c]
    BY <2>2, Zenon DEF Apart, RunOrHeld
  <2>3. CASE e = c /\ i + 1 \in 1..Len(q) /\ ready'[c][i] = q[i + 1]
    BY <2>3, Zenon DEF Apart, WaitOrHeld
  <2> QED
    BY <1>1, <2>1, <2>2, <2>3, Zenon
<1>7. HeldOnce'
  BY <1>1 DEF Apart, HeldOnce
<1> QED
  BY <1>2, <1>3, <1>4, <1>5, <1>6, <1>7, Zenon DEF Apart

LEMMA SwitchHome ==
  ASSUME Home, NEW c \in CPUs, NEW goesOn, Switches(c, goesOn), curr[c] = c => goesOn
  PROVE  Home'
PROOF
<1>1. /\ curr'[c] = ready[c][1]
      /\ \A i \in 1..Len(ready[c]) : i = 1 \/ (i - 1 \in 1..Len(ready'[c]) /\ ready'[c][i - 1] = ready[c][i])
      /\ goesOn => Len(ready[c]) \in 1..Len(ready'[c]) /\ ready'[c][Len(ready[c])] = curr[c]
      /\ \A e \in CPUs : e # c => curr'[e] = curr[e] /\ ready'[e] = ready[e]
  BY Zenon DEF Switches, Rotated
<1> SUFFICES ASSUME NEW e \in CPUs
             PROVE  curr'[e] = e \/ \E i \in 1..Len(ready'[e]) : ready'[e][i] = e
  BY Zenon DEF Home
<1>2. CASE e # c
  BY <1>1, <1>2 DEF Home
<1>3. CASE e = c /\ curr[c] = c
  BY <1>1, <1>3, Zenon
<1>4. CASE e = c /\ curr[c] # c
  <2>1. PICK i \in 1..Len(ready[c]) : ready[c][i] = c
    BY <1>4, Zenon DEF Home
  <2> QED
    BY <1>1, <1>4, <2>1
<1> QED
  BY <1>2, <1>3, <1>4, Zenon

LEMMA SwitchAlive ==
  ASSUME Apart, Alive, NEW c \in CPUs, NEW goesOn, Switches(c, goesOn),
         goesOn => (curr[c] \in Users => state[curr[c]] = "Ready"),
         \A u \in Users : (u # curr[c] \/ goesOn) => state'[u] = state[u],
         \A u \in Users : (u = curr[c] /\ ~goesOn) => state'[u] = "freed"
  PROVE  Alive'
PROOF
<1> DEFINE q == ready[c]
<1>1. /\ curr'[c] = q[1] /\ 1 \in 1..Len(q)
      /\ \A i \in 1..Len(ready'[c]) :
           \/ i + 1 \in 1..Len(q) /\ ready'[c][i] = q[i + 1]
           \/ goesOn /\ ready'[c][i] = curr[c]
      /\ \A i \in 1..Len(q) : i = 1 \/ (i - 1 \in 1..Len(ready'[c]) /\ ready'[c][i - 1] = q[i])
      /\ goesOn => Len(q) \in 1..Len(ready'[c]) /\ ready'[c][Len(q)] = curr[c]
      /\ \A e \in CPUs : e # c => curr'[e] = curr[e] /\ ready'[e] = ready[e]
      /\ hand' = hand
  BY Zenon DEF Switches, Rotated
<1>2. ASSUME NEW u \in Users
      PROVE  Held(u)' <=> Held(u)
  BY <1>1 DEF Held
<1>3. ASSUME NEW u \in Users, Runs(u)
      PROVE  (u = curr[c] /\ ~goesOn) \/ (Runs(u) \/ Waits(u))'
  <2>1. PICK e \in CPUs : curr[e] = u
    BY <1>3, Zenon DEF Runs
  <2>2. CASE e # c
    BY <1>1, <2>1, <2>2, Zenon DEF Runs
  <2>3. CASE e = c
    BY <1>1, <2>1, <2>3 DEF Waits
  <2> QED
    BY <2>2, <2>3, Zenon
<1>4. ASSUME NEW u \in Users, Waits(u)
      PROVE  (Runs(u) \/ Waits(u))'
  <2>1. PICK e \in CPUs : \E i \in 1..Len(ready[e]) : ready[e][i] = u
    BY <1>4, Zenon DEF Waits
  <2>2. PICK i \in 1..Len(ready[e]) : ready[e][i] = u
    BY <2>1, Zenon
  <2>3. CASE e # c
    BY <1>1, <2>2, <2>3, Zenon DEF Waits
  <2>4. CASE e = c /\ i = 1
    BY <1>1, <2>2, <2>4, Zenon DEF Runs
  <2>5. CASE e = c /\ i # 1
    BY <1>1, <2>2, <2>5, Zenon DEF Waits
  <2> QED
    BY <2>3, <2>4, <2>5
<1>5. ASSUME NEW u \in Users, (Runs(u) \/ Waits(u))'
      PROVE  (Runs(u) \/ Waits(u)) /\ (u = curr[c] => goesOn)
  <2>1. CASE Runs(u)'
    <3>1. PICK e \in CPUs : curr'[e] = u
      BY <2>1, Zenon DEF Runs
    <3>2. CASE e # c
      BY <1>1, <3>1, <3>2 DEF Runs, Apart, RunOnce
    <3>3. CASE e = c
      BY <1>1, <3>1, <3>3 DEF Waits, Apart, RunOrWait
    <3> QED
      BY <3>2, <3>3, Zenon
  <2>2. CASE Waits(u)'
    <3>1. PICK e \in CPUs : \E i \in 1..Len(ready'[e]) : ready'[e][i] = u
      BY <2>2, Zenon DEF Waits
    <3>2. PICK i \in 1..Len(ready'[e]) : ready'[e][i] = u
      BY <3>1, Zenon
    <3>3. CASE e # c
      BY <1>1, <3>2, <3>3 DEF Waits, Apart, RunOrWait
    <3>4. CASE e = c /\ i + 1 \in 1..Len(q) /\ ready'[c][i] = q[i + 1]
      BY <3>2, <3>4 DEF Waits, Apart, RunOrWait
    <3>5. CASE e = c /\ goesOn /\ ready'[c][i] = curr[c]
      BY <3>2, <3>5, Zenon DEF Runs
    <3> QED
      BY <1>1, <3>3, <3>4, <3>5, Zenon
  <2> QED
    BY <1>5, <2>1, <2>2, Zenon
<1>6. ASSUME NEW u \in Users, Held(u)
      PROVE  u # curr[c]
  BY <1>6 DEF Held, Apart, RunOrHeld
<1> SUFFICES ASSUME NEW u \in Users
             PROVE  /\ state'[u] \in {"Ready", "Terminate"} <=> (Runs(u) \/ Waits(u) \/ Held(u))'
                    /\ state'[u] = "Terminate" => Runs(u)'
  BY Zenon DEF Alive
<1>7. CASE u = curr[c] /\ ~goesOn
  <2>1. ~(Runs(u) \/ Waits(u) \/ Held(u))'
    BY <1>2, <1>5, <1>6, <1>7, Zenon
  <2> QED
    BY <1>7, <2>1, Zenon
<1>8. CASE u # curr[c] \/ goesOn
  <2>1. state'[u] = state[u]
    BY <1>8, Zenon
  <2>2. (Runs(u) \/ Waits(u) \/ Held(u))' <=> (Runs(u) \/ Waits(u) \/ Held(u))
    BY <1>2, <1>3, <1>4, <1>5, <1>8
  <2>3. state[u] = "Terminate" => Runs(u)'
    <3> SUFFICES ASSUME state[u] = "Terminate" PROVE Runs(u)'
      BY Zenon
    <3>1. PICK e \in CPUs : curr[e] = u
      BY Zenon DEF Alive, Runs
    <3>2. e # c
      BY <1>8, <3>1, Zenon
    <3> QED
      BY <1>1, <3>1, <3>2, Zenon DEF Runs
  <2> QED
    BY <2>1, <2>2, <2>3, Zenon DEF Alive
<1> QED
  BY <1>7, <1>8, Zenon

-----------------------------------------------------------------------------
(* The actions.                                                            *)

LEMMA TickPlaces ==
  ASSUME TypeOK, Apart, Home, Alive, NEW c \in CPUs, Tick(c)
  PROVE  /\ ready[c] # <<>> /\ ready[c] \in Seq(Tasks)
         /\ Apart' /\ Home' /\ Alive'
PROOF
<1>1. curr[c] \in Tasks /\ ready[c] \in Seq(Tasks) /\ c \notin Users
  BY Basics, Zenon DEF TypeOK
<1>2. ready[c] # <<>>
  <2> SUFFICES ASSUME ready[c] = <<>> PROVE FALSE
    BY Zenon
  <2>1. Len(ready[c]) = 0
    OBVIOUS
  <2>2. curr[c] = c
    BY <2>1 DEF Home
  <2> QED
    BY <1>1, <2>2, Zenon DEF Tick, IsReady
<1>3. /\ Head(ready[c]) = ready[c][1]
      /\ Rotated(Tail(ready[c]), ready[c], curr[c], FALSE)
      /\ Rotated(Append(Tail(ready[c]), curr[c]), ready[c], curr[c], TRUE)
  BY <1>1, <1>2, RotateFacts, Zenon
<1>4. /\ curr' = [curr EXCEPT ![c] = Head(ready[c])] /\ hand' = hand
      /\ IF IsReady(curr[c])
         THEN ready' = [ready EXCEPT ![c] = Append(Tail(ready[c]), curr[c])] /\ state' = state
         ELSE ready' = [ready EXCEPT ![c] = Tail(ready[c])] /\ state' = [state EXCEPT ![curr[c]] = "freed"]
  BY <1>2, Zenon DEF Tick, boot, Requeue
<1>5. /\ curr'[c] = ready[c][1] /\ hand' = hand
      /\ \A e \in CPUs : e # c => curr'[e] = curr[e] /\ ready'[e] = ready[e]
      /\ IsReady(curr[c]) => ready'[c] = Append(Tail(ready[c]), curr[c])
      /\ ~IsReady(curr[c]) => ready'[c] = Tail(ready[c])
  BY <1>3, <1>4, Zenon DEF TypeOK
<1>6. CASE IsReady(curr[c])
  <2>1. Switches(c, TRUE)
    BY <1>3, <1>5, <1>6, Zenon DEF Switches
  <2>2. state' = state /\ (curr[c] \in Users => state[curr[c]] = "Ready")
    BY <1>4, <1>6, Zenon DEF IsReady
  <2> QED
    BY <1>1, <1>2, <2>1, <2>2, SwitchApart, SwitchHome, SwitchAlive, Zenon
<1>7. CASE ~IsReady(curr[c])
  <2>1. Switches(c, FALSE)
    BY <1>3, <1>5, <1>7, Zenon DEF Switches
  <2>2. curr[c] \in Users /\ curr[c] # c
    BY <1>1, <1>7, Zenon DEF IsReady
  <2>3. /\ \A u \in Users : u # curr[c] => state'[u] = state[u]
        /\ \A u \in Users : u = curr[c] => state'[u] = "freed"
    BY <1>4, <1>7, <2>2 DEF TypeOK
  <2> QED
    BY <1>1, <1>2, <2>1, <2>2, <2>3, SwitchApart, SwitchHome, SwitchAlive, Zenon
<1> QED
  BY <1>6, <1>7, Zenon

\* A step that leaves the CPUs and the queues alone moves no task.
LEMMA ApartSame ==
  ASSUME Apart, curr' = curr, ready' = ready, hand' = hand
  PROVE  Apart'
PROOF
<1>1. RunOnce'
  BY Zenon DEF Apart, RunOnce
<1>2. RunOrWait'
  BY Zenon DEF Apart, RunOrWait
<1>3. RunOrHeld'
  BY DEF Apart, RunOrHeld
<1>4. WaitOnce'
  BY DEF Apart, WaitOnce
<1>5. WaitOrHeld'
  BY DEF Apart, WaitOrHeld
<1>6. HeldOnce'
  BY DEF Apart, HeldOnce
<1> QED
  BY <1>1, <1>2, <1>3, <1>4, <1>5, <1>6, Zenon DEF Apart

LEMMA KillPlaces ==
  ASSUME TypeOK, Apart, Home, Alive, NEW c \in CPUs, Kill(c)
  PROVE  Apart' /\ Home' /\ Alive'
PROOF
<1>1. /\ curr[c] \in Users /\ curr' = curr /\ ready' = ready /\ hand' = hand
      /\ state' = [state EXCEPT ![curr[c]] = "Terminate"]
  BY Zenon DEF Kill, boot
<1>2. state'[curr[c]] = "Terminate" /\ \A u \in Users : u # curr[c] => state'[u] = state[u]
  BY <1>1, Zenon DEF TypeOK
<1>3. Apart'
  BY <1>1, ApartSame, Zenon
<1>4. Home'
  BY <1>1, Zenon DEF Home
<1>5. Alive'
  <2> SUFFICES ASSUME NEW u \in Users
               PROVE  /\ state'[u] \in {"Ready", "Terminate"} <=> (Runs(u) \/ Waits(u) \/ Held(u))'
                      /\ state'[u] = "Terminate" => Runs(u)'
    BY Zenon DEF Alive
  <2>1. (Runs(u)' <=> Runs(u)) /\ (Waits(u)' <=> Waits(u)) /\ (Held(u)' <=> Held(u))
    BY <1>1, Zenon DEF Runs, Waits, Held
  <2>2. CASE u = curr[c]
    <3>1. Runs(u)
      BY <2>2, Zenon DEF Runs
    <3> QED
      BY <1>2, <2>1, <2>2, <3>1
  <2>3. CASE u # curr[c]
    BY <1>2, <2>1, <2>3, Zenon DEF Alive
  <2> QED
    BY <2>2, <2>3, Zenon
<1> QED
  BY <1>3, <1>4, <1>5

LEMMA CreatePlaces ==
  ASSUME TypeOK, BootInv, Apart, Home, Alive, MainCreate
  PROVE  Apart' /\ Home' /\ Alive'
PROOF
<1>0. 0 \in CPUs
  BY Basics, Zenon
<1>1. PICK u \in Users : /\ state[u] = "new"
                         /\ state' = [state EXCEPT ![u] = "Ready"]
                         /\ hand' = [hand EXCEPT ![0] = <<u>>]
  BY Zenon DEF MainCreate
<1>2. curr' = curr /\ ready' = ready /\ hand[0] = <<>>
  BY <1>0, Zenon DEF MainCreate, BootInv
<1>3. /\ state'[u] = "Ready" /\ \A v \in Users : v # u => state'[v] = state[v]
      /\ \A e \in CPUs : e # 0 => hand'[e] = hand[e]
      /\ hand'[0] = <<u>>
  BY <1>0, <1>1, Zenon DEF TypeOK
<1>4. /\ Len(hand[0]) = 0
      /\ \A i \in 1..Len(hand'[0]) : i = 1 /\ hand'[0][i] = u
      /\ 1 \in 1..Len(hand'[0]) /\ hand'[0][1] = u
  BY <1>2, <1>3
<1>5. ~Runs(u) /\ ~Waits(u) /\ ~Held(u)
  BY <1>1, Zenon DEF Alive
<1>6. Apart'
  <2>1. RunOnce' /\ RunOrWait' /\ WaitOnce'
    BY <1>2 DEF Apart, RunOnce, RunOrWait, WaitOnce
  <2>2. RunOrHeld'
    BY <1>2, <1>3, <1>4, <1>5 DEF Apart, RunOrHeld, Runs
  <2>3. WaitOrHeld'
    BY <1>2, <1>3, <1>4, <1>5 DEF Apart, WaitOrHeld, Waits
  <2>4. HeldOnce'
    <3> SUFFICES ASSUME NEW e \in CPUs, NEW f \in CPUs,
                        NEW i \in 1..Len(hand'[e]), NEW j \in 1..Len(hand'[f]), hand'[e][i] = hand'[f][j]
                 PROVE  e = f /\ i = j
      BY Zenon DEF HeldOnce
    <3>1. CASE e = 0 /\ f = 0
      BY <1>4, <3>1, Zenon
    <3>2. CASE e # 0 /\ f # 0
      BY <1>3, <3>2 DEF Apart, HeldOnce
    <3>3. CASE e # 0 /\ f = 0
      BY <1>3, <1>4, <1>5, <3>3 DEF Held
    <3>4. CASE e = 0 /\ f # 0
      BY <1>3, <1>4, <1>5, <3>4 DEF Held
    <3> QED
      BY <3>1, <3>2, <3>3, <3>4, Zenon
  <2> QED
    BY <2>1, <2>2, <2>3, <2>4, Zenon DEF Apart
<1>7. Home'
  BY <1>2, Zenon DEF Home
<1>8. Alive'
  <2> SUFFICES ASSUME NEW v \in Users
               PROVE  /\ state'[v] \in {"Ready", "Terminate"} <=> (Runs(v) \/ Waits(v) \/ Held(v))'
                      /\ state'[v] = "Terminate" => Runs(v)'
    BY Zenon DEF Alive
  <2>1. (Runs(v)' <=> Runs(v)) /\ (Waits(v)' <=> Waits(v))
    BY <1>2, Zenon DEF Runs, Waits
  <2>2. CASE v = u
    <3>1. Held(v)'
      BY <1>0, <1>4, <2>2, Zenon DEF Held
    <3> QED
      BY <1>3, <2>2, <3>1, Zenon
  <2>3. CASE v # u
    <3>1. Held(v)' <=> Held(v)
      BY <1>3, <1>4, <2>3 DEF Held
    <3> QED
      BY <1>3, <2>1, <2>3, <3>1 DEF Alive
  <2> QED
    BY <2>2, <2>3, Zenon
<1> QED
  BY <1>6, <1>7, <1>8

\* Steps that move no task.
LEMMA StillPlaces ==
  ASSUME Apart, Home, Alive, UNCHANGED <<curr, ready, state, hand>>
  PROVE  Apart' /\ Home' /\ Alive'
PROOF
<1>1. curr' = curr /\ ready' = ready /\ state' = state /\ hand' = hand
  BY Zenon
<1>2. Apart'
  BY <1>1, ApartSame, Zenon
<1>3. Home'
  BY <1>1, Zenon DEF Home
<1>4. Alive'
  BY <1>1 DEF Alive, Runs, Waits, Held
<1> QED
  BY <1>2, <1>3, <1>4, Zenon

LEMMA PlacesNext ==
  ASSUME TypeOK, BootInv, Apart, Home, Alive, [Next]_vars
  PROVE  Apart' /\ Home' /\ Alive'
PROOF
<1>1. CASE MainCreate
  BY <1>1, CreatePlaces, Zenon
<1>2. CASE MainScan
  BY <1>2, StillPlaces, Zenon DEF MainScan
<1>3. CASE MainAdd
  <2>1. 0 \in CPUs /\ scan[0].best \in CPUs
    BY <1>3, Basics, Zenon DEF MainAdd, BootInv
  <2>2. PutsDown(0, scan[0].best)
    BY <1>3, Zenon DEF MainAdd, PutsDown
  <2> QED
    BY <2>1, <2>2, PutDown, Zenon
<1>4. ASSUME NEW c \in CPUs, Tick(c)
      PROVE  Apart' /\ Home' /\ Alive'
  BY <1>4, TickPlaces, Zenon
<1>5. ASSUME NEW c \in CPUs, Kill(c)
      PROVE  Apart' /\ Home' /\ Alive'
  BY <1>5, KillPlaces, Zenon
<1>6. ASSUME NEW c \in CPUs, IdleCount(c) \/ IdleScan(c)
      PROVE  Apart' /\ Home' /\ Alive'
  BY <1>6, StillPlaces, Zenon DEF IdleCount, IdleScan
<1>7. ASSUME NEW c \in CPUs, IdleTake(c)
      PROVE  Apart' /\ Home' /\ Alive'
  <2>1. scan[c].best \in CPUs /\ hand[c] = <<>>
    BY <1>7, Zenon DEF IdleTake, BootInv
  <2> DEFINE extra == UserCount(ready[scan[c].best]) - mine[c]
             count == IF extra > 0 THEN extra \div 2 ELSE 0
  <2>2. PicksUp(c, scan[c].best, count)
    BY <1>7, Zenon DEF IdleTake, PicksUp
  <2> HIDE DEF count
  <2> QED
    BY <2>1, <2>2, PickUp
<1>8. ASSUME NEW c \in CPUs, IdlePut(c)
      PROVE  Apart' /\ Home' /\ Alive'
  <2>1. PutsDown(c, c)
    BY <1>8, Zenon DEF IdlePut, PutsDown
  <2> QED
    BY <2>1, PutDown, Zenon
<1>9. CASE UNCHANGED vars
  BY <1>9, StillPlaces, Zenon DEF vars
<1> QED
  BY <1>1, <1>2, <1>3, <1>4, <1>5, <1>6, <1>7, <1>8, <1>9, Zenon DEF Next, MainStep, IdleStep

LEMMA TypeNext ==
  ASSUME TypeOK, BootInv, Apart, Home, Alive, [Next]_vars
  PROVE  TypeOK'
PROOF
<1> USE Basics
<1>1. \A e \in CPUs : ready[e] \in Seq(Tasks) /\ hand[e] \in Seq(Tasks) /\ curr[e] \in Tasks
  BY Zenon DEF TypeOK
<1>2. \A e \in CPUs : UserCount(ready[e]) \in Nat
  BY <1>1, CountType, Zenon
<1>3. CASE MainCreate
  <2>1. PICK u \in Users : state' = [state EXCEPT ![u] = "Ready"] /\ hand' = [hand EXCEPT ![0] = <<u>>]
    BY <1>3, Zenon DEF MainCreate
  <2>2. <<u>> \in Seq(Tasks)
    OBVIOUS
  <2>3. hand' \in [CPUs -> Seq(Tasks)]
    BY <2>1, <2>2, Zenon DEF TypeOK
  <2> QED
    BY <1>3, <2>1, <2>3, Zenon DEF MainCreate, TypeOK, StartScan
<1>4. CASE MainScan
  <2>1. scan[0].at \in CPUs /\ scan[0] \in [at : Nat, best : CPUs \union {None}, load : Nat]
    BY <1>4, Zenon DEF MainScan, BootInv, TypeOK
  <2>2. UserCount(ready[scan[0].at]) \in Nat
    BY <1>2, <2>1, Zenon
  <2> DEFINE s == scan[0]
             count == UserCount(ready[s.at])
             best == IF s.best = None \/ count < s.load THEN [s EXCEPT !.best = s.at, !.load = count] ELSE s
             new == [best EXCEPT !.at = @ + 1]
  <2>3. best \in [at : Nat, best : CPUs \union {None}, load : Nat]
    BY <2>1, <2>2, Zenon
  <2>4. new \in [at : Nat, best : CPUs \union {None}, load : Nat]
    <3> HIDE DEF best
    <3> QED
      BY <2>3
  <2>5. /\ scan' = [scan EXCEPT ![0] = new]
        /\ pc' \in [CPUs -> {"rest", "scan", "add", "take", "put"}]
        /\ UNCHANGED <<curr, ready, state, space, stacks, mine, hand>>
    BY <1>4, Zenon DEF MainScan, TypeOK
  <2> HIDE DEF new
  <2>6. scan' \in [CPUs -> [at : Nat, best : CPUs \union {None}, load : Nat]]
    BY <2>4, <2>5, Zenon DEF TypeOK
  <2> QED
    BY <2>5, <2>6, Zenon DEF TypeOK
<1>5. CASE MainAdd
  <2>1. scan[0].best \in CPUs
    BY <1>5, Zenon DEF MainAdd, BootInv
  <2>2. ready[scan[0].best] \o hand[0] \in Seq(Tasks)
    BY <1>1, <2>1, ConcatFacts, Zenon
  <2> DEFINE r == ready[scan[0].best] \o hand[0]
  <2>3. /\ ready' = [ready EXCEPT ![scan[0].best] = r] /\ hand' = [hand EXCEPT ![0] = <<>>]
        /\ pc' = [pc EXCEPT ![0] = "rest"] /\ UNCHANGED <<curr, state, space, stacks, scan, mine>>
    BY <1>5, Zenon DEF MainAdd
  <2>4. r \in Seq(Tasks) /\ <<>> \in Seq(Tasks)
    BY <2>2
  <2> HIDE DEF r
  <2> QED
    BY <2>1, <2>3, <2>4, Zenon DEF TypeOK
<1>6. ASSUME NEW c \in CPUs, Tick(c)
      PROVE  TypeOK'
  <2>1. ready[c] # <<>>
    BY <1>6, TickPlaces, Zenon
  <2>2. /\ Tail(ready[c]) \in Seq(Tasks) /\ Append(Tail(ready[c]), curr[c]) \in Seq(Tasks)
        /\ Head(ready[c]) \in Tasks
    BY <1>1, <2>1, RotateFacts, Zenon
  <2>3. /\ curr' = [curr EXCEPT ![c] = Head(ready[c])]
        /\ ready' \in {[ready EXCEPT ![c] = Append(Tail(ready[c]), curr[c])], [ready EXCEPT ![c] = Tail(ready[c])]}
        /\ state' \in {state, [state EXCEPT ![curr[c]] = "freed"]}
        /\ space' = [space EXCEPT ![c] = IF Head(ready[c]) \in Users THEN Head(ready[c]) ELSE None]
        /\ stacks' = [stacks EXCEPT ![c] = IF Head(ready[c]) \in Users THEN Head(ready[c]) ELSE @]
        /\ UNCHANGED <<pc, scan, mine, hand>>
    BY <1>6, <2>1, Zenon DEF Tick, boot, Requeue, SpaceFor
  <2>4. ready' \in [CPUs -> Seq(Tasks)]
    <3> DEFINE r1 == Append(Tail(ready[c]), curr[c])
               r2 == Tail(ready[c])
    <3>1. r1 \in Seq(Tasks) /\ r2 \in Seq(Tasks)
      BY <2>2, Zenon
    <3>2. ready' \in {[ready EXCEPT ![c] = r1], [ready EXCEPT ![c] = r2]}
      BY <2>3, Zenon
    <3> HIDE DEF r1, r2
    <3> QED
      BY <3>1, <3>2, Zenon DEF TypeOK
  <2>5. curr' \in [CPUs -> Tasks] /\ state' \in [Users -> {"new", "Ready", "Terminate", "freed"}]
    BY <2>2, <2>3, Zenon DEF TypeOK
  <2>6. space' \in [CPUs -> Users \union {None}] /\ stacks' \in [CPUs -> Users \union {None}]
    BY <2>2, <2>3, Zenon DEF TypeOK
  <2> QED
    BY <2>3, <2>4, <2>5, <2>6, Zenon DEF TypeOK
<1>7. ASSUME NEW c \in CPUs, Kill(c)
      PROVE  TypeOK'
  BY <1>7, Zenon DEF Kill, boot, TypeOK
<1>8. ASSUME NEW c \in CPUs, IdleCount(c)
      PROVE  TypeOK'
  BY <1>2, <1>8, Zenon DEF IdleCount, TypeOK, StartScan
<1>9. ASSUME NEW c \in CPUs, IdleScan(c)
      PROVE  TypeOK'
  <2>1. scan[c].at \in CPUs /\ scan[c] \in [at : Nat, best : CPUs \union {None}, load : Nat]
    BY <1>9, Zenon DEF IdleScan, BootInv, TypeOK
  <2>2. UserCount(ready[scan[c].at]) \in Nat
    BY <1>2, <2>1, Zenon
  <2> DEFINE s == scan[c]
             count == UserCount(ready[s.at])
             best == IF count > s.load THEN [s EXCEPT !.best = s.at, !.load = count] ELSE s
             new == [best EXCEPT !.at = @ + 1]
  <2>3. best \in [at : Nat, best : CPUs \union {None}, load : Nat]
    BY <2>1, <2>2, Zenon
  <2>4. new \in [at : Nat, best : CPUs \union {None}, load : Nat]
    <3> HIDE DEF best
    <3> QED
      BY <2>3
  <2>5. /\ scan' = [scan EXCEPT ![c] = new]
        /\ pc' \in [CPUs -> {"rest", "scan", "add", "take", "put"}]
        /\ UNCHANGED <<curr, ready, state, space, stacks, mine, hand>>
    BY <1>9, Zenon DEF IdleScan, TypeOK
  <2> HIDE DEF new
  <2>6. scan' \in [CPUs -> [at : Nat, best : CPUs \union {None}, load : Nat]]
    BY <2>4, <2>5, Zenon DEF TypeOK
  <2> QED
    BY <2>5, <2>6, Zenon DEF TypeOK
<1>10. ASSUME NEW c \in CPUs, IdleTake(c)
       PROVE  TypeOK'
  <2> DEFINE d == scan[c].best
             extra == UserCount(ready[d]) - mine[c]
             count == IF extra > 0 THEN extra \div 2 ELSE 0
  <2>1. d \in CPUs
    BY <1>10, Zenon DEF IdleTake, BootInv
  <2>2. /\ hand' = [hand EXCEPT ![c] = Taken(ready[d], count)]
        /\ ready' = [ready EXCEPT ![d] = Left(ready[d], count)]
        /\ pc' = [pc EXCEPT ![c] = "put"]
        /\ UNCHANGED <<curr, state, space, stacks, scan, mine>>
    BY <1>10, Zenon DEF IdleTake
  <2> HIDE DEF count, d
  <2>3. Taken(ready[d], count) \in Seq(Tasks) /\ Left(ready[d], count) \in Seq(Tasks)
    BY <1>1, <2>1, TakeSplits, Zenon
  <2> QED
    BY <2>1, <2>2, <2>3, Zenon DEF TypeOK
<1>11. ASSUME NEW c \in CPUs, IdlePut(c)
       PROVE  TypeOK'
  <2>1. ready[c] \o hand[c] \in Seq(Tasks)
    BY <1>1, ConcatFacts, Zenon
  <2> DEFINE r == ready[c] \o hand[c]
  <2>2. /\ ready' = [ready EXCEPT ![c] = r] /\ hand' = [hand EXCEPT ![c] = <<>>]
        /\ pc' = [pc EXCEPT ![c] = "rest"] /\ UNCHANGED <<curr, state, space, stacks, scan, mine>>
    BY <1>11, Zenon DEF IdlePut
  <2>3. r \in Seq(Tasks) /\ <<>> \in Seq(Tasks)
    BY <2>1
  <2> HIDE DEF r
  <2> QED
    BY <2>2, <2>3, Zenon DEF TypeOK
<1>12. CASE UNCHANGED vars
  BY <1>12, Zenon DEF vars, TypeOK
<1> QED
  BY <1>3, <1>4, <1>5, <1>6, <1>7, <1>8, <1>9, <1>10, <1>11, <1>12 DEF Next, MainStep, IdleStep

LEMMA BootNext ==
  ASSUME TypeOK, BootInv, [Next]_vars
  PROVE  BootInv'
PROOF
<1> USE Basics
<1>1. CASE MainCreate
  <2>1. PICK u \in Users : hand' = [hand EXCEPT ![0] = <<u>>]
    BY <1>1, Zenon DEF MainCreate
  <2> QED
    BY <1>1, <2>1, SchedulerAssumption DEF MainCreate, TypeOK, BootInv, StartScan
<1>2. CASE MainScan
  <2>1. /\ scan[0].at \in CPUs /\ scan[0] \in [at : Nat, best : CPUs \union {None}, load : Nat]
        /\ pc[0] = "scan" /\ UNCHANGED hand
    BY <1>2, Zenon DEF MainScan, BootInv, TypeOK
  <2>2. /\ scan'[0].best \in CPUs /\ scan'[0].at = scan[0].at + 1
        /\ pc'[0] = "add" \/ (pc'[0] = "scan" /\ scan[0].at + 1 < NCpu)
        /\ \A c \in CPUs : c # 0 => pc'[c] = pc[c] /\ scan'[c] = scan[c]
    BY <1>2, <2>1, Zenon DEF MainScan, TypeOK, ScanGoesOn
  <2>3. pc'[0] = "scan" => scan'[0].at \in CPUs
    BY <2>1, <2>2, SchedulerAssumption DEF CPUs
  <2> QED
    BY <2>1, <2>2, <2>3, Zenon DEF BootInv
<1>3. CASE MainAdd
  BY <1>3, Zenon DEF MainAdd, TypeOK, BootInv
<1>4. ASSUME NEW c \in CPUs, Tick(c) \/ Kill(c)
      PROVE  BootInv'
  BY <1>4, Zenon DEF Tick, Kill, boot, BootInv
<1>5. ASSUME NEW c \in CPUs, IdleCount(c)
      PROVE  BootInv'
  BY <1>5, SchedulerAssumption, Zenon DEF IdleCount, TypeOK, BootInv, StartScan
<1>6. ASSUME NEW c \in CPUs, IdleScan(c)
      PROVE  BootInv'
  <2>1. /\ scan[c].at \in CPUs /\ scan[c] \in [at : Nat, best : CPUs \union {None}, load : Nat]
        /\ c # 0 /\ pc[c] = "scan" /\ UNCHANGED hand
    BY <1>6, Zenon DEF IdleScan, BootInv, TypeOK
  <2>2. /\ scan'[c].best \in CPUs \union {None} /\ scan'[c].at = scan[c].at + 1
        /\ \/ pc'[c] = "scan" /\ scan[c].at + 1 < NCpu
           \/ pc'[c] = "take" /\ scan'[c].best \notin {None, c}
           \/ pc'[c] = "rest"
        /\ \A e \in CPUs : e # c => pc'[e] = pc[e] /\ scan'[e] = scan[e]
    BY <1>6, <2>1 DEF IdleScan, TypeOK, ScanGoesOn, WorthStealing
  <2>3. pc'[c] = "scan" => scan'[c].at \in CPUs
    BY <2>1, <2>2, SchedulerAssumption DEF CPUs
  <2> QED
    BY <2>1, <2>2, <2>3, Zenon DEF BootInv
<1>7. ASSUME NEW c \in CPUs, IdleTake(c)
      PROVE  BootInv'
  BY <1>7, Zenon DEF IdleTake, TypeOK, BootInv
<1>8. ASSUME NEW c \in CPUs, IdlePut(c)
      PROVE  BootInv'
  BY <1>8, Zenon DEF IdlePut, TypeOK, BootInv
<1>9. CASE UNCHANGED vars
  BY <1>9, Zenon DEF vars, BootInv
<1> QED
  BY <1>1, <1>2, <1>3, <1>4, <1>5, <1>6, <1>7, <1>8, <1>9 DEF Next, MainStep, IdleStep

LEMMA RegistersNext ==
  ASSUME TypeOK, Apart, Home, Alive, Registers, [Next]_vars
  PROVE  Registers'
PROOF
<1>1. ASSUME NEW c \in CPUs, Tick(c)
      PROVE  Registers'
  <2>1. ready[c] # <<>>
    BY <1>1, TickPlaces, Zenon
  <2>2. /\ curr' = [curr EXCEPT ![c] = Head(ready[c])]
        /\ space' = [space EXCEPT ![c] = IF Head(ready[c]) \in Users THEN Head(ready[c]) ELSE None]
        /\ stacks' = [stacks EXCEPT ![c] = IF Head(ready[c]) \in Users THEN Head(ready[c]) ELSE @]
    BY <1>1, <2>1, Zenon DEF Tick, SpaceFor
  <2> QED
    BY <2>2, Zenon DEF TypeOK, Registers
<1>2. CASE UNCHANGED <<curr, space, stacks>>
  BY <1>2, Zenon DEF Registers
<1>3. MainStep => UNCHANGED <<curr, space, stacks>>
  BY Zenon DEF MainStep, MainCreate, MainScan, MainAdd
<1>4. \A c \in CPUs : Kill(c) \/ IdleStep(c) => UNCHANGED <<curr, space, stacks>>
  BY Zenon DEF Kill, IdleStep, IdleCount, IdleScan, IdleTake, IdlePut
<1>5. UNCHANGED vars => UNCHANGED <<curr, space, stacks>>
  BY Zenon DEF vars
<1> QED
  BY <1>1, <1>2, <1>3, <1>4, <1>5 DEF Next

-----------------------------------------------------------------------------
(* The results.                                                            *)

\* The invariant holds, however timer interrupts, faults, kmain and the idle
\* tasks of any number of CPUs interleave.
THEOREM SchedInvariant == Spec => []SchedInv
PROOF
<1>1. Init => SchedInv
  BY SchedInit, Zenon
<1>2. SchedInv /\ [Next]_vars => SchedInv'
  <2> SUFFICES ASSUME SchedInv, [Next]_vars PROVE SchedInv'
    BY Zenon
  <2> QED
    BY PlacesNext, TypeNext, BootNext, RegistersNext, Zenon DEF SchedInv
<1> QED
  BY <1>1, <1>2, PTL DEF Spec

LEMMA OncePlaced == SchedInv => EveryTaskOnce
PROOF
<1> SUFFICES ASSUME SchedInv PROVE EveryTaskOnce
  BY Zenon
<1> USE DEF SchedInv
<1>0. ASSUME NEW t, NEW p
      PROVE  p \in Places(t) <=>
               \/ \E c \in CPUs : curr[c] = t /\ p = <<"curr", c, 0>>
               \/ \E c \in CPUs : \E i \in 1..Len(ready[c]) : ready[c][i] = t /\ p = <<"ready", c, i>>
               \/ \E c \in CPUs : \E i \in 1..Len(hand[c]) : hand[c][i] = t /\ p = <<"hand", c, i>>
  <2>1. p \in InCurr(t) <=> \E c \in CPUs : curr[c] = t /\ p = <<"curr", c, 0>>
    BY Zenon DEF InCurr
  <2>2. p \in InReady(t) <=>
          \E c \in CPUs : \E i \in 1..Len(ready[c]) : ready[c][i] = t /\ p = <<"ready", c, i>>
    <3> DEFINE W(c) == {<<"ready", c, i>> : i \in {j \in 1..Len(ready[c]) : ready[c][j] = t}}
    <3>1. \A c \in CPUs : p \in W(c) <=> \E i \in 1..Len(ready[c]) : ready[c][i] = t /\ p = <<"ready", c, i>>
      BY Zenon
    <3>2. InReady(t) = UNION {W(c) : c \in CPUs}
      BY Zenon DEF InReady
    <3> HIDE DEF W
    <3> QED
      BY <3>1, <3>2, Zenon
  <2>3. p \in InHand(t) <=>
          \E c \in CPUs : \E i \in 1..Len(hand[c]) : hand[c][i] = t /\ p = <<"hand", c, i>>
    <3> DEFINE H(c) == {<<"hand", c, i>> : i \in {j \in 1..Len(hand[c]) : hand[c][j] = t}}
    <3>1. \A c \in CPUs : p \in H(c) <=> \E i \in 1..Len(hand[c]) : hand[c][i] = t /\ p = <<"hand", c, i>>
      BY Zenon
    <3>2. InHand(t) = UNION {H(c) : c \in CPUs}
      BY Zenon DEF InHand
    <3> HIDE DEF H
    <3> QED
      BY <3>1, <3>2, Zenon
  <2> QED
    BY <2>1, <2>2, <2>3, Zenon DEF Places
<1>1. ASSUME NEW t, NEW c \in CPUs, curr[c] = t
      PROVE  Places(t) = {<<"curr", c, 0>>}
  <2>1. <<"curr", c, 0>> \in Places(t)
    BY <1>0, <1>1, Zenon
  <2>2. \A p \in Places(t) : p = <<"curr", c, 0>>
    BY <1>0, <1>1 DEF Apart, RunOnce, RunOrWait, RunOrHeld
  <2> QED
    BY <2>1, <2>2, Zenon
<1>2. ASSUME NEW t, NEW c \in CPUs, NEW i \in 1..Len(ready[c]), ready[c][i] = t
      PROVE  Places(t) = {<<"ready", c, i>>}
  <2>1. <<"ready", c, i>> \in Places(t)
    BY <1>0, <1>2, Zenon
  <2>2. \A p \in Places(t) : p = <<"ready", c, i>>
    BY <1>0, <1>2 DEF Apart, RunOrWait, WaitOnce, WaitOrHeld
  <2> QED
    BY <2>1, <2>2, Zenon
<1>3. ASSUME NEW t, NEW c \in CPUs, NEW i \in 1..Len(hand[c]), hand[c][i] = t
      PROVE  Places(t) = {<<"hand", c, i>>}
  <2>1. <<"hand", c, i>> \in Places(t)
    BY <1>0, <1>3, Zenon
  <2>2. \A p \in Places(t) : p = <<"hand", c, i>>
    BY <1>0, <1>3 DEF Apart, RunOrHeld, WaitOrHeld, HeldOnce
  <2> QED
    BY <2>1, <2>2, Zenon
<1>4. ASSUME NEW c \in CPUs
      PROVE  \E p \in Places(c) : Places(c) = {p} /\ p[2] = c
  <2>1. CASE curr[c] = c
    <3> DEFINE p == <<"curr", c, 0>>
    <3>1. Places(c) = {p} /\ p[2] = c
      BY <1>1, <2>1, Zenon
    <3> QED
      BY <3>1, Zenon
  <2>2. CASE \E i \in 1..Len(ready[c]) : ready[c][i] = c
    <3>1. PICK i \in 1..Len(ready[c]) : ready[c][i] = c
      BY <2>2, Zenon
    <3> DEFINE p == <<"ready", c, i>>
    <3>2. Places(c) = {p} /\ p[2] = c
      BY <1>2, <3>1, Zenon
    <3> QED
      BY <3>2, Zenon
  <2> QED
    BY <2>1, <2>2, Zenon DEF Home
<1>5. ASSUME NEW u \in Users, state[u] \in {"Ready", "Terminate"}
      PROVE  \E p \in Places(u) : Places(u) = {p}
  <2>1. CASE Runs(u)
    BY <1>1, <2>1, Zenon DEF Runs
  <2>2. CASE Waits(u)
    BY <1>2, <2>2, Zenon DEF Waits
  <2>3. CASE Held(u)
    BY <1>3, <2>3, Zenon DEF Held
  <2> QED
    BY <1>5, <2>1, <2>2, <2>3 DEF Alive
<1>6. ASSUME NEW u \in Users, state[u] \notin {"Ready", "Terminate"}
      PROVE  Places(u) = {}
  <2>1. ~Runs(u) /\ ~Waits(u) /\ ~Held(u)
    BY <1>6, Zenon DEF Alive
  <2>2. \A p : p \notin Places(u)
    BY <1>0, <2>1, Zenon DEF Runs, Waits, Held
  <2> QED
    BY <2>2, Zenon
<1>7. \A u \in Users : state[u] = "Terminate" => \E c \in CPUs : curr[c] = u
  BY Zenon DEF Alive, Runs
<1> QED
  BY <1>4, <1>5, <1>6, <1>7 DEF EveryTaskOnce

\* For any number of CPUs and tasks no task is lost or doubled by preemption,
\* stealing and killing (sched_logic, take_user_tasks, idle_task).
THEOREM TasksOnce == Spec => []EveryTaskOnce
BY SchedInvariant, OncePlaced, PTL

\* For any number of CPUs and tasks every CPU runs on the page table and the
\* kernel stacks of its current task (sched_logic).
THEOREM OwnRegisters == Spec => []RegistersMatch
PROOF
<1>1. SchedInv => RegistersMatch
  <2> SUFFICES ASSUME SchedInv, NEW c \in CPUs
               PROVE  /\ space[c] = IF curr[c] \in Users THEN curr[c] ELSE None
                      /\ curr[c] \in Users => stacks[c] = curr[c] /\ state[curr[c]] # "freed"
    BY Zenon DEF RegistersMatch
  <2>1. curr[c] \in Users => state[curr[c]] \in {"Ready", "Terminate"}
    BY Zenon DEF SchedInv, Alive, Runs
  <2> QED
    BY <2>1, Zenon DEF SchedInv, Registers
<1> QED
  BY <1>1, SchedInvariant, PTL
=============================================================================
