---------------------------- MODULE BuddyProofs ----------------------------
(***************************************************************************)
(* Proofs about BuddyAllocator, for every memory map, every number of      *)
(* orders and slab slots and every set of request sizes.                   *)
(***************************************************************************)
EXTENDS BuddyAllocator, TLAPS

-----------------------------------------------------------------------------
(* Lemmas about the slab's table operations (PageSlab).                    *)

Runs == [addr : Nat, count : Nat, via : Nat]

\* What the table and the runs R held by callers satisfy together.
TableInv(tab, R) ==
  /\ tab \in [Slots -> BlockInfo]
  /\ \A i, j \in Slots : i # j /\ tab[i].used /\ tab[j].used =>
       \/ tab[i].base + tab[i].total <= tab[j].base
       \/ tab[j].base + tab[j].total <= tab[i].base
  /\ \A i \in Slots : tab[i].used => SlotApart(tab, R, i) /\ SlotCounted(tab, R, i)
  /\ \A h \in R : h.count > 0 => Owns(tab, h.addr)

\* The facts on finite sets that the lemmas rest on.  Cardinalities takes them
\* from the library at the end; as a hypothesis they keep the library's many
\* theorems out of the context of every other proof.
CardinalityFacts ==
  /\ \A S : IsFiniteSet(S) => Cardinality(S) \in Nat /\ (Cardinality(S) = 0 <=> S = {})
  /\ IsFiniteSet({})
  /\ \A S, T : IsFiniteSet(S) /\ T \subseteq S => IsFiniteSet(T)
  /\ \A S, T : IsFiniteSet(S) /\ IsFiniteSet(T) =>
       Cardinality(S \union T) = Cardinality(S) + Cardinality(T) - Cardinality(S \cap T)
  /\ \A a, b \in Int : /\ IsFiniteSet(a..b)
                        /\ Cardinality(a..b) = IF a > b THEN 0 ELSE b - a + 1

\* An interval of n blocks is finite and has n elements.
LEMMA PagesCardinality ==
  ASSUME CardinalityFacts, NEW a \in Nat, NEW n \in Nat
  PROVE  IsFiniteSet(Pages(a, n)) /\ Cardinality(Pages(a, n)) = n
<1>1. a \in Int /\ a + n - 1 \in Int
  OBVIOUS
<1>2. IsFiniteSet(a..(a + n - 1))
  BY <1>1, Zenon DEF CardinalityFacts
<1>3. Cardinality(a..(a + n - 1)) = IF a > a + n - 1 THEN 0 ELSE (a + n - 1) - a + 1
  BY <1>1, Zenon DEF CardinalityFacts
<1>4. QED
  BY <1>2, <1>3 DEF Pages

\* The blocks that callers hold in a used slot are finitely many.
LEMMA RunPagesFinite ==
  ASSUME CardinalityFacts, NEW tab \in [Slots -> BlockInfo], NEW R \in SUBSET Runs, NEW i \in Slots,
         SlotApart(tab, R, i)
  PROVE  IsFiniteSet(RunPages(tab, R, i))
<1>1. RunPages(tab, R, i) \subseteq Pages(tab[i].base, tab[i].total)
  <2>1. ASSUME NEW h \in RunsIn(tab, R, i), NEW p \in Pages(h.addr, h.count)
        PROVE  p \in Pages(tab[i].base, tab[i].total)
    <3>1. h.addr \in Nat /\ h.count \in Nat /\ tab[i].base \in Nat /\ tab[i].total \in Nat
      BY <2>1, Zenon DEF RunsIn, Runs, BlockInfo
    <3>2. Inside(tab[i], h)
      BY <2>1, Zenon DEF SlotApart
    <3>3. QED
      BY <2>1, <3>1, <3>2 DEF Inside, Pages
  <2>2. QED
    BY <2>1, Zenon DEF RunPages
<1>2. IsFiniteSet(Pages(tab[i].base, tab[i].total))
  BY PagesCardinality, Zenon DEF BlockInfo
<1>3. QED
  BY <1>1, <1>2, Zenon DEF CardinalityFacts

\* Cutting a run off a free range keeps the table in order (alloc_in_block).
LEMMA TakeRun ==
  ASSUME CardinalityFacts, NEW tab, NEW R \in SUBSET Runs, TableInv(tab, R),
         NEW i \in Slots, NEW r, NEW count \in Nat, Fits(tab, i, r, count),
         NEW n \in Runs, n.addr = r.addr, n.count = count
  PROVE  TableInv(Take(tab, i, r, count), R \union {n})
<1> DEFINE new == Take(tab, i, r, count)
           S   == R \union {n}
<1>1. /\ tab \in [Slots -> BlockInfo] /\ tab[i] \in BlockInfo
      /\ tab[i].used /\ r \in tab[i].free /\ r \in Ranges /\ r.count >= count
      /\ SlotApart(tab, R, i) /\ SlotCounted(tab, R, i)
  BY Zenon DEF TableInv, Fits, BlockInfo
<1>2. /\ r.addr \in Nat \ {0} /\ r.count \in Nat \ {0}
      /\ tab[i].base \in Nat /\ tab[i].total \in Nat /\ tab[i].allocated \in Nat
      /\ Inside(tab[i], r)
  BY <1>1, Zenon DEF Ranges, BlockInfo, SlotApart
<1>3. Rest(r, count) \subseteq Ranges
  BY <1>1, <1>2 DEF Rest, Ranges
<1>4. /\ new \in [Slots -> BlockInfo]
      /\ \A j \in Slots : (new[j].used <=> tab[j].used) /\ new[j].base = tab[j].base
                          /\ new[j].total = tab[j].total
      /\ \A j \in Slots : j # i => new[j] = tab[j]
      /\ new[i].free = (tab[i].free \ {r}) \union Rest(r, count)
      /\ new[i].allocated = tab[i].allocated + count
  <2> DEFINE F == (tab[i].free \ {r}) \union Rest(r, count)
             m == tab[i].allocated + count
  <2>1. new = [tab EXCEPT ![i] = Block(tab[i].base, tab[i].total, m, F)]
    BY Zenon DEF Take
  <2>2. m \in Nat /\ F \in SUBSET Ranges
    BY <1>1, <1>2, <1>3 DEF BlockInfo
  <2> HIDE DEF F, m, new
  <2>3. Block(tab[i].base, tab[i].total, m, F) \in BlockInfo
    BY <1>2, <2>2, Zenon DEF Block, BlockInfo
  <2>4. /\ new \in [Slots -> BlockInfo]
        /\ new[i] = Block(tab[i].base, tab[i].total, m, F)
        /\ \A j \in Slots : j # i => new[j] = tab[j]
    BY <1>1, <2>1, <2>3, Zenon
  <2>5. QED
    BY <1>1, <2>4 DEF Block, F, m
<1>5. \A j \in Slots : \A a : InSlot(new, j, a) <=> InSlot(tab, j, a)
  BY <1>4, Zenon DEF InSlot
<1>6. InSlot(tab, i, n.addr)
  <2>1. tab[i].base <= r.addr /\ r.addr + r.count <= tab[i].base + tab[i].total
    BY <1>2, Zenon DEF Inside
  <2>2. r.addr < tab[i].base + tab[i].total
    BY <1>2, <2>1
  <2>3. QED
    BY <1>1, <2>1, <2>2, Zenon DEF InSlot
<1>7. \A j \in Slots : j # i => ~InSlot(tab, j, n.addr)
  BY <1>1, <1>2, <1>6 DEF TableInv, InSlot, BlockInfo
<1>8. \A j \in Slots : j # i => RunsIn(new, S, j) = RunsIn(tab, R, j)
  BY <1>5, <1>7, Zenon DEF RunsIn
<1>9. RunsIn(new, S, i) = RunsIn(tab, R, i) \union (IF count > 0 THEN {n} ELSE {})
  BY <1>5, <1>6, Zenon DEF RunsIn
<1>10. \A h \in S : h.count > 0 => Owns(new, h.addr)
  BY <1>5, <1>6, Zenon DEF TableInv, Owns
<1>11. \A j \in Slots : j # i /\ new[j].used => SlotApart(new, S, j) /\ SlotCounted(new, S, j)
  BY <1>4, <1>8, Zenon DEF TableInv, SlotApart, SlotCounted, RunPages
<1> HIDE DEF new, S
<1>12. SlotApart(new, S, i)
  <2>1. \A x \in Rest(r, count) :
          /\ x.addr = r.addr + count /\ x.count = r.count - count /\ r.count > count
    BY <1>1, <1>2 DEF Rest
  <2>2. ASSUME NEW x \in new[i].free
        PROVE  \/ x \in tab[i].free /\ x # r
               \/ x \in Rest(r, count)
    BY <1>4, Zenon
  <2>3. ASSUME NEW h \in RunsIn(new, S, i)
        PROVE  \/ h \in RunsIn(tab, R, i)
               \/ h = n /\ count > 0
    BY <1>9, Zenon
  <2>4. /\ \A x \in tab[i].free : x.addr \in Nat /\ x.count \in Nat
        /\ \A h \in RunsIn(tab, R, i) : h.addr \in Nat /\ h.count \in Nat
    BY <1>1, Zenon DEF BlockInfo, Ranges, RunsIn, Runs
  <2>5. /\ \A x \in tab[i].free : Inside(tab[i], x) /\ (x # r => RangeApart(x, r))
        /\ \A x \in RunsIn(tab, R, i) : Inside(tab[i], x) /\ RangeApart(r, x)
    BY <1>1, Zenon DEF SlotApart
  <2>6. \A x \in new[i].free : Inside(new[i], x)
    BY <1>2, <1>4, <2>1, <2>2, <2>4, <2>5 DEF Inside
  <2>7. \A x \in RunsIn(new, S, i) : Inside(new[i], x)
    BY <1>1, <1>2, <1>4, <2>3, <2>5 DEF Inside
  <2>8. \A x, y \in new[i].free : x # y => RangeApart(x, y)
    <3>1. \A x, y \in Rest(r, count) : x = y
      BY Zenon DEF Rest
    <3>2. \A x, y \in tab[i].free : x # y => RangeApart(x, y)
      BY <1>1, Zenon DEF SlotApart
    <3>3. QED
      BY <1>2, <2>1, <2>2, <2>4, <2>5, <3>1, <3>2 DEF RangeApart
  <2>9. \A x, y \in RunsIn(new, S, i) : x # y => RangeApart(x, y)
    <3>1. \A x, y \in RunsIn(tab, R, i) : x # y => RangeApart(x, y)
      BY <1>1, Zenon DEF SlotApart
    <3>2. QED
      BY <1>1, <1>2, <2>3, <2>4, <2>5, <3>1 DEF RangeApart
  <2>10. \A x \in new[i].free, y \in RunsIn(new, S, i) : RangeApart(x, y)
    <3>1. \A x \in tab[i].free, y \in RunsIn(tab, R, i) : RangeApart(x, y)
      BY <1>1, Zenon DEF SlotApart
    <3>2. QED
      BY <1>1, <1>2, <2>1, <2>2, <2>3, <2>4, <2>5, <3>1 DEF RangeApart
  <2>11. QED
    BY <2>6, <2>7, <2>8, <2>9, <2>10, Zenon DEF SlotApart
<1>13. SlotCounted(new, S, i)
  <2> DEFINE old == RunPages(tab, R, i)
             cut == Pages(r.addr, count)
  <2>1. RunPages(new, S, i) = old \union cut
    <3>1. CASE count = 0
      <4>1. cut = {}
        BY <1>2, <3>1 DEF Pages
      <4>2. QED
        BY <1>9, <3>1, <4>1, Zenon DEF RunPages
    <3>2. CASE count > 0
      <4>1. RunsIn(new, S, i) = RunsIn(tab, R, i) \union {n}
        BY <1>9, <3>2, Zenon
      <4>2. QED
        BY <4>1, Zenon DEF RunPages
    <3>3. QED
      BY <3>1, <3>2
  <2>2. old \cap cut = {}
    <3>1. ASSUME NEW h \in RunsIn(tab, R, i), NEW p \in Pages(h.addr, h.count)
          PROVE  p \notin cut
      <4>1. h.addr \in Nat /\ h.count \in Nat
        BY <3>1, Zenon DEF RunsIn, Runs
      <4>2. RangeApart(r, h)
        BY <1>1, <3>1, Zenon DEF SlotApart
      <4>3. QED
        BY <1>1, <1>2, <3>1, <4>1, <4>2 DEF RangeApart, Pages
    <3>2. QED
      BY <3>1, Zenon DEF RunPages
  <2>3. IsFiniteSet(old) /\ IsFiniteSet(cut) /\ Cardinality(cut) = count
    BY <1>1, <1>2, RunPagesFinite, PagesCardinality, Zenon
  <2>4. Cardinality(old \union cut) = Cardinality(old) + count
    <3>1. Cardinality(old \cap cut) = 0
      BY <2>2, Zenon DEF CardinalityFacts
    <3>2. Cardinality(old) \in Nat
      BY <2>3, Zenon DEF CardinalityFacts
    <3>3. Cardinality(old \union cut)
            = Cardinality(old) + Cardinality(cut) - Cardinality(old \cap cut)
      BY <2>3, Zenon DEF CardinalityFacts
    <3>4. QED
      BY <2>3, <3>1, <3>2, <3>3
  <2>5. QED
    BY <1>1, <1>4, <2>1, <2>4, Zenon DEF SlotCounted
<1>14. \A j, k \in Slots : j # k /\ new[j].used /\ new[k].used =>
         \/ new[j].base + new[j].total <= new[k].base
         \/ new[k].base + new[k].total <= new[j].base
  BY <1>4, Zenon DEF TableInv
<1>15. QED
  BY <1>4, <1>10, <1>11, <1>12, <1>13, <1>14, Zenon DEF TableInv, new, S

\* A block that overlaps no managed block can be added (add_block).
LEMMA AddedBlock ==
  ASSUME CardinalityFacts, NEW tab, NEW R \in SUBSET Runs, TableInv(tab, R),
         NEW k \in Slots, ~tab[k].used,
         NEW a \in Nat \ {0}, NEW n \in Nat \ {0},
         \A j \in Slots : tab[j].used =>
           a + n <= tab[j].base \/ tab[j].base + tab[j].total <= a
  PROVE  TableInv(AddBlock(tab, k, a, n), R)
<1> DEFINE new == AddBlock(tab, k, a, n)
           F   == {[addr |-> a, count |-> n]}
<1>1. tab \in [Slots -> BlockInfo]
  BY Zenon DEF TableInv
<1>2. /\ new \in [Slots -> BlockInfo]
      /\ new[k] = Block(a, n, 0, F)
      /\ \A j \in Slots : j # k => new[j] = tab[j]
  <2>1. Block(a, n, 0, F) \in BlockInfo
    BY DEF Block, BlockInfo, Ranges
  <2> HIDE DEF F
  <2>2. new = [tab EXCEPT ![k] = Block(a, n, 0, F)]
    BY Zenon DEF AddBlock, F
  <2>3. QED
    BY <1>1, <2>1, <2>2, Zenon
<1>3. new[k].used /\ new[k].base = a /\ new[k].total = n /\ new[k].allocated = 0 /\ new[k].free = F
  BY <1>2 DEF Block
<1> HIDE DEF new
<1>4. \A j \in Slots : j # k => \A p : InSlot(new, j, p) <=> InSlot(tab, j, p)
  BY <1>2, Zenon DEF InSlot
<1>5. \A h \in R : h.count > 0 => \E j \in Slots : j # k /\ InSlot(tab, j, h.addr)
  BY Zenon DEF TableInv, Owns, InSlot
<1>6. RunsIn(new, R, k) = {}
  <2>1. ASSUME NEW h \in R, h.count > 0, InSlot(new, k, h.addr)
        PROVE  FALSE
    <3>1. PICK j \in Slots : j # k /\ InSlot(tab, j, h.addr)
      BY <1>5, <2>1, Zenon
    <3>2. tab[j].base \in Nat /\ tab[j].total \in Nat /\ h.addr \in Nat
      BY <1>1, Zenon DEF BlockInfo, Runs
    <3>3. QED
      BY <1>3, <2>1, <3>1, <3>2 DEF InSlot
  <2>2. QED
    BY <2>1, Zenon DEF RunsIn
<1>7. SlotApart(new, R, k)
  BY <1>3, <1>6 DEF SlotApart, Inside
<1>8. SlotCounted(new, R, k)
  <2>1. RunPages(new, R, k) = {}
    BY <1>6, Zenon DEF RunPages
  <2>2. QED
    BY <1>3, <2>1, Zenon DEF CardinalityFacts, SlotCounted
<1>9. \A j \in Slots : j # k /\ new[j].used => SlotApart(new, R, j) /\ SlotCounted(new, R, j)
  <2>1. \A j \in Slots : j # k => RunsIn(new, R, j) = RunsIn(tab, R, j)
    BY <1>4, Zenon DEF RunsIn
  <2>2. QED
    BY <1>2, <2>1, Zenon DEF TableInv, SlotApart, SlotCounted, RunPages
<1>10. \A i, j \in Slots : i # j /\ new[i].used /\ new[j].used =>
         \/ new[i].base + new[i].total <= new[j].base
         \/ new[j].base + new[j].total <= new[i].base
  BY <1>2, <1>3 DEF TableInv
<1>11. \A h \in R : h.count > 0 => Owns(new, h.addr)
  BY <1>4, <1>5, Zenon DEF Owns
<1>12. QED
  BY <1>2, <1>7, <1>8, <1>9, <1>10, <1>11, Zenon DEF TableInv, new

\* What is left of a slot's runs when one of them comes back: its blocks are
\* no longer held, and all others still are.
LEMMA RunPagesWithout ==
  ASSUME CardinalityFacts, NEW tab, NEW R \in SUBSET Runs, TableInv(tab, R),
         NEW i \in Slots, NEW h \in R, h.count > 0, InSlot(tab, i, h.addr)
  PROVE  /\ RunsIn(tab, R \ {h}, i) = RunsIn(tab, R, i) \ {h}
         /\ h \in RunsIn(tab, R, i)
         /\ h.count <= tab[i].allocated
         /\ Cardinality(RunPages(tab, R \ {h}, i)) = tab[i].allocated - h.count
         /\ IsFiniteSet(RunPages(tab, R \ {h}, i))
<1> DEFINE old  == RunPages(tab, R, i)
           left == RunPages(tab, R \ {h}, i)
           cut  == Pages(h.addr, h.count)
<1>1. RunsIn(tab, R \ {h}, i) = RunsIn(tab, R, i) \ {h} /\ h \in RunsIn(tab, R, i)
  BY Zenon DEF RunsIn
<1>2. tab \in [Slots -> BlockInfo] /\ SlotApart(tab, R, i) /\ SlotCounted(tab, R, i)
  BY Zenon DEF TableInv, InSlot
<1>3. h.addr \in Nat /\ h.count \in Nat
  BY Zenon DEF Runs
<1>4. old = left \union cut
  <2>1. RunsIn(tab, R, i) = RunsIn(tab, R \ {h}, i) \union {h}
    BY <1>1, Zenon
  <2>2. QED
    BY <2>1, Zenon DEF RunPages
<1>5. left \cap cut = {}
  <2>1. ASSUME NEW g \in RunsIn(tab, R \ {h}, i), NEW p \in Pages(g.addr, g.count)
        PROVE  p \notin cut
    <3>1. g.addr \in Nat /\ g.count \in Nat /\ RangeApart(g, h)
      BY <1>1, <1>2, <2>1, Zenon DEF RunsIn, Runs, SlotApart
    <3>2. QED
      BY <1>3, <2>1, <3>1 DEF RangeApart, Pages
  <2>2. QED
    BY <2>1, Zenon DEF RunPages
<1>6. IsFiniteSet(old) /\ IsFiniteSet(cut) /\ Cardinality(cut) = h.count
  BY <1>2, <1>3, RunPagesFinite, PagesCardinality, Zenon
<1>7. IsFiniteSet(left)
  BY <1>4, <1>6, Zenon DEF CardinalityFacts
<1> HIDE DEF old, left, cut
<1>8. Cardinality(left \union cut) = Cardinality(left) + Cardinality(cut) - Cardinality(left \cap cut)
  BY <1>6, <1>7, Zenon DEF CardinalityFacts
<1>9. Cardinality(left \cap cut) = 0 /\ Cardinality(left) \in Nat
  BY <1>5, <1>7, Zenon DEF CardinalityFacts
<1>10. tab[i].allocated = Cardinality(old)
  BY <1>2, Zenon DEF SlotCounted, old
<1>11. Cardinality(left) = tab[i].allocated - h.count /\ h.count <= tab[i].allocated
  BY <1>3, <1>4, <1>6, <1>8, <1>9, <1>10
<1>12. QED
  BY <1>1, <1>7, <1>11, Zenon DEF left

\* The count a free leaves in the slot is the number of blocks still held in it.
SizeIs(P, n) == IsFiniteSet(P) /\ Cardinality(P) = n

LEMMA RunPagesLeft ==
  ASSUME CardinalityFacts, NEW tab, NEW R \in SUBSET Runs, TableInv(tab, R),
         NEW i \in Slots, NEW h \in R, h.count > 0, InSlot(tab, i, h.addr)
  PROVE  SizeIs(RunPages(tab, R \ {h}, i), tab[i].allocated - h.count)
  BY RunPagesWithout DEF SizeIs

\* A run that comes back goes to its slot's free list (PageSlab::free).
LEMMA LinkedRun ==
  ASSUME CardinalityFacts, NEW tab, NEW R \in SUBSET Runs, TableInv(tab, R),
         NEW i \in Slots, NEW h \in R, h.count > 0, h.addr # 0, InSlot(tab, i, h.addr)
  PROVE  TableInv(Link(tab, i, h.addr, h.count, tab[i].allocated - h.count), R \ {h})
<1> DEFINE rem == tab[i].allocated - h.count
           new == Link(tab, i, h.addr, h.count, rem)
           S   == R \ {h}
           r   == [addr |-> h.addr, count |-> h.count]
           F   == tab[i].free \union {r}
<1>1. /\ tab \in [Slots -> BlockInfo] /\ tab[i] \in BlockInfo
      /\ tab[i].used /\ SlotApart(tab, R, i)
  BY Zenon DEF TableInv, InSlot
<1>2. h.addr \in Nat \ {0} /\ h.count \in Nat \ {0} /\ r \in Ranges
  BY DEF Runs, Ranges
<1>3. /\ h \in RunsIn(tab, R, i) /\ RunsIn(tab, S, i) = RunsIn(tab, R, i) \ {h}
      /\ rem \in Nat /\ rem = Cardinality(RunPages(tab, S, i))
  <2>1. /\ h \in RunsIn(tab, R, i) /\ RunsIn(tab, S, i) = RunsIn(tab, R, i) \ {h}
        /\ h.count <= tab[i].allocated /\ rem = Cardinality(RunPages(tab, S, i))
    BY RunPagesWithout
  <2>2. tab[i].allocated \in Nat
    BY <1>1, Zenon DEF BlockInfo
  <2>3. rem \in Nat
    BY <1>2, <2>1, <2>2
  <2>4. QED
    BY <2>1, <2>3, Zenon
<1>4. /\ new \in [Slots -> BlockInfo]
      /\ new[i] = Block(tab[i].base, tab[i].total, rem, F)
      /\ \A j \in Slots : j # i => new[j] = tab[j]
  <2>1. F \in SUBSET Ranges
    BY <1>1, <1>2, Zenon DEF BlockInfo
  <2>2. new = [tab EXCEPT ![i] = Block(tab[i].base, tab[i].total, rem, F)]
    BY Zenon DEF Link
  <2> HIDE DEF F, rem, new
  <2>3. Block(tab[i].base, tab[i].total, rem, F) \in BlockInfo
    BY <1>1, <1>3, <2>1, Zenon DEF Block, BlockInfo
  <2>4. QED
    BY <1>1, <2>2, <2>3, Zenon
<1>5. /\ new[i].used /\ new[i].base = tab[i].base /\ new[i].total = tab[i].total
      /\ new[i].allocated = rem /\ new[i].free = F
  BY <1>4 DEF Block
<1> HIDE DEF new, rem
<1>6. \A j \in Slots : \A p : InSlot(new, j, p) <=> InSlot(tab, j, p)
  BY <1>1, <1>4, <1>5, Zenon DEF InSlot
<1>7. \A j \in Slots : j # i => ~InSlot(tab, j, h.addr)
  BY <1>1, <1>2 DEF TableInv, InSlot, BlockInfo
<1>8. \A j \in Slots : RunsIn(new, S, j) = RunsIn(tab, S, j)
  BY <1>6, Zenon DEF RunsIn
<1>9. \A j \in Slots : j # i => RunsIn(tab, S, j) = RunsIn(tab, R, j)
  BY <1>7, Zenon DEF RunsIn
<1>10. SlotApart(new, S, i)
  <2>1. /\ \A x \in tab[i].free : x.addr \in Nat /\ x.count \in Nat
        /\ \A g \in RunsIn(tab, R, i) : g.addr \in Nat /\ g.count \in Nat
    BY <1>1, Zenon DEF BlockInfo, Ranges, RunsIn, Runs
  <2>2. /\ \A x \in tab[i].free : Inside(tab[i], x) /\ RangeApart(x, h)
        /\ \A x \in RunsIn(tab, R, i) : Inside(tab[i], x) /\ (x # h => RangeApart(x, h))
    BY <1>1, <1>3, Zenon DEF SlotApart
  <2>3. r.addr = h.addr /\ r.count = h.count
    BY Zenon
  <2> HIDE DEF r
  <2>4. \A x \in new[i].free : Inside(new[i], x)
    BY <1>3, <1>5, <2>2, <2>3, Zenon DEF Inside
  <2>5. \A x \in RunsIn(new, S, i) : Inside(new[i], x)
    BY <1>3, <1>5, <1>8, <2>2, Zenon DEF Inside
  <2>6. \A x, y \in new[i].free : x # y => RangeApart(x, y)
    <3>1. \A x, y \in tab[i].free : x # y => RangeApart(x, y)
      BY <1>1, Zenon DEF SlotApart
    <3>2. QED
      BY <1>5, <2>2, <2>3, <3>1, Zenon DEF RangeApart
  <2>7. \A x, y \in RunsIn(new, S, i) : x # y => RangeApart(x, y)
    BY <1>1, <1>3, <1>8, Zenon DEF SlotApart
  <2>8. \A x \in new[i].free, y \in RunsIn(new, S, i) : RangeApart(x, y)
    <3>1. \A x \in tab[i].free, y \in RunsIn(tab, R, i) : RangeApart(x, y)
      BY <1>1, Zenon DEF SlotApart
    <3>2. QED
      BY <1>3, <1>5, <1>8, <2>2, <2>3, <3>1, Zenon DEF RangeApart
  <2>9. QED
    BY <2>4, <2>5, <2>6, <2>7, <2>8, Zenon DEF SlotApart
<1>11. SlotCounted(new, S, i)
  BY <1>3, <1>5, <1>8, Zenon DEF SlotCounted, RunPages
<1>12. \A j \in Slots : j # i /\ new[j].used => SlotApart(new, S, j) /\ SlotCounted(new, S, j)
  BY <1>4, <1>8, <1>9, Zenon DEF TableInv, SlotApart, SlotCounted, RunPages
<1>13. \A j, k \in Slots : j # k /\ new[j].used /\ new[k].used =>
         \/ new[j].base + new[j].total <= new[k].base
         \/ new[k].base + new[k].total <= new[j].base
  BY <1>1, <1>4, <1>5 DEF TableInv
<1>14. \A g \in S : g.count > 0 => Owns(new, g.addr)
  BY <1>6, Zenon DEF TableInv, Owns
<1>15. QED
  BY <1>4, <1>10, <1>11, <1>12, <1>13, <1>14, Zenon DEF TableInv, new, rem

\* When the last run of a slot comes back nobody holds a block of the slot,
\* and the table is in order without it (PageSlab::free).
LEMMA GivenUpBlock ==
  ASSUME CardinalityFacts, NEW tab, NEW R \in SUBSET Runs, TableInv(tab, R),
         NEW i \in Slots, NEW h \in R, h.count > 0, InSlot(tab, i, h.addr),
         tab[i].allocated - h.count = 0
  PROVE  TableInv(GiveUp(tab, i), R \ {h})
<1> DEFINE new == GiveUp(tab, i)
           S   == R \ {h}
<1>1. tab \in [Slots -> BlockInfo] /\ tab[i] \in BlockInfo
  BY Zenon DEF TableInv
<1>2. RunPages(tab, S, i) = {}
  <2>1. SizeIs(RunPages(tab, S, i), tab[i].allocated - h.count)
    BY RunPagesLeft, Zenon
  <2>2. QED
    BY <2>1, Zenon DEF CardinalityFacts, SizeIs
<1>3. RunsIn(tab, S, i) = {}
  <2>1. ASSUME NEW g \in RunsIn(tab, S, i)
        PROVE  FALSE
    <3>1. g.addr \in Nat /\ g.count \in Nat \ {0}
      BY <2>1 DEF RunsIn, Runs
    <3>2. g.addr \in Pages(g.addr, g.count)
      BY <3>1 DEF Pages
    <3>3. QED
      BY <1>2, <2>1, <3>2, Zenon DEF RunPages
  <2>2. QED
    BY <2>1, Zenon
<1>4. /\ new \in [Slots -> BlockInfo] /\ ~new[i].used
      /\ \A j \in Slots : j # i => new[j] = tab[j]
  <2>1. NoBlock \in BlockInfo /\ ~NoBlock.used
    BY Zenon DEF NoBlock, BlockInfo
  <2>2. QED
    BY <1>1, <2>1, Zenon DEF GiveUp
<1> HIDE DEF new
<1>5. \A j \in Slots : j # i => \A p : InSlot(new, j, p) <=> InSlot(tab, j, p)
  BY <1>4, Zenon DEF InSlot
<1>6. \A j \in Slots : j # i => ~InSlot(tab, j, h.addr)
  <2>1. h.addr \in Nat
    BY Zenon DEF Runs
  <2>2. QED
    BY <1>1, <2>1 DEF TableInv, InSlot, BlockInfo
<1>7. \A j \in Slots : j # i => RunsIn(new, S, j) = RunsIn(tab, R, j)
  BY <1>5, <1>6, Zenon DEF RunsIn
<1>8. \A j \in Slots : new[j].used => SlotApart(new, S, j) /\ SlotCounted(new, S, j)
  BY <1>4, <1>7, Zenon DEF TableInv, SlotApart, SlotCounted, RunPages
<1>9. \A j, k \in Slots : j # k /\ new[j].used /\ new[k].used =>
         \/ new[j].base + new[j].total <= new[k].base
         \/ new[k].base + new[k].total <= new[j].base
  BY <1>4, Zenon DEF TableInv
<1>10. \A g \in S : g.count > 0 => Owns(new, g.addr)
  <2>1. ASSUME NEW g \in S, g.count > 0
        PROVE  \E j \in Slots : j # i /\ InSlot(tab, j, g.addr)
    BY <1>3, <2>1, Zenon DEF TableInv, Owns, RunsIn
  <2>2. QED
    BY <1>5, <2>1, Zenon DEF Owns
<1>11. QED
  BY <1>4, <1>8, <1>9, <1>10, Zenon DEF TableInv, new

-----------------------------------------------------------------------------
(* The inductive invariant.                                                *)

Sound(P) == \A x \in P : x.base \in Nat \ {0} /\ x.size \in Nat \ {0}

AllApart(P) == \A x, y \in P : x # y => Apart(x, y)

PiecesManaged == \A x \in Pieces : Pages(x.base, x.size) \subseteq Managed

\* Where physical::init is in the memory map.
CarveInv ==
  /\ entry \in DOMAIN Entries =>
       Entries[entry].start <= cursor /\ cursor <= Entries[entry].end
  /\ pc = "carve" => live = {} /\ leaked = {} /\ donated = {}
                     /\ \A i \in Slots : ~slab[i].used

\* The local variables of the two loops, and the order that free_range will
\* compute again from the size of a block held whole.
LoopInv ==
  /\ pc \in {"split", "merge"} => cur.addr # 0
  /\ pc = "split" => TightOrder(cur.want, cur.count) /\ cur.want <= cur.order
  /\ \A h \in live : h.via # BySlab => TightOrder(h.via, h.count)
  /\ \A i \in Slots : slab[i].used => slab[i].base # 0 /\ slab[i].total # 0

\* Every block under management is in some piece.
Covered == \A p \in Managed : \E x \in Pieces : p \in Pages(x.base, x.size)

\* Every block of a used slot is in a free range or in a run of the slot.
TableCovered(tab, R) ==
  \A i \in Slots : tab[i].used =>
    \A p \in Pages(tab[i].base, tab[i].total) :
      \/ \E x \in tab[i].free : p \in Pages(x.addr, x.count)
      \/ \E h \in R : h.count > 0 /\ InSlot(tab, i, h.addr) /\ p \in Pages(h.addr, h.count)

\* Every piece starts at a multiple of its size, which buddy_of relies on.
PiecesAligned == \A x \in Pieces : x.base % x.size = 0

IInv ==
  /\ TypeOK
  /\ Covered
  /\ TableCovered(slab, SlabRuns)
  /\ PiecesAligned
  /\ PiecesApart
  /\ PiecesManaged
  /\ TableInv(slab, SlabRuns)
  /\ CarveInv
  /\ LoopInv

-----------------------------------------------------------------------------
(* Pieces.                                                                 *)

\* Replacing the pieces X of P by the pieces N keeps all pieces apart when
\* the new ones are apart from each other and from all that stays.
LEMMA ReplacePieces ==
  ASSUME NEW P, NEW Q, NEW X, NEW N, AllApart(P), AllApart(N),
         Q \subseteq (P \ X) \union N,
         \A n \in N : \A y \in P \ X : Apart(n, y)
  PROVE  AllApart(Q)
<1>1. \A x, y : Apart(x, y) => Apart(y, x)
  BY Zenon DEF Apart
<1>2. QED
  BY <1>1, Zenon DEF AllApart

\* Two pieces that share no block are apart.
LEMMA DisjointApart ==
  ASSUME NEW x, NEW y, Sound({x, y}),
         Pages(x.base, x.size) \cap Pages(y.base, y.size) = {}
  PROVE  Apart(x, y)
<1>1. /\ x.base \in Nat /\ x.size \in Nat \ {0}
      /\ y.base \in Nat /\ y.size \in Nat \ {0}
  BY Zenon DEF Sound
<1>2. x.base \in Pages(x.base, x.size) /\ y.base \in Pages(y.base, y.size)
  BY <1>1 DEF Pages
<1>3. x.base \notin Pages(y.base, y.size) /\ y.base \notin Pages(x.base, x.size)
  BY <1>2, Zenon
<1>4. QED
  BY <1>1, <1>3 DEF Apart, Pages

\* What a piece is.
LEMMA PieceKinds ==
  ASSUME NEW w
  PROVE  w \in Pieces <=>
           \/ \E o \in Orders : \E a \in heads[o] : w = Piece("free", o, a, BlockSize[o])
           \/ /\ pc \in {"split", "merge"}
              /\ w = Piece("flight", 0, cur.addr, BlockSize[cur.order])
           \/ \E i \in Slots : slab[i].used /\ w = Piece("slab", i, slab[i].base, slab[i].total)
           \/ \E h \in live : h.via # BySlab /\ w = Piece("held", h.count, h.addr, BlockSize[h.via])
           \/ \E a \in leaked : w = Piece("lost", 0, a, 1)
BY DEF Pieces, FreePieces, FlightPieces, SlabPieces, WholePieces, LostPieces

\* A piece tells by its kind which structure it stands for.
LEMMA KindTells ==
  /\ \A w \in FreePieces : w \in Pieces /\ w.kind = "free"
  /\ \A w \in SlabPieces : w \in Pieces /\ w.kind = "slab"
  /\ \A w \in WholePieces : w \in Pieces /\ w.kind = "held"
  /\ \A w \in LostPieces : w \in Pieces /\ w.kind = "lost"
<1>1. \A w \in FreePieces : w.kind = "free"
  BY DEF FreePieces, Piece
<1>2. \A w \in SlabPieces : w.kind = "slab"
  BY DEF SlabPieces, Piece
<1>3. \A w \in WholePieces : w.kind = "held"
  BY DEF WholePieces, Piece
<1>4. \A w \in LostPieces : w.kind = "lost"
  BY DEF LostPieces, Piece
<1>5. QED
  BY <1>1, <1>2, <1>3, <1>4, Zenon DEF Pieces

\* No piece is empty or starts at the list terminator.
LEMMA TypedPieces ==
  ASSUME TypeOK, LoopInv
  PROVE  Sound(Pieces)
<1>1. ASSUME NEW w \in Pieces
      PROVE  w.base \in Nat \ {0} /\ w.size \in Nat \ {0}
  <2>1. CASE \E o \in Orders : \E a \in heads[o] : w = Piece("free", o, a, BlockSize[o])
    BY <2>1, SizeAssumption DEF Piece, TypeOK
  <2>2. CASE pc \in {"split", "merge"} /\ w = Piece("flight", 0, cur.addr, BlockSize[cur.order])
    BY <2>2, SizeAssumption, Zenon DEF Piece, TypeOK, LoopInv
  <2>3. CASE \E i \in Slots : slab[i].used /\ w = Piece("slab", i, slab[i].base, slab[i].total)
    BY <2>3 DEF Piece, TypeOK, BlockInfo, LoopInv
  <2>4. CASE \E h \in live : h.via # BySlab /\ w = Piece("held", h.count, h.addr, BlockSize[h.via])
    BY <2>4, SizeAssumption DEF Piece, TypeOK, Handles
  <2>5. CASE \E a \in leaked : w = Piece("lost", 0, a, 1)
    BY <2>5 DEF Piece, TypeOK
  <2>6. QED
    BY <1>1, <2>1, <2>2, <2>3, <2>4, <2>5, PieceKinds, Zenon
<1>2. QED
  BY <1>1, Zenon DEF Sound

LEMMA PieceKindsNext ==
  ASSUME NEW w
  PROVE  w \in Pieces' <=>
           \/ \E o \in Orders : \E a \in heads'[o] : w = Piece("free", o, a, BlockSize[o])
           \/ /\ pc' \in {"split", "merge"}
              /\ w = Piece("flight", 0, cur'.addr, BlockSize[cur'.order])
           \/ \E i \in Slots : slab'[i].used /\ w = Piece("slab", i, slab'[i].base, slab'[i].total)
           \/ \E h \in live' : h.via # BySlab /\ w = Piece("held", h.count, h.addr, BlockSize[h.via])
           \/ \E a \in leaked' : w = Piece("lost", 0, a, 1)
BY DEF Pieces, FreePieces, FlightPieces, SlabPieces, WholePieces, LostPieces, Piece, BlockSize, BySlab, Orders, Slots

\* A piece that changes its kind only.
LEMMA RelabelPiece ==
  ASSUME NEW P, NEW Q, NEW x \in P, NEW n, AllApart(P),
         n.base = x.base, n.size = x.size, Q \subseteq (P \ {x}) \union {n}
  PROVE  AllApart(Q)
<1>1. \A y \in P \ {x} : Apart(n, y)
  BY Zenon DEF AllApart, Apart
<1>2. AllApart({n})
  BY Zenon DEF AllApart
<1>3. \A m \in {n} : \A y \in P \ {x} : Apart(m, y)
  BY <1>1, Zenon
<1>4. QED
  BY <1>2, <1>3, ReplacePieces, Zenon

\* Pieces that come from managed blocks stay so while memory only grows.
LEMMA StayManaged ==
  ASSUME PiecesManaged, Managed \subseteq Managed',
         \A w \in Pieces' : \/ w \in Pieces
                            \/ Pages(w.base, w.size) \subseteq Managed'
  PROVE  PiecesManaged'
BY Zenon DEF PiecesManaged

\* A part of a piece is apart from all that the piece is apart from.
LEMMA PartApart ==
  ASSUME NEW x, NEW y, NEW n, Sound({x, y, n}), Apart(x, y),
         x.base <= n.base, n.base + n.size <= x.base + x.size
  PROVE  Apart(n, y)
BY DEF Sound, Apart

\* A piece of memory that was not managed before.
LEMMA NewPiece ==
  ASSUME NEW P, NEW Q, NEW n, NEW M, AllApart(P), Sound(P), Sound({n}),
         \A x \in P : Pages(x.base, x.size) \subseteq M,
         Pages(n.base, n.size) \cap M = {}, Q \subseteq P \union {n}
  PROVE  AllApart(Q)
<1>1. ASSUME NEW y \in P PROVE Apart(n, y)
  <2>1. Sound({n, y})
    BY Zenon DEF Sound
  <2>2. Pages(n.base, n.size) \cap Pages(y.base, y.size) = {}
    BY Zenon
  <2>3. QED
    BY <2>1, <2>2, DisjointApart, Zenon
<1>2. AllApart({n})
  BY Zenon DEF AllApart
<1>3. \A m \in {n} : \A y \in P \ {} : Apart(m, y)
  BY <1>1, Zenon
<1>4. Q \subseteq (P \ {}) \union {n}
  BY Zenon
<1>5. QED
  BY <1>2, <1>3, <1>4, ReplacePieces, Zenon

\* When every piece that goes is covered by pieces that come, no block is lost.
LEMMA StayCovered ==
  ASSUME Covered,
         \A p \in Managed' : p \in Managed \/ \E y \in Pieces' : p \in Pages(y.base, y.size),
         \A x \in Pieces : \/ x \in Pieces'
                           \/ \A p \in Pages(x.base, x.size) :
                                \E y \in Pieces' : p \in Pages(y.base, y.size)
  PROVE  Covered'
BY Zenon DEF Covered

\* A piece that changes its kind only keeps its blocks and its alignment.
LEMMA RelabelKeeps ==
  ASSUME Covered, PiecesAligned, Managed' = Managed, NEW x \in Pieces, NEW n,
         n.base = x.base, n.size = x.size, Pieces' = (Pieces \ {x}) \union {n}
  PROVE  Covered' /\ PiecesAligned'
<1>1. Covered'
  BY StayCovered, Zenon
<1>2. PiecesAligned'
  BY Zenon DEF PiecesAligned
<1>3. QED
  BY <1>1, <1>2, Zenon

LEMMA SameKeeps ==
  ASSUME Covered, PiecesAligned, Managed' = Managed, Pieces' = Pieces
  PROVE  Covered' /\ PiecesAligned'
BY Zenon DEF Covered, PiecesAligned

-----------------------------------------------------------------------------
(* The table of the slab.                                                  *)

\* A block cut off the front of a free range is in the new run, and the rest
\* of the range stays listed.
LEMMA TakeCovered ==
  ASSUME NEW tab, NEW R \in SUBSET Runs, TableInv(tab, R), TableCovered(tab, R),
         NEW i \in Slots, NEW r, NEW count \in Nat, Fits(tab, i, r, count),
         NEW n \in Runs, n.addr = r.addr, n.count = count
  PROVE  TableCovered(Take(tab, i, r, count), R \union {n})
<1> DEFINE new == Take(tab, i, r, count)
<1>1. /\ tab \in [Slots -> BlockInfo] /\ tab[i] \in BlockInfo /\ SlotApart(tab, R, i)
      /\ tab[i].used /\ r \in tab[i].free /\ r \in Ranges /\ r.count >= count
      /\ r.addr \in Nat /\ r.count \in Nat \ {0} /\ tab[i].base \in Nat /\ tab[i].total \in Nat
  BY Zenon DEF TableInv, Fits, BlockInfo, Ranges
<1>2. /\ new[i].free = (tab[i].free \ {r}) \union Rest(r, count)
      /\ \A j \in Slots : /\ new[j].used <=> tab[j].used
                          /\ new[j].base = tab[j].base /\ new[j].total = tab[j].total
                          /\ j # i => new[j].free = tab[j].free
  BY <1>1, Zenon DEF Take, Block
<1> HIDE DEF new
<1>3. \A j \in Slots : \A a : InSlot(new, j, a) <=> InSlot(tab, j, a)
  BY <1>2, Zenon DEF InSlot
<1>4. InSlot(tab, i, r.addr)
  BY <1>1 DEF InSlot, SlotApart, Inside
<1>5. SUFFICES ASSUME NEW j \in Slots, new[j].used, NEW p \in Pages(new[j].base, new[j].total)
               PROVE  \/ \E x \in new[j].free : p \in Pages(x.addr, x.count)
                      \/ \E h \in R \union {n} : h.count > 0 /\ InSlot(new, j, h.addr) /\ p \in Pages(h.addr, h.count)
  BY Zenon DEF TableCovered, new
<1>6. \/ \E x \in tab[j].free : p \in Pages(x.addr, x.count)
      \/ \E h \in R : h.count > 0 /\ InSlot(tab, j, h.addr) /\ p \in Pages(h.addr, h.count)
  BY <1>2, <1>5, Zenon DEF TableCovered
<1>7. CASE j = i /\ p \in Pages(r.addr, r.count)
  <2>1. p \in Int /\ r.addr <= p /\ p < r.addr + r.count
    BY <1>1, <1>7 DEF Pages
  <2>2. CASE p < r.addr + count
    <3>1. p \in Pages(n.addr, n.count) /\ n.count > 0
      BY <1>1, <2>1, <2>2 DEF Pages
    <3>2. QED
      BY <1>3, <1>4, <1>7, <3>1, Zenon
  <2>3. CASE ~(p < r.addr + count)
    <3> DEFINE q == [addr |-> r.addr + count, count |-> r.count - count]
    <3>1. r.count # count
      BY <1>1, <2>1, <2>3, Zenon
    <3>2. q \in new[i].free
      BY <1>2, <3>1, Zenon DEF Rest
    <3>3. p \in Pages(q.addr, q.count)
      BY <1>1, <2>1, <2>3 DEF Pages
    <3> HIDE DEF q
    <3>4. QED
      BY <1>7, <3>2, <3>3, Zenon
  <2>4. QED
    BY <2>2, <2>3, Zenon
<1>8. CASE ~(j = i /\ p \in Pages(r.addr, r.count))
  BY <1>2, <1>3, <1>6, <1>8, Zenon
<1>9. QED
  BY <1>7, <1>8, Zenon

LEMMA AddedCovered ==
  ASSUME NEW tab \in [Slots -> BlockInfo], NEW R, TableCovered(tab, R),
         NEW k \in Slots, NEW a \in Nat \ {0}, NEW n \in Nat \ {0}
  PROVE  TableCovered(AddBlock(tab, k, a, n), R)
<1> DEFINE new == AddBlock(tab, k, a, n)
<1>1. /\ new[k].base = a /\ new[k].total = n /\ new[k].free = {[addr |-> a, count |-> n]}
      /\ \A j \in Slots : j # k => new[j] = tab[j]
  BY Zenon DEF AddBlock, Block
<1> HIDE DEF new
<1>2. SUFFICES ASSUME NEW j \in Slots, new[j].used, NEW p \in Pages(new[j].base, new[j].total)
               PROVE  \/ \E x \in new[j].free : p \in Pages(x.addr, x.count)
                      \/ \E h \in R : h.count > 0 /\ InSlot(new, j, h.addr) /\ p \in Pages(h.addr, h.count)
  BY Zenon DEF TableCovered, new
<1>3. CASE j = k
  <2> DEFINE x == [addr |-> a, count |-> n]
  <2>1. x \in new[j].free /\ x.addr = new[j].base /\ x.count = new[j].total
    BY <1>1, <1>3, Zenon
  <2>2. QED
    BY <1>2, <2>1, Zenon
<1>4. CASE j # k
  <2>1. \A b : InSlot(new, j, b) <=> InSlot(tab, j, b)
    BY <1>1, <1>4, Zenon DEF InSlot
  <2>2. QED
    BY <1>1, <1>2, <1>4, <2>1, Zenon DEF TableCovered
<1>5. QED
  BY <1>3, <1>4, Zenon

\* A run that comes back is listed as a free range.
LEMMA LinkCovered ==
  ASSUME NEW tab, NEW R \in SUBSET Runs, TableInv(tab, R), TableCovered(tab, R),
         NEW i \in Slots, NEW h \in R, h.count > 0, InSlot(tab, i, h.addr), NEW rem
  PROVE  TableCovered(Link(tab, i, h.addr, h.count, rem), R \ {h})
<1> DEFINE new == Link(tab, i, h.addr, h.count, rem)
           r   == [addr |-> h.addr, count |-> h.count]
<1>1. /\ tab \in [Slots -> BlockInfo] /\ tab[i].used
      /\ h.addr \in Nat
      /\ \A j \in Slots : tab[j].base \in Nat /\ tab[j].total \in Nat
  BY Zenon DEF TableInv, InSlot, BlockInfo, Runs
<1>2. /\ new[i].free = tab[i].free \union {r}
      /\ \A j \in Slots : /\ new[j].used <=> tab[j].used
                          /\ new[j].base = tab[j].base /\ new[j].total = tab[j].total
                          /\ j # i => new[j].free = tab[j].free
  BY <1>1, Zenon DEF Link, Block
<1>3. r.addr = h.addr /\ r.count = h.count
  BY Zenon
<1> HIDE DEF new, r
<1>4. \A j \in Slots : \A a : InSlot(new, j, a) <=> InSlot(tab, j, a)
  BY <1>2, Zenon DEF InSlot
<1>5. \A j \in Slots : InSlot(tab, j, h.addr) => j = i
  BY <1>1 DEF InSlot, TableInv
<1>6. SUFFICES ASSUME NEW j \in Slots, new[j].used, NEW p \in Pages(new[j].base, new[j].total)
               PROVE  \/ \E x \in new[j].free : p \in Pages(x.addr, x.count)
                      \/ \E g \in R \ {h} : g.count > 0 /\ InSlot(new, j, g.addr) /\ p \in Pages(g.addr, g.count)
  BY Zenon DEF TableCovered, new
<1>7. \/ \E x \in tab[j].free : p \in Pages(x.addr, x.count)
      \/ \E g \in R : g.count > 0 /\ InSlot(tab, j, g.addr) /\ p \in Pages(g.addr, g.count)
  BY <1>2, <1>6, Zenon DEF TableCovered
<1>8. QED
  BY <1>2, <1>3, <1>4, <1>5, <1>7, Zenon

LEMMA GiveUpCovered ==
  ASSUME NEW tab, NEW R \in SUBSET Runs, TableInv(tab, R), TableCovered(tab, R),
         NEW i \in Slots, NEW h \in R, h.count > 0, InSlot(tab, i, h.addr)
  PROVE  TableCovered(GiveUp(tab, i), R \ {h})
<1> DEFINE new == GiveUp(tab, i)
<1>1. /\ tab \in [Slots -> BlockInfo] /\ tab[i].used
      /\ h.addr \in Nat
      /\ \A j \in Slots : tab[j].base \in Nat /\ tab[j].total \in Nat
  BY Zenon DEF TableInv, InSlot, BlockInfo, Runs
<1>2. ~new[i].used /\ \A j \in Slots : j # i => new[j] = tab[j]
  BY <1>1, Zenon DEF GiveUp, NoBlock
<1> HIDE DEF new
<1>3. \A j \in Slots : InSlot(tab, j, h.addr) => j = i
  BY <1>1 DEF InSlot, TableInv
<1>4. SUFFICES ASSUME NEW j \in Slots, new[j].used, NEW p \in Pages(new[j].base, new[j].total)
               PROVE  \/ \E x \in new[j].free : p \in Pages(x.addr, x.count)
                      \/ \E g \in R \ {h} : g.count > 0 /\ InSlot(new, j, g.addr) /\ p \in Pages(g.addr, g.count)
  BY Zenon DEF TableCovered, new
<1>5. j # i /\ new[j] = tab[j]
  BY <1>2, <1>4, Zenon
<1>6. \A a : InSlot(new, j, a) <=> InSlot(tab, j, a)
  BY <1>5, Zenon DEF InSlot
<1>7. QED
  BY <1>3, <1>4, <1>5, <1>6, Zenon DEF TableCovered

LEMMA ElementType ==
  ASSUME NEW S, NEW s \in Seq(S), NEW i \in DOMAIN s
  PROVE  s[i] \in S
OBVIOUS

LEMMA OrderTypes ==
  Orders \subseteq Nat /\ 0 \in Orders /\ BySlab \in Nat /\ BySlab \notin Orders
BY OrderAssumption DEF Orders, BySlab

\* The memory map as the provers see it.
LEMMA EntryTypes ==
  /\ Len(Entries) \in Nat
  /\ DOMAIN Entries = 1..Len(Entries)
  /\ \A i \in DOMAIN Entries :
       /\ Entries[i].start \in Nat \ {0}
       /\ Entries[i].end \in Nat
       /\ Entries[i].start <= Entries[i].end
<1>1. Entries \in Seq([start : Nat \ {0}, end : Nat])
  BY EntriesAssumption, Zenon
<1>2. Len(Entries) \in Nat /\ DOMAIN Entries = 1..Len(Entries)
  BY <1>1
<1>3. \A i \in DOMAIN Entries : Entries[i] \in [start : Nat \ {0}, end : Nat]
  BY <1>1, ElementType, Zenon
<1>4. QED
  BY <1>2, <1>3, EntriesAssumption, Zenon

\* Before init starts nothing is managed.
LEMMA NothingYet ==
  ASSUME Init
  PROVE  Managed = {}
<1>1. ASSUME NEW i \in DOMAIN Entries
      PROVE  CarvedPages(i) = {}
  <2>1. i \in Nat \ {0} /\ Entries[i].start \in Nat /\ Len(Entries) # 0
    BY EntryTypes
  <2>2. QED
    BY <2>1 DEF Init, CarvedPages
<1>2. QED
  BY <1>1, Zenon DEF Init, Managed

LEMMA InitInv == Init => IInv
<1> SUFFICES ASSUME Init PROVE IInv
  BY Zenon
<1>1. TypeOK
  <2>1. 0 \in Orders /\ NoBlock \in BlockInfo
    BY OrderAssumption DEF Orders, NoBlock, BlockInfo
  <2>2. cursor \in Nat
    BY EntryTypes DEF Init
  <2>3. QED
    BY <2>1, <2>2 DEF Init, TypeOK, NoCur
<1>2. Pieces = {}
  BY PieceKinds, Zenon DEF Init, NoBlock
<1>3. PiecesApart /\ PiecesManaged /\ PiecesAligned
  BY <1>2, Zenon DEF PiecesApart, PiecesManaged, PiecesAligned
<1>a. Covered
  BY NothingYet, Zenon DEF Covered
<1>b. TableCovered(slab, SlabRuns)
  BY Zenon DEF Init, TableCovered, NoBlock
<1>4. TableInv(slab, SlabRuns)
  BY <1>1, Zenon DEF Init, TypeOK, TableInv, SlabRuns, NoBlock
<1>5. CarveInv
  BY EntryTypes DEF Init, CarveInv, NoBlock
<1>6. LoopInv
  BY Zenon DEF Init, LoopInv, NoBlock
<1>7. QED
  BY <1>1, <1>3, <1>a, <1>b, <1>4, <1>5, <1>6, Zenon DEF IInv

-----------------------------------------------------------------------------
(* One lemma per action.                                                   *)

LEMMA CarveStep == IInv /\ Carve => IInv'
<1> SUFFICES ASSUME IInv, Carve PROVE IInv'
  BY Zenon
<1>1. PICK o \in Orders :
        /\ CarveOrder(o, cursor, Entries[entry].end - cursor)
        /\ heads' = [heads EXCEPT ![o] = Push(@, cursor)]
        /\ cursor' = cursor + BlockSize[o]
  BY Zenon DEF Carve
<1>2. /\ pc = "carve" /\ entry \in DOMAIN Entries /\ cursor + 1 <= Entries[entry].end
      /\ UNCHANGED <<slab, live, leaked, pc, cur, entry, donated>>
  BY EntryTypes DEF Carve, IInv, TypeOK
<1>3. /\ TypeOK /\ CarveInv /\ LoopInv /\ AllApart(Pieces) /\ PiecesManaged
      /\ TableInv(slab, SlabRuns)
  BY Zenon DEF IInv, PiecesApart, AllApart
<1>a. Covered /\ TableCovered(slab, SlabRuns) /\ PiecesAligned
  BY Zenon DEF IInv
<1>4. /\ Entries[entry].start \in Nat \ {0} /\ Entries[entry].end \in Nat
      /\ cursor \in Nat /\ Entries[entry].start <= cursor
      /\ BlockSize[o] \in Nat \ {0}
  BY <1>2, <1>3, EntryTypes, SizeAssumption, Zenon DEF TypeOK, CarveInv
<1>5. BlockSize[o] <= Entries[entry].end - cursor
  BY <1>1, <1>2, <1>4, SizeAssumption DEF CarveOrder
<1>6. TypeOK'
  <2>1. Push(heads[o], cursor) \in SUBSET (Nat \ {0})
    BY <1>3, <1>4, Zenon DEF TypeOK, Push
  <2>2. heads' \in [Orders -> SUBSET (Nat \ {0})]
    BY <1>1, <1>3, <2>1, Zenon DEF TypeOK
  <2>3. QED
    BY <1>1, <1>2, <1>3, <1>4, <2>2 DEF TypeOK
<1>7. CarveInv'
  BY <1>1, <1>2, <1>3, <1>4, <1>5 DEF CarveInv
<1>8. LoopInv'
  BY <1>2, <1>3, Zenon DEF LoopInv, TightOrder
<1>9. TableInv(slab', SlabRuns')
  BY <1>2, <1>3, Zenon DEF SlabRuns
<1> DEFINE n == Piece("free", o, cursor, BlockSize[o])
<1>10. Pieces' \subseteq Pieces \union {n}
  <2> SUFFICES ASSUME NEW w \in Pieces' PROVE w \in Pieces \union {n}
    BY Zenon
  <2>1. \A q \in Orders : \A a \in heads'[q] : a \in heads[q] \/ (q = o /\ a = cursor)
    BY <1>1, <1>3, Zenon DEF TypeOK, Push
  <2>2. QED
    BY <1>2, <2>1, PieceKinds, PieceKindsNext
<1>11. Pages(n.base, n.size) \cap Managed = {}
  <2>1. ASSUME NEW p \in Pages(n.base, n.size), NEW i \in DOMAIN Entries
        PROVE  p \notin CarvedPages(i)
    <3>1. i \in Nat /\ entry \in Nat /\ Entries[i].start \in Nat /\ Entries[i].end \in Nat
      BY <1>2, EntryTypes
    <3>2. p \in Nat /\ cursor <= p /\ Entries[entry].start <= p
      BY <1>4 DEF Pages, Piece
    <3>3. i < entry => Entries[i].end <= Entries[entry].start
      BY <1>2, EntriesAssumption, Zenon
    <3>4. QED
      BY <1>2, <1>4, <3>1, <3>2, <3>3 DEF CarvedPages, EntryPages
  <2>2. QED
    BY <1>2, <1>3, <2>1, Zenon DEF Managed, CarveInv
<1>12. PiecesApart'
  <2>1. Sound({n})
    BY <1>4 DEF Sound, Piece
  <2>2. AllApart(Pieces')
    BY <1>3, <1>10, <1>11, <2>1, TypedPieces, NewPiece, Zenon DEF PiecesManaged
  <2>3. QED
    BY <2>2, Zenon DEF AllApart, PiecesApart
<1>13. PiecesManaged'
  <2>1. \A i \in DOMAIN Entries : CarvedPages(i) \subseteq CarvedPages(i)'
    BY <1>1, <1>2, <1>4 DEF CarvedPages, EntryPages
  <2>2. Managed \subseteq Managed'
    BY <1>2, <2>1 DEF Managed
  <2>3. Pages(n.base, n.size) \subseteq CarvedPages(entry)'
    BY <1>1, <1>2, <1>4, EntryTypes DEF CarvedPages, Pages, Piece
  <2>4. CarvedPages(entry)' \subseteq Managed'
    BY <1>2, Zenon DEF Managed
  <2>5. QED
    BY <1>3, <1>10, <2>2, <2>3, <2>4, StayManaged, Zenon
<1>14. Covered'
  <2>1. n \in Pieces'
    <3>1. cursor \in heads'[o]
      BY <1>1, <1>3, <1>4 DEF TypeOK, Push
    <3>2. QED
      BY <3>1, PieceKindsNext, Zenon
  <2>2. Pieces \subseteq Pieces'
    <3> SUFFICES ASSUME NEW w \in Pieces PROVE w \in Pieces'
      BY Zenon
    <3>1. \A q \in Orders : heads[q] \subseteq heads'[q]
      BY <1>1, <1>3, <1>4 DEF TypeOK, Push
    <3>2. QED
      BY <1>2, <3>1, PieceKinds, PieceKindsNext, Zenon
  <2>3. ASSUME NEW p \in Managed' PROVE p \in Managed \/ p \in Pages(n.base, n.size)
    <3>1. CASE p \in donated'
      BY <1>2, <3>1, Zenon DEF Managed
    <3>2. ASSUME NEW i \in DOMAIN Entries, p \in CarvedPages(i)'
          PROVE  p \in CarvedPages(i) \/ p \in Pages(n.base, n.size)
      BY <1>1, <1>2, <1>4, <3>2, EntryTypes DEF CarvedPages, Pages, Piece
    <3>3. QED
      BY <2>3, <3>1, <3>2, Zenon DEF Managed
  <2> HIDE DEF n
  <2>4. QED
    BY <1>a, <2>1, <2>2, <2>3, StayCovered, Zenon
<1>15. PiecesAligned'
  <2>1. cursor % BlockSize[o] = 0
    BY <1>1, <1>4, SizeAssumption DEF CarveOrder
  <2>2. n.base % n.size = 0
    BY <2>1, Zenon DEF Piece
  <2> HIDE DEF n
  <2>3. QED
    BY <1>a, <1>10, <2>2, Zenon DEF PiecesAligned
<1>16. TableCovered(slab', SlabRuns')
  BY <1>2, <1>a, Zenon DEF SlabRuns
<1>17. QED
  BY <1>6, <1>7, <1>8, <1>9, <1>12, <1>13, <1>14, <1>15, <1>16, Zenon DEF IInv

\* The conjuncts of the invariant in the form the steps use.
LEMMA Unpacked ==
  ASSUME IInv
  PROVE  /\ TypeOK /\ CarveInv /\ LoopInv /\ AllApart(Pieces) /\ PiecesManaged
         /\ TableInv(slab, SlabRuns) /\ SlabRuns \in SUBSET Runs /\ Sound(Pieces)
         /\ Covered /\ TableCovered(slab, SlabRuns) /\ PiecesAligned
<1>1. SlabRuns \in SUBSET Runs
  BY OrderTypes, Zenon DEF IInv, TypeOK, SlabRuns, Handles, Runs
<1>2. QED
  BY <1>1, TypedPieces, Zenon DEF IInv, PiecesApart, AllApart

\* After init the managed memory grows by donations only.
LEMMA SameMemory ==
  ASSUME pc # "carve", pc' # "carve", UNCHANGED donated
  PROVE  Managed' = Managed
BY Zenon DEF Managed, CarvedPages

\* An entry that init leaves has been carved to its end.
LEMMA NextEntryMemory ==
  ASSUME TypeOK, CarveInv, NextEntry
  PROVE  Managed' = Managed
<1>1. /\ pc = "carve" /\ UNCHANGED donated
      /\ entry <= Len(Entries) => cursor + 1 > Entries[entry].end
      /\ entry \in Nat \ {0} /\ cursor \in Nat
  BY Zenon DEF NextEntry, TypeOK
<1>2. \/ /\ entry < Len(Entries) /\ entry' = entry + 1
         /\ cursor' = Entries[entry + 1].start /\ pc' = "carve"
      \/ /\ ~(entry < Len(Entries)) /\ pc' = "idle" /\ UNCHANGED <<entry, cursor>>
  BY <1>1, Zenon DEF NextEntry
<1>3. ASSUME NEW i \in DOMAIN Entries
      PROVE  CarvedPages(i)' = CarvedPages(i)
  <2>1. i \in Nat /\ i <= Len(Entries) /\ Entries[i].start \in Nat /\ Entries[i].end \in Nat
    BY EntryTypes
  <2>2. i = entry => cursor = Entries[i].end
    BY <1>1, <2>1 DEF CarveInv
  <2>3. CarvedPages(i) \subseteq CarvedPages(i)'
    BY <1>1, <1>2, <2>1, <2>2, EntryTypes DEF CarvedPages, EntryPages
  <2>4. CarvedPages(i)' \subseteq CarvedPages(i)
    BY <1>1, <1>2, <2>1, <2>2, EntryTypes DEF CarvedPages, EntryPages
  <2>5. QED
    BY <2>3, <2>4, Zenon
<1>4. QED
  BY <1>1, <1>3, Zenon DEF Managed

LEMMA NextEntryStep == IInv /\ NextEntry => IInv'
<1> SUFFICES ASSUME IInv, NextEntry PROVE IInv'
  BY Zenon
<1>1. /\ TypeOK /\ CarveInv /\ LoopInv /\ AllApart(Pieces) /\ PiecesManaged
      /\ TableInv(slab, SlabRuns)
      /\ Covered /\ TableCovered(slab, SlabRuns) /\ PiecesAligned
  BY Unpacked, Zenon
<1>2. /\ pc = "carve" /\ UNCHANGED <<heads, slab, live, leaked, cur, donated>>
      /\ entry <= Len(Entries) => cursor + 1 > Entries[entry].end
      /\ entry \in Nat \ {0} /\ cursor \in Nat
  BY <1>1, Zenon DEF NextEntry, TypeOK
<1>3. \/ /\ entry < Len(Entries) /\ entry' = entry + 1
         /\ cursor' = Entries[entry + 1].start /\ pc' = "carve"
      \/ /\ ~(entry < Len(Entries)) /\ pc' = "idle" /\ UNCHANGED <<entry, cursor>>
  BY <1>2, Zenon DEF NextEntry
<1>4. TypeOK'
  BY <1>1, <1>2, <1>3, EntryTypes DEF TypeOK
<1>5. CarveInv'
  BY <1>1, <1>2, <1>3, EntryTypes DEF CarveInv
<1>6. LoopInv'
  BY <1>1, <1>2, <1>3, Zenon DEF LoopInv, TightOrder
<1>7. TableInv(slab', SlabRuns')
  BY <1>1, <1>2, Zenon DEF SlabRuns
<1>8. Pieces' = Pieces
  BY <1>2, <1>3 DEF Pieces, FreePieces, FlightPieces, SlabPieces, WholePieces, LostPieces
<1>9. Managed' = Managed
  BY <1>1, NextEntryMemory, Zenon
<1>10. PiecesManaged'
  BY <1>1, <1>8, <1>9, Zenon DEF PiecesManaged
<1>12. Covered' /\ PiecesAligned' /\ TableCovered(slab', SlabRuns')
  BY <1>1, <1>2, <1>8, <1>9, SameKeeps, Zenon DEF SlabRuns
<1>13. QED
  BY <1>1, <1>4, <1>5, <1>6, <1>7, <1>8, <1>10, <1>12, Zenon DEF IInv, PiecesApart, AllApart

LEMMA AllocFromSlabStep ==
  ASSUME CardinalityFacts, IInv, NEW count \in Counts, AllocFromSlab(count)
  PROVE  IInv'
<1>1. /\ TypeOK /\ CarveInv /\ LoopInv /\ AllApart(Pieces) /\ PiecesManaged
      /\ TableInv(slab, SlabRuns) /\ SlabRuns \in SUBSET Runs
      /\ Covered /\ TableCovered(slab, SlabRuns) /\ PiecesAligned
  BY Unpacked, Zenon
<1>a. PICK i \in Slots : \E r \in slab[i].free :
        /\ FirstFit(slab, i, r, count)
        /\ slab' = Take(slab, i, r, count)
        /\ live' = live \union {[addr |-> r.addr, count |-> count, via |-> BySlab]}
  BY Zenon DEF AllocFromSlab
<1>2. PICK r \in slab[i].free :
        /\ FirstFit(slab, i, r, count)
        /\ slab' = Take(slab, i, r, count)
        /\ live' = live \union {[addr |-> r.addr, count |-> count, via |-> BySlab]}
  BY <1>a, Zenon
<1>3. pc = "idle" /\ UNCHANGED <<heads, leaked, pc, cur, entry, cursor, donated>>
  BY Zenon DEF AllocFromSlab
<1> DEFINE h == [addr |-> r.addr, count |-> count, via |-> BySlab]
<1>4. count \in Nat /\ r.addr \in Nat \ {0} /\ slab[i] \in BlockInfo
  BY <1>1, CountsAssumption DEF TypeOK, BlockInfo, Ranges
<1>5. h \in Handles /\ h \in Runs
  BY <1>4, OrderTypes, Zenon DEF Handles, Runs
<1>6. SlabRuns' = SlabRuns \union {h}
  BY <1>2 DEF SlabRuns
<1>7. TableInv(slab', SlabRuns')
  BY <1>1, <1>2, <1>4, <1>5, <1>6, TakeRun, Zenon DEF FirstFit
<1>8. TypeOK'
  BY <1>1, <1>2, <1>3, <1>5, <1>7, Zenon DEF TypeOK, TableInv
<1>9. \A j \in Slots : /\ slab'[j].used <=> slab[j].used
                       /\ slab'[j].base = slab[j].base
                       /\ slab'[j].total = slab[j].total
  BY <1>1, <1>2, Zenon DEF Take, Block, TypeOK, FirstFit, Fits
<1>10. CarveInv'
  BY <1>1, <1>3, Zenon DEF CarveInv
<1>11. LoopInv'
  <2>1. \A j \in Slots : slab'[j].used => slab'[j].base # 0 /\ slab'[j].total # 0
    BY <1>1, <1>9, Zenon DEF LoopInv
  <2>2. h.via = BySlab
    BY Zenon
  <2>3. \A g \in live' : g.via # BySlab => TightOrder(g.via, g.count)
    <3> HIDE DEF h
    <3>1. live' = live \union {h}
      BY <1>2, Zenon DEF h
    <3>2. QED
      BY <1>1, <2>2, <3>1, Zenon DEF LoopInv
  <2>4. QED
    BY <1>3, <2>1, <2>3, Zenon DEF LoopInv, TightOrder
<1>12. Pieces' = Pieces
  <2>1. \A g : g \in live' /\ g.via # BySlab <=> g \in live /\ g.via # BySlab
    BY <1>2
  <2>2. SlabPieces' = SlabPieces
    BY <1>9, Zenon DEF SlabPieces
  <2>3. WholePieces' = WholePieces
    BY <2>1, Zenon DEF WholePieces
  <2>4. QED
    BY <1>3, <2>2, <2>3 DEF Pieces, FreePieces, FlightPieces, LostPieces
<1>13. PiecesManaged'
  BY <1>1, <1>3, <1>12, SameMemory, Zenon DEF PiecesManaged
<1>14. Covered' /\ PiecesAligned'
  BY <1>1, <1>3, <1>12, SameMemory, SameKeeps, Zenon
<1>15. TableCovered(slab', SlabRuns')
  BY <1>1, <1>2, <1>4, <1>5, <1>6, TakeCovered, Zenon DEF FirstFit
<1>16. QED
  BY <1>1, <1>7, <1>8, <1>10, <1>11, <1>12, <1>13, <1>14, <1>15, Zenon DEF IInv, PiecesApart, AllApart

LEMMA AllocPopStep ==
  ASSUME IInv, NEW count \in Counts, AllocPop(count)
  PROVE  IInv'
<1>1. /\ TypeOK /\ CarveInv /\ LoopInv /\ AllApart(Pieces) /\ PiecesManaged
      /\ TableInv(slab, SlabRuns)
      /\ Covered /\ TableCovered(slab, SlabRuns) /\ PiecesAligned
  BY Unpacked, Zenon
<1>2. PICK order \in Orders, found \in Orders :
        /\ TightOrder(order, count)
        /\ FirstNonEmpty(found, order)
        /\ \E block \in heads[found] :
             /\ heads' = [heads EXCEPT ![found] = @ \ {block}]
             /\ cur' = [addr |-> block, order |-> found, want |-> order, count |-> count]
  BY Zenon DEF AllocPop
<1>3. PICK block \in heads[found] :
        /\ heads' = [heads EXCEPT ![found] = @ \ {block}]
        /\ cur' = [addr |-> block, order |-> found, want |-> order, count |-> count]
  BY <1>2, Zenon
<1>4. /\ pc = "idle" /\ pc' = "split"
      /\ UNCHANGED <<slab, live, leaked, entry, cursor, donated>>
  BY Zenon DEF AllocPop
<1>5. block \in Nat \ {0} /\ count \in Nat
  BY <1>1, CountsAssumption, Zenon DEF TypeOK
<1>6. TypeOK'
  BY <1>1, <1>3, <1>4, <1>5, Zenon DEF TypeOK
<1>7. CarveInv'
  BY <1>1, <1>4, Zenon DEF CarveInv
<1>8. LoopInv'
  BY <1>1, <1>2, <1>3, <1>4, <1>5, Zenon DEF LoopInv, TightOrder, FirstNonEmpty
<1>9. TableInv(slab', SlabRuns')
  BY <1>1, <1>4, Zenon DEF SlabRuns
<1> DEFINE x == Piece("free", found, block, BlockSize[found])
           n == Piece("flight", 0, block, BlockSize[found])
<1>10. x \in Pieces
  BY PieceKinds, Zenon
<1>11. Pieces' \subseteq (Pieces \ {x}) \union {n}
  <2> SUFFICES ASSUME NEW w \in Pieces' PROVE w \in (Pieces \ {x}) \union {n}
    BY Zenon
  <2>1. \A q \in Orders : \A a \in heads'[q] : a \in heads[q] /\ (q = found => a # block)
    BY <1>1, <1>3, Zenon DEF TypeOK
  <2>2. CASE \E q \in Orders : \E a \in heads'[q] : w = Piece("free", q, a, BlockSize[q])
    BY <2>1, <2>2, PieceKinds DEF Piece
  <2>3. CASE w = Piece("flight", 0, cur'.addr, BlockSize[cur'.order])
    BY <1>3, <2>3, Zenon
  <2>4. CASE w \in SlabPieces' \union WholePieces' \union LostPieces'
    <3>1. w \in SlabPieces \union WholePieces \union LostPieces
      BY <1>4, <2>4, Zenon DEF SlabPieces, WholePieces, LostPieces
    <3>2. w \in Pieces /\ w.kind # "free"
      BY <3>1, KindTells, Zenon
    <3>3. QED
      BY <3>2 DEF Piece
  <2>5. QED
    BY <2>2, <2>3, <2>4, PieceKindsNext DEF Pieces, FreePieces, FlightPieces
<1>12. PiecesApart'
  <2>1. n.base = x.base /\ n.size = x.size
    BY Zenon DEF Piece
  <2>2. QED
    BY <1>1, <1>10, <1>11, <2>1, RelabelPiece DEF PiecesApart, AllApart
<1>13. PiecesManaged'
  <2>1. Managed' = Managed
    BY <1>4, SameMemory, Zenon
  <2>2. n.base = x.base /\ n.size = x.size
    BY Zenon DEF Piece
  <2> HIDE DEF x, n
  <2>3. QED
    BY <1>1, <1>10, <1>11, <2>1, <2>2, Zenon DEF PiecesManaged
<1>14. Covered' /\ PiecesAligned'
  <2>1. n \in Pieces'
    BY <1>3, <1>4, PieceKindsNext, Zenon
  <2>2. ASSUME NEW w \in Pieces, w # x PROVE w \in Pieces'
    <3>1. \A q \in Orders : \A a \in heads[q] : a \in heads'[q] \/ (q = found /\ a = block)
      BY <1>1, <1>3, Zenon DEF TypeOK
    <3>2. QED
      BY <1>4, <2>2, <3>1, PieceKinds, PieceKindsNext
  <2>3. n.base = x.base /\ n.size = x.size /\ Managed' = Managed
    BY <1>4, SameMemory, Zenon DEF Piece
  <2> HIDE DEF x, n
  <2>4. Pieces' = (Pieces \ {x}) \union {n}
    BY <1>11, <2>1, <2>2, Zenon
  <2>5. QED
    BY <1>1, <1>10, <2>3, <2>4, RelabelKeeps, Zenon
<1>15. TableCovered(slab', SlabRuns')
  BY <1>1, <1>4, Zenon DEF SlabRuns
<1>16. QED
  BY <1>6, <1>7, <1>8, <1>9, <1>12, <1>13, <1>14, <1>15, Zenon DEF IInv

\* A number is its quotient and its remainder.
LEMMA DivMod ==
  ASSUME NEW a \in Nat, NEW s \in Nat \ {0}
  PROVE  /\ a \div s \in Nat /\ a % s \in 0..(s - 1)
         /\ a = s * (a \div s) + (a % s)
OBVIOUS

\* A multiple of s leaves no remainder.
LEMMA Multiple ==
  ASSUME NEW q \in Nat, NEW s \in Nat \ {0}, NEW a, a = s * q
  PROVE  a \div s = q /\ a % s = 0
OBVIOUS

\* Both halves of an aligned block are aligned.
LEMMA HalvesAligned ==
  ASSUME NEW a \in Nat, NEW s \in Nat \ {0}, a % (2 * s) = 0
  PROVE  a % s = 0 /\ (a + s) % s = 0 /\ ((a + s) \div s) % 2 = 1 /\ (a \div s) % 2 = 0
<1> DEFINE k == a \div (2 * s)
           q == 2 * k
           p == 2 * k + 1
<1>1. k \in Nat /\ a = (2 * s) * k
  <2>1. 2 * s \in Nat \ {0}
    OBVIOUS
  <2>2. k \in Nat /\ a = (2 * s) * k + (a % (2 * s))
    BY <2>1, DivMod, Zenon
  <2> HIDE DEF k
  <2>3. QED
    BY <2>2
<1> HIDE DEF k
<1>2. /\ q \in Nat /\ q % 2 = 0 /\ a = s * q
      /\ p \in Nat /\ p % 2 = 1 /\ a + s = s * p
  BY <1>1
<1> HIDE DEF q, p
<1>3. a % s = 0 /\ a \div s = q
  BY <1>2, Multiple, Zenon
<1>4. (a + s) % s = 0 /\ (a + s) \div s = p
  BY <1>2, Multiple, Zenon
<1>5. QED
  BY <1>2, <1>3, <1>4, Zenon

\* Two aligned buddies make up an aligned block.
LEMMA BuddiesAligned ==
  ASSUME NEW a \in Nat, NEW s \in Nat \ {0}, a % s = 0
  PROVE  /\ (a \div s) % 2 = 0 => a % (2 * s) = 0
         /\ (a \div s) % 2 # 0 => a - s \in Nat /\ (a - s) % (2 * s) = 0
<1> DEFINE q == a \div s
           k == q \div 2
           d == 2 * s
<1>1. q \in Nat /\ a = s * q
  <2>1. q \in Nat /\ a = s * q + (a % s)
    BY DivMod, Zenon
  <2> HIDE DEF q
  <2>2. QED
    BY <2>1
<1>2. k \in Nat /\ q = 2 * k + (q % 2) /\ q % 2 \in {0, 1}
  BY <1>1
<1> HIDE DEF k, q
<1>3. d \in Nat \ {0} /\ k \in Nat
  BY <1>2
<1>4. CASE q % 2 = 0
  <2>1. a = d * k
    BY <1>1, <1>2, <1>4
  <2> HIDE DEF d
  <2>2. a % d = 0
    BY <1>3, <2>1, Multiple
  <2>3. QED
    BY <1>4, <2>2, Zenon DEF q, d
<1>5. CASE q % 2 = 1
  <2>1. a - s = d * k
    BY <1>1, <1>2, <1>5
  <2>2. d * k \in Nat
    BY <1>2
  <2> HIDE DEF d
  <2>3. (a - s) % d = 0 /\ a - s \in Nat
    BY <1>3, <2>1, <2>2, Multiple, Zenon
  <2>4. QED
    BY <1>5, <2>3 DEF q, d
<1>6. QED
  BY <1>2, <1>4, <1>5, Zenon

LEMMA SplitStep == IInv /\ Split => IInv'
<1> SUFFICES ASSUME IInv, Split PROVE IInv'
  BY Zenon
<1> DEFINE o == cur.order - 1
           x == Piece("flight", 0, cur.addr, BlockSize[cur.order])
           m == Piece("flight", 0, cur.addr, BlockSize[o])
           n == Piece("free", o, cur.addr + BlockSize[o], BlockSize[o])
<1>1. /\ TypeOK /\ CarveInv /\ LoopInv /\ AllApart(Pieces) /\ PiecesManaged
      /\ TableInv(slab, SlabRuns) /\ Sound(Pieces)
      /\ Covered /\ TableCovered(slab, SlabRuns) /\ PiecesAligned
  BY Unpacked, Zenon
<1>2. /\ pc = "split" /\ pc' = "split" /\ cur.order > cur.want
      /\ heads' = [heads EXCEPT ![o] = Push(@, cur.addr + BlockSize[o])]
      /\ cur' = [cur EXCEPT !.order = o]
      /\ UNCHANGED <<slab, live, leaked, entry, cursor, donated>>
  BY Zenon DEF Split
<1>3. cur.addr \in Nat \ {0} /\ cur.order \in Orders /\ cur.want \in Orders /\ cur.count \in Nat
  BY <1>1, <1>2, Zenon DEF TypeOK, LoopInv
<1>4. o \in Orders /\ o + 1 = cur.order /\ cur.want <= o
  BY <1>2, <1>3, OrderAssumption DEF Orders
<1>5. BlockSize[o] \in Nat \ {0} /\ BlockSize[cur.order] = 2 * BlockSize[o]
  BY <1>3, <1>4, SizeAssumption, Zenon
<1>6. /\ cur'.addr = cur.addr /\ cur'.order = o /\ cur'.want = cur.want
      /\ cur'.count = cur.count
      /\ cur' \in [addr : Nat, order : Orders, want : Orders, count : Nat]
  BY <1>1, <1>2, <1>4, Zenon DEF TypeOK
<1> HIDE DEF o
<1>7. \A q \in Orders : \A a \in heads'[q] :
        a \in heads[q] \/ (q = o /\ a = cur.addr + BlockSize[o])
  BY <1>1, <1>2, <1>4, Zenon DEF TypeOK, Push
<1>8. TypeOK'
  <2>1. Push(heads[o], cur.addr + BlockSize[o]) \in SUBSET (Nat \ {0})
    BY <1>1, <1>3, <1>4, <1>5 DEF TypeOK, Push
  <2>2. heads' \in [Orders -> SUBSET (Nat \ {0})]
    BY <1>1, <1>2, <1>4, <2>1, Zenon DEF TypeOK
  <2>3. QED
    BY <1>1, <1>2, <1>6, <2>2, Zenon DEF TypeOK
<1>9. CarveInv'
  BY <1>1, <1>2, Zenon DEF CarveInv
<1>10. LoopInv'
  BY <1>1, <1>2, <1>3, <1>4, <1>6, Zenon DEF LoopInv, TightOrder
<1>11. TableInv(slab', SlabRuns')
  BY <1>1, <1>2, Zenon DEF SlabRuns
<1>12. x \in Pieces
  BY <1>2, PieceKinds, Zenon
<1>13. Pieces' \subseteq (Pieces \ {x}) \union {m, n}
  <2> SUFFICES ASSUME NEW w \in Pieces' PROVE w \in (Pieces \ {x}) \union {m, n}
    BY Zenon
  <2>1. CASE \E q \in Orders : \E a \in heads'[q] : w = Piece("free", q, a, BlockSize[q])
    BY <1>7, <2>1, PieceKinds DEF Piece
  <2>2. CASE w = Piece("flight", 0, cur'.addr, BlockSize[cur'.order])
    BY <1>6, <2>2, Zenon
  <2>3. CASE w \in SlabPieces' \union WholePieces' \union LostPieces'
    <3>1. w \in SlabPieces \union WholePieces \union LostPieces
      BY <1>2, <2>3, Zenon DEF SlabPieces, WholePieces, LostPieces
    <3>2. w \in Pieces /\ w.kind # "flight"
      BY <3>1, KindTells, Zenon
    <3>3. QED
      <4>1. x.kind = "flight"
        BY Zenon DEF Piece
      <4> HIDE DEF x
      <4>2. QED
        BY <3>2, <4>1, Zenon
  <2>4. QED
    BY <2>1, <2>2, <2>3, PieceKindsNext DEF Pieces, FreePieces, FlightPieces
<1>14. /\ x.base = cur.addr /\ x.size = 2 * BlockSize[o]
       /\ m.base = cur.addr /\ m.size = BlockSize[o]
       /\ n.base = cur.addr + BlockSize[o] /\ n.size = BlockSize[o]
  BY <1>5, Zenon DEF Piece
<1> HIDE DEF x, m, n
<1>15. PiecesApart'
  <2>1. AllApart({m, n})
    BY <1>3, <1>5, <1>14 DEF AllApart, Apart
  <2>2. ASSUME NEW y \in Pieces \ {x} PROVE Apart(m, y) /\ Apart(n, y)
    <3>1. Apart(x, y)
      BY <1>1, <1>12, <2>2, Zenon DEF AllApart
    <3>2. Sound({x, y, m}) /\ Sound({x, y, n})
      BY <1>1, <1>3, <1>5, <1>12, <1>14 DEF Sound
    <3>3. Apart(m, y)
      BY <1>3, <1>5, <1>14, <3>1, <3>2, PartApart
    <3>4. Apart(n, y)
      BY <1>3, <1>5, <1>14, <3>1, <3>2, PartApart
    <3>5. QED
      BY <3>3, <3>4, Zenon
  <2>3. \A z \in {m, n} : \A y \in Pieces \ {x} : Apart(z, y)
    BY <2>2, Zenon
  <2>4. AllApart(Pieces')
    BY <1>1, <1>13, <2>1, <2>3, ReplacePieces, Zenon
  <2>5. QED
    BY <2>4, Zenon DEF AllApart, PiecesApart
<1>16. PiecesManaged'
  <2>1. /\ Pages(m.base, m.size) \subseteq Pages(x.base, x.size)
        /\ Pages(n.base, n.size) \subseteq Pages(x.base, x.size)
    BY <1>3, <1>5, <1>14 DEF Pages
  <2>2. QED
    BY <1>1, <1>2, <1>12, <1>13, <2>1, SameMemory, Zenon DEF PiecesManaged
<1>17. Covered'
  <2>1. m \in Pieces' /\ n \in Pieces'
    <3>1. cur.addr + BlockSize[o] \in heads'[o]
      BY <1>1, <1>2, <1>3, <1>4, <1>5 DEF TypeOK, Push
    <3>2. QED
      BY <1>2, <1>4, <1>6, <3>1, PieceKindsNext, Zenon DEF m, n
  <2>2. ASSUME NEW w \in Pieces, w # x PROVE w \in Pieces'
    <3>1. \A q \in Orders : heads[q] \subseteq heads'[q]
      BY <1>1, <1>2, <1>3, <1>4, <1>5 DEF TypeOK, Push
    <3>2. QED
      BY <1>2, <2>2, <3>1, PieceKinds, PieceKindsNext DEF x
  <2>3. \A p \in Pages(x.base, x.size) : p \in Pages(m.base, m.size) \/ p \in Pages(n.base, n.size)
    BY <1>3, <1>5, <1>14 DEF Pages
  <2>4. QED
    BY <1>1, <1>2, <2>1, <2>2, <2>3, SameMemory, StayCovered, Zenon
<1>18. PiecesAligned'
  <2>1. cur.addr % (2 * BlockSize[o]) = 0
    BY <1>1, <1>12, <1>14, Zenon DEF PiecesAligned
  <2>2. cur.addr % BlockSize[o] = 0 /\ (cur.addr + BlockSize[o]) % BlockSize[o] = 0
    BY <1>3, <1>5, <2>1, HalvesAligned, Zenon
  <2>3. QED
    BY <1>1, <1>13, <1>14, <2>2, Zenon DEF PiecesAligned
<1>19. TableCovered(slab', SlabRuns')
  BY <1>1, <1>2, Zenon DEF SlabRuns
<1>20. QED
  BY <1>8, <1>9, <1>10, <1>11, <1>15, <1>16, <1>17, <1>18, <1>19, Zenon DEF IInv

LEMMA AllocWholeStep == IInv /\ AllocWhole => IInv'
<1> SUFFICES ASSUME IInv, AllocWhole PROVE IInv'
  BY Zenon
<1> DEFINE h == [addr |-> cur.addr, count |-> cur.count, via |-> cur.want]
           x == Piece("flight", 0, cur.addr, BlockSize[cur.order])
           n == Piece("held", cur.count, cur.addr, BlockSize[cur.want])
<1>1. /\ TypeOK /\ CarveInv /\ LoopInv /\ AllApart(Pieces) /\ PiecesManaged
      /\ TableInv(slab, SlabRuns)
      /\ Covered /\ TableCovered(slab, SlabRuns) /\ PiecesAligned
  BY Unpacked, Zenon
<1>2. /\ pc = "split" /\ pc' = "idle" /\ cur.order = cur.want /\ cur' = NoCur
      /\ live' = live \union {h}
      /\ UNCHANGED <<heads, slab, leaked, entry, cursor, donated>>
  BY Zenon DEF AllocWhole
<1>3. cur.addr \in Nat \ {0} /\ cur.want \in Orders /\ cur.count \in Nat
  BY <1>1, <1>2, Zenon DEF TypeOK, LoopInv
<1>4. h \in Handles /\ h.via # BySlab
  BY <1>3, OrderTypes, Zenon DEF Handles
<1>5. TypeOK'
  BY <1>1, <1>2, <1>4, OrderTypes, Zenon DEF TypeOK, NoCur
<1>6. CarveInv'
  BY <1>1, <1>2, Zenon DEF CarveInv
<1>7. LoopInv'
  <2>1. TightOrder(h.via, h.count)
    BY <1>1, <1>2, Zenon DEF LoopInv
  <2>2. \A g \in live' : g.via # BySlab => TightOrder(g.via, g.count)
    BY <1>1, <1>2, <2>1, Zenon DEF LoopInv
  <2>3. \A i \in Slots : slab'[i].used => slab'[i].base # 0 /\ slab'[i].total # 0
    BY <1>1, <1>2, Zenon DEF LoopInv
  <2>4. QED
    BY <1>2, <2>2, <2>3, Zenon DEF LoopInv, TightOrder
<1>8. TableInv(slab', SlabRuns')
  <2>1. SlabRuns' = SlabRuns
    BY <1>2, <1>4, Zenon DEF SlabRuns
  <2>2. QED
    BY <1>1, <1>2, <2>1, Zenon
<1>9. x \in Pieces
  BY <1>2, PieceKinds, Zenon
<1>10. Pieces' \subseteq (Pieces \ {x}) \union {n}
  <2> SUFFICES ASSUME NEW w \in Pieces' PROVE w \in (Pieces \ {x}) \union {n}
    BY Zenon
  <2>1. CASE w \in WholePieces'
    <3>1. w \in WholePieces \/ w = n
      BY <1>2, <2>1 DEF WholePieces
    <3>2. w \in WholePieces => w \in Pieces /\ w.kind # "flight"
      BY KindTells, Zenon
    <3>3. x.kind = "flight"
      BY Zenon DEF Piece
    <3> HIDE DEF x, n
    <3>4. QED
      BY <3>1, <3>2, <3>3, Zenon
  <2>2. CASE w \in FreePieces' \union SlabPieces' \union LostPieces'
    <3>1. w \in FreePieces \union SlabPieces \union LostPieces
      BY <1>2, <2>2 DEF FreePieces, SlabPieces, LostPieces
    <3>2. w \in Pieces /\ w.kind # "flight"
      BY <3>1, KindTells, Zenon
    <3>3. x.kind = "flight"
      BY Zenon DEF Piece
    <3> HIDE DEF x, n
    <3>4. QED
      BY <3>2, <3>3, Zenon
  <2>3. QED
    BY <1>2, <2>1, <2>2, Zenon DEF Pieces, FlightPieces
<1>11. n.base = x.base /\ n.size = x.size
  BY <1>2, Zenon DEF Piece
<1>12. PiecesApart'
  BY <1>1, <1>9, <1>10, <1>11, RelabelPiece DEF PiecesApart, AllApart
<1>13. PiecesManaged'
  BY <1>1, <1>2, <1>9, <1>10, <1>11, SameMemory, Zenon DEF PiecesManaged
<1>14. Covered' /\ PiecesAligned'
  <2>1. n \in Pieces'
    BY <1>2, <1>4, PieceKindsNext
  <2>2. ASSUME NEW w \in Pieces, w # x PROVE w \in Pieces'
    BY <1>2, <2>2, PieceKinds, PieceKindsNext, Zenon
  <2>3. Managed' = Managed
    BY <1>2, SameMemory, Zenon
  <2> HIDE DEF x, n
  <2>4. Pieces' = (Pieces \ {x}) \union {n}
    BY <1>10, <2>1, <2>2, Zenon
  <2>5. QED
    BY <1>1, <1>9, <1>11, <2>3, <2>4, RelabelKeeps, Zenon
<1>15. TableCovered(slab', SlabRuns')
  <2>1. SlabRuns' = SlabRuns
    BY <1>2, <1>4, Zenon DEF SlabRuns
  <2>2. QED
    BY <1>1, <1>2, <2>1, Zenon
<1>16. QED
  BY <1>5, <1>6, <1>7, <1>8, <1>12, <1>13, <1>14, <1>15, Zenon DEF IInv

LEMMA PushFreedStep == IInv /\ PushFreed => IInv'
<1> SUFFICES ASSUME IInv, PushFreed PROVE IInv'
  BY Zenon
<1> DEFINE x == Piece("flight", 0, cur.addr, BlockSize[cur.order])
           n == Piece("free", cur.order, cur.addr, BlockSize[cur.order])
<1>1. /\ TypeOK /\ CarveInv /\ LoopInv /\ AllApart(Pieces) /\ PiecesManaged
      /\ TableInv(slab, SlabRuns)
      /\ Covered /\ TableCovered(slab, SlabRuns) /\ PiecesAligned
  BY Unpacked, Zenon
<1>2. /\ pc = "merge" /\ pc' = "idle" /\ cur' = NoCur
      /\ heads' = [heads EXCEPT ![cur.order] = Push(@, cur.addr)]
      /\ UNCHANGED <<slab, live, leaked, entry, cursor, donated>>
  BY Zenon DEF PushFreed
<1>3. cur.addr \in Nat \ {0} /\ cur.order \in Orders
  BY <1>1, <1>2, Zenon DEF TypeOK, LoopInv
<1>4. TypeOK'
  <2>1. Push(heads[cur.order], cur.addr) \in SUBSET (Nat \ {0})
    BY <1>1, <1>3, Zenon DEF TypeOK, Push
  <2>2. heads' \in [Orders -> SUBSET (Nat \ {0})]
    BY <1>1, <1>2, <1>3, <2>1, Zenon DEF TypeOK
  <2>3. QED
    BY <1>1, <1>2, <2>2, OrderTypes, Zenon DEF TypeOK, NoCur
<1>5. CarveInv'
  BY <1>1, <1>2, Zenon DEF CarveInv
<1>6. LoopInv'
  BY <1>1, <1>2, Zenon DEF LoopInv, TightOrder
<1>7. TableInv(slab', SlabRuns')
  BY <1>1, <1>2, Zenon DEF SlabRuns
<1>8. x \in Pieces
  BY <1>2, PieceKinds, Zenon
<1>9. Pieces' \subseteq (Pieces \ {x}) \union {n}
  <2> SUFFICES ASSUME NEW w \in Pieces' PROVE w \in (Pieces \ {x}) \union {n}
    BY Zenon
  <2>1. CASE \E q \in Orders : \E a \in heads'[q] : w = Piece("free", q, a, BlockSize[q])
    <3>1. \A q \in Orders : \A a \in heads'[q] : a \in heads[q] \/ (q = cur.order /\ a = cur.addr)
      BY <1>1, <1>2, <1>3, Zenon DEF TypeOK, Push
    <3>2. PICK q \in Orders : \E a \in heads'[q] : w = Piece("free", q, a, BlockSize[q])
      BY <2>1, Zenon
    <3>3. PICK a \in heads'[q] : w = Piece("free", q, a, BlockSize[q])
      BY <3>2, Zenon
    <3>4. CASE a \in heads[q]
      <4>1. w \in Pieces
        BY <3>3, <3>4, PieceKinds, Zenon
      <4>2. w # x
        BY <3>3, Zenon DEF Piece
      <4>3. QED
        BY <4>1, <4>2, Zenon
    <3>5. CASE q = cur.order /\ a = cur.addr
      BY <3>3, <3>5, Zenon
    <3>6. QED
      BY <3>1, <3>4, <3>5, Zenon
  <2>2. CASE w \in SlabPieces' \union WholePieces' \union LostPieces'
    <3>1. w \in SlabPieces \union WholePieces \union LostPieces
      BY <1>2, <2>2, Zenon DEF SlabPieces, WholePieces, LostPieces
    <3>2. w \in Pieces /\ w.kind # "flight"
      BY <3>1, KindTells, Zenon
    <3>3. QED
      BY <3>2 DEF Piece
  <2>3. FlightPieces' = {}
    BY <1>2, Zenon DEF FlightPieces
  <2>4. CASE w \in FreePieces'
    BY <2>1, <2>4 DEF FreePieces
  <2>5. QED
    BY <2>2, <2>3, <2>4, Zenon DEF Pieces
<1>10. n.base = x.base /\ n.size = x.size
  BY Zenon DEF Piece
<1>11. PiecesApart'
  BY <1>1, <1>8, <1>9, <1>10, RelabelPiece DEF PiecesApart, AllApart
<1>12. PiecesManaged'
  BY <1>1, <1>2, <1>8, <1>9, <1>10, SameMemory, Zenon DEF PiecesManaged
<1>13. Covered' /\ PiecesAligned'
  <2>1. \A q \in Orders : heads[q] \subseteq heads'[q] /\ cur.addr \in heads'[cur.order]
    BY <1>1, <1>2, <1>3, Zenon DEF TypeOK, Push
  <2>2. n \in Pieces'
    BY <1>3, <2>1, PieceKindsNext, Zenon
  <2>3. ASSUME NEW w \in Pieces, w # x PROVE w \in Pieces'
    BY <1>2, <2>1, <2>3, PieceKinds, PieceKindsNext
  <2>4. Managed' = Managed
    BY <1>2, SameMemory, Zenon
  <2> HIDE DEF x, n
  <2>5. Pieces' = (Pieces \ {x}) \union {n}
    BY <1>9, <2>2, <2>3, Zenon
  <2>6. QED
    BY <1>1, <1>8, <1>10, <2>4, <2>5, RelabelKeeps, Zenon
<1>14. TableCovered(slab', SlabRuns')
  BY <1>1, <1>2, Zenon DEF SlabRuns
<1>15. QED
  BY <1>4, <1>5, <1>6, <1>7, <1>11, <1>12, <1>13, <1>14, Zenon DEF IInv

LEMMA MergeStep == IInv /\ Merge => IInv'
<1> SUFFICES ASSUME IInv, Merge PROVE IInv'
  BY Zenon
<1> DEFINE o == cur.order
           b == BuddyOf(cur.addr, o)
           c == IF b < cur.addr THEN b ELSE cur.addr
           x == Piece("flight", 0, cur.addr, BlockSize[o])
           y == Piece("free", o, b, BlockSize[o])
           n == Piece("flight", 0, c, BlockSize[o + 1])
<1>1. /\ TypeOK /\ CarveInv /\ LoopInv /\ AllApart(Pieces) /\ PiecesManaged
      /\ TableInv(slab, SlabRuns) /\ Sound(Pieces)
      /\ Covered /\ TableCovered(slab, SlabRuns) /\ PiecesAligned
  BY Unpacked, Zenon
<1>2. /\ pc = "merge" /\ pc' = "merge" /\ o # MaxOrder /\ b \in heads[o]
      /\ heads' = [heads EXCEPT ![o] = @ \ {b}]
      /\ cur' = [cur EXCEPT !.addr = c, !.order = o + 1]
      /\ UNCHANGED <<slab, live, leaked, entry, cursor, donated>>
  BY Zenon DEF Merge
<1>3. o \in Orders /\ o + 1 \in Orders /\ cur.addr \in Nat \ {0} /\ b \in Nat \ {0}
  <2>1. o \in Orders /\ cur.addr \in Nat \ {0}
    BY <1>1, <1>2, Zenon DEF TypeOK, LoopInv
  <2>2. b \in Nat \ {0}
    BY <1>1, <1>2, <2>1, Zenon DEF TypeOK
  <2>3. QED
    BY <1>2, <2>1, <2>2, OrderAssumption DEF Orders
<1>4. BlockSize[o] \in Nat \ {0} /\ BlockSize[o + 1] = 2 * BlockSize[o]
  BY <1>3, SizeAssumption, Zenon
<1>5. b = cur.addr + BlockSize[o] \/ b = cur.addr - BlockSize[o]
  BY Zenon DEF BuddyOf
<1> HIDE DEF b
<1>6. /\ c \in Nat \ {0}
      /\ cur'.addr = c /\ cur'.order = o + 1
      /\ cur' \in [addr : Nat, order : Orders, want : Orders, count : Nat]
  <2>1. c \in Nat \ {0}
    BY <1>3, Zenon
  <2> HIDE DEF c
  <2>2. QED
    BY <1>1, <1>2, <1>3, <2>1, Zenon DEF TypeOK
<1>7. TypeOK'
  BY <1>1, <1>2, <1>3, <1>6, Zenon DEF TypeOK
<1>8. CarveInv'
  BY <1>1, <1>2, Zenon DEF CarveInv
<1>9. LoopInv'
  BY <1>1, <1>2, <1>6, Zenon DEF LoopInv, TightOrder
<1>10. TableInv(slab', SlabRuns')
  BY <1>1, <1>2, Zenon DEF SlabRuns
<1>11. x \in Pieces /\ y \in Pieces /\ x # y
  BY <1>2, <1>3, PieceKinds, Zenon DEF Piece
<1>12. Pieces' \subseteq (Pieces \ {x, y}) \union {n}
  <2> SUFFICES ASSUME NEW w \in Pieces' PROVE w \in (Pieces \ {x, y}) \union {n}
    BY Zenon
  <2>1. CASE \E q \in Orders : \E a \in heads'[q] : w = Piece("free", q, a, BlockSize[q])
    <3>1. \A q \in Orders : \A a \in heads'[q] : a \in heads[q] /\ (q = o => a # b)
      BY <1>1, <1>2, <1>3, Zenon DEF TypeOK
    <3>2. PICK q \in Orders : \E a \in heads'[q] : w = Piece("free", q, a, BlockSize[q])
      BY <2>1, Zenon
    <3>3. PICK a \in heads'[q] : w = Piece("free", q, a, BlockSize[q])
      BY <3>2, Zenon
    <3>4. w \in Pieces
      BY <3>1, <3>3, PieceKinds, Zenon
    <3>5. w # x /\ w # y
      BY <3>1, <3>3, Zenon DEF Piece
    <3>6. QED
      BY <3>4, <3>5, Zenon
  <2>2. CASE w = Piece("flight", 0, cur'.addr, BlockSize[cur'.order])
    BY <1>6, <2>2, Zenon
  <2>3. CASE w \in SlabPieces' \union WholePieces' \union LostPieces'
    <3>1. w \in SlabPieces \union WholePieces \union LostPieces
      BY <1>2, <2>3, Zenon DEF SlabPieces, WholePieces, LostPieces
    <3>2. w \in Pieces /\ w.kind # "flight" /\ w.kind # "free"
      BY <3>1, KindTells, Zenon
    <3>3. QED
      BY <3>2 DEF Piece
  <2>4. QED
    <3>1. \/ w \in FreePieces' \/ w \in FlightPieces'
          \/ w \in SlabPieces' \union WholePieces' \union LostPieces'
      BY Zenon DEF Pieces
    <3>2. CASE w \in FreePieces'
      BY <2>1, <3>2 DEF FreePieces
    <3>3. CASE w \in FlightPieces'
      BY <2>2, <3>3, Zenon DEF FlightPieces
    <3>4. QED
      BY <2>3, <3>1, <3>2, <3>3, Zenon
<1>13. /\ x.base = cur.addr /\ x.size = BlockSize[o]
       /\ y.base = b /\ y.size = BlockSize[o]
       /\ n.base = c /\ n.size = 2 * BlockSize[o]
  BY <1>4, Zenon DEF Piece
<1> HIDE DEF x, y, n
<1>14. PiecesApart'
  <2>1. AllApart({n})
    BY Zenon DEF AllApart
  <2>2. ASSUME NEW z \in Pieces \ {x, y} PROVE Apart(n, z)
    <3>1. Apart(x, z) /\ Apart(y, z)
      BY <1>1, <1>11, <2>2, Zenon DEF AllApart
    <3>2. z.base \in Nat /\ z.size \in Nat \ {0}
      BY <1>1, <2>2, Zenon DEF Sound
    <3>3. QED
      BY <1>3, <1>4, <1>5, <1>13, <3>1, <3>2 DEF Apart
  <2>3. \A m \in {n} : \A z \in Pieces \ {x, y} : Apart(m, z)
    BY <2>2, Zenon
  <2>4. AllApart(Pieces')
    BY <1>1, <1>12, <2>1, <2>3, ReplacePieces, Zenon
  <2>5. QED
    BY <2>4, Zenon DEF AllApart, PiecesApart
<1>15. PiecesManaged'
  <2>1. Pages(n.base, n.size) \subseteq Pages(x.base, x.size) \union Pages(y.base, y.size)
    BY <1>3, <1>4, <1>5, <1>13 DEF Pages
  <2>2. QED
    BY <1>1, <1>2, <1>11, <1>12, <2>1, SameMemory, Zenon DEF PiecesManaged
<1>16. Covered'
  <2>1. n \in Pieces'
    BY <1>2, <1>6, PieceKindsNext, Zenon DEF n
  <2>2. ASSUME NEW w \in Pieces, w # x, w # y PROVE w \in Pieces'
    <3>1. \A q \in Orders : \A a \in heads[q] : a \in heads'[q] \/ (q = o /\ a = b)
      BY <1>1, <1>2, <1>3, Zenon DEF TypeOK
    <3>2. QED
      BY <1>2, <2>2, <3>1, PieceKinds, PieceKindsNext DEF x, y
  <2>3. /\ Pages(x.base, x.size) \subseteq Pages(n.base, n.size)
        /\ Pages(y.base, y.size) \subseteq Pages(n.base, n.size)
    BY <1>3, <1>4, <1>5, <1>13 DEF Pages
  <2>4. Managed' = Managed
    BY <1>2, SameMemory, Zenon
  <2>5. QED
    BY <1>1, <2>1, <2>2, <2>3, <2>4, StayCovered, Zenon
<1>17. PiecesAligned'
  <2> DEFINE s == BlockSize[o]
  <2>1. cur.addr % s = 0
    BY <1>1, <1>11, <1>13, Zenon DEF PiecesAligned
  <2>2. b = IF (cur.addr \div s) % 2 = 0 THEN cur.addr + s ELSE cur.addr - s
    BY Zenon DEF BuddyOf, b
  <2>3. s \in Nat \ {0}
    BY <1>4, Zenon
  <2> HIDE DEF s
  <2>4. c % (2 * s) = 0
    <3>1. CASE (cur.addr \div s) % 2 = 0
      <4>1. c = cur.addr
        BY <1>3, <2>2, <2>3, <3>1
      <4>2. cur.addr % (2 * s) = 0
        BY <1>3, <2>1, <2>3, <3>1, BuddiesAligned, Zenon
      <4>3. QED
        BY <4>1, <4>2, Zenon
    <3>2. CASE (cur.addr \div s) % 2 # 0
      <4>1. c = cur.addr - s
        BY <1>3, <2>2, <2>3, <3>2
      <4>2. (cur.addr - s) % (2 * s) = 0
        BY <1>3, <2>1, <2>3, <3>2, BuddiesAligned, Zenon
      <4>3. QED
        BY <4>1, <4>2, Zenon
    <3>3. QED
      BY <3>1, <3>2, Zenon
  <2>5. n.base % n.size = 0
    BY <1>13, <2>4, Zenon DEF s
  <2>6. QED
    BY <1>1, <1>12, <2>5, Zenon DEF PiecesAligned
<1>18. TableCovered(slab', SlabRuns')
  BY <1>1, <1>2, Zenon DEF SlabRuns
<1>19. QED
  BY <1>7, <1>8, <1>9, <1>10, <1>14, <1>15, <1>16, <1>17, <1>18, Zenon DEF IInv

LEMMA AllocNewSlabStep ==
  ASSUME CardinalityFacts, IInv, AllocNewSlab
  PROVE  IInv'
<1>1. /\ TypeOK /\ CarveInv /\ LoopInv /\ AllApart(Pieces) /\ PiecesManaged
      /\ TableInv(slab, SlabRuns) /\ SlabRuns \in SUBSET Runs /\ Sound(Pieces)
      /\ Covered /\ TableCovered(slab, SlabRuns) /\ PiecesAligned
  BY Unpacked, Zenon
<1>2. /\ pc = "split" /\ pc' = "idle" /\ cur.order = cur.want /\ cur' = NoCur
      /\ UNCHANGED <<heads, leaked, entry, cursor, donated>>
  BY Zenon DEF AllocNewSlab
<1> DEFINE total    == BlockSize[cur.want]
           added(k) == AddBlock(slab, k, cur.addr, total)
           run(r)   == [addr |-> r.addr, count |-> cur.count, via |-> BySlab]
<1>3. PICK k \in Slots :
        /\ FirstUnused(slab, k)
        /\ \E i \in Slots : \E r \in added(k)[i].free :
             /\ FirstFit(added(k), i, r, cur.count)
             /\ slab' = Take(added(k), i, r, cur.count)
             /\ live' = live \union {run(r)}
  BY Zenon DEF AllocNewSlab
<1> DEFINE tab == added(k)
<1>4. PICK i \in Slots : \E r \in tab[i].free :
        /\ FirstFit(tab, i, r, cur.count)
        /\ slab' = Take(tab, i, r, cur.count)
        /\ live' = live \union {run(r)}
  BY <1>3, Zenon
<1>5. PICK r \in tab[i].free :
        /\ FirstFit(tab, i, r, cur.count)
        /\ slab' = Take(tab, i, r, cur.count)
        /\ live' = live \union {run(r)}
  BY <1>4, Zenon
<1>6. /\ cur.addr \in Nat \ {0} /\ cur.want \in Orders /\ cur.count \in Nat
      /\ total \in Nat \ {0}
  BY <1>1, <1>2, SizeAssumption, Zenon DEF TypeOK, LoopInv
<1> DEFINE x == Piece("flight", 0, cur.addr, BlockSize[cur.order])
           n == Piece("slab", k, cur.addr, total)
<1>7. x \in Pieces
  BY <1>2, PieceKinds, Zenon
<1>8. TableInv(tab, SlabRuns)
  <2>1. ASSUME NEW j \in Slots, slab[j].used
        PROVE  \/ cur.addr + total <= slab[j].base
               \/ slab[j].base + slab[j].total <= cur.addr
    <3> DEFINE y == Piece("slab", j, slab[j].base, slab[j].total)
    <3>1. y \in Pieces /\ y # x
      BY <2>1, PieceKinds, Zenon DEF Piece
    <3>2. Apart(x, y)
      BY <1>1, <1>7, <3>1, Zenon DEF AllApart
    <3>3. QED
      BY <1>2, <3>2, Zenon DEF Apart, Piece
  <2>2. QED
    BY <1>1, <1>3, <1>6, <2>1, AddedBlock, Zenon DEF FirstUnused
<1>9. /\ tab[k].used /\ tab[k].base = cur.addr /\ tab[k].total = total
      /\ \A j \in Slots : j # k => tab[j] = slab[j]
  BY <1>1, Zenon DEF TypeOK, AddBlock, Block
<1>10. tab \in [Slots -> BlockInfo]
  BY <1>8, Zenon DEF TableInv
<1> HIDE DEF tab, added, total
<1>11. r.addr \in Nat \ {0}
  BY <1>5, <1>10 DEF BlockInfo, Ranges
<1>12. run(r) \in Handles /\ run(r) \in Runs /\ run(r).via = BySlab
  BY <1>6, <1>11, OrderTypes, Zenon DEF Handles, Runs
<1>13. SlabRuns' = SlabRuns \union {run(r)}
  BY <1>5, <1>12, Zenon DEF SlabRuns
<1>14. TableInv(slab', SlabRuns')
  <2>1. Fits(tab, i, r, cur.count)
    BY <1>5, Zenon DEF FirstFit
  <2>2. TableInv(Take(tab, i, r, cur.count), SlabRuns \union {run(r)})
    BY <1>1, <1>6, <1>8, <1>12, <2>1, TakeRun, Zenon
  <2>3. QED
    BY <1>5, <1>13, <2>2, Zenon
<1>15. \A j \in Slots : /\ slab'[j].used <=> tab[j].used
                        /\ slab'[j].base = tab[j].base
                        /\ slab'[j].total = tab[j].total
  BY <1>5, <1>10, Zenon DEF Take, Block, FirstFit, Fits
<1>16. TypeOK'
  BY <1>1, <1>2, <1>5, <1>12, <1>14, OrderTypes, Zenon DEF TypeOK, TableInv, NoCur
<1>17. CarveInv'
  BY <1>1, <1>2, Zenon DEF CarveInv
<1>18. LoopInv'
  <2>1. \A j \in Slots : slab'[j].used => slab'[j].base # 0 /\ slab'[j].total # 0
    BY <1>1, <1>6, <1>9, <1>15 DEF LoopInv
  <2>2. \A h \in live' : h.via # BySlab => TightOrder(h.via, h.count)
    BY <1>1, <1>5, <1>12, Zenon DEF LoopInv
  <2>3. QED
    BY <1>2, <2>1, <2>2, Zenon DEF LoopInv, TightOrder
<1>19. Pieces' \subseteq (Pieces \ {x}) \union {n}
  <2> SUFFICES ASSUME NEW w \in Pieces' PROVE w \in (Pieces \ {x}) \union {n}
    BY Zenon
  <2>1. CASE \E j \in Slots : slab'[j].used /\ w = Piece("slab", j, slab'[j].base, slab'[j].total)
    <3>1. PICK j \in Slots : slab'[j].used /\ w = Piece("slab", j, slab'[j].base, slab'[j].total)
      BY <2>1, Zenon
    <3>2. CASE j = k
      BY <1>9, <1>15, <3>1, <3>2, Zenon
    <3>3. CASE j # k
      <4>1. slab[j].used /\ w = Piece("slab", j, slab[j].base, slab[j].total)
        BY <1>9, <1>15, <3>1, <3>3, Zenon
      <4>2. w \in Pieces /\ w # x
        BY <4>1, PieceKinds, Zenon DEF Piece
      <4>3. QED
        BY <4>2, Zenon
    <3>4. QED
      BY <3>2, <3>3, Zenon
  <2>2. CASE w \in FreePieces' \union WholePieces' \union LostPieces'
    <3>1. \A g : g \in live' /\ g.via # BySlab <=> g \in live /\ g.via # BySlab
      BY <1>5, <1>12, Zenon
    <3>2. WholePieces' = WholePieces
      BY <3>1, Zenon DEF WholePieces
    <3>3. w \in FreePieces \union WholePieces \union LostPieces
      BY <1>2, <2>2, <3>2 DEF FreePieces, LostPieces
    <3>4. w \in Pieces /\ w.kind # "flight"
      BY <3>3, KindTells, Zenon
    <3>5. x.kind = "flight"
      BY Zenon DEF Piece
    <3> HIDE DEF x
    <3>6. QED
      BY <3>4, <3>5, Zenon
  <2>3. QED
    BY <1>2, <2>1, <2>2, PieceKindsNext, Zenon DEF Pieces, SlabPieces, FlightPieces
<1>20. n.base = x.base /\ n.size = x.size
  BY <1>2, Zenon DEF Piece, total
<1>21. PiecesApart'
  <2> HIDE DEF x, n
  <2>1. AllApart(Pieces')
    BY <1>1, <1>7, <1>19, <1>20, RelabelPiece, Zenon
  <2>2. QED
    BY <2>1, Zenon DEF PiecesApart, AllApart
<1>22. PiecesManaged'
  BY <1>1, <1>2, <1>7, <1>19, <1>20, SameMemory, Zenon DEF PiecesManaged
<1>23. Covered' /\ PiecesAligned'
  <2>1. n \in Pieces'
    BY <1>9, <1>15, PieceKindsNext, Zenon
  <2>2. ASSUME NEW w \in Pieces, w # x PROVE w \in Pieces'
    <3>1. \A j \in Slots : slab[j].used =>
            slab'[j].used /\ slab'[j].base = slab[j].base /\ slab'[j].total = slab[j].total
      BY <1>3, <1>9, <1>15, Zenon DEF FirstUnused
    <3>2. \A g \in live : g \in live'
      BY <1>5, Zenon
    <3>3. QED
      <4>1. w # Piece("flight", 0, cur.addr, BlockSize[cur.order])
        BY <2>2, Zenon
      <4>2. CASE \E o \in Orders : \E a \in heads[o] : w = Piece("free", o, a, BlockSize[o])
        BY <1>2, <4>2, PieceKindsNext, Zenon
      <4>3. CASE \E j \in Slots : slab[j].used /\ w = Piece("slab", j, slab[j].base, slab[j].total)
        <5>1. PICK j \in Slots : slab[j].used /\ w = Piece("slab", j, slab[j].base, slab[j].total)
          BY <4>3, Zenon
        <5>2. slab'[j].used /\ w = Piece("slab", j, slab'[j].base, slab'[j].total)
          BY <3>1, <5>1, Zenon
        <5>3. QED
          BY <5>2, PieceKindsNext, Zenon
      <4>4. CASE \E g \in live : g.via # BySlab /\ w = Piece("held", g.count, g.addr, BlockSize[g.via])
        BY <3>2, <4>4, PieceKindsNext, Zenon
      <4>5. CASE \E a \in leaked : w = Piece("lost", 0, a, 1)
        BY <1>2, <4>5, PieceKindsNext, Zenon
      <4>6. QED
        BY <2>2, <4>1, <4>2, <4>3, <4>4, <4>5, PieceKinds, Zenon
  <2>3. Managed' = Managed
    BY <1>2, SameMemory, Zenon
  <2> HIDE DEF x, n
  <2>4. Pieces' = (Pieces \ {x}) \union {n}
    BY <1>19, <2>1, <2>2, Zenon
  <2>5. QED
    BY <1>1, <1>7, <1>20, <2>3, <2>4, RelabelKeeps, Zenon
<1>24. TableCovered(slab', SlabRuns')
  <2>1. Fits(tab, i, r, cur.count)
    BY <1>5, Zenon DEF FirstFit
  <2>2. slab \in [Slots -> BlockInfo]
    BY <1>1, Zenon DEF TypeOK
  <2>3. TableCovered(tab, SlabRuns)
    BY <1>1, <1>6, <2>2, AddedCovered, Zenon DEF tab, added
  <2>4. TableCovered(Take(tab, i, r, cur.count), SlabRuns \union {run(r)})
    BY <1>1, <1>6, <1>8, <1>12, <2>1, <2>3, TakeCovered, Zenon
  <2>5. QED
    BY <1>5, <1>13, <2>4, Zenon
<1>25. QED
  BY <1>14, <1>16, <1>17, <1>18, <1>21, <1>22, <1>23, <1>24, Zenon DEF IInv

\* free_range computes the order that alloc_range had computed.
LEMMA TightUnique ==
  ASSUME NEW o \in Orders, NEW p \in Orders, NEW count \in Nat,
         TightOrder(o, count), TightOrder(p, count)
  PROVE  o = p
<1>1. o \in Nat /\ p \in Nat /\ BlockSize[o] \in Nat /\ BlockSize[p] \in Nat
  BY OrderTypes, SizeAssumption, Zenon
<1>2. QED
  BY <1>1 DEF TightOrder

HeldPiece(h) == Piece("held", h.count, h.addr, BlockSize[h.via])

\* Different blocks held whole are different pieces.
LEMMA HeldUnique ==
  ASSUME TypeOK, LoopInv, NEW g \in live, NEW h \in live,
         g.via # BySlab, h.via # BySlab, HeldPiece(g) = HeldPiece(h)
  PROVE  g = h
<1>1. g \in Handles /\ h \in Handles /\ g.via \in Orders /\ h.via \in Orders
  BY Zenon DEF TypeOK, Handles
<1>2. g.addr = h.addr /\ g.count = h.count /\ g.count \in Nat
  BY <1>1, Zenon DEF HeldPiece, Piece, Handles
<1>3. g.via = h.via
  BY <1>1, <1>2, TightUnique, Zenon DEF LoopInv
<1>4. QED
  BY <1>1, <1>2, <1>3 DEF Handles

\* A block held whole lies in no slab block, a run of the slab in one.
LEMMA RouteOfHandle ==
  ASSUME IInv, NEW h \in live, h.count > 0
  PROVE  Owns(slab, h.addr) <=> h.via = BySlab
<1>1. TypeOK /\ AllApart(Pieces) /\ TableInv(slab, SlabRuns) /\ Sound(Pieces)
  BY Unpacked, Zenon
<1>2. h.via = BySlab => Owns(slab, h.addr)
  BY <1>1, Zenon DEF SlabRuns, TableInv
<1>3. ASSUME h.via # BySlab, NEW i \in Slots, InSlot(slab, i, h.addr)
      PROVE  FALSE
  <2> DEFINE x == HeldPiece(h)
             y == Piece("slab", i, slab[i].base, slab[i].total)
  <2>1. x \in Pieces /\ y \in Pieces /\ x # y
    BY <1>3, PieceKinds, Zenon DEF HeldPiece, Piece, InSlot
  <2>2. Apart(x, y) /\ x.size \in Nat \ {0}
    BY <1>1, <2>1, Zenon DEF AllApart, Sound
  <2>3. /\ x.base = h.addr /\ y.base = slab[i].base /\ y.size = slab[i].total
        /\ h.addr \in Nat /\ slab[i].base \in Nat /\ slab[i].total \in Nat
    BY <1>1, Zenon DEF HeldPiece, Piece, TypeOK, Handles, BlockInfo
  <2> HIDE DEF x, y
  <2>4. QED
    BY <1>3, <2>2, <2>3 DEF Apart, InSlot
<1>4. QED
  BY <1>2, <1>3, Zenon DEF Owns

\* A block that a caller held whole goes to the merging loop or is lost.
LEMMA ReleasedPiece ==
  ASSUME IInv, NEW h \in live, h.via # BySlab, NEW n,
         n.base = h.addr, n.size = BlockSize[h.via],
         live' = live \ {h}, UNCHANGED <<heads, slab, donated>>,
         pc = "idle", pc' # "carve",
         \A w \in FlightPieces' \union LostPieces' : w = n \/ w \in LostPieces,
         n \in FlightPieces' \union LostPieces', leaked \subseteq leaked'
  PROVE  /\ PiecesApart' /\ PiecesManaged' /\ TableInv(slab', SlabRuns')
         /\ Covered' /\ PiecesAligned' /\ TableCovered(slab', SlabRuns')
<1> DEFINE x == HeldPiece(h)
<1>1. /\ TypeOK /\ LoopInv /\ AllApart(Pieces) /\ PiecesManaged
      /\ TableInv(slab, SlabRuns)
      /\ Covered /\ TableCovered(slab, SlabRuns) /\ PiecesAligned
  BY Unpacked, Zenon
<1>2. x \in Pieces
  BY PieceKinds, Zenon DEF HeldPiece
<1>3. Pieces' \subseteq (Pieces \ {x}) \union {n}
  <2> SUFFICES ASSUME NEW w \in Pieces' PROVE w \in (Pieces \ {x}) \union {n}
    BY Zenon
  <2>1. CASE w \in WholePieces'
    <3>1. PICK g \in live \ {h} : g.via # BySlab /\ w = HeldPiece(g)
      BY <2>1, Zenon DEF WholePieces, HeldPiece
    <3>2. w # x
      BY <1>1, <3>1, HeldUnique, Zenon
    <3>3. w \in Pieces
      BY <3>1, PieceKinds, Zenon DEF HeldPiece
    <3>4. QED
      BY <3>2, <3>3, Zenon
  <2>2. CASE w \in FreePieces' \union SlabPieces'
    <3>1. w \in FreePieces \union SlabPieces
      BY <2>2 DEF FreePieces, SlabPieces
    <3>2. w \in Pieces /\ w.kind # "held"
      BY <3>1, KindTells, Zenon
    <3>3. QED
      BY <3>2 DEF HeldPiece, Piece
  <2>3. CASE w \in LostPieces
    <3>1. w \in Pieces /\ w.kind # "held"
      BY <2>3, KindTells, Zenon
    <3>2. QED
      BY <3>1 DEF HeldPiece, Piece
  <2>4. QED
    BY <2>1, <2>2, <2>3, Zenon DEF Pieces
<1>4. n.base = x.base /\ n.size = x.size
  BY Zenon DEF HeldPiece, Piece
<1>5. PiecesApart'
  BY <1>1, <1>2, <1>3, <1>4, RelabelPiece, Zenon DEF PiecesApart, AllApart
<1>6. PiecesManaged'
  BY <1>1, <1>2, <1>3, <1>4, SameMemory, Zenon DEF PiecesManaged
<1>7. SlabRuns' = SlabRuns
  BY Zenon DEF SlabRuns
<1>8. Covered' /\ PiecesAligned'
  <2>1. n \in Pieces'
    BY Zenon DEF Pieces
  <2>2. ASSUME NEW w \in Pieces, w # x PROVE w \in Pieces'
    BY <2>2, PieceKinds, PieceKindsNext DEF HeldPiece
  <2>3. Managed' = Managed
    BY SameMemory, Zenon
  <2> HIDE DEF x
  <2>4. Pieces' = (Pieces \ {x}) \union {n}
    BY <1>3, <2>1, <2>2, Zenon
  <2>5. QED
    BY <1>1, <1>2, <1>4, <2>3, <2>4, RelabelKeeps, Zenon
<1>9. QED
  BY <1>1, <1>5, <1>6, <1>7, <1>8, Zenon

LEMMA FreeZeroStep ==
  ASSUME IInv, NEW h \in live, FreeZero(h)
  PROVE  IInv'
<1>1. /\ TypeOK /\ CarveInv /\ LoopInv /\ AllApart(Pieces) /\ PiecesManaged
      /\ TableInv(slab, SlabRuns) /\ SlabRuns \in SUBSET Runs
      /\ Covered /\ TableCovered(slab, SlabRuns) /\ PiecesAligned
  BY Unpacked, Zenon
<1>2. /\ pc = "idle" /\ pc' = "idle" /\ h.count = 0 /\ live' = live \ {h}
      /\ leaked' = leaked \union (IF h.via = BySlab THEN {} ELSE {h.addr})
      /\ UNCHANGED <<heads, slab, cur, entry, cursor, donated>>
  BY Zenon DEF FreeZero
<1>3. h.addr \in Nat \ {0} /\ h.via \in Orders \union {BySlab}
  BY <1>1, Zenon DEF TypeOK, Handles
<1>4. TypeOK'
  BY <1>1, <1>2, <1>3, Zenon DEF TypeOK
<1>5. CarveInv'
  BY <1>1, <1>2, Zenon DEF CarveInv
<1>6. LoopInv'
  BY <1>1, <1>2, Zenon DEF LoopInv, TightOrder
<1>7. CASE h.via = BySlab
  <2>1. SlabRuns' = SlabRuns \ {h}
    BY <1>2, Zenon DEF SlabRuns
  <2>2. \A i \in Slots : RunsIn(slab, SlabRuns \ {h}, i) = RunsIn(slab, SlabRuns, i)
    BY <1>2 DEF RunsIn
  <2>3. TableInv(slab, SlabRuns \ {h})
    BY <1>1, <2>2, Zenon DEF TableInv, SlotApart, SlotCounted, RunPages
  <2>4. Pieces' = Pieces
    <3>1. \A g : g \in live' /\ g.via # BySlab <=> g \in live /\ g.via # BySlab
      BY <1>2, <1>7, Zenon
    <3>2. WholePieces' = WholePieces
      BY <3>1, Zenon DEF WholePieces
    <3>3. leaked' = leaked
      BY <1>2, <1>7, Zenon
    <3>4. QED
      BY <1>2, <3>2, <3>3 DEF Pieces, FreePieces, FlightPieces, SlabPieces, LostPieces
  <2>5. PiecesManaged'
    BY <1>1, <1>2, <2>4, SameMemory, Zenon DEF PiecesManaged
  <2>6. Covered' /\ PiecesAligned'
    BY <1>1, <1>2, <2>4, SameMemory, SameKeeps, Zenon
  <2>7. TableCovered(slab, SlabRuns \ {h})
    <3>1. \A g : g.count > 0 => g # h
      BY <1>2
    <3>2. QED
      BY <1>1, <3>1, Zenon DEF TableCovered
  <2>8. QED
    BY <1>1, <1>2, <1>4, <1>5, <1>6, <2>1, <2>3, <2>4, <2>5, <2>6, <2>7, Zenon DEF IInv, PiecesApart, AllApart
<1>8. CASE h.via # BySlab
  <2>1. h.via = 0
    <3>1. TightOrder(h.via, 0) /\ h.via \in Orders
      BY <1>1, <1>2, <1>3, <1>8, Zenon DEF LoopInv
    <3>2. TightOrder(0, 0)
      BY SizeAssumption, OrderTypes DEF TightOrder
    <3>3. QED
      BY <3>1, <3>2, TightUnique, OrderTypes, Zenon
  <2> DEFINE n == Piece("lost", 0, h.addr, 1)
  <2>2. n.base = h.addr /\ n.size = BlockSize[h.via]
    BY <2>1, SizeAssumption, Zenon DEF Piece
  <2>3. /\ \A w \in FlightPieces' \union LostPieces' : w = n \/ w \in LostPieces
        /\ n \in LostPieces' /\ leaked \subseteq leaked'
    BY <1>2, <1>8, Zenon DEF FlightPieces, LostPieces
  <2> HIDE DEF n
  <2>4. /\ PiecesApart' /\ PiecesManaged' /\ TableInv(slab', SlabRuns')
        /\ Covered' /\ PiecesAligned' /\ TableCovered(slab', SlabRuns')
    BY <1>2, <1>8, <2>2, <2>3, ReleasedPiece, Zenon
  <2>5. QED
    BY <1>4, <1>5, <1>6, <2>4, Zenon DEF IInv
<1>9. QED
  BY <1>7, <1>8, Zenon

LEMMA DonateStep ==
  ASSUME IInv, NEW p \in Donatable, Donate(p)
  PROVE  IInv'
<1>1. /\ TypeOK /\ CarveInv /\ LoopInv /\ AllApart(Pieces) /\ PiecesManaged
      /\ TableInv(slab, SlabRuns) /\ Sound(Pieces)
      /\ Covered /\ TableCovered(slab, SlabRuns) /\ PiecesAligned
  BY Unpacked, Zenon
<1>2. /\ pc = "idle" /\ p \notin donated /\ donated' = donated \union {p}
      /\ FreeRange(p, 1)
      /\ UNCHANGED <<heads, live, leaked, entry, cursor>>
  BY Zenon DEF Donate
<1>3. p \in Nat \ {0} /\ p \notin Managed
  BY <1>2, EntriesAssumption, Zenon DEF Managed, CarvedPages
<1>4. ~Owns(slab, p)
  <2>1. ASSUME NEW i \in Slots, InSlot(slab, i, p) PROVE FALSE
    <3> DEFINE y == Piece("slab", i, slab[i].base, slab[i].total)
    <3>1. y \in Pieces
      BY <2>1, PieceKinds, Zenon DEF InSlot
    <3>2. slab[i].base \in Nat /\ slab[i].total \in Nat
      BY <1>1, Zenon DEF TypeOK, BlockInfo
    <3>3. y.base = slab[i].base /\ y.size = slab[i].total
      BY Zenon DEF Piece
    <3> HIDE DEF y
    <3>4. slab[i].base <= p /\ p < slab[i].base + slab[i].total
      BY <2>1, Zenon DEF InSlot
    <3>5. p \in Pages(y.base, y.size)
      BY <1>3, <3>2, <3>3, <3>4 DEF Pages
    <3>6. QED
      BY <1>1, <1>3, <3>1, <3>5, Zenon DEF PiecesManaged
  <2>2. QED
    BY <2>1, Zenon DEF Owns
<1>5. PICK o \in Orders :
        /\ TightOrder(o, 1) /\ pc' = "merge" /\ slab' = slab
        /\ cur' = [NoCur EXCEPT !.addr = p, !.order = o]
  BY <1>2, <1>4, Zenon DEF FreeRange, Owns
<1>6. BlockSize[o] = 1
  <2>1. TightOrder(0, 1)
    BY SizeAssumption, OrderTypes DEF TightOrder
  <2>2. o = 0
    BY <1>5, <2>1, TightUnique, OrderTypes, Zenon
  <2>3. QED
    BY <2>2, SizeAssumption, Zenon
<1>7. /\ cur'.addr = p /\ cur'.order = o
      /\ cur' \in [addr : Nat, order : Orders, want : Orders, count : Nat]
  BY <1>3, <1>5, OrderTypes, Zenon DEF NoCur
<1>8. TypeOK'
  BY <1>1, <1>2, <1>5, <1>7, Zenon DEF TypeOK
<1>9. CarveInv'
  BY <1>1, <1>2, <1>5, Zenon DEF CarveInv
<1>10. LoopInv'
  BY <1>1, <1>2, <1>3, <1>5, <1>7, Zenon DEF LoopInv, TightOrder
<1>11. TableInv(slab', SlabRuns')
  BY <1>1, <1>2, <1>5, Zenon DEF SlabRuns
<1> DEFINE n == Piece("flight", 0, p, 1)
<1>12. Pieces' \subseteq Pieces \union {n}
  <2>1. FlightPieces' = {n}
    BY <1>5, <1>6, <1>7, Zenon DEF FlightPieces
  <2>2. QED
    BY <1>2, <1>5, <2>1 DEF Pieces, FreePieces, SlabPieces, WholePieces, LostPieces
<1>13. n.base = p /\ n.size = 1 /\ Pages(n.base, n.size) = {p}
  <2>1. n.base = p /\ n.size = 1
    BY Zenon DEF Piece
  <2>2. Pages(p, 1) = {p}
    BY <1>3 DEF Pages
  <2>3. QED
    BY <2>1, <2>2, Zenon
<1> HIDE DEF n
<1>14. PiecesApart'
  <2>1. Sound({n})
    BY <1>3, <1>13 DEF Sound
  <2>2. Pages(n.base, n.size) \cap Managed = {}
    BY <1>3, <1>13, Zenon
  <2>3. AllApart(Pieces')
    BY <1>1, <1>12, <2>1, <2>2, NewPiece, Zenon DEF PiecesManaged
  <2>4. QED
    BY <2>3, Zenon DEF AllApart, PiecesApart
<1>15. PiecesManaged'
  <2>1. Managed' = Managed \union {p}
    BY <1>2, <1>5, Zenon DEF Managed, CarvedPages
  <2>2. QED
    BY <1>1, <1>12, <1>13, <2>1, StayManaged, Zenon
<1>16. Covered' /\ PiecesAligned'
  <2>1. n \in Pieces' /\ Pieces \subseteq Pieces'
    <3>1. FlightPieces' = {n} /\ FlightPieces = {}
      BY <1>2, <1>5, <1>6, <1>7, Zenon DEF FlightPieces, n
    <3>2. QED
      BY <1>2, <1>5, <3>1 DEF Pieces, FreePieces, SlabPieces, WholePieces, LostPieces
  <2>2. Managed' = Managed \union {p}
    BY <1>2, <1>5, Zenon DEF Managed, CarvedPages
  <2>3. Covered'
    BY <1>1, <1>13, <2>1, <2>2, StayCovered, Zenon
  <2>4. n.base % n.size = 0
    BY <1>3, <1>13
  <2>5. QED
    BY <1>1, <1>12, <2>3, <2>4, Zenon DEF PiecesAligned
<1>17. TableCovered(slab', SlabRuns')
  BY <1>1, <1>2, <1>5, Zenon DEF SlabRuns
<1>18. QED
  BY <1>8, <1>9, <1>10, <1>11, <1>14, <1>15, <1>16, <1>17, Zenon DEF IInv

LEMMA FreeStep ==
  ASSUME CardinalityFacts, IInv, NEW h \in live, Free(h)
  PROVE  IInv'
<1>1. /\ TypeOK /\ CarveInv /\ LoopInv /\ AllApart(Pieces) /\ PiecesManaged
      /\ TableInv(slab, SlabRuns) /\ SlabRuns \in SUBSET Runs /\ Sound(Pieces)
      /\ Covered /\ TableCovered(slab, SlabRuns) /\ PiecesAligned
  BY Unpacked, Zenon
<1>2. /\ pc = "idle" /\ live' = live \ {h} /\ h.count # 0 /\ FreeRange(h.addr, h.count)
      /\ UNCHANGED <<heads, leaked, entry, cursor, donated>>
  BY Zenon DEF Free
<1>3. h \in Handles /\ h.addr \in Nat \ {0} /\ h.count \in Nat \ {0} /\ h.count > 0
  BY <1>1, <1>2 DEF TypeOK, Handles
<1>4. Owns(slab, h.addr) <=> h.via = BySlab
  BY <1>3, RouteOfHandle, Zenon
<1>5. CASE ~Owns(slab, h.addr)
  <2>1. PICK o \in Orders :
          /\ TightOrder(o, h.count) /\ pc' = "merge" /\ slab' = slab
          /\ cur' = [NoCur EXCEPT !.addr = h.addr, !.order = o]
    BY <1>2, <1>5, Zenon DEF FreeRange, Owns
  <2>2. h.via # BySlab /\ h.via = o
    <3>1. h.via \in Orders /\ TightOrder(h.via, h.count)
      BY <1>1, <1>3, <1>4, <1>5, Zenon DEF Handles, LoopInv
    <3>2. QED
      BY <1>3, <1>4, <1>5, <2>1, <3>1, TightUnique, Zenon
  <2>3. /\ cur'.addr = h.addr /\ cur'.order = o
        /\ cur' \in [addr : Nat, order : Orders, want : Orders, count : Nat]
    BY <1>3, <2>1, OrderTypes, Zenon DEF NoCur
  <2> DEFINE n == Piece("flight", 0, h.addr, BlockSize[h.via])
  <2>4. n.base = h.addr /\ n.size = BlockSize[h.via]
    BY Zenon DEF Piece
  <2>5. /\ \A w \in FlightPieces' \union LostPieces' : w = n \/ w \in LostPieces
        /\ n \in FlightPieces' /\ leaked \subseteq leaked'
    BY <1>2, <2>1, <2>2, <2>3, Zenon DEF FlightPieces, LostPieces
  <2> HIDE DEF n
  <2>6. /\ PiecesApart' /\ PiecesManaged' /\ TableInv(slab', SlabRuns')
        /\ Covered' /\ PiecesAligned' /\ TableCovered(slab', SlabRuns')
    BY <1>2, <2>1, <2>2, <2>4, <2>5, ReleasedPiece, Zenon
  <2>7. TypeOK'
    BY <1>1, <1>2, <2>1, <2>3, Zenon DEF TypeOK
  <2>8. CarveInv'
    BY <1>1, <1>2, <2>1, Zenon DEF CarveInv
  <2>9. LoopInv'
    BY <1>1, <1>2, <1>3, <2>1, <2>3, Zenon DEF LoopInv, TightOrder
  <2>10. QED
    BY <2>6, <2>7, <2>8, <2>9, Zenon DEF IInv
<1>6. CASE Owns(slab, h.addr)
  <2>1. PICK i \in Slots : InSlot(slab, i, h.addr) /\ SlabFree(i, h.addr, h.count)
    BY <1>2, <1>6, Zenon DEF FreeRange
  <2>2. h \in SlabRuns /\ SlabRuns' = SlabRuns \ {h}
    BY <1>2, <1>4, <1>6, Zenon DEF SlabRuns
  <2>3. h.count <= slab[i].allocated /\ slab[i].allocated \in Nat
    <3>1. h.count <= slab[i].allocated
      BY <1>1, <1>3, <2>1, <2>2, RunPagesWithout, Zenon
    <3>2. QED
      BY <1>1, <3>1, Zenon DEF TypeOK, BlockInfo
  <2>4. /\ slab[i].used /\ slab[i].base \in Nat \ {0} /\ slab[i].total \in Nat \ {0}
    BY <1>1, <2>1, Zenon DEF InSlot, TypeOK, BlockInfo, LoopInv
  <2>5. \A g : g \in live' /\ g.via # BySlab <=> g \in live /\ g.via # BySlab
    BY <1>2, <2>2, Zenon DEF SlabRuns
  <2>6. WholePieces' = WholePieces
    BY <2>5, Zenon DEF WholePieces
  <2>7. CASE /\ slab' = Link(slab, i, h.addr, h.count, slab[i].allocated - h.count)
             /\ UNCHANGED <<pc, cur>>
    <3>1. TableInv(slab', SlabRuns')
      <4>1. h.addr # 0
        BY <1>3, Zenon
      <4>2. QED
        BY <1>1, <1>3, <2>1, <2>2, <2>7, <4>1, LinkedRun, Zenon
    <3>2. \A j \in Slots : /\ slab'[j].used <=> slab[j].used
                           /\ slab'[j].base = slab[j].base
                           /\ slab'[j].total = slab[j].total
      BY <1>1, <2>4, <2>7, Zenon DEF Link, Block, TypeOK
    <3>3. Pieces' = Pieces
      <4>1. SlabPieces' = SlabPieces
        BY <3>2, Zenon DEF SlabPieces
      <4>2. QED
        BY <1>2, <2>6, <2>7, <4>1 DEF Pieces, FreePieces, FlightPieces, LostPieces
    <3>4. TypeOK'
      BY <1>1, <1>2, <2>7, <3>1, Zenon DEF TypeOK, TableInv
    <3>5. CarveInv' /\ LoopInv'
      BY <1>1, <1>2, <2>7, <3>2, Zenon DEF CarveInv, LoopInv, TightOrder
    <3>6. PiecesManaged'
      BY <1>1, <1>2, <2>7, <3>3, SameMemory, Zenon DEF PiecesManaged
    <3>7. Covered' /\ PiecesAligned'
      BY <1>1, <1>2, <2>7, <3>3, SameMemory, SameKeeps, Zenon
    <3>8. TableCovered(slab', SlabRuns')
      BY <1>1, <1>3, <2>1, <2>2, <2>7, LinkCovered, Zenon
    <3>9. QED
      BY <1>1, <3>1, <3>3, <3>4, <3>5, <3>6, <3>7, <3>8, Zenon DEF IInv, PiecesApart, AllApart
  <2>8. CASE /\ slab[i].allocated - h.count = 0 /\ slab' = GiveUp(slab, i) /\ pc' = "merge"
             /\ \E o \in Orders :
                  /\ BlockSize[o] = slab[i].total
                  /\ cur' = [NoCur EXCEPT !.addr = slab[i].base, !.order = o]
    <3>1. PICK o \in Orders : /\ BlockSize[o] = slab[i].total
                              /\ cur' = [NoCur EXCEPT !.addr = slab[i].base, !.order = o]
      BY <2>8, Zenon
    <3>2. /\ cur'.addr = slab[i].base /\ cur'.order = o
          /\ cur' \in [addr : Nat, order : Orders, want : Orders, count : Nat]
      BY <2>4, <3>1, OrderTypes, Zenon DEF NoCur
    <3>3. TableInv(slab', SlabRuns')
      BY <1>1, <1>3, <2>1, <2>2, <2>8, GivenUpBlock, Zenon
    <3>4. /\ ~slab'[i].used
          /\ \A j \in Slots : j # i => slab'[j] = slab[j]
      BY <1>1, <2>8, Zenon DEF GiveUp, NoBlock, TypeOK
    <3>5. TypeOK'
      BY <1>1, <1>2, <2>8, <3>2, <3>3, Zenon DEF TypeOK, TableInv
    <3>6. CarveInv'
      BY <1>1, <1>2, <2>8, Zenon DEF CarveInv
    <3>7. LoopInv'
      BY <1>1, <1>2, <2>4, <2>8, <3>2, <3>4 DEF LoopInv, TightOrder
    <3> DEFINE x == Piece("slab", i, slab[i].base, slab[i].total)
               n == Piece("flight", 0, slab[i].base, slab[i].total)
    <3>8. x \in Pieces
      BY <2>4, PieceKinds, Zenon
    <3>9. Pieces' \subseteq (Pieces \ {x}) \union {n}
      <4> SUFFICES ASSUME NEW w \in Pieces' PROVE w \in (Pieces \ {x}) \union {n}
        BY Zenon
      <4>1. CASE w \in SlabPieces'
        <5>1. PICK j \in Slots : slab'[j].used /\ w = Piece("slab", j, slab'[j].base, slab'[j].total)
          BY <4>1, Zenon DEF SlabPieces
        <5>2. j # i /\ slab[j].used /\ w = Piece("slab", j, slab[j].base, slab[j].total)
          BY <3>4, <5>1, Zenon
        <5>3. w \in Pieces /\ w # x
          BY <5>2, PieceKinds, Zenon DEF Piece
        <5>4. QED
          BY <5>3, Zenon
      <4>2. CASE w \in FlightPieces'
        BY <2>8, <3>1, <3>2, <4>2, Zenon DEF FlightPieces
      <4>3. CASE w \in FreePieces' \union WholePieces' \union LostPieces'
        <5>1. w \in FreePieces \union WholePieces \union LostPieces
          BY <1>2, <2>6, <4>3 DEF FreePieces, LostPieces
        <5>2. w \in Pieces /\ w.kind # "slab"
          BY <5>1, KindTells, Zenon
        <5>3. QED
          BY <5>2 DEF Piece
      <4>4. QED
        BY <4>1, <4>2, <4>3, Zenon DEF Pieces
    <3>10. n.base = x.base /\ n.size = x.size
      BY Zenon DEF Piece
    <3>11. PiecesApart'
      BY <1>1, <3>8, <3>9, <3>10, RelabelPiece DEF PiecesApart, AllApart
    <3>12. PiecesManaged'
      BY <1>1, <1>2, <2>8, <3>8, <3>9, <3>10, SameMemory, Zenon DEF PiecesManaged
    <3>13. Covered' /\ PiecesAligned'
      <4>1. n \in Pieces'
        BY <2>8, <3>1, <3>2, PieceKindsNext, Zenon
      <4>2. ASSUME NEW w \in Pieces, w # x PROVE w \in Pieces'
        <5>1. CASE \E j \in Slots : slab[j].used /\ w = Piece("slab", j, slab[j].base, slab[j].total)
          <6>1. PICK j \in Slots : slab[j].used /\ w = Piece("slab", j, slab[j].base, slab[j].total)
            BY <5>1, Zenon
          <6>2. slab'[j].used /\ w = Piece("slab", j, slab'[j].base, slab'[j].total)
            BY <3>4, <4>2, <6>1, Zenon
          <6>3. QED
            BY <6>2, PieceKindsNext, Zenon
        <5>2. CASE ~\E j \in Slots : slab[j].used /\ w = Piece("slab", j, slab[j].base, slab[j].total)
          BY <1>2, <2>5, <5>2, PieceKinds, PieceKindsNext, Zenon
        <5>3. QED
          BY <5>1, <5>2, Zenon
      <4>3. Managed' = Managed
        BY <1>2, <2>8, SameMemory, Zenon
      <4> HIDE DEF x, n
      <4>4. Pieces' = (Pieces \ {x}) \union {n}
        BY <3>9, <4>1, <4>2, Zenon
      <4>5. QED
        BY <1>1, <3>8, <3>10, <4>3, <4>4, RelabelKeeps, Zenon
    <3>14. TableCovered(slab', SlabRuns')
      BY <1>1, <1>3, <2>1, <2>2, <2>8, GiveUpCovered, Zenon
    <3>15. QED
      BY <3>3, <3>5, <3>6, <3>7, <3>11, <3>12, <3>13, <3>14, Zenon DEF IInv
  <2>9. ~(slab[i].allocated - h.count < 0)
    BY <1>3, <2>3
  <2>10. \/ /\ slab' = Link(slab, i, h.addr, h.count, slab[i].allocated - h.count)
            /\ UNCHANGED <<pc, cur>>
         \/ /\ slab[i].allocated - h.count = 0 /\ slab' = GiveUp(slab, i) /\ pc' = "merge"
            /\ \E o \in Orders :
                 /\ BlockSize[o] = slab[i].total
                 /\ cur' = [NoCur EXCEPT !.addr = slab[i].base, !.order = o]
    BY <2>1, <2>9, Zenon DEF SlabFree
  <2>11. QED
    BY <2>7, <2>8, <2>10, Zenon
<1>7. QED
  BY <1>5, <1>6, Zenon

-----------------------------------------------------------------------------
(* The invariant.                                                          *)

LEMMA StutterStep == IInv /\ UNCHANGED vars => IInv'
<1> SUFFICES ASSUME IInv, UNCHANGED vars PROVE IInv'
  BY Zenon
<1>1. Pieces' = Pieces /\ Managed' = Managed /\ SlabRuns' = SlabRuns
  BY DEF vars, Pieces, FreePieces, FlightPieces, SlabPieces, WholePieces,
         LostPieces, Managed, CarvedPages, SlabRuns
<1>2. TypeOK' /\ CarveInv' /\ LoopInv'
  BY Zenon DEF IInv, vars, TypeOK, CarveInv, LoopInv, TightOrder
<1>3. QED
  BY <1>1, <1>2, Zenon DEF IInv, vars, PiecesApart, PiecesManaged, Covered, PiecesAligned

LEMMA NextInv == CardinalityFacts /\ IInv /\ [Next]_vars => IInv'
<1> SUFFICES ASSUME CardinalityFacts, IInv, [Next]_vars PROVE IInv'
  BY Zenon
<1>1. CASE Carve
  BY <1>1, CarveStep, Zenon
<1>2. CASE NextEntry
  BY <1>2, NextEntryStep, Zenon
<1>3. CASE \E count \in Counts : AllocFromSlab(count)
  BY <1>3, AllocFromSlabStep, Zenon
<1>4. CASE \E count \in Counts : AllocPop(count)
  BY <1>4, AllocPopStep, Zenon
<1>5. CASE Split
  BY <1>5, SplitStep, Zenon
<1>6. CASE AllocWhole
  BY <1>6, AllocWholeStep, Zenon
<1>7. CASE AllocNewSlab
  BY <1>7, AllocNewSlabStep, Zenon
<1>8. CASE \E h \in live : Free(h)
  BY <1>8, FreeStep, Zenon
<1>9. CASE \E h \in live : FreeZero(h)
  BY <1>9, FreeZeroStep, Zenon
<1>10. CASE \E p \in Donatable : Donate(p)
  BY <1>10, DonateStep, Zenon
<1>11. CASE Merge
  BY <1>11, MergeStep, Zenon
<1>12. CASE PushFreed
  BY <1>12, PushFreedStep, Zenon
<1>13. CASE UNCHANGED vars
  BY <1>13, StutterStep, Zenon
<1>14. QED
  BY <1>1, <1>2, <1>3, <1>4, <1>5, <1>6, <1>7, <1>8, <1>9, <1>10, <1>11, <1>12, <1>13, Zenon
     DEF Next

-----------------------------------------------------------------------------
(* No block is lost.                                                       *)

\* A block is in the pieces or lost; a slab block is in its ranges and runs.
LEMMA CoverIsExact ==
  ASSUME IInv
  PROVE  NothingLost
<1>1. /\ TypeOK /\ PiecesManaged /\ Covered /\ TableInv(slab, SlabRuns) /\ SlabRuns \in SUBSET Runs
      /\ TableCovered(slab, SlabRuns)
  BY Unpacked, Zenon
<1>2. Managed = UNION {Pages(x.base, x.size) : x \in Pieces}
  BY <1>1, Zenon DEF Covered, PiecesManaged
<1>3. ASSUME NEW i \in Slots, slab[i].used
      PROVE  Pages(slab[i].base, slab[i].total)
               = RunPages(slab, SlabRuns, i) \union
                 UNION {Pages(x.addr, x.count) : x \in slab[i].free}
  <2>1. /\ slab[i].base \in Nat /\ slab[i].total \in Nat /\ SlotApart(slab, SlabRuns, i)
        /\ \A x \in slab[i].free : x.addr \in Nat /\ x.count \in Nat
        /\ \A h \in SlabRuns : h.addr \in Nat /\ h.count \in Nat
    <3>1. slab[i] \in BlockInfo /\ SlotApart(slab, SlabRuns, i)
      BY <1>1, <1>3, Zenon DEF TableInv
    <3>2. \A h \in SlabRuns : h.addr \in Nat /\ h.count \in Nat
      BY <1>1, Zenon DEF Runs
    <3>3. QED
      BY <3>1, <3>2, Zenon DEF BlockInfo, Ranges
  <2>2. \A x \in slab[i].free : Pages(x.addr, x.count) \subseteq Pages(slab[i].base, slab[i].total)
    <3>1. \A x \in slab[i].free : Inside(slab[i], x)
      BY <2>1, Zenon DEF SlotApart
    <3>2. QED
      BY <2>1, <3>1 DEF Inside, Pages
  <2>3. \A h \in RunsIn(slab, SlabRuns, i) : Pages(h.addr, h.count) \subseteq Pages(slab[i].base, slab[i].total)
    <3>1. \A h \in RunsIn(slab, SlabRuns, i) : h \in SlabRuns /\ Inside(slab[i], h)
      BY <2>1, Zenon DEF RunsIn, SlotApart
    <3>2. QED
      BY <2>1, <3>1 DEF Inside, Pages
  <2>4. \A p \in Pages(slab[i].base, slab[i].total) :
          \/ \E x \in slab[i].free : p \in Pages(x.addr, x.count)
          \/ \E h \in RunsIn(slab, SlabRuns, i) : p \in Pages(h.addr, h.count)
    BY <1>1, <1>3, Zenon DEF TableCovered, RunsIn
  <2>5. QED
    BY <2>2, <2>3, <2>4, Zenon DEF RunPages
<1>4. QED
  BY <1>2, <1>3, Zenon DEF NothingLost

-----------------------------------------------------------------------------
(* The allocator implements PageOwnership.                                 *)

\* The buddy-level piece that a run lies in.
Home(h, x) ==
  /\ x \in Pieces
  /\ x.base <= h.addr /\ h.addr + h.count <= x.base + x.size
  /\ \/ h.via # BySlab /\ x = HeldPiece(h)
     \/ h.via = BySlab /\ \E i \in Slots : /\ h \in RunsIn(slab, SlabRuns, i)
                                           /\ x = Piece("slab", i, slab[i].base, slab[i].total)

LEMMA HasHome ==
  ASSUME IInv, NEW h \in live, h.count > 0
  PROVE  \E x : Home(h, x)
<1>1. /\ TypeOK /\ LoopInv /\ TableInv(slab, SlabRuns)
      /\ h.addr \in Nat /\ h.count \in Nat /\ h.via \in Orders \union {BySlab}
  BY Unpacked, Zenon DEF TypeOK, Handles
<1>2. CASE h.via = BySlab
  <2>1. PICK i \in Slots : InSlot(slab, i, h.addr)
    BY <1>1, <1>2, Zenon DEF SlabRuns, TableInv, Owns
  <2>2. h \in RunsIn(slab, SlabRuns, i) /\ slab[i].used
    BY <1>2, <2>1, Zenon DEF RunsIn, SlabRuns, InSlot
  <2>3. Inside(slab[i], h)
    BY <1>1, <2>2, Zenon DEF TableInv, SlotApart
  <2> DEFINE x == Piece("slab", i, slab[i].base, slab[i].total)
  <2>4. x \in Pieces /\ x.base = slab[i].base /\ x.size = slab[i].total
    BY <2>2, PieceKinds, Zenon DEF Piece
  <2>5. Home(h, x)
    BY <1>2, <2>2, <2>3, <2>4, Zenon DEF Home, Inside
  <2>6. QED
    BY <2>5, Zenon
<1>3. CASE h.via # BySlab
  <2>1. TightOrder(h.via, h.count) /\ h.via \in Orders
    BY <1>1, <1>3, Zenon DEF LoopInv
  <2>2. BlockSize[h.via] \in Nat /\ h.count <= BlockSize[h.via]
    BY <2>1, SizeAssumption, Zenon DEF TightOrder
  <2> DEFINE x == HeldPiece(h)
  <2>3. x \in Pieces /\ x.base = h.addr /\ x.size = BlockSize[h.via]
    BY <1>3, PieceKinds, Zenon DEF HeldPiece, Piece
  <2> HIDE DEF x
  <2>4. x.base <= h.addr /\ h.addr + h.count <= x.base + x.size
    BY <1>1, <2>2, <2>3
  <2>5. Home(h, x)
    BY <1>3, <2>3, <2>4, Zenon DEF Home, x
  <2>6. QED
    BY <2>5, Zenon
<1>4. QED
  BY <1>2, <1>3, Zenon

\* What a caller holds is managed, and nobody else holds any of it.
LEMMA RunsPrivate ==
  ASSUME IInv, NEW h \in live, h.count > 0
  PROVE  /\ Pages(h.addr, h.count) \subseteq Managed
         /\ \A g \in live : g # h /\ g.count > 0 =>
              Pages(g.addr, g.count) \cap Pages(h.addr, h.count) = {}
<1>1. /\ TypeOK /\ LoopInv /\ TableInv(slab, SlabRuns) /\ AllApart(Pieces) /\ PiecesManaged
      /\ Sound(Pieces) /\ h.addr \in Nat /\ h.count \in Nat
  BY Unpacked, Zenon DEF TypeOK, Handles
<1>2. PICK x : Home(h, x)
  BY HasHome, Zenon
<1>3. /\ x \in Pieces /\ x.base \in Nat /\ x.size \in Nat
      /\ x.base <= h.addr /\ h.addr + h.count <= x.base + x.size
  BY <1>1, <1>2, Zenon DEF Home, Sound
<1>4. Pages(h.addr, h.count) \subseteq Managed
  <2>1. Pages(h.addr, h.count) \subseteq Pages(x.base, x.size)
    BY <1>1, <1>3 DEF Pages
  <2>2. QED
    BY <1>1, <1>3, <2>1, Zenon DEF PiecesManaged
<1>5. ASSUME NEW g \in live, g # h, g.count > 0
      PROVE  Pages(g.addr, g.count) \cap Pages(h.addr, h.count) = {}
  <2>1. g.addr \in Nat /\ g.count \in Nat
    BY <1>1, Zenon DEF TypeOK, Handles
  <2>2. PICK y : Home(g, y)
    BY <1>5, HasHome, Zenon
  <2>3. /\ y \in Pieces /\ y.base \in Nat /\ y.size \in Nat
        /\ y.base <= g.addr /\ g.addr + g.count <= y.base + y.size
    BY <1>1, <2>2, Zenon DEF Home, Sound
  <2>4. CASE x # y
    <3>1. Apart(x, y)
      BY <1>1, <1>3, <2>3, <2>4, Zenon DEF AllApart
    <3>2. QED
      BY <1>1, <1>3, <2>1, <2>3, <3>1 DEF Apart, Pages
  <2>5. CASE x = y
    <3>1. h.via = BySlab /\ g.via = BySlab
      <4>1. HeldPiece(h).kind = "held" /\ HeldPiece(g).kind = "held"
        BY Zenon DEF HeldPiece, Piece
      <4>2. \A i : Piece("slab", i, slab[i].base, slab[i].total).kind = "slab"
        BY Zenon DEF Piece
      <4>3. CASE h.via # BySlab /\ g.via # BySlab
        <5>1. HeldPiece(h) = HeldPiece(g)
          BY <1>2, <2>2, <2>5, <4>3, Zenon DEF Home
        <5>2. QED
          BY <1>1, <1>5, <4>3, <5>1, HeldUnique, Zenon
      <4>4. QED
        BY <1>2, <2>2, <2>5, <4>1, <4>2, <4>3, Zenon DEF Home
    <3>2. PICK i \in Slots : h \in RunsIn(slab, SlabRuns, i) /\ x = Piece("slab", i, slab[i].base, slab[i].total)
      BY <1>2, <3>1, Zenon DEF Home
    <3>3. PICK j \in Slots : g \in RunsIn(slab, SlabRuns, j) /\ y = Piece("slab", j, slab[j].base, slab[j].total)
      BY <2>2, <3>1, Zenon DEF Home
    <3>4. i = j
      <4>1. x.id = i /\ y.id = j
        BY <3>2, <3>3, Zenon DEF Piece
      <4>2. QED
        BY <2>5, <4>1, Zenon
    <3>5. slab[i].used
      BY <3>2, Zenon DEF RunsIn, InSlot
    <3>6. RangeApart(g, h)
      BY <1>1, <1>5, <3>2, <3>3, <3>4, <3>5, Zenon DEF TableInv, SlotApart
    <3>7. QED
      BY <1>1, <2>1, <3>6 DEF RangeApart, Pages
  <2>6. QED
    BY <2>4, <2>5, Zenon
<1>6. QED
  BY <1>4, <1>5, Zenon


HoldersPrivate ==
  \A h \in live : h.count > 0 =>
    /\ Pages(h.addr, h.count) \subseteq Managed
    /\ \A g \in live : g # h /\ g.count > 0 =>
         Pages(g.addr, g.count) \cap Pages(h.addr, h.count) = {}

Owned == {h \in live : h.count > 0}

\* A call that adds one run to those held.
LEMMA Acquires ==
  ASSUME HoldersPrivate', NEW h, live' = live \union {h}, Managed' = Managed
  PROVE  [Owners!Next]_<<Owned, Managed>>
<1>1. CASE h \in live \/ ~(h.count > 0)
  BY <1>1, Zenon DEF Owned
<1>2. CASE h \notin live /\ h.count > 0
  <2>1. Owned' = Owned \union {h} /\ h \in Owned' \ Owned
    BY <1>2, Zenon DEF Owned
  <2>2. Owners!RunPages(h) \subseteq Managed
    BY <1>2, Zenon DEF HoldersPrivate, Owners!RunPages, Pages
  <2>3. \A g \in Owned : Owners!RunPages(g) \cap Owners!RunPages(h) = {}
    BY <1>2, Zenon DEF HoldersPrivate, Owned, Owners!RunPages, Pages
  <2>4. QED
    BY <2>1, <2>2, <2>3, Zenon DEF Owned, Owners!Next, Owners!Acquire
<1>3. QED
  BY <1>1, <1>2, Zenon

\* A call that takes one run from those held.
LEMMA Releases ==
  ASSUME NEW h \in live, live' = live \ {h}, Managed' = Managed
  PROVE  [Owners!Next]_<<Owned, Managed>>
<1>1. CASE h.count > 0
  <2>1. h \in Owned /\ Owned' = Owned \ {h}
    BY <1>1, Zenon DEF Owned
  <2>2. QED
    BY <2>1, Zenon DEF Owned, Owners!Next, Owners!Release
<1>2. CASE ~(h.count > 0)
  BY <1>2, Zenon DEF Owned
<1>3. QED
  BY <1>1, <1>2, Zenon

\* Memory that comes under management.
LEMMA Grows ==
  ASSUME HoldersPrivate, UNCHANGED live, NEW N, N \subseteq Nat \ {0}, N # {},
         N \cap Managed = {}, Managed' = Managed \union N
  PROVE  [Owners!Next]_<<Owned, Managed>>
<1>1. Owned' = Owned
  BY Zenon DEF Owned
<1>2. /\ Managed \subseteq Managed' /\ Managed' # Managed
      /\ Managed' \ Managed = N
  BY Zenon
<1>3. \A h \in Owned : Owners!RunPages(h) \cap N = {}
  BY Zenon DEF HoldersPrivate, Owned, Owners!RunPages, Pages
<1>4. QED
  BY <1>1, <1>2, <1>3, Zenon DEF Owned, Owners!Next, Owners!Grow

LEMMA OwnershipStep ==
  IInv /\ HoldersPrivate /\ HoldersPrivate' /\ [Next]_vars => [Owners!Next]_<<Owned, Managed>>
<1> SUFFICES ASSUME IInv, HoldersPrivate, HoldersPrivate', [Next]_vars
             PROVE  [Owners!Next]_<<Owned, Managed>>
  BY Zenon
<1>1. TypeOK /\ CarveInv
  BY Zenon DEF IInv
<1>2. CASE Carve
  <2>1. PICK o \in Orders :
          /\ CarveOrder(o, cursor, Entries[entry].end - cursor)
          /\ cursor' = cursor + BlockSize[o]
    BY <1>2, Zenon DEF Carve
  <2>2. /\ pc = "carve" /\ entry \in DOMAIN Entries
        /\ UNCHANGED <<live, pc, entry, donated>>
    <3>1. /\ pc = "carve" /\ entry <= Len(Entries)
          /\ UNCHANGED <<live, pc, entry, donated>>
      BY <1>2, Zenon DEF Carve
    <3>2. entry \in Nat \ {0}
      BY <1>1, Zenon DEF TypeOK
    <3>3. entry \in DOMAIN Entries
      BY <3>1, <3>2, EntryTypes
    <3>4. QED
      BY <3>1, <3>3, Zenon
  <2>3. /\ Entries[entry].start \in Nat \ {0} /\ Entries[entry].end \in Nat
        /\ cursor \in Nat \ {0} /\ Entries[entry].start <= cursor
        /\ BlockSize[o] \in Nat \ {0} /\ entry \in Nat
    <3>1. Entries[entry].start \in Nat \ {0} /\ Entries[entry].end \in Nat /\ entry \in Nat
      BY <2>2, EntryTypes
    <3>2. cursor \in Nat /\ Entries[entry].start <= cursor
      BY <1>1, <2>2, Zenon DEF TypeOK, CarveInv
    <3>3. BlockSize[o] \in Nat \ {0}
      BY SizeAssumption, Zenon
    <3>4. QED
      BY <3>1, <3>2, <3>3
  <2> DEFINE N == Pages(cursor, BlockSize[o])
  <2>4. N \subseteq Nat \ {0} /\ N # {}
    <3>1. cursor \in N
      BY <2>3 DEF Pages
    <3>2. QED
      BY <2>3, <3>1 DEF Pages
  <2>5. N \cap Managed = {}
    <3>1. ASSUME NEW p \in N, NEW i \in DOMAIN Entries PROVE p \notin CarvedPages(i)
      <4>1. i \in Nat /\ Entries[i].start \in Nat /\ Entries[i].end \in Nat
        BY EntryTypes
      <4>2. p \in Nat /\ cursor <= p
        BY <2>3 DEF Pages
      <4>3. i < entry => Entries[i].end <= Entries[entry].start
        BY <2>2, EntriesAssumption, Zenon
      <4>4. QED
        BY <2>2, <2>3, <4>1, <4>2, <4>3 DEF CarvedPages, EntryPages
    <3>2. QED
      BY <1>1, <2>2, <3>1, Zenon DEF Managed, CarveInv
  <2>6. Managed' = Managed \union N
    <3>1. \A i \in DOMAIN Entries : i # entry => CarvedPages(i)' = CarvedPages(i)
      BY <2>2, Zenon DEF CarvedPages, EntryPages
    <3>2. CarvedPages(entry)' = CarvedPages(entry) \union N
      BY <2>1, <2>2, <2>3 DEF CarvedPages, Pages
    <3>3. QED
      BY <2>2, <3>1, <3>2, Zenon DEF Managed
  <2> HIDE DEF N
  <2>7. QED
    BY <2>2, <2>4, <2>5, <2>6, Grows, Zenon
<1>3. CASE NextEntry
  <2>1. Managed' = Managed /\ live' = live
    BY <1>1, <1>3, NextEntryMemory, Zenon DEF NextEntry
  <2>2. QED
    BY <2>1, Zenon DEF Owned
<1>4. CASE \E count \in Counts : AllocFromSlab(count)
  BY <1>4, SameMemory, Acquires, Zenon DEF AllocFromSlab
<1>5. CASE \E count \in Counts : AllocPop(count)
  <2>1. Managed' = Managed /\ live' = live
    BY <1>5, SameMemory, Zenon DEF AllocPop
  <2>2. QED
    BY <2>1, Zenon DEF Owned
<1>6. CASE Split \/ Merge \/ PushFreed
  <2>1. Managed' = Managed /\ live' = live
    BY <1>6, SameMemory, Zenon DEF Split, Merge, PushFreed
  <2>2. QED
    BY <2>1, Zenon DEF Owned
<1>7. CASE AllocWhole
  BY <1>7, SameMemory, Acquires, Zenon DEF AllocWhole
<1>8. CASE AllocNewSlab
  <2>1. \E h : live' = live \union {h}
    BY <1>8, Zenon DEF AllocNewSlab
  <2>2. Managed' = Managed
    BY <1>8, SameMemory, Zenon DEF AllocNewSlab
  <2>3. QED
    BY <2>1, <2>2, Acquires, Zenon
<1>9. CASE \E h \in live : Free(h)
  <2>1. PICK h \in live : Free(h)
    BY <1>9, Zenon
  <2>2. pc = "idle" /\ pc' # "carve"
    BY <2>1, Zenon DEF Free, FreeRange, SlabFree
  <2>3. Managed' = Managed /\ live' = live \ {h}
    BY <2>1, <2>2, SameMemory, Zenon DEF Free
  <2>4. QED
    BY <2>3, Releases, Zenon
<1>10. CASE \E h \in live : FreeZero(h)
  BY <1>10, SameMemory, Releases, Zenon DEF FreeZero
<1>11. CASE \E p \in Donatable : Donate(p)
  <2>1. PICK p \in Donatable : Donate(p)
    BY <1>11, Zenon
  <2>2. pc = "idle" /\ pc' # "carve" /\ p \notin donated
    BY <2>1, Zenon DEF Donate, FreeRange, SlabFree
  <2>3. {p} \cap Managed = {} /\ {p} \subseteq Nat \ {0}
    BY <2>2, EntriesAssumption, Zenon DEF Managed, CarvedPages
  <2>4. Managed' = Managed \union {p} /\ live' = live
    BY <2>1, <2>2, Zenon DEF Managed, CarvedPages, Donate
  <2>5. QED
    BY <2>3, <2>4, Grows, Zenon
<1>12. CASE UNCHANGED vars
  <2>1. Managed' = Managed /\ live' = live
    BY <1>12, Zenon DEF vars, Managed, CarvedPages
  <2>2. QED
    BY <2>1, Zenon DEF Owned
<1>13. QED
  BY <1>2, <1>3, <1>4, <1>5, <1>6, <1>7, <1>8, <1>9, <1>10, <1>11, <1>12 DEF Next

-----------------------------------------------------------------------------
(* Free buddies are merged.                                                *)

\* Between any two usable entries of the memory map there is a gap, as when
\* the boot loader reports neighbouring usable ranges as one entry.  init
\* carves each entry by itself and merges nothing.
EntriesApart ==
  \A i, j \in DOMAIN Entries : i < j => Entries[i].end < Entries[j].start

NoBuddies ==
  \A o \in Orders \ {MaxOrder} : \A a \in heads[o] : BuddyOf(a, o) \notin heads[o]

\* What init has carved is behind the cursor and was carved as large as its
\* entry allows.
CarvedMost ==
  pc = "carve" =>
    \A o \in Orders \ {MaxOrder} : \A a \in heads[o] :
      /\ a + BlockSize[o] <= cursor
      /\ \E i \in DOMAIN Entries :
           /\ i <= entry /\ a + BlockSize[o] <= Entries[i].end
           /\ a % BlockSize[o + 1] = 0 => Entries[i].end - a < BlockSize[o + 1]

MergedInv == NoBuddies /\ CarvedMost

\* The size of the next order.
LEMMA NextSize ==
  ASSUME NEW o \in Orders \ {MaxOrder}
  PROVE  /\ o + 1 \in Orders /\ BlockSize[o] \in Nat \ {0}
         /\ BlockSize[o + 1] = 2 * BlockSize[o]
BY SizeAssumption, OrderAssumption DEF Orders

\* The two buddies of an aligned block name each other.
LEMMA BuddyBack ==
  ASSUME NEW o \in Orders, NEW a \in Nat, a % BlockSize[o] = 0
  PROVE  /\ BuddyOf(a, o) \in Nat /\ BuddyOf(a, o) # a
         /\ BuddyOf(BuddyOf(a, o), o) = a
         /\ BuddyOf(a, o) < a => BuddyOf(a, o) % (2 * BlockSize[o]) = 0
<1> DEFINE s == BlockSize[o]
<1>1. s \in Nat \ {0}
  BY SizeAssumption, Zenon
<1>2. \A x : BuddyOf(x, o) = IF (x \div s) % 2 = 0 THEN x + s ELSE x - s
  BY Zenon DEF BuddyOf
<1>3. a % s = 0
  BY Zenon
<1> HIDE DEF s
<1>4. CASE (a \div s) % 2 = 0
  <2>1. a % (2 * s) = 0
    BY <1>1, <1>3, <1>4, BuddiesAligned, Zenon
  <2>2. ((a + s) \div s) % 2 = 1
    BY <1>1, <2>1, HalvesAligned, Zenon
  <2> DEFINE b == a + s
  <2>3. BuddyOf(a, o) = b /\ b \in Nat /\ b # a /\ b - s = a /\ ~(b < a)
    <3>1. BuddyOf(a, o) = b
      BY <1>2, <1>4, Zenon
    <3>2. b \in Nat /\ b # a /\ b - s = a /\ ~(b < a)
      BY <1>1
    <3> QED
      BY <3>1, <3>2, Zenon
  <2>4. BuddyOf(b, o) = b - s
    BY <1>2, <2>2
  <2> HIDE DEF b
  <2>5. QED
    BY <2>3, <2>4, Zenon DEF s
<1>5. CASE (a \div s) % 2 # 0
  <2> DEFINE b == a - s
  <2>1. b \in Nat /\ b % (2 * s) = 0
    BY <1>1, <1>3, <1>5, BuddiesAligned, Zenon
  <2>2. BuddyOf(a, o) = b /\ b # a /\ b + s = a
    BY <1>1, <1>2, <1>5
  <2> HIDE DEF b
  <2>3. (b \div s) % 2 = 0
    BY <1>1, <2>1, HalvesAligned, Zenon
  <2>4. BuddyOf(b, o) = a
    BY <1>2, <2>2, <2>3, Zenon
  <2>5. QED
    BY <2>1, <2>2, <2>4, Zenon DEF s
<1>6. QED
  BY <1>4, <1>5, Zenon

\* Every free block is aligned to its size.
LEMMA FreeAligned ==
  ASSUME IInv, NEW o \in Orders, NEW a \in heads[o]
  PROVE  a \in Nat \ {0} /\ a % BlockSize[o] = 0
<1>1. TypeOK /\ PiecesAligned
  BY Zenon DEF IInv
<1> DEFINE x == Piece("free", o, a, BlockSize[o])
<1>2. x \in Pieces
  BY PieceKinds, Zenon
<1>3. x.base = a /\ x.size = BlockSize[o]
  BY Zenon DEF Piece
<1> HIDE DEF x
<1>4. QED
  BY <1>1, <1>2, <1>3, Zenon DEF TypeOK, PiecesAligned

\* Pushing a block whose buddy is not free.
LEMMA PushKeeps ==
  ASSUME IInv, NoBuddies, NEW o \in Orders, NEW n \in Nat \ {0}, n % BlockSize[o] = 0,
         o # MaxOrder => BuddyOf(n, o) \notin heads[o],
         heads' = [heads EXCEPT ![o] = Push(@, n)]
  PROVE  NoBuddies'
<1>1. /\ heads'[o] = heads[o] \union {n}
      /\ \A p \in Orders : p # o => heads'[p] = heads[p]
  BY Zenon DEF IInv, TypeOK, Push
<1>2. SUFFICES ASSUME NEW p \in Orders \ {MaxOrder}, NEW a \in heads'[p]
               PROVE  BuddyOf(a, p) \notin heads'[p]
  BY Zenon DEF NoBuddies, BuddyOf
<1>3. CASE p # o
  BY <1>1, <1>2, <1>3, Zenon DEF NoBuddies
<1>4. CASE p = o /\ a = n
  <2>1. BuddyOf(n, o) # n
    BY BuddyBack, Zenon
  <2>2. QED
    BY <1>1, <1>4, <2>1, Zenon
<1>5. CASE p = o /\ a # n
  <2>1. a \in heads[o]
    BY <1>1, <1>5, Zenon
  <2>2. BuddyOf(BuddyOf(a, o), o) = a
    BY <2>1, FreeAligned, BuddyBack
  <2>3. BuddyOf(a, o) # n
    BY <1>5, <2>1, <2>2, Zenon
  <2>4. BuddyOf(a, o) \notin heads[o]
    BY <1>5, <2>1, Zenon DEF NoBuddies
  <2>5. QED
    BY <1>1, <1>5, <2>3, <2>4, Zenon
<1>6. QED
  BY <1>3, <1>4, <1>5, Zenon

LEMMA FewerKeep ==
  ASSUME NoBuddies, \A o \in Orders : heads'[o] \subseteq heads[o]
  PROVE  NoBuddies'
BY Zenon DEF NoBuddies, BuddyOf, Orders

LEMMA CarveMerged ==
  ASSUME EntriesApart, IInv, MergedInv, Carve
  PROVE  MergedInv'
<1>1. PICK o \in Orders :
        /\ CarveOrder(o, cursor, Entries[entry].end - cursor)
        /\ heads' = [heads EXCEPT ![o] = Push(@, cursor)]
        /\ cursor' = cursor + BlockSize[o]
  BY Zenon DEF Carve
<1>2. /\ pc = "carve" /\ entry \in DOMAIN Entries /\ cursor + 1 <= Entries[entry].end
      /\ UNCHANGED <<pc, entry>>
  BY EntryTypes DEF Carve, IInv, TypeOK
<1>3. /\ Entries[entry].start \in Nat \ {0} /\ Entries[entry].end \in Nat
      /\ cursor \in Nat \ {0} /\ Entries[entry].start <= cursor
      /\ BlockSize[o] \in Nat \ {0} /\ entry \in Nat
  BY <1>2, EntryTypes, SizeAssumption DEF IInv, TypeOK, CarveInv
<1>4. BlockSize[o] <= Entries[entry].end - cursor /\ cursor % BlockSize[o] = 0
  BY <1>1, <1>2, <1>3, SizeAssumption DEF CarveOrder
<1>5. ASSUME o # MaxOrder, BuddyOf(cursor, o) \in heads[o]
      PROVE  FALSE
  <2> DEFINE b == BuddyOf(cursor, o)
  <2>1. b \in Nat /\ b # cursor /\ (b < cursor => b % (2 * BlockSize[o]) = 0)
    BY <1>3, <1>4, BuddyBack, Zenon
  <2>2. b = cursor + BlockSize[o] \/ b = cursor - BlockSize[o]
    BY Zenon DEF BuddyOf
  <2>3. b \in heads[o] /\ BlockSize[o + 1] = 2 * BlockSize[o]
    BY <1>5, NextSize, Zenon
  <2> HIDE DEF b
  <2>4. PICK i \in DOMAIN Entries :
          /\ b + BlockSize[o] <= cursor
          /\ i <= entry /\ b + BlockSize[o] <= Entries[i].end
          /\ b % BlockSize[o + 1] = 0 => Entries[i].end - b < BlockSize[o + 1]
    BY <1>2, <1>5, <2>3, Zenon DEF MergedInv, CarvedMost
  <2>5. b + BlockSize[o] = cursor /\ b < cursor
    BY <1>3, <2>1, <2>2, <2>4
  <2>6. Entries[i].end - b < 2 * BlockSize[o] /\ Entries[i].end \in Nat /\ i \in Nat
    BY <2>1, <2>3, <2>4, <2>5, EntryTypes
  <2>7. CASE i = entry
    BY <1>3, <1>4, <2>1, <2>5, <2>6, <2>7
  <2>8. CASE i # entry
    <3>1. Entries[i].end < Entries[entry].start
      BY <1>2, <1>3, <2>4, <2>6, <2>8 DEF EntriesApart
    <3>2. QED
      BY <1>3, <2>4, <2>5, <2>6, <3>1
  <2>9. QED
    BY <2>7, <2>8, Zenon
<1>6. NoBuddies'
  BY <1>1, <1>3, <1>4, <1>5, PushKeeps, Zenon DEF MergedInv
<1>7. CarvedMost'
  <2>1. SUFFICES ASSUME NEW p \in Orders \ {MaxOrder}, NEW a \in heads'[p]
                 PROVE  /\ a + BlockSize[p] <= cursor'
                        /\ \E i \in DOMAIN Entries :
                             /\ i <= entry /\ a + BlockSize[p] <= Entries[i].end
                             /\ a % BlockSize[p + 1] = 0 => Entries[i].end - a < BlockSize[p + 1]
    BY <1>2, Zenon DEF CarvedMost
  <2>2. a \in heads[p] \/ (p = o /\ a = cursor)
    BY <1>1, Zenon DEF IInv, TypeOK, Push
  <2>3. CASE a \in heads[p]
    <3>1. a \in Nat /\ BlockSize[p] \in Nat
      BY <2>3, FreeAligned, SizeAssumption, Zenon
    <3>2. a + BlockSize[p] <= cursor'
      BY <1>1, <1>2, <1>3, <2>3, <3>1 DEF MergedInv, CarvedMost
    <3>3. QED
      BY <1>2, <2>3, <3>2, Zenon DEF MergedInv, CarvedMost
  <2>4. CASE p = o /\ a = cursor
    <3>1. o + 1 \in Orders /\ o + 1 > o /\ o + 1 # 0 /\ BlockSize[o + 1] \in Nat
      BY <2>1, <2>4, NextSize, OrderTypes, SizeAssumption DEF Orders
    <3>2. cursor % BlockSize[o + 1] = 0 => Entries[entry].end - cursor < BlockSize[o + 1]
      BY <1>1, <1>3, <3>1 DEF CarveOrder
    <3>3. cursor + BlockSize[o] <= Entries[entry].end /\ entry <= entry
      BY <1>3, <1>4
    <3>4. QED
      BY <1>1, <1>2, <1>3, <2>4, <3>2, <3>3
  <2>5. QED
    BY <2>2, <2>3, <2>4, Zenon
<1>8. QED
  BY <1>6, <1>7, Zenon DEF MergedInv

LEMMA NextEntryMerged ==
  ASSUME IInv, MergedInv, NextEntry
  PROVE  MergedInv'
<1>1. NoBuddies'
  BY Zenon DEF NextEntry, MergedInv, NoBuddies, BuddyOf
<1>2. CarvedMost'
  <2>1. CASE pc' # "carve"
    BY <2>1, Zenon DEF CarvedMost
  <2>2. CASE pc' = "carve"
    <3>1. /\ pc = "carve" /\ entry < Len(Entries) /\ entry' = entry + 1
          /\ cursor' = Entries[entry + 1].start /\ heads' = heads
      BY <2>2, Zenon DEF NextEntry
    <3>2. /\ entry \in Nat \ {0} /\ cursor \in Nat /\ entry \in DOMAIN Entries /\ entry + 1 \in DOMAIN Entries
      BY <3>1, EntryTypes DEF IInv, TypeOK
    <3>3. cursor <= cursor' /\ cursor' \in Nat
      <4>1. cursor <= Entries[entry].end
        BY <3>2, Zenon DEF IInv, CarveInv
      <4>2. Entries[entry].end <= Entries[entry + 1].start
        BY <3>2, EntriesAssumption
      <4>3. QED
        BY <3>1, <3>2, <4>1, <4>2, EntryTypes
    <3>4. \A o \in Orders : \A a \in heads[o] : a \in Nat /\ BlockSize[o] \in Nat
      BY FreeAligned, SizeAssumption, Zenon
    <3>5. SUFFICES ASSUME NEW o \in Orders \ {MaxOrder}, NEW a \in heads[o]
                   PROVE  /\ a + BlockSize[o] <= cursor'
                          /\ \E i \in DOMAIN Entries :
                               /\ i <= entry' /\ a + BlockSize[o] <= Entries[i].end
                               /\ a % BlockSize[o + 1] = 0 => Entries[i].end - a < BlockSize[o + 1]
      BY <3>1, Zenon DEF CarvedMost
    <3>6. PICK i \in DOMAIN Entries :
            /\ a + BlockSize[o] <= cursor
            /\ i <= entry /\ a + BlockSize[o] <= Entries[i].end
            /\ a % BlockSize[o + 1] = 0 => Entries[i].end - a < BlockSize[o + 1]
      BY <3>1, Zenon DEF MergedInv, CarvedMost
    <3>7. i <= entry' /\ a + BlockSize[o] <= cursor'
      BY <3>1, <3>2, <3>3, <3>4, <3>6, EntryTypes
    <3>8. QED
      BY <3>6, <3>7, Zenon
  <2>3. QED
    BY <2>1, <2>2, Zenon
<1>3. QED
  BY <1>1, <1>2, Zenon DEF MergedInv

LEMMA SplitMerged ==
  ASSUME IInv, NoBuddies, Split
  PROVE  NoBuddies'
<1> DEFINE o == cur.order - 1
           s == BlockSize[o]
           n == cur.addr + s
<1>1. /\ pc = "split" /\ cur.order > cur.want
      /\ heads' = [heads EXCEPT ![o] = Push(@, n)]
  BY Zenon DEF Split
<1>2. /\ TypeOK /\ LoopInv /\ AllApart(Pieces) /\ PiecesAligned
  BY Unpacked, Zenon
<1>3. /\ cur.order \in Orders /\ cur.want \in Orders /\ cur.addr \in Nat \ {0}
  BY <1>1, <1>2, Zenon DEF TypeOK, LoopInv
<1>4. o \in Orders /\ o + 1 = cur.order
  BY <1>1, <1>3, OrderAssumption DEF Orders
<1>5. s \in Nat \ {0} /\ BlockSize[cur.order] = 2 * s
  BY <1>3, <1>4, SizeAssumption, Zenon
<1> DEFINE x == Piece("flight", 0, cur.addr, BlockSize[cur.order])
           y == Piece("free", o, cur.addr, s)
<1>6. /\ x \in Pieces /\ x.base = cur.addr /\ x.size = 2 * s
      /\ x.kind # y.kind /\ y.base = cur.addr /\ y.size = s
  BY <1>1, <1>5, PieceKinds, Zenon DEF Piece
<1>7. cur.addr \in heads[o] => y \in Pieces
  BY <1>4, PieceKinds, Zenon
<1> HIDE DEF x, y, o, s
<1>8. cur.addr \notin heads[o]
  BY <1>2, <1>3, <1>5, <1>6, <1>7 DEF AllApart, Apart
<1>9. cur.addr % (2 * s) = 0
  BY <1>2, <1>6, Zenon DEF PiecesAligned
<1>10. n % s = 0 /\ (n \div s) % 2 = 1 /\ n \in Nat \ {0} /\ n - s = cur.addr
  <2>1. n % s = 0 /\ (n \div s) % 2 = 1
    BY <1>3, <1>5, <1>9, HalvesAligned, Zenon
  <2>2. n \in Nat \ {0} /\ n - s = cur.addr
    BY <1>3, <1>5
  <2>3. QED
    BY <2>1, <2>2, Zenon
<1> HIDE DEF n
<1>11. BuddyOf(n, o) = cur.addr
  BY <1>10 DEF BuddyOf, s
<1>12. QED
  BY <1>1, <1>4, <1>8, <1>10, <1>11, PushKeeps, Zenon DEF s

LEMMA PushFreedMerged ==
  ASSUME IInv, NoBuddies, PushFreed
  PROVE  NoBuddies'
<1>1. /\ cur.order \in Orders /\ cur.addr \in Nat \ {0}
      /\ pc = "merge" /\ heads' = [heads EXCEPT ![cur.order] = Push(@, cur.addr)]
      /\ cur.order # MaxOrder => BuddyOf(cur.addr, cur.order) \notin heads[cur.order]
  BY Zenon DEF PushFreed, IInv, TypeOK, LoopInv
<1> DEFINE x == Piece("flight", 0, cur.addr, BlockSize[cur.order])
<1>2. x \in Pieces /\ x.base = cur.addr /\ x.size = BlockSize[cur.order]
  BY <1>1, PieceKinds, Zenon DEF Piece
<1> HIDE DEF x
<1>3. cur.addr % BlockSize[cur.order] = 0
  BY <1>2, Zenon DEF IInv, PiecesAligned
<1>4. QED
  BY <1>1, <1>3, PushKeeps, Zenon

LEMMA MergedStep ==
  EntriesApart /\ IInv /\ MergedInv /\ [Next]_vars => MergedInv'
<1> SUFFICES ASSUME EntriesApart, IInv, MergedInv, [Next]_vars PROVE MergedInv'
  BY Zenon
<1>1. NoBuddies /\ heads \in [Orders -> SUBSET (Nat \ {0})]
  BY Zenon DEF MergedInv, IInv, TypeOK
<1>2. CASE Carve
  BY <1>2, CarveMerged, Zenon
<1>3. CASE NextEntry
  BY <1>3, NextEntryMerged, Zenon
<1>4. CASE UNCHANGED vars
  BY <1>4, Zenon DEF vars, MergedInv, NoBuddies, CarvedMost, BuddyOf
<1>5. CASE \/ \E count \in Counts : AllocFromSlab(count) \/ AllocPop(count)
           \/ Split \/ AllocWhole \/ AllocNewSlab
           \/ \E h \in live : Free(h) \/ FreeZero(h)
           \/ \E p \in Donatable : Donate(p)
           \/ Merge \/ PushFreed
  <2>1. pc' # "carve"
    BY <1>5, Zenon DEF AllocFromSlab, AllocPop, Split, AllocWhole, AllocNewSlab, Free,
                FreeZero, Donate, FreeRange, SlabFree, Merge, PushFreed
  <2>2. NoBuddies'
    <3>1. CASE Split
      BY <1>1, <3>1, SplitMerged, Zenon
    <3>2. CASE PushFreed
      BY <1>1, <3>2, PushFreedMerged, Zenon
    <3>3. CASE ~Split /\ ~PushFreed
      <4>1. \A o \in Orders : heads'[o] \subseteq heads[o]
        BY <1>1, <1>5, <3>3 DEF AllocFromSlab, AllocPop, AllocWhole, AllocNewSlab, Free,
                                FreeZero, Donate, Merge
      <4>2. QED
        BY <1>1, <4>1, FewerKeep, Zenon
    <3>4. QED
      BY <3>1, <3>2, <3>3, Zenon
  <2>3. QED
    BY <2>1, <2>2, Zenon DEF MergedInv, CarvedMost
<1>6. QED
  BY <1>2, <1>3, <1>4, <1>5, Zenon DEF Next

-----------------------------------------------------------------------------
(* The theorems.                                                           *)

INSTANCE FiniteSetTheorems

\* The facts hold.
LEMMA Cardinalities == CardinalityFacts
<1>1. \A S : IsFiniteSet(S) => Cardinality(S) \in Nat /\ (Cardinality(S) = 0 <=> S = {})
  BY FS_CardinalityType, FS_EmptySet, Zenon
<1>2. IsFiniteSet({})
  BY FS_EmptySet, Zenon
<1>3. \A S, T : IsFiniteSet(S) /\ T \subseteq S => IsFiniteSet(T)
  BY FS_Subset, Zenon
<1>4. \A S, T : IsFiniteSet(S) /\ IsFiniteSet(T) =>
        Cardinality(S \union T) = Cardinality(S) + Cardinality(T) - Cardinality(S \cap T)
  BY FS_Union, Zenon
<1>5. \A a, b \in Int : /\ IsFiniteSet(a..b)
                        /\ Cardinality(a..b) = IF a > b THEN 0 ELSE b - a + 1
  BY FS_Interval, Zenon
<1>6. QED
  BY <1>1, <1>2, <1>3, <1>4, <1>5, Zenon DEF CardinalityFacts

\* The invariant holds in every state of every run of the allocator.
THEOREM Invariant == Spec => []IInv
<1>1. IInv /\ [Next]_vars => IInv'
  BY NextInv, Cardinalities, Zenon
<1>2. QED
  BY InitInv, <1>1, PTL DEF Spec

\* Every variable keeps its type: no operation of buddy.rs or slab.rs stores
\* an address, an order or a count outside its range.
THEOREM Types == Spec => []TypeOK
<1>1. IInv => TypeOK
  BY Zenon DEF IInv
<1>2. QED
  BY <1>1, Invariant, PTL

\* alloc, free_with, alloc_range and free_range never put a block of memory
\* in two places, for every memory map and every sequence of calls.
THEOREM NoOverlap == Spec => []PiecesApart
<1>1. IInv => PiecesApart
  BY DEF IInv
<1>2. QED
  BY <1>1, Invariant, PTL

\* PageSlab never hands out a block twice and never lists a block as free that
\* a caller holds, and allocated_blocks is exact, so that PageSlab::free gives
\* a block up exactly when its last run comes back.
THEOREM SlabIsExact == Spec => []SlabExact
<1>1. IInv => SlabExact
  BY DEF IInv, TableInv, SlabExact
<1>2. QED
  BY <1>1, Invariant, PTL

\* free_range hands a run to the sub-allocator it came from.
THEOREM Routes == Spec => []RoutesMatch
<1>1. IInv => RoutesMatch
  BY RouteOfHandle DEF RoutesMatch
<1>2. QED
  BY <1>1, Invariant, PTL

\* alloc, free_with, alloc_range, free_range and the slab never lose a block of
\* memory that physical::init or try_upgrade_hhdm gave to the allocator.
THEOREM NoneLost == Spec => []NothingLost
<1>1. IInv => NothingLost
  BY CoverIsExact, Zenon
<1>2. QED
  BY <1>1, Invariant, PTL

\* The buddy allocator with its slab implements PageOwnership: alloc_range hands
\* out managed pages that nobody holds, free_range takes back what was held, and
\* splitting, merging and the routes through the slab are invisible to callers.
THEOREM Implements == Spec => ImplementsOwnership
<1>1. Init => Owners!Init
  <2>1. ASSUME Init PROVE Managed = {} /\ live = {}
    BY <2>1, NothingYet, Zenon DEF Init
  <2>2. QED
    BY <2>1, Zenon DEF Owners!Init
<1>2. IInv => HoldersPrivate
  BY RunsPrivate, Zenon DEF HoldersPrivate
<1>3. IInv /\ HoldersPrivate /\ HoldersPrivate' /\ [Next]_vars
        => [Owners!Next]_<<{h \in live : h.count > 0}, Managed>>
  BY OwnershipStep, Zenon DEF Owned
<1>4. QED
  BY <1>1, <1>2, <1>3, Invariant, PTL DEF Spec, ImplementsOwnership, Owners!Spec

\* When usable entries do not touch, free_with leaves no two free buddies
\* unmerged, alloc's splitting loop and physical::init make none, and every free
\* block is aligned to its size, so that buddy_of's xor finds its buddy.
THEOREM FreeMerged ==
  ASSUME EntriesApart
  PROVE  Spec => []Coalesced
<1>1. Init => MergedInv
  BY Zenon DEF Init, MergedInv, NoBuddies, CarvedMost
<1>2. IInv /\ MergedInv /\ [Next]_vars => MergedInv'
  BY MergedStep, Zenon
<1>3. IInv /\ MergedInv => Coalesced
  BY FreeAligned, Zenon DEF MergedInv, NoBuddies, Coalesced
<1>4. QED
  BY <1>1, <1>2, <1>3, Invariant, PTL DEF Spec
=============================================================================
