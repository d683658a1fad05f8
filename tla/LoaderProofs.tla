---------------------------- MODULE LoaderProofs ----------------------------
(***************************************************************************)
(* Proofs about Loader: for files with any headers, of any size, the       *)
(* memory a started program finds is what its file asks for, and what is   *)
(* mapped is owned by the loader, the binary or the task.                  *)
(***************************************************************************)
EXTENDS Loader, TLAPS

-----------------------------------------------------------------------------
(* The inductive invariant.                                                *)

Segments == [virt : Nat, start : Nat, end : Nat, from : Nat, len : Nat, memSize : Nat,
             pageOffset : Nat, x : BOOLEAN, w : BOOLEAN]

\* A segment takes whole pages of the user's half, its bytes lie in them, and
\* what the file has of it is no longer than the segment.
Sound(seg) ==
  /\ seg \in Segments
  /\ \E m \in Nat : seg.start = PageSize * m
  /\ \E m \in Nat : seg.end = PageSize * m
  /\ seg.virt = seg.start + seg.pageOffset
  /\ seg.virt + seg.memSize <= seg.end /\ seg.end <= UserEnd
  /\ seg.end < seg.virt + seg.memSize + PageSize
  /\ seg.len <= seg.memSize /\ seg.memSize # 0

\* The segments are those of the headers that ask for memory.
Checked ==
  /\ Len(segs) \in Nat
  /\ \A i \in 1..Len(segs) : \E k \in Kept(prog) : segs[i] = Segment(prog, prog.phdrs[k])
  /\ \A k \in Kept(prog) : \E i \in 1..Len(segs) : segs[i] = Segment(prog, prog.phdrs[k])
  /\ ParsesOK(prog) /\ EntryOK(prog, segs)

\* The entry of page p of a mapping that begins at start.
PageEntry(p, start, h, x, w) == [range |-> h, page |-> p - PageOf(start), x |-> x, w |-> w]

\* The pages from start to end show the bytes of the range h, which is owned.
Shows(start, end, h, bytes, x, w) ==
  /\ h \in owned /\ h \in DOMAIN memory /\ memory[h] = bytes
  /\ \A p \in Pages(start, end) :
       /\ p \in DOMAIN space
       /\ space[p] = PageEntry(p, start, h, x, w)

ShowsSegment(k) ==
  Shows(segs[k].start, segs[k].end, <<"segment", k>>, Copied(segs[k]), segs[k].x, segs[k].w)

Early == {"read", "check", "space"}
InTask == {"kstack", "ustack", "mapstack", "syscall_stack", "priv_stack", "done"}
WithStack == {"syscall_stack", "priv_stack", "done"}

\* There is no way on from here: an error is returned, or the kernel halts.
Over == {"in_load", "in_binary", "in_user", "failed", "bad_address"}

SegmentsInv ==
  /\ pc \notin Over \union {"read", "check"} => Checked
  /\ pc \in Early => at = 0
  /\ pc = "segment" => at <= Len(segs)
  /\ pc \in InTask => at = Len(segs)
  /\ pc \notin Over => \A k \in 1..at : ShowsSegment(k)

StackInv ==
  /\ pc \in WithStack \union {"mapstack"} =>
       /\ <<"ustack">> \in owned /\ <<"ustack">> \in DOMAIN memory
       /\ memory[<<"ustack">>] = Zeroed(StackPages)
  /\ pc \in WithStack => Shows(StackBottom, StackTop, <<"ustack">>, Zeroed(StackPages), FALSE, TRUE)

\* Nothing else is mapped.
OnlyThese ==
  pc \notin Over =>
    \A p \in DOMAIN space :
      \/ \E k \in 1..at : p \in Pages(segs[k].start, segs[k].end)
      \/ pc \in WithStack /\ p \in Pages(StackBottom, StackTop)

\* The page ranges of these kinds, and those of segments.
Ranges(kinds) == {<<k>> : k \in kinds} \union {<<"segment", i>> : i \in Nat}

\* What an error finds to drop is in its order, and a table has its l4.
OwnedInv ==
  /\ pc \in {"read", "check", "space", "segment", "in_load"} => owned \subseteq Ranges({"tables", "l4", "file"})
  /\ pc \in {"kstack", "ustack", "mapstack", "in_binary"} =>
       owned \subseteq Ranges({"ustack", "kstack", "tables", "l4"})
  /\ pc \in {"syscall_stack", "priv_stack", "in_user"} =>
       owned \subseteq Ranges({"syscall_stack", "tables", "l4", "kstack", "ustack"})
  /\ pc \in InTask \union {"segment"} => <<"tables">> \in owned
  /\ <<"tables">> \in owned => <<"l4">> \in owned

\* The kinds of memory that may still be mapped where an error is returned.
Behind == [in_binary |-> {"segment"}, in_user |-> {"segment", "ustack"}]

OverInv ==
  pc \in Over =>
    /\ MappedOwned
    /\ pc \in DOMAIN Behind => \A p \in DOMAIN space : space[p].range[1] \in Behind[pc]
    /\ pc = "bad_address" => \E a \in Asked(prog) : PageOf(a.v) = PageOf(UserEnd) - 1

IInv ==
  /\ prog \in Programs /\ at \in Nat
  /\ pc \in Early \union {"segment"} \union InTask \union Over
  /\ SegmentsInv /\ StackInv /\ OnlyThese /\ OwnedInv /\ OverInv

-----------------------------------------------------------------------------
(* Addresses and pages.                                                    *)

\* A number is its quotient and its remainder.
LEMMA DivMod ==
  ASSUME NEW a \in Nat, NEW s \in Nat \ {0}
  PROVE  /\ a \div s \in Nat /\ a % s \in 0..(s - 1)
         /\ a = s * (a \div s) + (a % s)
OBVIOUS

\* More wholes are more by a whole at least.
LEMMA Wholes ==
  ASSUME NEW p \in Nat, NEW q \in Nat, NEW s \in Nat \ {0}, p < q
  PROVE  s * p + s <= s * q
<1> DEFINE d == q - p - 1
<1>1. d \in Nat /\ q = p + 1 + d
  OBVIOUS
<1> HIDE DEF d
<1>2. s * q = s * p + s + s * d /\ s * d >= 0
  BY <1>1
<1>3. QED
  BY <1>2

\* The quotient is the only one that leaves less than a whole.
LEMMA DivUnique ==
  ASSUME NEW q \in Nat, NEW s \in Nat \ {0}, NEW k \in 0..(s - 1),
         NEW a \in Nat, a = s * q + k
  PROVE  a \div s = q /\ a % s = k
<1> DEFINE p == a \div s
           m == a % s
<1>1. p \in Nat /\ m \in 0..(s - 1) /\ a = s * p + m
  BY DivMod, Zenon
<1> HIDE DEF p, m
<1>2. ASSUME p < q PROVE FALSE
  BY <1>1, <1>2, Wholes
<1>3. ASSUME q < p PROVE FALSE
  BY <1>1, <1>3, Wholes
<1>4. CASE p = q
  BY <1>1, <1>4 DEF p, m
<1>5. QED
  BY <1>1, <1>2, <1>3, <1>4

\* The page of an address, and the place of the address in it.
LEMMA InPage ==
  ASSUME NEW v \in Nat
  PROVE  /\ PageSize \in Nat \ {0}
         /\ PageOf(v) \in Nat /\ v % PageSize \in 0..(PageSize - 1)
         /\ v = PageSize * PageOf(v) + (v % PageSize)
BY DivMod, LoaderAssumption, Zenon DEF PageOf

\* The first address of a page is in it.
LEMMA PageStart ==
  ASSUME NEW m \in Nat
  PROVE  PageSize * m \in Nat /\ PageOf(PageSize * m) = m
<1>1. PageSize \in Nat \ {0}
  BY LoaderAssumption, Zenon
<1> DEFINE a == PageSize * m
<1>2. a \in Nat /\ a = PageSize * m + 0 /\ 0 \in 0..(PageSize - 1)
  BY <1>1
<1> HIDE DEF a
<1>3. PageOf(a) = m
  BY <1>1, <1>2, DivUnique, Zenon DEF PageOf
<1>4. QED
  BY <1>2, <1>3, Zenon DEF a

\* checked_next_multiple_of: enough pages, and no more.
LEMMA NextMultiple ==
  ASSUME NEW n \in Nat
  PROVE  /\ DivCeil(n, PageSize) \in Nat /\ n <= PageSize * DivCeil(n, PageSize)
         /\ PageSize * DivCeil(n, PageSize) < n + PageSize
<1> DEFINE s == PageSize
           c == DivCeil(n, s)
           m == (n + s - 1) % s
<1>1. s \in Nat \ {0} /\ n + s - 1 \in Nat
  BY LoaderAssumption
<1>2. c \in Nat /\ m \in 0..(s - 1) /\ n + s - 1 = s * c + m
  BY <1>1, DivMod, Zenon DEF DivCeil
<1> HIDE DEF c, m, s
<1>3. n <= s * c /\ s * c < n + s
  BY <1>1, <1>2
<1>4. QED
  BY <1>2, <1>3, Zenon DEF c, s

\* An address between two page boundaries is in one of the pages between
\* them, at its distance from the first boundary.
LEMMA AddressInPages ==
  ASSUME NEW b \in Nat, NEW e \in Nat, NEW v \in Nat,
         PageSize * b <= v, v < PageSize * e
  PROVE  /\ PageOf(v) \in b..(e - 1)
         /\ (PageOf(v) - b) * PageSize + (v % PageSize) = v - PageSize * b
<1> DEFINE s == PageSize
           q == PageOf(v)
           m == v % PageSize
<1>1. s \in Nat \ {0} /\ q \in Nat /\ m \in 0..(s - 1) /\ v = s * q + m
  BY InPage, Zenon
<1>2. PageSize * b = s * b /\ PageSize * e = s * e
  BY Zenon
<1> HIDE DEF s, q, m
<1>3. ASSUME q < b PROVE FALSE
  <2>1. s * q + s <= s * b
    BY <1>1, <1>3, Wholes, Zenon
  <2>2. QED
    BY <1>1, <1>2, <2>1
<1>4. ASSUME e <= q PROVE FALSE
  <2>1. CASE e = q
    BY <1>1, <1>2, <2>1
  <2>2. CASE e < q
    <3>1. s * e + s <= s * q
      BY <1>1, <2>2, Wholes, Zenon
    <3>2. QED
      BY <1>1, <1>2, <3>1
  <2>3. QED
    BY <1>1, <1>4, <2>1, <2>2
<1>5. (q - b) * s = s * q - s * b
  BY <1>1
<1>6. q \in b..(e - 1) /\ (q - b) * s + m = v - s * b
  BY <1>1, <1>3, <1>4, <1>5
<1>7. QED
  BY <1>6, Zenon DEF s, q, m

\* The addresses of a page between two page boundaries are between them.
LEMMA PageInPages ==
  ASSUME NEW b \in Nat, NEW e \in Nat, NEW p \in b..(e - 1),
         NEW v \in (p * PageSize)..(p * PageSize + PageSize - 1)
  PROVE  /\ v \in Nat /\ PageOf(v) = p
         /\ PageSize * b <= v /\ v < PageSize * e
         /\ p * PageSize + PageSize <= PageSize * e
<1> DEFINE s == PageSize
           k == v - s * p
<1>1. s \in Nat \ {0} /\ p \in Nat
  BY LoaderAssumption
<1>2. p * PageSize = s * p /\ s * p \in Nat
  BY <1>1
<1>3. v \in Nat /\ k \in 0..(s - 1) /\ v = s * p + k
  BY <1>1, <1>2
<1> HIDE DEF k
<1>4. PageOf(v) = p
  BY <1>1, <1>3, DivUnique, Zenon DEF PageOf
<1> HIDE DEF s
<1>5. s * p + s <= s * e
  BY <1>1, Wholes
<1>6. s * b <= s * p
  <2>1. CASE b = p
    BY <1>1, <2>1
  <2>2. CASE b < p
    <3>1. s * b + s <= s * p
      BY <1>1, <2>2, Wholes, Zenon
    <3>2. QED
      BY <1>1, <3>1
  <2>3. QED
    BY <2>1, <2>2
<1>7. s * b <= v /\ v < s * e /\ s * b \in Nat /\ s * e \in Nat
  BY <1>1, <1>2, <1>3, <1>5, <1>6
<1>8. QED
  BY <1>2, <1>3, <1>4, <1>5, <1>7, Zenon DEF s

-----------------------------------------------------------------------------
(* Segments.                                                               *)

\* The types of what a file says.
LEMMA ProgramTypes ==
  ASSUME NEW p \in Programs
  PROVE  /\ Base(p) \in Nat /\ p.entry \in Nat
         /\ Kept(p) \subseteq Loads(p)
         /\ \A k \in Loads(p) : p.phdrs[k] \in Headers /\ p.phdrs[k].load
         /\ \A k \in Loads(p) : k \in Kept(p) <=> p.phdrs[k].memsz # 0
<1>1. p \in [dyn : BOOLEAN, entry : Nat, phdrs : Seq(Headers)] /\ DynBase \in Nat
  BY LoaderAssumption, Zenon
<1>2. Base(p) \in Nat /\ p.entry \in Nat
  BY <1>1, Zenon DEF Base
<1>3. p.phdrs \in Seq(Headers)
  BY <1>1, Zenon
<1>4. \A k \in DOMAIN p.phdrs : p.phdrs[k] \in Headers
  BY <1>3
<1>5. QED
  BY <1>2, <1>4, Zenon DEF Loads, Kept

\* A segment that parse_segments accepts is sound.
LEMMA SegmentSound ==
  ASSUME NEW p \in Programs, NEW k \in Kept(p), ParsesOK(p)
  PROVE  Sound(Segment(p, p.phdrs[k]))
<1> DEFINE h == p.phdrs[k]
           virt == Base(p) + h.vaddr
           first == PageOf(virt)
           last == DivCeil(virt + h.memsz, PageSize)
           seg == Segment(p, h)
<1>1. h \in Headers /\ Base(p) \in Nat
  BY ProgramTypes, Zenon
<1>2. h.vaddr \in Nat /\ h.memsz \in Nat /\ h.filesz \in Nat /\ h.offset \in Nat
      /\ h.x \in BOOLEAN /\ h.w \in BOOLEAN
  BY <1>1, Zenon DEF Headers
<1>3. h.filesz <= h.memsz /\ h.memsz # 0
  BY ProgramTypes, Zenon DEF ParsesOK, SizesFit
<1>4. last * PageSize <= UserEnd
  BY Zenon DEF ParsesOK, HeaderOK
<1>5. seg = [virt |-> virt, start |-> first * PageSize, end |-> last * PageSize,
             from |-> h.offset, len |-> h.filesz, memSize |-> h.memsz,
             pageOffset |-> virt - first * PageSize, x |-> h.x, w |-> h.w]
  BY Zenon DEF Segment
<1>6. virt \in Nat /\ virt + h.memsz \in Nat
  BY <1>1, <1>2
<1> HIDE DEF h, virt
<1>7. /\ PageSize \in Nat \ {0} /\ first \in Nat /\ virt % PageSize \in 0..(PageSize - 1)
      /\ virt = PageSize * first + (virt % PageSize)
  BY <1>6, InPage, Zenon
<1>8. last \in Nat /\ virt + h.memsz <= PageSize * last /\ PageSize * last < virt + h.memsz + PageSize
  BY <1>6, NextMultiple, Zenon
<1> HIDE DEF first, last
<1>9. first * PageSize \in Nat /\ last * PageSize \in Nat /\ virt - first * PageSize \in Nat
      /\ first * PageSize = PageSize * first /\ last * PageSize = PageSize * last
  BY <1>7, <1>8
<1> HIDE DEF seg
<1>10. seg \in Segments
  BY <1>2, <1>5, <1>6, <1>9, Zenon DEF Segments
<1>11. /\ seg.start = PageSize * first /\ seg.end = PageSize * last
       /\ seg.virt = virt /\ seg.pageOffset = virt - PageSize * first
       /\ seg.memSize = h.memsz /\ seg.len = h.filesz
  BY <1>5, <1>9, Zenon
<1>12. /\ seg.virt = seg.start + seg.pageOffset
       /\ seg.virt + seg.memSize <= seg.end /\ seg.end <= UserEnd
       /\ seg.end < seg.virt + seg.memSize + PageSize
       /\ seg.len <= seg.memSize /\ seg.memSize # 0
  BY <1>3, <1>4, <1>6, <1>7, <1>8, <1>9, <1>11
<1>13. QED
  BY <1>7, <1>8, <1>10, <1>11, <1>12, Zenon DEF Sound, seg, h

\* The segments of a file that was accepted.
LEMMA SegmentsSound ==
  ASSUME prog \in Programs, Checked, NEW i \in 1..Len(segs)
  PROVE  Sound(segs[i])
BY SegmentSound, Zenon DEF Checked

\* The pages of a sound segment.
LEMMA SegmentPages ==
  ASSUME NEW seg, Sound(seg)
  PROVE  \E b, e \in Nat : /\ seg.start = PageSize * b /\ seg.end = PageSize * e
                           /\ PageOf(seg.start) = b /\ Pages(seg.start, seg.end) = b..(e - 1)
<1>1. PICK b \in Nat : seg.start = PageSize * b
  BY Zenon DEF Sound
<1>2. PICK e \in Nat : seg.end = PageSize * e
  BY Zenon DEF Sound
<1>3. PageOf(seg.start) = b /\ PageOf(seg.end) = e
  BY <1>1, <1>2, PageStart, Zenon
<1>4. QED
  BY <1>1, <1>2, <1>3, Zenon DEF Pages

\* The pages of the stack.
LEMMA StackPlace ==
  /\ StackBottom \in Nat /\ StackTop \in Nat /\ StackTop < UserEnd
  /\ StackTop - StackBottom = StackPages * PageSize
  /\ \E b, e \in Nat : /\ StackBottom = PageSize * b /\ StackTop = PageSize * e
                       /\ PageOf(StackBottom) = b /\ Pages(StackBottom, StackTop) = b..(e - 1)
<1> DEFINE s == PageSize
           n == StackPages
           u == PageOf(UserEnd)
<1>1. s \in Nat \ {0} /\ n \in Nat \ {0} /\ UserEnd \in Nat
      /\ UserEnd % s = 0 /\ (n + 1) * s <= UserEnd
  BY LoaderAssumption, Zenon
<1> DEFINE m == UserEnd % s
<1>a. u \in Nat /\ UserEnd = s * u + m
  BY <1>1, InPage, Zenon
<1> HIDE DEF u, m
<1>2. u \in Nat /\ UserEnd = s * u
  BY <1>1, <1>a DEF m
<1>3. StackTop = UserEnd - s /\ StackBottom = StackTop - n * s
  BY Zenon DEF StackTop, StackBottom
<1> HIDE DEF s, n
<1>4. n + 1 <= u
  <2>1. ASSUME u < n + 1 PROVE FALSE
    <3>1. s * u + s <= s * (n + 1)
      BY <1>1, <1>2, <2>1, Wholes
    <3>2. s * (n + 1) = (n + 1) * s
      BY <1>1
    <3>3. QED
      BY <1>1, <1>2, <3>1, <3>2
  <2>2. QED
    BY <1>1, <1>2, <2>1
<1> DEFINE e == u - 1
           b == u - 1 - n
<1>5. b \in Nat /\ e \in Nat
  BY <1>1, <1>2, <1>4
<1>6. s * e = s * u - s /\ s * b = s * u - s - n * s
  BY <1>1, <1>2
<1>7. StackTop = s * e /\ StackBottom = s * b /\ n * s \in Nat
  BY <1>1, <1>2, <1>3, <1>6
<1> HIDE DEF e, b
<1>8. /\ PageOf(StackBottom) = b /\ StackBottom \in Nat
      /\ PageOf(StackTop) = e /\ StackTop \in Nat
  BY <1>5, <1>7, PageStart, Zenon DEF s
<1>9. StackTop < UserEnd /\ StackTop - StackBottom = n * s
  BY <1>1, <1>3, <1>7, <1>8
<1>10. Pages(StackBottom, StackTop) = b..(e - 1)
  BY <1>8, Zenon DEF Pages
<1>11. QED
  BY <1>5, <1>7, <1>8, <1>9, <1>10, Zenon DEF s, n

\* What check_no_overlap and validate_entry have seen.
LEMMA CheckedSegments ==
  ASSUME NEW p \in Programs, NEW ss \in ByStart(p)
  PROVE  /\ Len(ss) \in Nat
         /\ \A i \in 1..Len(ss) : \E k \in Kept(p) : ss[i] = Segment(p, p.phdrs[k])
         /\ \A k \in Kept(p) : \E i \in 1..Len(ss) : ss[i] = Segment(p, p.phdrs[k])
<1>1. PICK f \in UNION {[1..n -> Kept(p)] : n \in 0..Len(p.phdrs)} :
        Range(f) = Kept(p) /\ ss = [i \in DOMAIN f |-> Segment(p, p.phdrs[f[i]])]
  BY Zenon DEF ByStart
<1>2. PICK n \in 0..Len(p.phdrs) : f \in [1..n -> Kept(p)]
  BY <1>1, Zenon
<1>3. p.phdrs \in Seq(Headers)
  BY LoaderAssumption, Zenon
<1>4. n \in Nat
  BY <1>3
<1>5. DOMAIN ss = 1..n /\ Len(ss) = n
  BY <1>1, <1>2, <1>4
<1>6. \A k \in Kept(p) : \E i \in 1..n : f[i] = k
  BY <1>1, <1>2, Zenon DEF Range
<1>7. QED
  BY <1>1, <1>2, <1>4, <1>5, <1>6, Zenon

\* The address that a header asks for its byte number i at.
LEMMA AskedBytes ==
  ASSUME NEW p, NEW a
  PROVE  a \in Asked(p) <=>
           \E k \in Loads(p) : \E i \in 0..(p.phdrs[k].memsz - 1) :
             a = [v |-> Base(p) + p.phdrs[k].vaddr + i,
                  byte |-> IF i < p.phdrs[k].filesz THEN p.phdrs[k].offset + i ELSE Zero,
                  x |-> p.phdrs[k].x, w |-> p.phdrs[k].w]
BY DEF Asked

-----------------------------------------------------------------------------
(* Mapping and memory.                                                     *)

\* map_fixed adds its pages and leaves the others as they were.
LEMMA MappedPages ==
  ASSUME NEW new, DOMAIN new \intersect DOMAIN space = {}, space' = Added(space, new)
  PROVE  /\ DOMAIN space' = DOMAIN space \union DOMAIN new
         /\ \A p \in DOMAIN space : space'[p] = space[p]
         /\ \A p \in DOMAIN new : space'[p] = new[p]
BY Zenon DEF Added

\* A new range of memory leaves the others as they were.
LEMMA AddedMemory ==
  ASSUME NEW h, NEW bytes, memory' = Added(memory, [g \in {h} |-> bytes])
  PROVE  /\ h \in DOMAIN memory' /\ memory'[h] = bytes
         /\ \A g \in DOMAIN memory : g # h => g \in DOMAIN memory' /\ memory'[g] = memory[g]
BY Zenon DEF Added

\* What is shown stays, while its memory is kept and its pages stay mapped.
LEMMA StaysShown ==
  ASSUME NEW start, NEW end, NEW h, NEW bytes, NEW x, NEW w,
         Shows(start, end, h, bytes, x, w),
         h \in owned', h \in DOMAIN memory', memory'[h] = memory[h],
         \A p \in DOMAIN space : p \in DOMAIN space' /\ space'[p] = space[p]
  PROVE  /\ h \in owned' /\ h \in DOMAIN memory' /\ memory'[h] = bytes
         /\ \A p \in Pages(start, end) :
              /\ p \in DOMAIN space'
              /\ space'[p] = PageEntry(p, start, h, x, w)
BY Zenon DEF Shows

\* The same for the segments.
LEMMA SegmentsStay ==
  ASSUME SegmentsInv, pc \notin Over, UNCHANGED segs, NEW k \in 1..at,
         <<"segment", k>> \in owned', <<"segment", k>> \in DOMAIN memory',
         memory'[<<"segment", k>>] = memory[<<"segment", k>>],
         \A p \in DOMAIN space : p \in DOMAIN space' /\ space'[p] = space[p]
  PROVE  ShowsSegment(k)'
<1> DEFINE h == <<"segment", k>>
           seg == segs[k]
<1>1. Shows(seg.start, seg.end, h, Copied(seg), seg.x, seg.w)
  BY Zenon DEF SegmentsInv, ShowsSegment
<1>2. segs'[k] = seg
  BY Zenon
<1> HIDE DEF h, seg
<1>3. /\ h \in owned' /\ h \in DOMAIN memory' /\ memory'[h] = Copied(seg)
      /\ \A p \in Pages(seg.start, seg.end) :
           /\ p \in DOMAIN space'
           /\ space'[p] = PageEntry(p, seg.start, h, seg.x, seg.w)
  BY <1>1, StaysShown DEF h
<1>4. QED
  BY <1>2, <1>3, Zenon DEF ShowsSegment, Shows, h, Copied, Pages, PageOf, PageEntry

-----------------------------------------------------------------------------
(* The invariant is kept.                                                  *)

\* The checks depend on the file and the segments only.
LEMMA StayChecked ==
  ASSUME Checked, UNCHANGED <<prog, segs>>
  PROVE  Checked'
<1>1. Len(segs)' \in Nat
  BY Zenon DEF Checked
<1>2. (\A i \in 1..Len(segs) : \E k \in Kept(prog) : segs[i] = Segment(prog, prog.phdrs[k]))'
  BY DEF Checked, Kept, Loads, Segment, Base, PageOf, DivCeil
<1>3. (\A k \in Kept(prog) : \E i \in 1..Len(segs) : segs[i] = Segment(prog, prog.phdrs[k]))'
  BY DEF Checked, Kept, Loads, Segment, Base, PageOf, DivCeil
<1>4. ParsesOK(prog)'
  BY Zenon DEF Checked, ParsesOK, Kept, Loads, SizesFit, HeaderOK, Base, DivCeil
<1>5. EntryOK(prog, segs)'
  BY Zenon DEF Checked, EntryOK, EntryOf, Base
<1>6. QED
  BY <1>1, <1>2, <1>3, <1>4, <1>5, Zenon DEF Checked

LEMMA InitInv == Init => IInv
<1> SUFFICES ASSUME Init PROVE IInv
  BY Zenon
<1>1. DOMAIN space = {}
  BY Zenon DEF Init, Empty
<1>2. SegmentsInv
  BY DEF Init, SegmentsInv, Early, InTask, Over
<1>3. StackInv
  BY Zenon DEF Init, StackInv, WithStack
<1>4. OnlyThese
  BY <1>1, Zenon DEF Init, OnlyThese
<1>5. OwnedInv /\ OverInv
  BY Zenon DEF Init, OwnedInv, OverInv, InTask, Over
<1>6. QED
  BY <1>2, <1>3, <1>4, <1>5, Zenon DEF Init, IInv, Early

\* Before the first mapping nothing is mapped.
LEMMA NothingMapped ==
  ASSUME IInv, pc \in Early
  PROVE  at = 0 /\ DOMAIN space = {}
<1>1. at = 0 /\ pc \notin WithStack \union Over
  BY Zenon DEF IInv, SegmentsInv, Early, WithStack, Over
<1>2. ASSUME NEW p \in DOMAIN space PROVE FALSE
  <2>1. \E k \in 1..at : p \in Pages(segs[k].start, segs[k].end)
    BY <1>1, Zenon DEF IInv, OnlyThese
  <2>2. QED
    BY <1>1, <2>1
<1>3. QED
  BY <1>1, <1>2, Zenon

LEMMA ReadFileStep ==
  ASSUME IInv, ReadFile
  PROVE  IInv'
<1>1. /\ pc = "read" /\ pc' = "check" /\ owned' = {<<"file">>}
      /\ UNCHANGED <<prog, segs, at, memory, space>>
  BY Zenon DEF ReadFile
<1>2. at' = 0 /\ DOMAIN space' = {}
  BY <1>1, NothingMapped, Zenon DEF Early
<1>3. SegmentsInv'
  BY <1>1, <1>2 DEF SegmentsInv, Early, InTask
<1>4. StackInv'
  BY <1>1, Zenon DEF StackInv, WithStack
<1>5. OnlyThese'
  BY <1>1, <1>2, Zenon DEF OnlyThese
<1>6. OwnedInv' /\ OverInv'
  <2>1. <<"file">> # <<"tables">> /\ <<"file">> \in Ranges({"tables", "l4", "file"})
    BY Zenon DEF Ranges
  <2>2. QED
    BY <1>1, <2>1, Zenon DEF OwnedInv, OverInv, InTask, Over, Ranges
<1>7. QED
  BY <1>1, <1>3, <1>4, <1>5, <1>6, Zenon DEF IInv, Early

LEMMA CheckStep ==
  ASSUME IInv, Check
  PROVE  IInv'
<1>1. pc = "check" /\ pc' = "space" /\ UNCHANGED <<prog, at, owned, memory, space>>
  BY Zenon DEF Check
<1>2. PICK ss \in ByStart(prog) : Accepted(prog, ss) /\ segs' = ss
  BY Zenon DEF Check
<1>3. prog \in Programs
  BY Zenon DEF IInv
<1>4. /\ Len(ss) \in Nat
      /\ \A i \in 1..Len(ss) : \E k \in Kept(prog) : ss[i] = Segment(prog, prog.phdrs[k])
      /\ \A k \in Kept(prog) : \E i \in 1..Len(ss) : ss[i] = Segment(prog, prog.phdrs[k])
  BY <1>3, CheckedSegments, Zenon
<1>5. ParsesOK(prog) /\ EntryOK(prog, ss)
  BY <1>2, Zenon DEF Accepted
<1>6. Checked'
  <2>1. prog' = prog /\ segs' = ss
    BY <1>1, <1>2, Zenon
  <2>2. Len(segs)' \in Nat
    BY <1>4, <2>1, Zenon
  <2>3. (\A i \in 1..Len(segs) : \E k \in Kept(prog) : segs[i] = Segment(prog, prog.phdrs[k]))'
    BY <1>4, <2>1 DEF Kept, Loads, Segment, Base, PageOf, DivCeil
  <2>4. (\A k \in Kept(prog) : \E i \in 1..Len(segs) : segs[i] = Segment(prog, prog.phdrs[k]))'
    BY <1>4, <2>1 DEF Kept, Loads, Segment, Base, PageOf, DivCeil
  <2>5. ParsesOK(prog)'
    BY <1>5, <2>1, Zenon DEF ParsesOK, Kept, Loads, SizesFit, HeaderOK, Base, DivCeil
  <2>6. EntryOK(prog, segs)'
    BY <1>5, <2>1, Zenon DEF EntryOK, EntryOf, Base
  <2>7. QED
    BY <2>2, <2>3, <2>4, <2>5, <2>6, Zenon DEF Checked
<1>7. at' = 0 /\ DOMAIN space' = {}
  BY <1>1, NothingMapped, Zenon DEF Early
<1>8. SegmentsInv'
  BY <1>1, <1>6, <1>7 DEF SegmentsInv, Early, InTask
<1>9. StackInv'
  BY <1>1, Zenon DEF StackInv, WithStack
<1>10. OnlyThese'
  BY <1>1, <1>7, Zenon DEF OnlyThese
<1>11. OwnedInv' /\ OverInv'
  BY <1>1, Zenon DEF IInv, OwnedInv, OverInv, InTask, Over, Ranges
<1>12. QED
  BY <1>1, <1>8, <1>9, <1>10, <1>11, Zenon DEF IInv, Early

LEMMA NewSpaceStep ==
  ASSUME IInv, NewSpace
  PROVE  IInv'
<1>1. /\ pc = "space" /\ pc' = "segment" /\ owned' = owned \union {<<"l4">>, <<"tables">>}
      /\ UNCHANGED <<prog, segs, at, memory, space>>
  BY Zenon DEF NewSpace
<1>2. at = 0 /\ DOMAIN space' = {}
  BY <1>1, NothingMapped, Zenon DEF Early
<1>3. Checked
  BY <1>1, Zenon DEF IInv, SegmentsInv, Over
<1>4. Checked' /\ Len(segs) \in Nat
  BY <1>1, <1>3, StayChecked, Zenon DEF Checked
<1>5. SegmentsInv'
  BY <1>1, <1>2, <1>4 DEF SegmentsInv, Early, InTask
<1>6. StackInv'
  BY <1>1, Zenon DEF StackInv, WithStack
<1>7. OnlyThese'
  BY <1>1, <1>2, Zenon DEF OnlyThese
<1>8. OwnedInv' /\ OverInv'
  <2>1. {<<"l4">>, <<"tables">>} \subseteq Ranges({"tables", "l4", "file"})
    BY Zenon DEF Ranges
  <2>2. QED
    BY <1>1, <2>1, Zenon DEF IInv, OwnedInv, OverInv, InTask, Over, Ranges
<1>9. QED
  BY <1>1, <1>5, <1>6, <1>7, <1>8, Zenon DEF IInv

\* A step that maps nothing and gives back no memory that is mapped.
LEMMA StayMapped ==
  ASSUME IInv, UNCHANGED <<prog, segs, at, space>>,
         pc \in InTask \union {"segment"}, pc' \in InTask, at = Len(segs),
         \A k \in 1..at : /\ <<"segment", k>> \in owned' /\ <<"segment", k>> \in DOMAIN memory'
                          /\ memory'[<<"segment", k>>] = memory[<<"segment", k>>]
  PROVE  SegmentsInv'
<1>1. pc \notin Over \union {"read", "check"} /\ pc' \notin Early \union {"segment"}
  BY Zenon DEF InTask, Early, Over
<1>2. Checked'
  BY <1>1, StayChecked, Zenon DEF IInv, SegmentsInv
<1>3. \A k \in 1..at : ShowsSegment(k)'
  BY <1>1, SegmentsStay, Zenon DEF IInv
<1>4. QED
  BY <1>1, <1>2, <1>3, Zenon DEF SegmentsInv

LEMMA MapSegmentStep ==
  ASSUME IInv, MapSegment
  PROVE  IInv'
<1> DEFINE n == at + 1
           h == <<"segment", n>>
           seg == segs[n]
<1>1. /\ pc = "segment" /\ pc' = pc /\ at < Len(segs) /\ at' = n /\ UNCHANGED <<prog, segs>>
      /\ CanMap(seg.start, seg.end)
      /\ owned' = owned \union {h}
      /\ memory' = Added(memory, [g \in {h} |-> Copied(seg)])
      /\ space' = Mapped(seg.start, seg.end, h, seg.x, seg.w)
  BY Zenon DEF MapSegment
<1>2. prog \in Programs /\ Checked /\ at \in Nat /\ SegmentsInv /\ pc \notin Over
  BY <1>1, Zenon DEF IInv, SegmentsInv, Over
<1>3. Len(segs) \in Nat /\ n \in 1..Len(segs) /\ n \in Nat /\ n <= Len(segs)
  BY <1>1, <1>2 DEF Checked
<1>4. Sound(seg)
  BY <1>2, <1>3, SegmentsSound, Zenon
<1>5. Checked'
  BY <1>1, <1>2, StayChecked, Zenon
<1> HIDE DEF seg
<1>6. OwnedInv' /\ OverInv'
  <2>1. h \in Ranges({"tables", "l4", "file"})
    BY <1>3, Zenon DEF Ranges
  <2>2. h # <<"tables">>
    BY Zenon
  <2> HIDE DEF h
  <2>3. QED
    BY <1>1, <2>1, <2>2, Zenon DEF IInv, OwnedInv, OverInv, InTask, Over, Ranges
<1>7. /\ DOMAIN space' = DOMAIN space \union Pages(seg.start, seg.end)
      /\ \A p \in DOMAIN space : space'[p] = space[p]
      /\ \A p \in Pages(seg.start, seg.end) :
           space'[p] = PageEntry(p, seg.start, h, seg.x, seg.w)
  <2> HIDE DEF h
  <2> DEFINE new == [p \in Pages(seg.start, seg.end) |-> PageEntry(p, seg.start, h, seg.x, seg.w)]
  <2>1. DOMAIN new \intersect DOMAIN space = {} /\ space' = Added(space, new)
    BY <1>1, Zenon DEF CanMap, Mapped, PageEntry
  <2>2. DOMAIN new = Pages(seg.start, seg.end)
        /\ \A p \in Pages(seg.start, seg.end) : new[p] = PageEntry(p, seg.start, h, seg.x, seg.w)
    BY Zenon
  <2> HIDE DEF new
  <2>3. QED
    BY <2>1, <2>2, MappedPages, Zenon
<1>8. /\ h \in DOMAIN memory' /\ memory'[h] = Copied(seg)
      /\ \A g \in DOMAIN memory : g # h => g \in DOMAIN memory' /\ memory'[g] = memory[g]
  <2> HIDE DEF h
  <2>1. QED
    BY <1>1, AddedMemory, Zenon
<1>9. ASSUME NEW k \in 1..at' PROVE ShowsSegment(k)'
  <2>1. CASE k = n
    <3>1. segs'[k] = seg /\ <<"segment", k>> = h
      BY <1>1, <2>1, Zenon DEF seg
    <3> HIDE DEF h
    <3>2. QED
      BY <1>1, <1>7, <1>8, <3>1 DEF ShowsSegment, Shows, Copied, Pages, PageOf, PageEntry
  <2>2. CASE k # n
    <3>1. k \in 1..at
      BY <1>1, <1>2, <2>2
    <3>2. <<"segment", k>> # h
      BY <2>2, Zenon
    <3>3. <<"segment", k>> \in owned /\ <<"segment", k>> \in DOMAIN memory
      BY <1>1, <1>2, <3>1, Zenon DEF SegmentsInv, ShowsSegment, Shows
    <3> HIDE DEF h
    <3>4. \A p \in DOMAIN space : p \in DOMAIN space' /\ space'[p] = space[p]
      BY <1>7, Zenon
    <3>5. /\ <<"segment", k>> \in owned' /\ <<"segment", k>> \in DOMAIN memory'
          /\ memory'[<<"segment", k>>] = memory[<<"segment", k>>]
      BY <1>1, <1>8, <3>2, <3>3, Zenon
    <3>6. UNCHANGED segs
      BY <1>1, Zenon
    <3>7. QED
      BY <1>2, <3>1, <3>4, <3>5, <3>6, SegmentsStay, Zenon
  <2>3. QED
    BY <2>1, <2>2, Zenon
<1>10. SegmentsInv'
  BY <1>1, <1>3, <1>5, <1>9, Zenon DEF SegmentsInv, Early, InTask, Over
<1>11. StackInv'
  BY <1>1, Zenon DEF StackInv, WithStack
<1>12. OnlyThese'
  <2>1. ASSUME NEW p \in DOMAIN space'
        PROVE  \E k \in 1..at' : p \in Pages(segs'[k].start, segs'[k].end)
    <3>1. CASE p \in Pages(seg.start, seg.end)
      BY <1>1, <1>3, <3>1 DEF seg
    <3>2. CASE p \in DOMAIN space
      <4>1. PICK k \in 1..at : p \in Pages(segs[k].start, segs[k].end)
        BY <1>1, <1>2, <3>2, Zenon DEF IInv, OnlyThese, WithStack
      <4>2. k \in 1..at' /\ segs'[k] = segs[k]
        BY <1>1, <1>2, <4>1
      <4>3. QED
        BY <4>1, <4>2, Zenon
    <3>3. QED
      BY <1>7, <3>1, <3>2, Zenon
  <2>2. QED
    BY <1>1, <2>1, Zenon DEF OnlyThese, Pages, PageOf
<1>13. QED
  BY <1>1, <1>2, <1>3, <1>6, <1>10, <1>11, <1>12, Zenon DEF IInv

LEMMA LoadedStep ==
  ASSUME IInv, Loaded
  PROVE  IInv'
<1>1. /\ pc = "segment" /\ pc' = "kstack" /\ at = Len(segs) /\ owned' = owned \ {<<"file">>}
      /\ UNCHANGED <<prog, segs, at, memory, space>>
  BY Zenon DEF Loaded
<1>2. pc' \in InTask /\ pc' \notin WithStack \union {"mapstack"}
      /\ pc \notin WithStack \union Over /\ pc' \notin Over
  BY <1>1, Zenon DEF InTask, WithStack, Over
<1>3. ASSUME NEW k \in 1..at
      PROVE  /\ <<"segment", k>> \in owned' /\ <<"segment", k>> \in DOMAIN memory'
             /\ memory'[<<"segment", k>>] = memory[<<"segment", k>>]
  <2>1. <<"segment", k>> \in owned /\ <<"segment", k>> \in DOMAIN memory
    BY <1>2, Zenon DEF IInv, SegmentsInv, ShowsSegment, Shows
  <2>2. <<"segment", k>> # <<"file">>
    BY Zenon
  <2>3. QED
    BY <1>1, <2>1, <2>2, Zenon
<1>4. SegmentsInv'
  BY <1>1, <1>2, <1>3, StayMapped, Zenon
<1>5. StackInv'
  BY <1>2, Zenon DEF StackInv
<1>6. OnlyThese'
  BY <1>1, <1>2, Zenon DEF IInv, OnlyThese, Pages, PageOf
<1>7. OwnedInv' /\ OverInv'
  <2>1. /\ owned \subseteq Ranges({"tables", "l4", "file"}) /\ <<"tables">> \in owned /\ <<"l4">> \in owned
    BY <1>1, Zenon DEF IInv, OwnedInv
  <2>2. <<"file">> # <<"tables">> /\ <<"file">> # <<"l4">>
    BY Zenon
  <2>3. owned' \subseteq Ranges({"ustack", "kstack", "tables", "l4"})
    BY <1>1, <2>1, Zenon DEF Ranges
  <2>4. QED
    BY <1>1, <1>2, <2>1, <2>2, <2>3, Zenon DEF OwnedInv, OverInv, Ranges
<1>8. QED
  BY <1>1, <1>2, <1>4, <1>5, <1>6, <1>7, Zenon DEF IInv

LEMMA NewStackStep ==
  ASSUME IInv, NewStack
  PROVE  IInv'
<1>1. /\ pc \in {"kstack", "ustack", "syscall_stack", "priv_stack"}
      /\ pc' = NextPc[pc] /\ owned' = owned \union {<<pc>>}
      /\ memory' = IF pc = "ustack" THEN Added(memory, [g \in {<<pc>>} |-> Zeroed(StackPages)]) ELSE memory
      /\ UNCHANGED <<prog, segs, at, space>>
  BY Zenon DEF NewStack, NextPc
<1>2. /\ pc = "kstack" => pc' = "ustack"
      /\ pc = "ustack" => pc' = "mapstack"
      /\ pc = "syscall_stack" => pc' = "priv_stack"
      /\ pc = "priv_stack" => pc' = "done"
  BY <1>1 DEF NextPc
<1>3. pc \in InTask /\ pc' \in InTask /\ at = Len(segs)
  BY <1>1, <1>2, Zenon DEF InTask, IInv, SegmentsInv
<1>4. ASSUME NEW g \in DOMAIN memory, g # <<"ustack">>
      PROVE  g \in DOMAIN memory' /\ memory'[g] = memory[g]
  <2>1. CASE pc = "ustack"
    <3>1. memory' = Added(memory, [f \in {<<"ustack">>} |-> Zeroed(StackPages)])
      BY <1>1, <2>1, Zenon
    <3>2. QED
      BY <1>4, <3>1, AddedMemory, Zenon
  <2>2. CASE pc # "ustack"
    BY <1>1, <1>4, <2>2, Zenon
  <2>3. QED
    BY <2>1, <2>2, Zenon
<1>5. ASSUME NEW k \in 1..at
      PROVE  /\ <<"segment", k>> \in owned' /\ <<"segment", k>> \in DOMAIN memory'
             /\ memory'[<<"segment", k>>] = memory[<<"segment", k>>]
  <2>1. <<"segment", k>> \in owned /\ <<"segment", k>> \in DOMAIN memory
    BY <1>1, Zenon DEF IInv, SegmentsInv, ShowsSegment, Shows, Over
  <2>2. <<"segment", k>> # <<"ustack">>
    BY Zenon
  <2>3. QED
    BY <1>1, <1>4, <2>1, <2>2, Zenon
<1>6. SegmentsInv'
  BY <1>1, <1>3, <1>5, StayMapped, Zenon
<1>7. StackInv'
  <2>1. CASE pc = "kstack"
    BY <1>2, <2>1, Zenon DEF StackInv, WithStack
  <2>2. CASE pc = "ustack"
    <3>1. memory' = Added(memory, [g \in {<<"ustack">>} |-> Zeroed(StackPages)])
          /\ <<"ustack">> \in owned'
      BY <1>1, <2>2, Zenon
    <3>2. <<"ustack">> \in DOMAIN memory' /\ memory'[<<"ustack">>] = Zeroed(StackPages)
      BY <3>1, AddedMemory, Zenon
    <3>3. pc' = "mapstack"
      BY <1>2, <2>2, Zenon
    <3>4. QED
      BY <3>1, <3>2, <3>3, Zenon DEF StackInv, WithStack, Zeroed
  <2>3. CASE pc \in {"syscall_stack", "priv_stack"}
    <3>1. pc \in WithStack /\ memory' = memory /\ <<"ustack">> \in owned'
          /\ Shows(StackBottom, StackTop, <<"ustack">>, Zeroed(StackPages), FALSE, TRUE)
      BY <1>1, <2>3, Zenon DEF IInv, StackInv, WithStack
    <3>2. memory[<<"ustack">>] = Zeroed(StackPages) /\ <<"ustack">> \in DOMAIN memory
      BY <3>1, Zenon DEF IInv, StackInv
    <3>3. Shows(StackBottom, StackTop, <<"ustack">>, Zeroed(StackPages), FALSE, TRUE)'
      BY <1>1, <3>1, Zenon DEF Shows, Pages, PageOf, PageEntry, Zeroed, StackBottom, StackTop
    <3>4. QED
      BY <3>1, <3>2, <3>3, Zenon DEF StackInv, Zeroed
  <2>4. QED
    BY <1>1, <2>1, <2>2, <2>3, Zenon
<1>8. OnlyThese'
  <2>1. pc \notin Over /\ pc' \notin Over /\ (pc \in WithStack => pc' \in WithStack)
    BY <1>1, <1>2, Zenon DEF WithStack, Over
  <2>2. QED
    BY <1>1, <2>1, Zenon DEF IInv, OnlyThese, Pages, PageOf, StackBottom, StackTop
<1>9. OwnedInv' /\ OverInv'
  <2>1. <<"tables">> \in owned /\ <<"l4">> \in owned /\ pc' \notin Over
    BY <1>1, <1>2, <1>3, Zenon DEF IInv, OwnedInv, Over
  <2>2. CASE pc \in {"kstack", "ustack"}
    <3>1. owned \subseteq Ranges({"ustack", "kstack", "tables", "l4"}) /\ pc' \in {"ustack", "mapstack"}
      BY <1>2, <2>2, Zenon DEF IInv, OwnedInv
    <3>2. owned' \subseteq Ranges({"ustack", "kstack", "tables", "l4"})
      BY <1>1, <2>2, <3>1, Zenon DEF Ranges
    <3>3. QED
      BY <1>1, <2>1, <3>1, <3>2, Zenon DEF OwnedInv, OverInv, Ranges
  <2>3. CASE pc = "syscall_stack"
    <3>1. /\ owned \subseteq Ranges({"syscall_stack", "tables", "l4", "kstack", "ustack"})
          /\ pc' = "priv_stack"
      BY <1>2, <2>3, Zenon DEF IInv, OwnedInv
    <3>2. owned' \subseteq Ranges({"syscall_stack", "tables", "l4", "kstack", "ustack"})
      BY <1>1, <2>3, <3>1, Zenon DEF Ranges
    <3>3. QED
      BY <1>1, <2>1, <3>1, <3>2, Zenon DEF OwnedInv, OverInv, Ranges
  <2>4. CASE pc = "priv_stack"
    BY <1>1, <1>2, <2>1, <2>4, Zenon DEF OwnedInv, OverInv
  <2>5. QED
    BY <1>1, <2>2, <2>3, <2>4, Zenon
<1>10. QED
  BY <1>1, <1>3, <1>6, <1>7, <1>8, <1>9, Zenon DEF IInv

LEMMA MapStackStep ==
  ASSUME IInv, MapStack
  PROVE  IInv'
<1>1. /\ pc = "mapstack" /\ pc' = "syscall_stack" /\ CanMap(StackBottom, StackTop)
      /\ space' = Mapped(StackBottom, StackTop, <<"ustack">>, FALSE, TRUE)
      /\ UNCHANGED <<prog, segs, at, owned, memory>>
  BY Zenon DEF MapStack
<1>2. /\ DOMAIN space' = DOMAIN space \union Pages(StackBottom, StackTop)
      /\ \A p \in DOMAIN space : space'[p] = space[p]
      /\ \A p \in Pages(StackBottom, StackTop) :
           space'[p] = PageEntry(p, StackBottom, <<"ustack">>, FALSE, TRUE)
  <2> DEFINE new == [p \in Pages(StackBottom, StackTop) |-> PageEntry(p, StackBottom, <<"ustack">>, FALSE, TRUE)]
  <2>1. DOMAIN new \intersect DOMAIN space = {} /\ space' = Added(space, new)
    BY <1>1, Zenon DEF CanMap, Mapped, PageEntry
  <2>2. DOMAIN new = Pages(StackBottom, StackTop)
        /\ \A p \in Pages(StackBottom, StackTop) : new[p] = PageEntry(p, StackBottom, <<"ustack">>, FALSE, TRUE)
    BY Zenon
  <2> HIDE DEF new
  <2>3. QED
    BY <2>1, <2>2, MappedPages, Zenon
<1>3. /\ pc \in InTask /\ pc \notin Over
      /\ pc' \in InTask /\ pc' \in WithStack /\ pc' \notin Over \union Early \union {"segment"}
  BY <1>1, Zenon DEF InTask, WithStack, Early, Over
<1>4. at = Len(segs) /\ at' = Len(segs')
  BY <1>1, <1>3, Zenon DEF IInv, SegmentsInv
<1>5. ASSUME NEW k \in 1..at PROVE ShowsSegment(k)'
  <2>1. <<"segment", k>> \in owned /\ <<"segment", k>> \in DOMAIN memory
    BY <1>3, Zenon DEF IInv, SegmentsInv, ShowsSegment, Shows
  <2>2. \A p \in DOMAIN space : p \in DOMAIN space' /\ space'[p] = space[p]
    BY <1>2, Zenon
  <2>3. QED
    BY <1>1, <1>3, <2>1, <2>2, SegmentsStay, Zenon DEF IInv
<1>6. Checked'
  BY <1>1, <1>3, StayChecked, Zenon DEF IInv, SegmentsInv
<1>7. SegmentsInv'
  BY <1>1, <1>3, <1>4, <1>5, <1>6, Zenon DEF SegmentsInv
<1>8. StackInv'
  <2>1. /\ <<"ustack">> \in owned /\ <<"ustack">> \in DOMAIN memory
        /\ memory[<<"ustack">>] = Zeroed(StackPages)
    BY <1>1, Zenon DEF IInv, StackInv
  <2>2. Shows(StackBottom, StackTop, <<"ustack">>, Zeroed(StackPages), FALSE, TRUE)'
    BY <1>1, <1>2, <2>1, Zenon DEF Shows, Pages, PageOf, PageEntry, Zeroed, StackBottom, StackTop
  <2>3. QED
    BY <1>1, <2>1, <2>2, Zenon DEF StackInv, Zeroed
<1>9. OnlyThese'
  BY <1>1, <1>2, <1>3, Zenon DEF IInv, OnlyThese, Pages, PageOf, StackBottom, StackTop
<1>10. OwnedInv' /\ OverInv'
  <2>1. /\ owned \subseteq Ranges({"ustack", "kstack", "tables", "l4"})
        /\ <<"tables">> \in owned /\ <<"l4">> \in owned
    BY <1>1, <1>3, Zenon DEF IInv, OwnedInv
  <2>2. owned \subseteq Ranges({"syscall_stack", "tables", "l4", "kstack", "ustack"})
    BY <2>1, Zenon DEF Ranges
  <2>3. QED
    BY <1>1, <1>3, <2>1, <2>2, Zenon DEF OwnedInv, OverInv, Ranges
<1>11. QED
  BY <1>1, <1>3, <1>7, <1>8, <1>9, <1>10, Zenon DEF IInv

\* What is mapped while there is no error.
LEMMA RunningMapped ==
  ASSUME IInv, pc \notin Over
  PROVE  /\ MappedOwned
         /\ \A p \in DOMAIN space :
              \/ space[p].range[1] = "segment"
              \/ pc \in WithStack /\ space[p].range[1] = "ustack"
<1>1. PageSize \in Nat \ {0} /\ UserEnd \in Nat /\ prog \in Programs
  BY LoaderAssumption, Zenon DEF IInv
<1>2. ASSUME NEW p, NEW b \in Nat, NEW e \in Nat, p \in b..(e - 1), PageSize * e <= UserEnd
      PROVE  p * PageSize < UserEnd
  <2> DEFINE v == p * PageSize
  <2>1. p \in Nat /\ v \in Nat /\ v \in (p * PageSize)..(p * PageSize + PageSize - 1)
    BY <1>1, <1>2
  <2>2. v < PageSize * e
    BY <1>2, <2>1, PageInPages, Zenon
  <2>3. PageSize * e \in Nat
    BY <1>1
  <2>4. QED
    BY <1>1, <1>2, <2>1, <2>2, <2>3
<1>3. ASSUME NEW p \in DOMAIN space, NEW k \in 1..at, p \in Pages(segs[k].start, segs[k].end)
      PROVE  p * PageSize < UserEnd /\ space[p].range \in owned /\ space[p].range[1] = "segment"
  <2>1. pc \notin Over \union {"read", "check"} /\ k \in 1..Len(segs)
    BY <1>1, <1>3 DEF IInv, SegmentsInv, Early, InTask, Checked
  <2>2. Checked /\ ShowsSegment(k)
    BY <1>1, <2>1, Zenon DEF IInv, SegmentsInv
  <2>3. Sound(segs[k])
    BY <1>1, <2>1, <2>2, SegmentsSound, Zenon
  <2>4. PICK b, e \in Nat : /\ segs[k].end = PageSize * e
                            /\ Pages(segs[k].start, segs[k].end) = b..(e - 1)
    BY <2>3, SegmentPages, Zenon
  <2>5. segs[k].end <= UserEnd
    BY <2>3, Zenon DEF Sound
  <2>6. p * PageSize < UserEnd
    BY <1>2, <1>3, <2>4, <2>5, Zenon
  <2>7. /\ space[p] = PageEntry(p, segs[k].start, <<"segment", k>>, segs[k].x, segs[k].w)
        /\ <<"segment", k>> \in owned
    BY <1>3, <2>2, Zenon DEF ShowsSegment, Shows
  <2>8. space[p].range = <<"segment", k>> /\ <<"segment", k>>[1] = "segment"
    BY <2>7 DEF PageEntry
  <2>9. QED
    BY <2>6, <2>7, <2>8, Zenon
<1>4. ASSUME NEW p \in DOMAIN space, pc \in WithStack, p \in Pages(StackBottom, StackTop)
      PROVE  p * PageSize < UserEnd /\ space[p].range \in owned /\ space[p].range[1] = "ustack"
  <2>1. PICK b, e \in Nat : StackTop = PageSize * e /\ Pages(StackBottom, StackTop) = b..(e - 1)
    BY StackPlace, Zenon
  <2>2. StackTop <= UserEnd
    BY <1>1, StackPlace
  <2>3. p * PageSize < UserEnd
    BY <1>2, <1>4, <2>1, <2>2, Zenon
  <2>4. space[p] = PageEntry(p, StackBottom, <<"ustack">>, FALSE, TRUE) /\ <<"ustack">> \in owned
    BY <1>4, Zenon DEF IInv, StackInv, Shows
  <2>5. space[p].range = <<"ustack">> /\ <<"ustack">>[1] = "ustack"
    BY <2>4 DEF PageEntry
  <2>6. QED
    BY <2>3, <2>4, <2>5, Zenon
<1>5. ASSUME NEW p \in DOMAIN space PROVE <<"tables">> \in owned
  <2>1. pc \notin Early
    BY NothingMapped, Zenon
  <2>2. QED
    BY <2>1, Zenon DEF IInv, OwnedInv
<1>6. \A p \in DOMAIN space :
        \/ \E k \in 1..at : p \in Pages(segs[k].start, segs[k].end)
        \/ pc \in WithStack /\ p \in Pages(StackBottom, StackTop)
  BY Zenon DEF IInv, OnlyThese
<1>7. pc # "failed" /\ (<<"tables">> \in owned => <<"l4">> \in owned)
  BY Zenon DEF IInv, OwnedInv, Over
<1>8. QED
  BY <1>3, <1>4, <1>5, <1>6, <1>7, Zenon DEF MappedOwned

\* An error, or a panic, leaves everything in its place.
LEMMA OverStep ==
  ASSUME IInv, pc \notin Over, pc' \in Over \ {"failed"}, UNCHANGED <<prog, segs, at, owned, memory, space>>,
         OwnedInv', pc' = "in_binary" => pc \notin WithStack,
         (pc = "bad_address" => \E a \in Asked(prog) : PageOf(a.v) = PageOf(UserEnd) - 1)'
  PROVE  IInv'
<1>1. pc' \notin Early \union {"segment", "mapstack"} \union InTask \union WithStack
  BY Zenon DEF Over, Early, InTask, WithStack
<1>2. SegmentsInv' /\ StackInv' /\ OnlyThese'
  BY <1>1, Zenon DEF SegmentsInv, StackInv, OnlyThese
<1>3. MappedOwned'
  BY RunningMapped, Zenon DEF MappedOwned, Over
<1>4. (pc \in DOMAIN Behind => \A p \in DOMAIN space : space[p].range[1] \in Behind[pc])'
  <2>1. \A p \in DOMAIN space :
          \/ space[p].range[1] = "segment"
          \/ pc \in WithStack /\ space[p].range[1] = "ustack"
    BY RunningMapped, Zenon
  <2>2. DOMAIN Behind = {"in_binary", "in_user"} /\ Behind["in_binary"] = {"segment"}
        /\ Behind["in_user"] = {"segment", "ustack"}
    BY DEF Behind
  <2>3. Behind' = Behind
    BY Zenon DEF Behind
  <2>4. CASE pc' = "in_binary"
    BY <2>1, <2>2, <2>3, <2>4, Zenon
  <2>5. CASE pc' = "in_user"
    BY <2>1, <2>2, <2>3, <2>5, Zenon
  <2>6. QED
    BY <2>2, <2>3, <2>4, <2>5, Zenon
<1>5. OverInv'
  BY <1>3, <1>4, Zenon DEF OverInv
<1>6. QED
  BY <1>2, <1>5, Zenon DEF IInv

LEMMA AbortStep ==
  ASSUME IInv, pc \in DOMAIN ErrorIn, Abort
  PROVE  IInv'
<1>1. /\ pc \in {"read", "check", "space", "segment"} => pc' = "in_load"
      /\ pc \in {"kstack", "ustack", "mapstack"} => pc' = "in_binary"
      /\ pc \in {"syscall_stack", "priv_stack"} => pc' = "in_user"
      /\ pc \in {"read", "check", "space", "segment", "kstack", "ustack", "mapstack", "syscall_stack", "priv_stack"}
      /\ UNCHANGED <<prog, segs, at, owned, memory, space>>
  BY DEF Abort, ErrorIn
<1>2. pc \notin Over /\ pc' \in Over \ {"failed", "bad_address"} /\ (pc' = "in_binary" => pc \notin WithStack)
  BY <1>1, Zenon DEF Over, WithStack
<1>3. OwnedInv'
  <2>1. OwnedInv
    BY Zenon DEF IInv
  <2>2. pc' \notin InTask \union {"segment"}
    BY <1>2, Zenon DEF Over, InTask
  <2>3. CASE pc \in {"read", "check", "space", "segment"}
    BY <1>1, <2>1, <2>2, <2>3, Zenon DEF OwnedInv, Ranges
  <2>4. CASE pc \in {"kstack", "ustack", "mapstack"}
    BY <1>1, <2>1, <2>2, <2>4, Zenon DEF OwnedInv, Ranges
  <2>5. CASE pc \in {"syscall_stack", "priv_stack"}
    BY <1>1, <2>1, <2>2, <2>5, Zenon DEF OwnedInv, Ranges
  <2>6. QED
    BY <1>1, <2>3, <2>4, <2>5, Zenon
<1>4. QED
  BY <1>1, <1>2, <1>3, OverStep, Zenon

\* The copy of a segment stays in its pages, and a segment that ends at
\* USER_END has a byte in the last page.
LEMMA PanicStep ==
  ASSUME IInv, Panic
  PROVE  IInv'
<1> DEFINE n == at + 1
           seg == segs[n]
<1>1. /\ pc = "segment" /\ at < Len(segs) /\ UNCHANGED <<prog, segs, at, owned, memory, space>>
      /\ ~Fits(seg) \/ (pc' = "bad_address" /\ ~Canonical(seg))
  BY DEF Panic, BadCopy, BadAddress
<1>2. prog \in Programs /\ Checked /\ at \in Nat
  BY <1>1, Zenon DEF IInv, SegmentsInv, Over
<1>3. n \in 1..Len(segs)
  BY <1>1, <1>2 DEF Checked
<1>4. Sound(seg)
  BY <1>2, <1>3, SegmentsSound, Zenon
<1>5. PICK k \in Kept(prog) : seg = Segment(prog, prog.phdrs[k])
  BY <1>2, <1>3, Zenon DEF Checked
<1> DEFINE h == prog.phdrs[k]
<1>6. seg.virt = Base(prog) + h.vaddr /\ seg.memSize = h.memsz
  BY <1>5 DEF Segment
<1>7. k \in Loads(prog)
  BY <1>2, ProgramTypes, Zenon
<1> HIDE DEF seg
<1>8. /\ seg.virt \in Nat /\ seg.memSize \in Nat \ {0} /\ seg.end \in Nat
      /\ seg.end < seg.virt + seg.memSize + PageSize /\ seg.end <= UserEnd
      /\ seg.virt + seg.memSize <= seg.end
  BY <1>4 DEF Sound, Segments
<1>9. Fits(seg)
  BY <1>4 DEF Fits, Sound, Segments
<1>10. pc' = "bad_address" /\ seg.end = UserEnd
  <2>1. pc' = "bad_address" /\ ~Canonical(seg)
    BY <1>1, <1>9, Zenon
  <2>2. seg.end = UserEnd
    BY <1>8, <2>1, LoaderAssumption DEF Canonical
  <2>3. QED
    BY <2>1, <2>2, Zenon
<1>11. \E a \in Asked(prog) : PageOf(a.v) = PageOf(UserEnd) - 1
  <2> DEFINE i == h.memsz - 1
             v == Base(prog) + h.vaddr + i
             a == [v |-> v, byte |-> IF i < h.filesz THEN h.offset + i ELSE Zero, x |-> h.x, w |-> h.w]
  <2>1. i \in 0..(h.memsz - 1)
    BY <1>6, <1>8
  <2>2. a \in Asked(prog) /\ a.v = v
    BY <1>7, <2>1, AskedBytes, Zenon
  <2> HIDE DEF h
  <2>3. v = seg.virt + seg.memSize - 1
    BY <1>6, <1>8
  <2> HIDE DEF i, a, v
  <2>4. PICK e \in Nat : seg.end = PageSize * e
    BY <1>4, Zenon DEF Sound
  <2>5. PageOf(UserEnd) = e /\ PageSize \in Nat \ {0}
    BY <1>10, <2>4, PageStart, LoaderAssumption, Zenon
  <2>6. v \in Nat /\ v < PageSize * e /\ PageSize * e <= v + PageSize
    BY <1>8, <2>3, <2>4, <2>5
  <2>7. e # 0
    BY <2>5, <2>6
  <2> DEFINE b == e - 1
  <2>8. b \in Nat /\ PageSize * b = PageSize * e - PageSize
    BY <2>4, <2>5, <2>7
  <2>9. PageSize * b <= v
    BY <2>5, <2>6, <2>8
  <2> HIDE DEF b
  <2>10. PageOf(v) \in b..(e - 1)
    BY <2>6, <2>8, <2>9, AddressInPages, Zenon
  <2>11. PageOf(v) = e - 1
    BY <2>4, <2>10 DEF b
  <2>12. QED
    BY <2>2, <2>5, <2>11, Zenon
<1>12. pc \notin Over /\ pc' \in Over \ {"failed"} /\ pc' # "in_binary"
  BY <1>1, <1>10, Zenon DEF Over
<1>13. OwnedInv'
  BY <1>1, <1>10, Zenon DEF IInv, OwnedInv, InTask
<1>14. (pc = "bad_address" => \E a \in Asked(prog) : PageOf(a.v) = PageOf(UserEnd) - 1)'
  BY <1>1, <1>11, Zenon
<1>15. QED
  BY <1>1, <1>12, <1>13, <1>14, OverStep, Zenon

\* What is dropped while there are tables is not what they need or map.
LEMMA BeforeTables ==
  ASSUME pc \in {"in_load", "in_binary", "in_user"}, NEW h, Before(h, <<"tables">>)
  PROVE  /\ h[1] # "l4"
         /\ pc = "in_binary" => h[1] # "segment"
         /\ pc = "in_user" => h[1] \notin {"segment", "ustack"}
<1>1. PICK i, j \in DOMAIN DropOrder[pc] :
        DropOrder[pc][i] = h[1] /\ DropOrder[pc][j] = "tables" /\ (i < j \/ i = j)
  BY DEF Before
<1>2. CASE pc = "in_load"
  BY <1>1, <1>2 DEF DropOrder
<1>3. CASE pc = "in_binary"
  BY <1>1, <1>3 DEF DropOrder
<1>4. CASE pc = "in_user"
  BY <1>1, <1>4 DEF DropOrder
<1>5. QED
  BY <1>2, <1>3, <1>4, Zenon

LEMMA DropStep ==
  ASSUME IInv, Drop
  PROVE  IInv'
<1>1. PICK h \in owned :
        /\ \A g \in owned \ {h} : Before(h, g)
        /\ owned' = owned \ {h}
        /\ space' = IF h = <<"tables">> THEN Empty ELSE space
  BY Zenon DEF Drop
<1>2. pc \in {"in_load", "in_binary", "in_user"} /\ pc' = pc /\ UNCHANGED <<prog, segs, at, memory>>
  BY DEF Drop, DropOrder
<1>3. pc \in Over /\ pc \notin Early \union {"segment", "mapstack", "failed", "bad_address"} \union InTask \union WithStack
  BY <1>2, Zenon DEF Over, Early, InTask, WithStack
<1>4. MappedOwned /\ (pc \in DOMAIN Behind => \A p \in DOMAIN space : space[p].range[1] \in Behind[pc])
  BY <1>3, Zenon DEF IInv, OverInv
<1>5. DOMAIN Behind = {"in_binary", "in_user"} /\ Behind["in_binary"] = {"segment"}
      /\ Behind["in_user"] = {"segment", "ustack"} /\ Behind' = Behind
  BY DEF Behind
<1>6. SegmentsInv' /\ StackInv' /\ OnlyThese'
  BY <1>2, <1>3, Zenon DEF SegmentsInv, StackInv, OnlyThese
<1>7. CASE h = <<"tables">>
  <2>1. DOMAIN space' = {} /\ <<"tables">> \notin owned'
    BY <1>1, <1>7, Zenon DEF Empty
  <2>2. MappedOwned'
    BY <1>2, <1>3, <2>1, Zenon DEF MappedOwned
  <2>3. OverInv'
    BY <1>2, <1>3, <2>1, <2>2, Zenon DEF OverInv
  <2>4. OwnedInv'
    BY <1>1, <1>2, <1>3, <2>1, Zenon DEF IInv, OwnedInv, Ranges
  <2>5. QED
    BY <1>2, <1>3, <1>6, <2>3, <2>4, Zenon DEF IInv
<1>8. CASE h # <<"tables">>
  <2>1. space' = space
    BY <1>1, <1>8, Zenon
  <2>2. ASSUME <<"tables">> \in owned
        PROVE  /\ h[1] # "l4"
               /\ pc = "in_binary" => h[1] # "segment"
               /\ pc = "in_user" => h[1] \notin {"segment", "ustack"}
    BY <1>1, <1>2, <1>8, <2>2, BeforeTables, Zenon
  <2>3. <<"tables">> \in owned' => <<"l4">> \in owned'
    <3>1. <<"l4">>[1] = "l4"
      OBVIOUS
    <3>2. QED
      BY <1>1, <1>4, <2>2, <3>1, Zenon DEF MappedOwned
  <2>4. ASSUME NEW p \in DOMAIN space
        PROVE  /\ p * PageSize < UserEnd /\ <<"tables">> \in owned'
               /\ pc # "in_load" => space[p].range \in owned'
    <3>1. /\ p * PageSize < UserEnd /\ <<"tables">> \in owned
          /\ pc # "in_load" => space[p].range \in owned
      BY <1>4, <2>4, Zenon DEF MappedOwned
    <3>2. CASE pc = "in_load"
      BY <1>1, <1>8, <3>1, <3>2, Zenon
    <3>3. CASE pc = "in_binary"
      <4>1. space[p].range[1] = "segment" /\ h[1] # "segment"
        BY <1>4, <1>5, <2>2, <2>4, <3>1, <3>3, Zenon
      <4>2. QED
        BY <1>1, <1>8, <3>1, <3>3, <4>1, Zenon
    <3>4. CASE pc = "in_user"
      <4>1. space[p].range[1] \in {"segment", "ustack"} /\ h[1] \notin {"segment", "ustack"}
        BY <1>4, <1>5, <2>2, <2>4, <3>1, <3>4, Zenon
      <4>2. QED
        BY <1>1, <1>8, <3>1, <3>4, <4>1, Zenon
    <3>5. QED
      BY <1>2, <3>2, <3>3, <3>4, Zenon
  <2>5. MappedOwned'
    BY <1>2, <1>3, <2>1, <2>3, <2>4, Zenon DEF MappedOwned
  <2>6. OverInv'
    BY <1>2, <1>3, <1>4, <1>5, <2>1, <2>5, Zenon DEF OverInv
  <2>7. OwnedInv'
    BY <1>1, <1>2, <1>3, <2>3, Zenon DEF IInv, OwnedInv, Ranges
  <2>8. QED
    BY <1>2, <1>3, <1>6, <2>6, <2>7, Zenon DEF IInv
<1>9. QED
  BY <1>7, <1>8, Zenon

\* When the error returns, all that was owned has been dropped.
LEMMA FailedStep ==
  ASSUME IInv, Failed
  PROVE  IInv'
<1>1. /\ pc \in {"in_load", "in_binary", "in_user"} /\ pc' = "failed"
      /\ UNCHANGED <<prog, segs, at, owned, memory, space>>
  BY DEF Failed, DropOrder
<1>2. \A h \in owned : h[1] \notin Range(DropOrder[pc])
  BY Zenon DEF Failed
<1>3. /\ pc \in Over
      /\ pc' \notin Early \union {"segment", "mapstack", "in_load", "in_binary", "in_user", "bad_address"}
      /\ pc' \notin InTask \union WithStack /\ pc' \in Over
  BY <1>1, Zenon DEF Over, Early, InTask, WithStack
<1>4. SegmentsInv' /\ StackInv' /\ OnlyThese'
  BY <1>3, Zenon DEF SegmentsInv, StackInv, OnlyThese
<1>5. ASSUME NEW kinds, NEW h \in Ranges(kinds) PROVE h[1] \in kinds \union {"segment"}
  <2>1. CASE \E k \in kinds : h = <<k>>
    BY <2>1
  <2>2. CASE \E i \in Nat : h = <<"segment", i>>
    BY <2>2
  <2>3. QED
    BY <2>1, <2>2, Zenon DEF Ranges
<1>6. ASSUME NEW h \in owned PROVE FALSE
  <2>1. OwnedInv
    BY Zenon DEF IInv
  <2>2. CASE pc = "in_load"
    <3>1. h[1] \in {"tables", "l4", "file"} \union {"segment"}
      BY <1>5, <1>6, <2>1, <2>2, Zenon DEF OwnedInv
    <3>2. h[1] \in Range(DropOrder[pc])
      BY <2>2, <3>1 DEF Range, DropOrder
    <3>3. QED
      BY <1>2, <1>6, <3>2, Zenon
  <2>3. CASE pc = "in_binary"
    <3>1. h[1] \in {"ustack", "kstack", "tables", "l4"} \union {"segment"}
      BY <1>5, <1>6, <2>1, <2>3, Zenon DEF OwnedInv
    <3>2. h[1] \in Range(DropOrder[pc])
      BY <2>3, <3>1 DEF Range, DropOrder
    <3>3. QED
      BY <1>2, <1>6, <3>2, Zenon
  <2>4. CASE pc = "in_user"
    <3>1. h[1] \in {"syscall_stack", "tables", "l4", "kstack", "ustack"} \union {"segment"}
      BY <1>5, <1>6, <2>1, <2>4, Zenon DEF OwnedInv
    <3>2. h[1] \in Range(DropOrder[pc])
      BY <2>4, <3>1 DEF Range, DropOrder
    <3>3. QED
      BY <1>2, <1>6, <3>2, Zenon
  <2>5. QED
    BY <1>1, <2>2, <2>3, <2>4, Zenon
<1>7. owned' = {} /\ DOMAIN space' = {}
  <2>1. MappedOwned
    BY <1>3, Zenon DEF IInv, OverInv
  <2>2. QED
    BY <1>1, <1>6, <2>1, Zenon DEF MappedOwned
<1>8. MappedOwned'
  BY <1>7, Zenon DEF MappedOwned
<1>9. OverInv' /\ OwnedInv'
  BY <1>3, <1>7, <1>8, Zenon DEF OverInv, OwnedInv
<1>10. QED
  BY <1>1, <1>3, <1>4, <1>9, Zenon DEF IInv

LEMMA NextInv == IInv /\ [Next]_vars => IInv'
<1> SUFFICES ASSUME IInv, [Next]_vars PROVE IInv'
  BY Zenon
<1>1. CASE UNCHANGED vars
  <2>1. pc' = pc /\ UNCHANGED <<prog, segs, at, owned, memory, space>>
    BY <1>1, Zenon DEF vars
  <2>2. Checked => Checked'
    BY <2>1, StayChecked, Zenon
  <2>3. SegmentsInv'
    <3>1. ASSUME pc \notin Over, NEW k \in 1..at
          PROVE  ShowsSegment(k)'
      <4>1. <<"segment", k>> \in owned /\ <<"segment", k>> \in DOMAIN memory
        BY <3>1, Zenon DEF IInv, SegmentsInv, ShowsSegment, Shows
      <4>2. SegmentsInv
        BY Zenon DEF IInv
      <4>3. QED
        BY <2>1, <3>1, <4>1, <4>2, SegmentsStay, Zenon
    <3>2. QED
      BY <2>1, <2>2, <3>1, Zenon DEF IInv, SegmentsInv
  <2>4. StackInv'
    BY <2>1, Zenon DEF IInv, StackInv, Shows, Pages, PageOf, PageEntry, Zeroed, StackBottom, StackTop
  <2>5. OnlyThese'
    BY <2>1, Zenon DEF IInv, OnlyThese, Pages, PageOf, StackBottom, StackTop
  <2>6. OwnedInv' /\ OverInv'
    <3>1. (MappedOwned => MappedOwned') /\ Behind' = Behind
      BY <2>1, Zenon DEF MappedOwned, Behind
    <3>2. (\E a \in Asked(prog) : PageOf(a.v) = PageOf(UserEnd) - 1)
            => (\E a \in Asked(prog) : PageOf(a.v) = PageOf(UserEnd) - 1)'
      BY <2>1, Zenon
    <3>3. OwnedInv'
      BY <2>1, Zenon DEF IInv, OwnedInv, Ranges
    <3>4. OverInv'
      BY <2>1, <3>1, <3>2, Zenon DEF IInv, OverInv
    <3>5. QED
      BY <3>3, <3>4, Zenon
  <2>7. QED
    BY <2>1, <2>3, <2>4, <2>5, <2>6, Zenon DEF IInv
<1>2. CASE ReadFile
  BY <1>2, ReadFileStep, Zenon
<1>3. CASE Check
  BY <1>3, CheckStep, Zenon
<1>4. CASE Refuse \/ Fail
  <2>1. pc \in DOMAIN ErrorIn
    BY <1>4 DEF Refuse, Fail, ErrorIn
  <2>2. QED
    BY <1>4, <2>1, AbortStep, Zenon DEF Refuse, Fail
<1>5. CASE NewSpace
  BY <1>5, NewSpaceStep, Zenon
<1>6. CASE MapSegment
  BY <1>6, MapSegmentStep, Zenon
<1>7. CASE Loaded
  BY <1>7, LoadedStep, Zenon
<1>8. CASE NewStack
  BY <1>8, NewStackStep, Zenon
<1>9. CASE MapStack
  BY <1>9, MapStackStep, Zenon
<1>10. CASE Panic \/ Drop \/ Failed
  BY <1>10, PanicStep, DropStep, FailedStep, Zenon
<1>11. QED
  BY <1>1, <1>2, <1>3, <1>4, <1>5, <1>6, <1>7, <1>8, <1>9, <1>10, Zenon DEF Next

-----------------------------------------------------------------------------
(* What the program finds.                                                 *)

\* Offsets in a segment and addresses.
LEMMA Shifted ==
  ASSUME NEW s \in Nat, NEW o \in Nat, NEW l \in Nat, NEW d \in Nat
  PROVE  /\ d \in o..(o + l - 1) <=> s + d \in (s + o)..(s + o + l - 1)
         /\ d - o = (s + d) - (s + o)
OBVIOUS

\* An address of a segment shows the byte of the file that belongs there,
\* or zero, with the segment's rights.
LEMMA SegmentByte ==
  ASSUME IInv, pc = "done", NEW i \in 1..Len(segs), NEW v \in Nat,
         segs[i].start <= v, v < segs[i].end
  PROVE  /\ PageOf(v) \in DOMAIN space
         /\ space[PageOf(v)].x = segs[i].x /\ space[PageOf(v)].w = segs[i].w
         /\ Seen(v) = IF v \in segs[i].virt..(segs[i].virt + segs[i].len - 1)
                      THEN segs[i].from + (v - segs[i].virt) ELSE Zero
<1> DEFINE seg == segs[i]
           h == <<"segment", i>>
           q == PageOf(v)
           d == v - seg.start
<1>1. prog \in Programs /\ Checked /\ at = Len(segs) /\ ShowsSegment(i)
  BY Zenon DEF IInv, SegmentsInv, InTask, Over
<1>2. Sound(seg)
  BY <1>1, SegmentsSound, Zenon
<1>3. /\ memory[h] = Copied(seg)
      /\ \A p \in Pages(seg.start, seg.end) :
           p \in DOMAIN space /\ space[p] = PageEntry(p, seg.start, h, seg.x, seg.w)
  BY <1>1, Zenon DEF ShowsSegment, Shows
<1>4. seg.start <= v /\ v < seg.end
  BY Zenon
<1> HIDE DEF seg, h
<1>5. PICK b, e \in Nat : /\ seg.start = PageSize * b /\ seg.end = PageSize * e
                          /\ PageOf(seg.start) = b /\ Pages(seg.start, seg.end) = b..(e - 1)
  BY <1>2, SegmentPages, Zenon
<1>6. q \in b..(e - 1) /\ (q - b) * PageSize + (v % PageSize) = d
  BY <1>4, <1>5, AddressInPages, Zenon
<1>7. q \in DOMAIN space /\ space[q] = PageEntry(q, seg.start, h, seg.x, seg.w)
  BY <1>3, <1>5, <1>6, Zenon
<1>8. /\ space[q].range = h /\ space[q].page = q - b
      /\ space[q].x = seg.x /\ space[q].w = seg.w
  BY <1>5, <1>7 DEF PageEntry
<1>9. Seen(v) = Copied(seg)[d]
  BY <1>3, <1>6, <1>8, Zenon DEF Seen
<1> HIDE DEF q
<1>10. Copied(seg)[d] = IF v \in seg.virt..(seg.virt + seg.len - 1) THEN seg.from + (v - seg.virt) ELSE Zero
  <2>1. /\ seg.start \in Nat /\ seg.end \in Nat /\ seg.virt \in Nat /\ seg.len \in Nat
        /\ seg.from \in Nat /\ seg.pageOffset \in Nat /\ seg.virt = seg.start + seg.pageOffset
    BY <1>2, Zenon DEF Sound, Segments
  <2>2. d \in 0..(seg.end - seg.start - 1)
    BY <1>4, <2>1
  <2> DEFINE s == seg.start
             o == seg.pageOffset
             l == seg.len
             u == seg.virt
  <2>3. s \in Nat /\ o \in Nat /\ l \in Nat /\ d \in Nat /\ v = s + d /\ u = s + o
    BY <1>4, <2>1
  <2>4. Copied(seg)[d] = IF d \in o..(o + l - 1) THEN seg.from + (d - o) ELSE Zero
    <3> HIDE DEF d
    <3>1. QED
      BY <2>2, Zenon DEF Copied
  <2> HIDE DEF d, s, o, l, u
  <2>5. (d \in o..(o + l - 1) <=> v \in u..(u + l - 1)) /\ d - o = v - u
    BY <2>3, Shifted
  <2>6. Copied(seg)[d] = IF v \in u..(u + l - 1) THEN seg.from + (v - u) ELSE Zero
    BY <2>4, <2>5, Zenon
  <2>7. QED
    BY <2>6, Zenon DEF u, l
<1>11. QED
  BY <1>7, <1>8, <1>9, <1>10, Zenon DEF seg, q

\* An address of the stack shows zero and is not executable.
LEMMA StackByte ==
  ASSUME IInv, pc = "done", NEW v \in Nat, StackBottom <= v, v < StackTop
  PROVE  Seen(v) = Zero /\ ~space[PageOf(v)].x
<1> DEFINE h == <<"ustack">>
           q == PageOf(v)
           d == v - StackBottom
<1>1. /\ memory[h] = Zeroed(StackPages)
      /\ \A p \in Pages(StackBottom, StackTop) :
           p \in DOMAIN space /\ space[p] = PageEntry(p, StackBottom, h, FALSE, TRUE)
  BY Zenon DEF IInv, StackInv, WithStack, Shows
<1> HIDE DEF h
<1>2. PICK b, e \in Nat : /\ StackBottom = PageSize * b /\ StackTop = PageSize * e
                          /\ PageOf(StackBottom) = b /\ Pages(StackBottom, StackTop) = b..(e - 1)
  BY StackPlace, Zenon
<1>3. q \in b..(e - 1) /\ (q - b) * PageSize + (v % PageSize) = d
  BY <1>2, AddressInPages, Zenon
<1>4. space[q] = PageEntry(q, StackBottom, h, FALSE, TRUE)
  BY <1>1, <1>2, <1>3, Zenon
<1>5. space[q].range = h /\ space[q].page = q - b /\ ~space[q].x
  BY <1>2, <1>4 DEF PageEntry
<1>6. Seen(v) = Zeroed(StackPages)[d]
  BY <1>1, <1>3, <1>5, Zenon DEF Seen
<1>7. d \in 0..(StackPages * PageSize - 1)
  BY StackPlace
<1>8. Zeroed(StackPages)[d] = Zero
  BY <1>7, Zenon DEF Zeroed
<1>9. QED
  BY <1>5, <1>6, <1>8, Zenon DEF q

\* A byte that a header asks for is there.
LEMMA AskedIsSeen ==
  ASSUME IInv, pc = "done", NEW a \in Asked(prog)
  PROVE  /\ PageOf(a.v) \in DOMAIN space /\ Seen(a.v) = a.byte
         /\ space[PageOf(a.v)].x = a.x /\ space[PageOf(a.v)].w = a.w
<1>1. prog \in Programs /\ Checked
  BY Zenon DEF IInv, SegmentsInv, Over
<1>2. PICK k \in Loads(prog) : \E i \in 0..(prog.phdrs[k].memsz - 1) :
        a = [v |-> Base(prog) + prog.phdrs[k].vaddr + i,
             byte |-> IF i < prog.phdrs[k].filesz THEN prog.phdrs[k].offset + i ELSE Zero,
             x |-> prog.phdrs[k].x, w |-> prog.phdrs[k].w]
  BY AskedBytes, Zenon
<1> DEFINE h == prog.phdrs[k]
<1>3. PICK i \in 0..(h.memsz - 1) :
        a = [v |-> Base(prog) + h.vaddr + i, byte |-> IF i < h.filesz THEN h.offset + i ELSE Zero,
             x |-> h.x, w |-> h.w]
  BY <1>2, Zenon
<1>4. h \in Headers /\ Base(prog) \in Nat /\ (k \in Kept(prog) <=> h.memsz # 0)
  BY <1>1, ProgramTypes, Zenon
<1>5. h.memsz \in Nat /\ h.vaddr \in Nat /\ h.filesz \in Nat /\ h.offset \in Nat
  BY <1>4, Zenon DEF Headers
<1>6. k \in Kept(prog)
  BY <1>3, <1>4, <1>5
<1>7. PICK j \in 1..Len(segs) : segs[j] = Segment(prog, h)
  BY <1>1, <1>6, Zenon DEF Checked
<1> DEFINE seg == segs[j]
<1>8. /\ seg.virt = Base(prog) + h.vaddr /\ seg.memSize = h.memsz /\ seg.len = h.filesz
      /\ seg.from = h.offset /\ seg.x = h.x /\ seg.w = h.w
  BY <1>7 DEF Segment
<1>9. Sound(seg)
  BY <1>1, SegmentsSound, Zenon
<1> HIDE DEF seg, h
<1>10. /\ seg.virt \in Nat /\ seg.start \in Nat /\ seg.end \in Nat /\ seg.pageOffset \in Nat
       /\ seg.virt = seg.start + seg.pageOffset /\ seg.virt + seg.memSize <= seg.end
  BY <1>9, Zenon DEF Sound, Segments
<1>a. i \in Nat /\ i < h.memsz
  BY <1>3, <1>5
<1> DEFINE v == seg.virt + i
<1>11. a.v = v /\ a.byte = (IF i < h.filesz THEN h.offset + i ELSE Zero) /\ a.x = h.x /\ a.w = h.w
  BY <1>3, <1>8, Zenon
<1>12. v \in Nat /\ seg.start <= v /\ v < seg.end
  <2> DEFINE s == seg.start
             o == seg.pageOffset
             u == seg.virt
             z == seg.memSize
  <2>1. /\ s \in Nat /\ o \in Nat /\ u \in Nat /\ seg.end \in Nat /\ u = s + o /\ u + z <= seg.end
        /\ z \in Nat /\ i < z
    BY <1>5, <1>8, <1>10, <1>a, Zenon
  <2> HIDE DEF s, o, u, z
  <2>2. u + i \in Nat /\ s <= u + i /\ u + i < seg.end
    BY <1>a, <2>1
  <2>3. QED
    BY <2>2, Zenon DEF s, u
<1>13. (v \in seg.virt..(seg.virt + seg.len - 1) <=> i < h.filesz) /\ seg.from + (v - seg.virt) = h.offset + i
  <2> DEFINE u == seg.virt
             l == seg.len
  <2>1. u \in Nat /\ l \in Nat
    BY <1>5, <1>8, <1>10, Zenon
  <2> HIDE DEF u, l
  <2>2. (u + i \in u..(u + l - 1) <=> i < l) /\ (u + i) - u = i
    BY <1>a, <2>1
  <2>3. QED
    BY <1>8, <2>2, Zenon DEF u, l
<1> HIDE DEF v
<1>14. /\ PageOf(v) \in DOMAIN space
       /\ space[PageOf(v)].x = seg.x /\ space[PageOf(v)].w = seg.w
       /\ Seen(v) = IF v \in seg.virt..(seg.virt + seg.len - 1) THEN seg.from + (v - seg.virt) ELSE Zero
  BY <1>12, SegmentByte, Zenon DEF seg
<1>15. Seen(v) = a.byte
  BY <1>11, <1>13, <1>14, Zenon
<1>16. QED
  BY <1>8, <1>11, <1>14, <1>15, Zenon

\* The rest of a mapped page is zero.
LEMMA RestIsZero ==
  ASSUME IInv, pc = "done", NEW p \in DOMAIN space,
         NEW v \in (p * PageSize)..(p * PageSize + PageSize - 1),
         v \notin {a.v : a \in Asked(prog)}
  PROVE  Seen(v) = Zero
<1>1. prog \in Programs /\ Checked /\ at = Len(segs)
  BY Zenon DEF IInv, SegmentsInv, InTask, Over
<1>2. CASE p \in Pages(StackBottom, StackTop)
  <2>1. PICK b, e \in Nat : /\ StackBottom = PageSize * b /\ StackTop = PageSize * e
                            /\ Pages(StackBottom, StackTop) = b..(e - 1)
    BY StackPlace, Zenon
  <2>2. p \in b..(e - 1)
    BY <1>2, <2>1, Zenon
  <2>3. v \in Nat /\ StackBottom <= v /\ v < StackTop
    BY <2>1, <2>2, PageInPages, Zenon
  <2>4. QED
    BY <2>3, StackByte, Zenon
<1>3. ASSUME NEW j \in 1..Len(segs), p \in Pages(segs[j].start, segs[j].end)
      PROVE  Seen(v) = Zero
  <2> DEFINE seg == segs[j]
  <2>1. Sound(seg)
    BY <1>1, SegmentsSound, Zenon
  <2>2. PICK k \in Kept(prog) : seg = Segment(prog, prog.phdrs[k])
    BY <1>1, Zenon DEF Checked
  <2> DEFINE h == prog.phdrs[k]
  <2>3. p \in Pages(seg.start, seg.end)
    BY <1>3, Zenon
  <2>4. k \in Loads(prog) /\ h \in Headers /\ Base(prog) \in Nat
    BY <1>1, ProgramTypes, Zenon
  <2>5. seg.virt = Base(prog) + h.vaddr /\ seg.memSize = h.memsz /\ seg.len = h.filesz
    BY <2>2 DEF Segment
  <2> HIDE DEF seg
  <2>6. PICK b, e \in Nat : /\ seg.start = PageSize * b /\ seg.end = PageSize * e
                            /\ Pages(seg.start, seg.end) = b..(e - 1)
    BY <2>1, SegmentPages, Zenon
  <2>7. p \in b..(e - 1)
    BY <2>3, <2>6, Zenon
  <2>8. v \in Nat /\ seg.start <= v /\ v < seg.end
    BY <2>6, <2>7, PageInPages
  <2>9. v \notin seg.virt..(seg.virt + seg.len - 1)
    <3> SUFFICES ASSUME v \in seg.virt..(seg.virt + seg.len - 1) PROVE FALSE
      BY Zenon
    <3> DEFINE i == v - seg.virt
    <3>1. seg.virt \in Nat /\ seg.len \in Nat /\ seg.memSize \in Nat /\ seg.len <= seg.memSize
      BY <2>1, Zenon DEF Sound, Segments
    <3>2. i \in 0..(seg.memSize - 1) /\ v = seg.virt + i
      BY <2>8, <3>1
    <3> DEFINE a == [v |-> Base(prog) + h.vaddr + i,
                     byte |-> IF i < h.filesz THEN h.offset + i ELSE Zero, x |-> h.x, w |-> h.w]
    <3>3. i \in 0..(h.memsz - 1) /\ a.v = v
      BY <2>5, <3>2, Zenon
    <3> HIDE DEF i
    <3>4. a \in Asked(prog)
      BY <2>4, <3>3, AskedBytes, Zenon
    <3> HIDE DEF a
    <3>5. QED
      BY <3>3, <3>4, Zenon
  <2>10. Seen(v) = IF v \in seg.virt..(seg.virt + seg.len - 1) THEN seg.from + (v - seg.virt) ELSE Zero
    BY <2>8, SegmentByte, Zenon DEF seg
  <2>11. QED
    BY <2>9, <2>10, Zenon
<1>4. QED
  BY <1>1, <1>2, <1>3, Zenon DEF IInv, OnlyThese, Over

\* The entry is in an executable header.
LEMMA EntryAsked ==
  ASSUME IInv, pc = "done"
  PROVE  \E a \in Asked(prog) : a.x /\ a.v = Base(prog) + prog.entry /\ a.v = EntryOf(prog)
<1>1. prog \in Programs /\ Checked
  BY Zenon DEF IInv, SegmentsInv, Over
<1>2. PICK j \in 1..Len(segs) :
        segs[j].x /\ EntryOf(prog) \in segs[j].virt..(segs[j].virt + segs[j].memSize - 1)
  BY <1>1, Zenon DEF Checked, EntryOK
<1>3. PICK k \in Kept(prog) : segs[j] = Segment(prog, prog.phdrs[k])
  BY <1>1, Zenon DEF Checked
<1> DEFINE h == prog.phdrs[k]
           v == EntryOf(prog)
<1>4. k \in Loads(prog) /\ h \in Headers /\ Base(prog) \in Nat /\ prog.entry \in Nat
  BY <1>1, ProgramTypes, Zenon
<1>5. /\ segs[j].virt = Base(prog) + h.vaddr /\ segs[j].memSize = h.memsz /\ segs[j].x = h.x
      /\ v = Base(prog) + prog.entry
  BY <1>3 DEF Segment, EntryOf
<1>6. h.vaddr \in Nat /\ h.memsz \in Nat
  BY <1>4, Zenon DEF Headers
<1> DEFINE i == v - (Base(prog) + h.vaddr)
<1>7. v \in (Base(prog) + h.vaddr)..(Base(prog) + h.vaddr + h.memsz - 1) /\ h.x
  BY <1>2, <1>5, Zenon
<1> HIDE DEF v, h
<1>8. i \in 0..(h.memsz - 1) /\ v = Base(prog) + h.vaddr + i
  BY <1>4, <1>6, <1>7
<1> HIDE DEF i
<1> DEFINE a == [v |-> Base(prog) + h.vaddr + i,
                 byte |-> IF i < h.filesz THEN h.offset + i ELSE Zero, x |-> h.x, w |-> h.w]
<1>9. a \in Asked(prog)
  BY <1>4, <1>8, AskedBytes, Zenon DEF h
<1>10. a.v = v /\ a.x
  BY <1>7, <1>8, Zenon
<1> HIDE DEF a
<1>11. QED
  BY <1>5, <1>9, <1>10, Zenon DEF v

-----------------------------------------------------------------------------
(* The theorems.                                                           *)

\* The invariant holds in every reachable state of load and from_binary.
THEOREM Invariant == Spec => []IInv
<1>1. QED
  BY InitInv, NextInv, PTL DEF Spec

\* Whatever the program headers of a file say, the copy of map_segment does not
\* panic, nor its mapping unless a header asks for the last user page, and a task that from_binary returns finds at every address the byte and the
\* rights that the headers ask for, zeros in the rest of its pages and on its
\* stack, and an entry in executable bytes of the file's headers.
THEOREM ImageIsRight == Spec => []ImageRight
<1>1. IInv => ImageRight
  <2> SUFFICES ASSUME IInv PROVE ImageRight
    BY Zenon
  <2>1. /\ pc # "bad_copy"
        /\ pc = "bad_address" => \E a \in Asked(prog) : PageOf(a.v) = PageOf(UserEnd) - 1
    BY Zenon DEF IInv, OverInv, Early, InTask, Over
  <2>2. ASSUME pc = "done", NEW v \in StackBottom..(StackTop - 1)
        PROVE  Seen(v) = Zero /\ ~space[PageOf(v)].x
    <3>1. v \in Nat /\ StackBottom <= v /\ v < StackTop
      BY StackPlace
    <3>2. QED
      BY <2>2, <3>1, StackByte, Zenon
  <2>3. QED
    BY <2>1, <2>2, AskedIsSeen, RestIsZero, EntryAsked, Zenon DEF ImageRight
<1>2. QED
  BY <1>1, Invariant, PTL

\* From the first map_fixed of load to the end of from_binary a mapped page is
\* a page of the user's half, whose tables and memory are owned by the loader,
\* the binary or the task; and so after an error of from_binary or new_user,
\* at every point of what the error drops.  An error of load gives back the
\* memory first, and leaves no mapping and no memory behind when it returns.
THEOREM MappedIsOwned == Spec => []MappedOwned
<1>1. IInv => MappedOwned
  BY RunningMapped, Zenon DEF IInv, OverInv
<1>2. QED
  BY <1>1, Invariant, PTL
=============================================================================
