------------------------------- MODULE MCVMem -------------------------------
(***************************************************************************)
(* Tables of two entries and an L4 table of four: 32 pages, 16 in a half.  *)
(* The kernel's half starts with a huge page, and its image is one page in *)
(* the last L4 entry with the top of the half free behind it; the half of  *)
(* a user program is empty.                                                *)
(***************************************************************************)
EXTENDS VMem

MCTables ==
  [Kernel |-> {<<3, 16>>, <<2, 16>>, <<3, 24>>, <<2, 24>>, <<1, 24>>}, User |-> {}]

MCLeaves ==
  [Kernel |-> {[lvl |-> 1, at |-> 16, phys |-> 64], [lvl |-> 0, at |-> 24, phys |-> 81]},
   User |-> {}]

\* Requests of 4, 6 and 7 pages can take the range at the top to its end.
MmioRequests ==
  {[start |-> 0, count |-> r[1], phys |-> r[2]] :
     r \in {<<1, 0>>, <<2, 1>>, <<2, 2>>, <<3, 0>>, <<3, 1>>, <<4, 2>>, <<4, 0>>, <<5, 3>>, <<6, 0>>, <<7, 1>>}}

\* Regions within a half, some of which end where it ends.
FixedRequests ==
  {r \in [start : {0, 2, 4, 7, 11, 12, 15}, count : {1, 2, 4, 5}, phys : {0, 2, 3}] :
     r.start + r.count <= Top \div 2 /\ (r.start > 7 => r.start + r.count = Top \div 2)}

MCRequests == [Kernel |-> MmioRequests, User |-> FixedRequests]
=============================================================================
