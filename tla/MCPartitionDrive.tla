-------------------------- MODULE MCPartitionDrive --------------------------
(***************************************************************************)
(* Blocks of two sectors and pages of four.  The partition has a block in  *)
(* front of it and one behind, and calls begin and end inside blocks, on   *)
(* their edges and behind the partition.                                   *)
(***************************************************************************)
EXTENDS PartitionDrive

C(kind, start, count, room) == [kind |-> kind, start |-> start, count |-> count, room |-> room]

MCCalls ==
  {C("write", s, n, 4) : s \in {0, 1, 3}, n \in {1, 2}}
  \union {C("write", 1, 4, 4), C("write", 4, 3, 4), C("write", 1, 3, 2),
          C("zero", 0, 5, 0), C("zero", 3, 4, 0), C("blocks", 1, 2, 0), C("blocks", 2, 2, 0)}
=============================================================================
