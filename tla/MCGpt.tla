------------------------------- MODULE MCGpt --------------------------------
(***************************************************************************)
(* A drive of twelve blocks: the primary array in block 2, usable blocks   *)
(* from 3 to 9, the backup's array in block 10.  A block has four entries, *)
(* and an array two, so that the walk goes on behind it, or five, of which *)
(* four are read.  Headers are good, damaged or wrong in one field; up to  *)
(* five entries are on the disk, good or bad.                              *)
(***************************************************************************)
EXTENDS Gpt, TLC

E(start, end) == [start |-> start, end |-> end]
MCEntries == {E(3, 4), E(4, 6), E(5, 5), E(6, 5), E(2, 4), E(7, 9), E(7, 12)}
Arrays == {<<>>} \union {<<a>> : a \in MCEntries} \union {<<a, b>> : a, b \in MCEntries}
          \union {<<E(3, 4), a, E(7, 9)>> : a \in MCEntries}
          \union {<<E(4, 4), E(5, 5), E(6, 6), E(7, 7), E(8, 9)>>}

\* A header with an array of two entries, the first two of those on the disk.
GptHeader(curr, alternate, first, last, start, array) ==
  [intact |-> TRUE, sized |-> TRUE, curr |-> curr, alternate |-> alternate, first |-> first, last |-> last,
   start |-> start, count |-> 2, checksum |-> Prefix(array, 2)]

\* The same with five entries, which take two blocks.
Large(h, first, array) == [h EXCEPT !.first = first, !.count = 5, !.checksum = Prefix(array, 4)]

\* The header that good is, damaged or wrong ones, and those of larger arrays.
Spoilt(good, array) ==
  {good, [good EXCEPT !.intact = FALSE], [good EXCEPT !.sized = FALSE], [good EXCEPT !.last = BlockCount + 1],
   [good EXCEPT !.last = BlockCount], [good EXCEPT !.curr = 5], [good EXCEPT !.first = 2], [good EXCEPT !.start = U64Max],
   [good EXCEPT !.checksum = <<E(1, 1)>>], [good EXCEPT !.count = 1],
   Large(good, 3, array), Large(good, 4, array)}

Image(mbr, primary, backup, array) ==
  [mbr |-> mbr, headers |-> (1 :> primary) @@ (LastBlock :> backup), arrays |-> (2 :> array) @@ (10 :> array)]

Primary(a) == GptHeader(1, LastBlock, 3, 9, 2, a)

\* The backup's array is the primary one, or behind the usable blocks.
ImagesOf(mbr, a) ==
  {Image(mbr, p, b, a) :
     p \in Spoilt(Primary(a), a),
     b \in Spoilt(GptHeader(LastBlock, 1, 3, 9, 2, a), a) \union {GptHeader(LastBlock, 1, 3, 9, 10, a)}}

MCImages == UNION {ImagesOf(TRUE, a) : a \in Arrays} \union ImagesOf(FALSE, <<>>)
              \union ImagesOf(FALSE, <<E(3, 4), E(7, 9)>>)
=============================================================================
