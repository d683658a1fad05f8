------------------------------ MODULE MCLoader ------------------------------
(***************************************************************************)
(* Pages of two bytes, sixteen bytes of user memory of which the stack     *)
(* takes two pages below the last one, and files with up to two headers:   *)
(* unaligned, empty, in descending order, touching, overlapping only after *)
(* rounding, in the stack, at the end of memory, or wrapping around.       *)
(***************************************************************************)
EXTENDS Loader

H(load, vaddr, memsz, filesz, offset, x) ==
  [load |-> load, vaddr |-> vaddr, memsz |-> memsz, filesz |-> filesz, offset |-> offset, x |-> x, w |-> ~x]

MCHeaders ==
  {H(TRUE, v, m, f, 1, x) : v \in {0, 1, 3, 4, 9, 14, 18}, m \in {0, 1, 3}, f \in {0, 1, 2}, x \in BOOLEAN}
  \union {H(TRUE, 3, 3, 2, 4, TRUE), H(FALSE, 4, 2, 2, 0, TRUE)}

MCPrograms ==
  [dyn : BOOLEAN, entry : {1, 4}, phdrs : {<<h>> : h \in MCHeaders} \union {<<g, h>> : g, h \in MCHeaders}]
=============================================================================
