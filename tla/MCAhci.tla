------------------------------- MODULE MCAhci -------------------------------
(***************************************************************************)
(* Two callers and two slots; one request takes two commands, one reaches  *)
(* past the end of the drive, one has too small a buffer, and one is a     *)
(* sync.                                                                   *)
(***************************************************************************)
EXTENDS Ahci

R(start, count, room, data) == [start |-> start, count |-> count, room |-> room, data |-> data]

MCRequests == {R(0, 3, 3, TRUE), R(2, 2, 2, TRUE), R(0, 1, 1, FALSE), R(0, 2, 1, TRUE)}
=============================================================================
