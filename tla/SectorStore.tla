---------------------------- MODULE SectorStore -----------------------------
(***************************************************************************)
(* What the file system relies on when it writes sectors of 512 bytes: a   *)
(* call changes only the sectors it names, each from its old value to its  *)
(* new one in one step; it returns Ok only when all have their new values, *)
(* and an error leaves some of them old.                                   *)
(***************************************************************************)
EXTENDS Integers

CONSTANTS Values, None

VARIABLES
  sectors,  \* the drive
  pending,  \* new values of the sectors of the current call, or None
  result    \* of the last call

vars == <<sectors, pending, result>>

Begin ==
  /\ pending = None /\ pending' # None
  /\ \A s \in DOMAIN pending' : pending'[s] \in Values
  /\ UNCHANGED <<sectors, result>>

Put ==
  /\ pending # None
  /\ DOMAIN sectors' = DOMAIN sectors
  /\ \A s \in DOMAIN sectors :
       \/ sectors'[s] = sectors[s]
       \/ s \in DOMAIN pending /\ sectors'[s] = pending[s]
  /\ UNCHANGED <<pending, result>>

End ==
  /\ pending # None
  /\ \/ result' = "error"
     \/ /\ result' = "ok"
        /\ \A s \in DOMAIN pending : s \in DOMAIN sectors /\ sectors[s] = pending[s]
  /\ pending' = None
  /\ UNCHANGED sectors

Init == pending = None /\ result = "none"
Next == Begin \/ Put \/ End
Spec == Init /\ [][Next]_vars
=============================================================================
