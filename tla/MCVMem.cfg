SPECIFICATION Spec
CONSTANTS
  Top = 32
  Fan = 2
  BootTables <- MCTables
  BootLeaves <- MCLeaves
  Requests <- MCRequests
INVARIANTS
  OneOwner
  HeldBacked
  NoEmptyTables
  RoomIsFound
