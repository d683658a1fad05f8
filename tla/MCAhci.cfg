SPECIFICATION FairSpec
CONSTANTS
  Callers = {c1, c2}
  None = None
  Ncs = 1
  BlockCount = 3
  MaxSectors = 3
  MaxPrdBlocks = 2
  Requests <- MCRequests
  MaxCalls = 2
INVARIANTS
  OkMeansDone
  RunningOwned
PROPERTIES
  SlotPrivate
  CallReturns
