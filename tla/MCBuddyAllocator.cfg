SPECIFICATION Spec
CONSTANTS
  MaxOrder = 3
  MaxBlocks = 2
  Entries <- MCEntries
  Donatable = {3}
  Counts = {0, 1, 2, 3, 5}
  MaxLive = 3
INVARIANTS
  PiecesApart
  NothingLost
  SlabExact
  RoutesMatch
  Coalesced
PROPERTY
  ImplementsOwnership
