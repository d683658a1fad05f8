SPECIFICATION Spec
CONSTANTS
  BitsPerBlock = 8
  BitmapBlocks = 2
  DataStart = 1
  DataEnd = 9
  EntriesPerBlock = 1
  LinksPerBlock = 1
  Workloads <- MCWorkloads
INVARIANTS
  BitmapExact
  ReadBack
