SPECIFICATION DriveSpec
CONSTANTS
  SectorsPerBlock = 2
  SectorsPerPage = 4
  DiskBlocks = 5
  PartStart = 1
  PartBlocks = 3
  MaxSectors = 3
  Calls <- MCCalls
  None = None
INVARIANT ReadsItsSectors
PROPERTY WritesOnlyItsSectors
