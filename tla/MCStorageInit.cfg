SPECIFICATION BootSpec
CONSTANTS
  DeviceNumbers = {0, 1}
  FunctionNumbers = {0, 1}
  Buffers = {b1, b2, b3}
  Machines <- MCMachines
  DriveImages <- MCDriveImages
  BlockCount = 12
  PerBlock = 4
  MinCount = 2
  MaxBlocks = 1
  U64Max = 20
  Images <- MCImages
INVARIANTS
  FunctionOnce
  DrivesBacked
  PartitionsApart
  TableChecked
PROPERTY
  BootEnds
