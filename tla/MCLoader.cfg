SPECIFICATION Spec
CONSTANTS
  PageSize = 2
  UserEnd = 16
  UsizeMax = 20
  DynBase = 4
  StackPages = 2
  FileLen = 5
  Programs <- MCPrograms
INVARIANTS
  ImageRight
  MappedOwned
