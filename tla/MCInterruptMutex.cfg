SPECIFICATION FairSpec
CONSTANTS
  NCpu = 2
  NThread = 1
  NLock = 2
INVARIANTS
  HolderRuns
  StatusRestored
PROPERTY EveryLockGranted
