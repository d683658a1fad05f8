SPECIFICATION LateSpec
CONSTANTS
  NCpu = 3
  Tables = 1
  MayUpgrade = {0, 1}
  MayPanic = {1}
INVARIANTS
  AckMeansFlushed
  StaleIsPending
  HaltedHoldNothing
PROPERTIES
  UpgradeEnds
  OthersHalt
