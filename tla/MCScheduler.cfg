SPECIFICATION LiveSpec
CONSTANTS
  NCpu = 2
  Users = {u1, u2, u3}
  None = None
INVARIANTS
  EveryTaskOnce
  RegistersMatch
PROPERTIES
  NoStarvation
  WorkSpreads
