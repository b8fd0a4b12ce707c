CONSTANTS
  Commands = 1
  MaxOutput = 1
  HostMayBeSlow = FALSE
SPECIFICATION Spec
INVARIANTS HaltIsClean
CHECK_DEADLOCK FALSE
