CONSTANTS
  Commands = 2
  MaxOutput = 2
  HostMayBeSlow = TRUE
SPECIFICATION Spec
INVARIANT OkMeansFinished
PROPERTIES TypedToShell SessionEnds
CHECK_DEADLOCK FALSE
