CONSTANTS
  Images = {"kernel"}
  TrapVectors = {}
  MaxRequests = 2
SPECIFICATION Spec
INVARIANTS RebootStartsKernel
CHECK_DEADLOCK FALSE
