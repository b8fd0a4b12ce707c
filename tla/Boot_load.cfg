CONSTANTS
  Images = {"short", "diskette", "nocoff", "kernel", "truncated"}
  TrapVectors = {1, 14}
  MaxRequests = 5
SPECIFICATION Spec
INVARIANTS BootInv LoadStartsProgram RebootRestores
PROPERTIES KeyboardOpens
CHECK_DEADLOCK FALSE
