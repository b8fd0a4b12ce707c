CONSTANTS
  Opcodes <- KernelOpcodes
  Params <- Parameters
SPECIFICATION Spec
INVARIANTS ParsersInv Synchronised CountIsOfCommand
