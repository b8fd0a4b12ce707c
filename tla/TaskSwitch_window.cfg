CONSTANTS
  Task <- Tasks
  Home <- Homes
  Ring <- Rings
  Virtual = {"v86"}
  Mappings <- MCMappings
  UserPage = {"v86"}
  First = "kernel"
SPECIFICATION Spec
INVARIANTS SwitchCompletes OutgoingKept BusyIsActive V86IsRing3
PROPERTIES ContextsComeBack OnlyRing0EntersV86
CHECK_DEADLOCK FALSE
