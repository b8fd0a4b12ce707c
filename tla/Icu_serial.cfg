CONSTANTS
  Devices = {"scc", "kbdscc", "scsi"}
  LevelTriggered = TRUE
SPECIFICATION FairSpec
INVARIANTS ProgrammedAsWritten VectorIsProgrammed
PROPERTY Heard
