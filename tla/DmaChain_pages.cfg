CONSTANTS
  fd = fd
  sd = sd
  Channels <- BothChannels
  Floppy = fd
  PageBytes = 2
  MaxBytes = 3
  Sectors = 2
  SizeCodes <- BothSizes
  Smallest = 1
SPECIFICATION FairSpec
INVARIANTS
  ChainInv NotCutShort ReadNeverRunsOff SinglePageQuiet NeverStranded
PROPERTIES ProcessorResumes FloppyTransfer ScsiTransfer
