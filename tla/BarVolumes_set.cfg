CONSTANTS
  BS = 2
  Entries <- MCEntries
  MaxEntries = 3
  Caps = {2, 3, 5}
  NoEntry = NoEntry
  Directory = Directory
SPECIFICATION Spec
INVARIANTS SeamsInvisible NothingLost
PROPERTY ExtractEnds
CHECK_DEADLOCK FALSE
