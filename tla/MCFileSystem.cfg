CONSTANTS
  Threads = {main, reader}
  NoThread = none
  Main = main
  NumSectors = 10
  SectorSize = 5
  NumDirEntries = 3
  TransferSize = 4
  Names = {"a", "b", "c"}
  Programs <- MCPrograms
  MaxCrashes = 1
  Blank = blank
SPECIFICATION Spec
INVARIANTS FilesKept FreeMapExact
PROPERTY CommandsEnd
CHECK_DEADLOCK FALSE
