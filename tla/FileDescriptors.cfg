CONSTANTS
  OPS_SIZE = 4
  MaxDepth = 2
  Dentries <- MCDentries
  Names = {".", "shell"}
  ReadSizes <- MCReadSizes
  FarFds = {100}
  StackGarbage = {"free", "null", "junk", "stale"}
  WholeListings = TRUE
  Selects = {0, 1, 2, 3, 4, 5, 6, 7, 8, 9}
SPECIFICATION SysErrSpec
INVARIANTS TypeOK UsedIsOpened FilesReadInOrder OpenFailsOnlyWhenFull ListingInOrder SyserrPasses
