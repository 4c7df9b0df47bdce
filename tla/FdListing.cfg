CONSTANTS
  OPS_SIZE = 3
  MaxDepth = 1
  Dentries <- MCDentries
  Names = {".", "shell"}
  ReadSizes = {2}
  FarFds = {}
  StackGarbage = {"free"}
  WholeListings = FALSE
  Selects = {}
SPECIFICATION SysErrSpec
INVARIANTS ListingInOrder
