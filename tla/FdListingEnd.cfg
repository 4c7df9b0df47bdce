CONSTANTS
  OPS_SIZE = 3
  MaxDepth = 1
  Dentries <- TwoEntries
  Names = {".", "shell"}
  ReadSizes = {2}
  FarFds = {}
  StackGarbage = {"free"}
  WholeListings = TRUE
SPECIFICATION EndedSpec
INVARIANTS FurtherReadsReturnZero
