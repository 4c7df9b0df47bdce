CONSTANTS
  TOP = 22
  MAX_N = 9
  MAX_ADDRESS = 7
  MAX_STR = 4
  Strings <- MCStrings
  KB4 = 5
  MAX_DBLOCKS_PER_FILE = 3
  WORD = 64
  Inodes <- MCInodes
  Lengths = {0,1,2,3,4,5,6,7,8,9,10,11,12,13,14,15,16,48,61,63}
  UINT = 4096
  HEX_DIGITS = 3
  PrintCalls <- MCPrintCalls
SPECIFICATION LibrarySpec
INVARIANTS ReadsWanted MemoryRight StringsRight PrintsRight
