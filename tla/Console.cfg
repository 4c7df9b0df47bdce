CONSTANTS
  NUM_TERMINALS = 2
  MAX_KB_BUF = 2
  NUM_COLS = 2
  NUM_ROWS = 2
  PageCells = 5
  ActiveTerm = 0
  Keys = {"char", "dead", "l", "enter", "backspace", "alt", "ctrl", "F"}
  WORD = 8
  SwitchInWrite = FALSE
  ReadSizes <- MCReadSizes
  WriteSizes <- MCWriteSizes
SPECIFICATION FairSpec
INVARIANTS TypeOK VideoWritesMapped TextInPlace KbBufInBounds
PROPERTIES CallsReturn
