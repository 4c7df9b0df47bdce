CONSTANTS
  NUM_TERMINALS = 2
  MAX_KB_BUF = 3
  NUM_COLS = 3
  NUM_ROWS = 2
  PageCells = 7
  ActiveTerm = 0
  Keys = {"char", "dead", "l", "enter", "backspace", "alt", "ctrl", "F"}
  WORD = 8
  SwitchInWrite = TRUE
  ReadSizes = {}
  WriteSizes = {1}
SPECIFICATION Spec
INVARIANTS TextInPlace
