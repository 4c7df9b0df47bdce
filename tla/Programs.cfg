CONSTANTS
  COLS = 2
  ROWS = 3
  Frames <- MCFrames
  NoFile = NoFile
  OPS_SIZE = 8
  LeftoverSets <- MCLeftoverSets
  OFFSET = 1
  WAIT = 5
  FRAME_LENGTH = 4
  ADD_LOCATION = 3
  ADD_ON = 3
  ADD_OFF = 2
  BUFSIZE = 4
  Texts <- MCTexts
  Patterns <- MCPatterns
  StackBytes <- MCStackBytes
SPECIFICATION ProgramsSpec
INVARIANTS TypeOK ListIsHeap FramesDrawn BlinksOnTime ScreenFollows ClockStaysOpen GrepPrintsMatches
PROPERTIES FishEnds
CHECK_DEADLOCK FALSE
