CONSTANTS
  MAX_PROCESSES = 6
  NUM_TERMINALS = 3
  Words <- MCWords
  Commands <- MCCommands
  EmptyWord = ""
  Shell = "shell"
  FileKind <- MCFileKind
  WordLength <- MCWordLength
  Statuses = {0, 1}
  BufferSizes <- MCBufferSizes
SPECIFICATION Spec
INVARIANTS TypeOK RunningProcessAgrees QueueHoldsEveryProcess TerminalsOfProcesses PrimaryShellsStay
PROPERTIES OthersUntouched HaltResumesParent ImplementsProcessStack
