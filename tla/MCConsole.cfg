SPECIFICATION Spec
CONSTANTS
  Scripts <- MCScripts
  BUFFER_SIZE = 6
  NARROW_MAX = 3
  POINTER_DIGITS = 4
  CHAR_LIMIT = 256
  BugMalloc <- MCBugMalloc
  BugFree <- MCBugFree
  NONE = NONE
INVARIANTS
  SerialOutput
  OverrunOnlyByLongString
PROPERTIES
  PrintfReturns
CHECK_DEADLOCK FALSE
