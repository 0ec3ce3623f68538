SPECIFICATION Spec
CONSTANTS
  VolumeLists <- MCVolumeLists
  MaxHandles = 3
  NULL = NULL
  UINTN_LIMIT = 256
  UINT32_MAX = 15
  INT32_MAX = 7
INVARIANTS
  FindsFirst
  NotFoundHonest
  NoLeak
  ModeAsWritten
  ReportedLine
CHECK_DEADLOCK FALSE
