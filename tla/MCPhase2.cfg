SPECIFICATION Spec
CONSTANTS
  VolumeLists <- MCVolumeLists
  MaxHandles = 3
INVARIANTS
  FilesTogether
  SuccessMeansLoaded
CHECK_DEADLOCK FALSE
