SPECIFICATION FairSpec
CONSTANTS
  Frames <- MCFrames
  Below4G <- MCBelow4G
  UsedSets <- MCUsedSets
  PrefAddress = 4
  InitSize = 4
  FileSize = 3
  Segments <- MCSegments
  InitrdSize = 2
INVARIANTS
  JumpsToKernelEntry
CHECK_DEADLOCK FALSE
