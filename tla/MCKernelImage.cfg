SPECIFICATION Spec
CONSTANTS
  Frames <- MCFrames
  Below4G <- MCBelow4G
  UsedSets <- MCUsedSets
  PrefAddress = 4
  InitSize = 4
  FileSize = 3
  Segments <- MCHighSegments
  InitrdSize = 2
INVARIANTS
  LoadedFromElsewhere
  PreferredSparesOthers
CHECK_DEADLOCK FALSE
