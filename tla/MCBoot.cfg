SPECIFICATION FairSpec
CONSTANTS
  FirmwareSelectors <- MCFirmwareSelectors
INVARIANTS
  StagesFreeTheirOwn
  HandoffReady
  KernelEntryState
  ReadsKeySafely
  FailureReported
PROPERTIES
  BootEnds
  ImplementsBootLoader
CHECK_DEADLOCK FALSE
