SPECIFICATION Spec
CONSTANTS
  HandleLists <- MCHandleLists
  Configs <- MCConfigs
INVARIANTS
  PrimaryGop
  DescribesActiveMode
  ModeHonoured
  DepthAsAsked
  LineHoldsRow
CHECK_DEADLOCK FALSE
