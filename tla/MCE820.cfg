SPECIFICATION TranslateSpec
CONSTANTS
  Maps <- MCMaps
  Addresses <- MCAddresses
  E820_MAX_ENTRIES_ZEROPAGE = 7
  EFI_MMAP_NR_SLACK_SLOTS = 1
INVARIANTS
  TranslateTypeOK
  Coverage
  ExtFits
  NoMergeableNeighbours
  KernelReadsAll
  SlackSuffices
CHECK_DEADLOCK FALSE
