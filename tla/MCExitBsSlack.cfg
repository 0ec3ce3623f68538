SPECIFICATION FairSpec
CONSTANTS
  Maps <- MCMaps
  E820_MAX_ENTRIES_ZEROPAGE = 3
  EFI_MMAP_NR_SLACK_SLOTS = 1
  MaxKey = 4
PROPERTIES
  SlackCoversFirstFetch
CHECK_DEADLOCK FALSE
