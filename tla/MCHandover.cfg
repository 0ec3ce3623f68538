SPECIFICATION FairHandoverSpec
CONSTANTS
  Maps <- MCMaps
  Addresses <- MCAddresses
  E820_MAX_ENTRIES_ZEROPAGE = 7
  EFI_MMAP_NR_SLACK_SLOTS = 1
  MaxKey = 7
INVARIANTS
  TypeOK
  FinalMap
  BufferNotOverrun
  MemmapOwned
  QuietRetryAccepted
  KernelSeesFinalMap
  FailsAfterExitOnlyPastSlack
PROPERTIES
  SlackCoversRetryFetch
  ImplementsHandover
  Ends
CHECK_DEADLOCK FALSE
