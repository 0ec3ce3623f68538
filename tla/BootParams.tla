----------------------------- MODULE BootParams ------------------------------
(***************************************************************************)
(* What wboot_allocate_e820 and wboot_exit_bs leave for                    *)
(* wboot_translate_memmap (src/phase3/wboot.c): the memory map that        *)
(* boot_params.efi_info describes, and the buffer e820ext.  Sizes of maps  *)
(* are counted in descriptors (the code multiplies by desc_size, which a   *)
(* given firmware never changes).                                          *)
(***************************************************************************)
EXTENDS Integers, Sequences

CONSTANTS
  Maps,                       \* the memory maps the firmware can have
  E820_MAX_ENTRIES_ZEROPAGE,  \* entries in boot_params.e820_table
  EFI_MMAP_NR_SLACK_SLOTS     \* spare slots, also the literal 32 in wboot_exit_bs

Descriptors == [type : STRING, start : Nat, pages : Nat]

ASSUME MapsAssumption == Maps \subseteq Seq(Descriptors) \ {<<>>}

VARIABLES
  extFor,   \* the number of descriptors e820ext was sized for, 0 when it is NULL
  efiInfo   \* what boot_params.efi_info says: the memory map and its size
==============================================================================
