-------------------------------- MODULE E820 ---------------------------------
(***************************************************************************)
(* wboot_translate_memmap and add_e820ext (src/phase3/wboot.c): the final  *)
(* UEFI memory map becomes the kernel's e820 table.  The first entries go  *)
(* to boot_params.e820_table, the rest to the setup_data block e820ext     *)
(* that wboot_allocate_e820 allocated for the map it saw.                  *)
(*                                                                         *)
(* One action is one turn of the loop.  "out" is the sequence of entries   *)
(* written so far: its first E820_MAX_ENTRIES_ZEROPAGE elements are the    *)
(* zero page's, the others are those of e820ext->data, and prev is its     *)
(* last element.                                                           *)
(***************************************************************************)
EXTENDS BootParams

CONSTANT Addresses  \* the addresses the properties ask about

(* Sizes in bytes of boot_e820_entry_t, setup_data_t and setup_header_t,    *)
(* which are packed structures.                                             *)
SizeofEntry == 20
SizeofSetupData == 16
SizeofSetupHeader == 123

ASSUME TableAssumption ==
  /\ E820_MAX_ENTRIES_ZEROPAGE \in 1..255
  /\ EFI_MMAP_NR_SLACK_SLOTS \in Nat
  /\ SizeofEntry * (E820_MAX_ENTRIES_ZEROPAGE - EFI_MMAP_NR_SLACK_SLOTS)
       >= SizeofSetupHeader - SizeofSetupData
ASSUME AddressesAssumption == Addresses \subseteq Nat

VARIABLES
  i,            \* the loop counter: descriptors translated so far
  out,          \* the entries written so far
  status,       \* "translating", "success" or "buffer_too_small"
  e820_entries, \* params->e820_entries
  setup_data    \* the list of setup_data blocks, by the number of entries each holds

inputs == <<efiInfo, extFor>>
loopVars == <<i, out, status, e820_entries, setup_data>>
translateVars == <<efiInfo, extFor, i, out, status, e820_entries, setup_data>>

ZP == E820_MAX_ENTRIES_ZEROPAGE

(* efi_memmap_size / efi_memdesc_size descriptors of the buffer efi_memmap  *)
(* points to.                                                               *)
descs == SubSeq(efiInfo.map, 1, efiInfo.size)

-----------------------------------------------------------------------------
(* What the code computes from a descriptor.                                *)

ReservedTypes == {"EfiReservedMemoryType", "EfiRuntimeServicesCode",
                  "EfiRuntimeServicesData", "EfiMemoryMappedIO",
                  "EfiMemoryMappedIOPortSpace", "EfiPalCode"}
RamTypes == {"EfiLoaderCode", "EfiLoaderData", "EfiBootServicesCode",
             "EfiBootServicesData", "EfiConventionalMemory"}

(* The switch on d->Type; its default skips the descriptor.                 *)
E820Type(type) ==
  CASE type \in ReservedTypes -> "RESERVED"
    [] type \in RamTypes -> "RAM"
    [] type = "EfiUnusableMemory" -> "UNUSABLE"
    [] type = "EfiACPIReclaimMemory" -> "ACPI"
    [] type = "EfiACPIMemoryNVS" -> "NVS"
    [] type = "EfiPersistentMemory" -> "PMEM"
    [] OTHER -> "none"

(* NumberOfPages << 12                                                      *)
Bytes(pages) == 4096 * pages

EntryFor(desc) ==
  [addr |-> desc.start, size |-> Bytes(desc.pages), type |-> E820Type(desc.type)]

-----------------------------------------------------------------------------
LoopInit ==
  /\ i = 0
  /\ out = <<>>
  /\ status = "translating"
  /\ e820_entries = 0
  /\ setup_data = <<>>

(* Any map, and e820ext as wboot_allocate_e820 made it for any other one.   *)
TranslateInit ==
  /\ efiInfo \in {[map |-> m, size |-> Len(m)] : m \in Maps}
  /\ extFor \in {0} \cup {Len(m) : m \in Maps}
  /\ LoopInit

(* *e820ext_size, 0 when e820ext is NULL.                                   *)
ExtSize == IF extFor = 0 THEN 0 ELSE SizeofSetupData + SizeofEntry * extFor

d == descs[i + 1]
Translating == status = "translating" /\ i < Len(descs)

(* d continues the last entry: same type, and no gap between them.          *)
TypeBlindMergeable == out # <<>> /\ out[Len(out)].addr + out[Len(out)].size = d.start
FirstTableMergeable ==
  /\ out # <<>> /\ Len(out) < ZP
  /\ out[Len(out)].type = E820Type(d.type)
  /\ out[Len(out)].addr + out[Len(out)].size = d.start
Mergeable ==
  /\ out # <<>>
  /\ out[Len(out)].type = E820Type(d.type)
  /\ out[Len(out)].addr + out[Len(out)].size = d.start

(* The room the entries still to come may need, as the code estimates it.   *)
NeedOfWholeMap == Len(descs) * SizeofEntry + SizeofSetupHeader
NeedOfOneEntry == SizeofEntry + SizeofSetupData
Need == (Len(descs) - i) * SizeofEntry + SizeofSetupHeader

ExtTooSmall == Len(out) = ZP /\ ExtSize < Need

Skip ==
  /\ Translating
  /\ E820Type(d.type) = "none"
  /\ i' = i + 1
  /\ UNCHANGED <<inputs, out, status, e820_entries, setup_data>>

Merge ==
  /\ Translating
  /\ E820Type(d.type) # "none"
  /\ Mergeable
  /\ i' = i + 1
  /\ out' = [out EXCEPT ![Len(out)].size = @ + Bytes(d.pages)]
  /\ UNCHANGED <<inputs, status, e820_entries, setup_data>>

TooSmall ==
  /\ Translating
  /\ E820Type(d.type) # "none"
  /\ ~Mergeable
  /\ ExtTooSmall
  /\ status' = "buffer_too_small"
  /\ UNCHANGED <<inputs, i, out, e820_entries, setup_data>>

(* The switch's default without its continue.                               *)
AddUntypedEntry ==
  /\ Translating
  /\ ~Mergeable
  /\ ~ExtTooSmall
  /\ i' = i + 1
  /\ out' = Append(out, EntryFor(d))
  /\ UNCHANGED <<inputs, status, e820_entries, setup_data>>
AddEntry ==
  /\ Translating
  /\ E820Type(d.type) # "none"
  /\ ~Mergeable
  /\ ~ExtTooSmall
  /\ i' = i + 1
  /\ out' = Append(out, EntryFor(d))
  /\ UNCHANGED <<inputs, status, e820_entries, setup_data>>

(* e820ext, with n entries, goes to the end of the setup_data list.         *)
add_e820ext(n) == setup_data' = Append(setup_data, n)

(* After the loop; the zero page's counter is a UINT8.                      *)
UnsplitFinish ==
  /\ status = "translating" /\ i = Len(descs)
  /\ status' = "success"
  /\ IF Len(out) > ZP THEN add_e820ext(Len(out) - ZP) ELSE UNCHANGED setup_data
  /\ e820_entries' = Len(out) % 256
  /\ UNCHANGED <<inputs, i, out>>
Finish ==
  /\ status = "translating" /\ i = Len(descs)
  /\ status' = "success"
  /\ IF Len(out) > ZP
       THEN /\ add_e820ext(Len(out) - ZP)
            /\ e820_entries' = ZP % 256
       ELSE /\ e820_entries' = Len(out) % 256
            /\ UNCHANGED setup_data
  /\ UNCHANGED <<inputs, i, out>>

TranslateNext == Skip \/ Merge \/ TooSmall \/ AddEntry \/ Finish

TranslateSpec == TranslateInit /\ [][TranslateNext]_translateVars

-----------------------------------------------------------------------------
(* Properties.                                                              *)

(* Only descriptors with an e820 type reach the table, and e820_entries     *)
(* fits its byte.                                                           *)
E820Types == {"RESERVED", "RAM", "UNUSABLE", "ACPI", "NVS", "PMEM"}
Entries == [addr : Nat, size : Nat, type : E820Types]

InputsOK == descs \in Seq(Descriptors) /\ extFor \in Nat
TableOK == i \in 0..Len(descs) /\ out \in Seq(Entries)
TranslateTypeOK ==
  /\ InputsOK
  /\ TableOK
  /\ status \in {"translating", "success", "buffer_too_small"}
  /\ e820_entries \in 0..255
  /\ setup_data \in Seq(Nat)

EntryCovers(e, a) == e.addr <= a /\ a < e.addr + e.size
DescCovers(desc, a) == desc.start <= a /\ a < desc.start + Bytes(desc.pages)

(* At every turn of the loop an address has the type t in the table exactly *)
(* if one of the descriptors read so far gives it that type: merging loses  *)
(* nothing, invents nothing and changes no type.                            *)
Listed(a, t) == \E k \in 1..Len(out) : out[k].type = t /\ EntryCovers(out[k], a)
Described(a, t) == \E j \in 1..i : E820Type(descs[j].type) = t /\ DescCovers(descs[j], a)
Coverage == \A a \in Addresses, t \in E820Types : Listed(a, t) <=> Described(a, t)

(* The one size check of wboot_translate_memmap, made when the zero page is *)
(* full, covers every later entry: none is written past the end of e820ext. *)
ExtFits ==
  Len(out) > ZP => SizeofSetupData + SizeofEntry * (Len(out) - ZP) <= ExtSize

(* The table is as short as merging neighbours makes it, across the border  *)
(* of the zero page too.                                                    *)
NoMergeableNeighbours ==
  \A k \in 1..(Len(out) - 1) :
    ~(out[k].type = out[k + 1].type /\ out[k].addr + out[k].size = out[k + 1].addr)

(* What the kernel reads: e820_entries entries of the zero page's table,    *)
(* then those of the setup_data block, if it is linked.                     *)
KernelTable ==
  SubSeq(out, 1, e820_entries) \o
    (IF setup_data = <<>> THEN <<>> ELSE SubSeq(out, ZP + 1, ZP + setup_data[1]))

(* On success the kernel reads exactly the entries that were written.       *)
KernelReadsAll == status = "success" => KernelTable = out

(* EFI_MMAP_NR_SLACK_SLOTS keeps its promise: if wboot_allocate_e820 sized  *)
(* e820ext for n descriptors (or found that no extension was needed), and   *)
(* the final map has at most the slack more, translation does not fail.     *)
AllocatedFor(n) ==
  extFor = IF n > ZP - EFI_MMAP_NR_SLACK_SLOTS THEN n ELSE 0

SlackSuffices ==
  (\E n \in 0..Len(descs) + extFor :
     AllocatedFor(n) /\ Len(descs) <= n + EFI_MMAP_NR_SLACK_SLOTS)
    => status # "buffer_too_small"
==============================================================================
