----------------------------- MODULE KernelImage -----------------------------
(***************************************************************************)
(* Where the kernel lies in memory and how it gets to where it runs        *)
(* (src/phase3/wboot.c): wboot_decompress_kernel allocates pages and       *)
(* decompresses an ELF file into them, wboot_load_initramfs and            *)
(* wboot_prepare_bootparams allocate after it, and wboot_get_kernel_entry, *)
(* after the end of boot services, moves the file's segments to their      *)
(* physical addresses and returns the entry point it reads from the file's *)
(* header.  Memory is a function from page frames to what they hold; the   *)
(* firmware's allocator may give any free frames.                          *)
(***************************************************************************)
EXTENDS Integers, Sequences

CONSTANTS
  Frames,        \* the page frames of the machine, 0..n
  Below4G,       \* those AllocateMaxAddress(0xFFFFFFFF) may give
  UsedSets,      \* the sets of frames that may be in use when wboot starts
  PrefAddress,   \* header.pref_address, 0 if it has none
  InitSize,      \* header.init_size in frames
  FileSize,      \* frames of the decompressed ELF file, its headers in frame 0
  Segments,      \* its PT_LOAD headers
  InitrdSize     \* frames of the initramfs

ASSUME ImageAssumption ==
  /\ Frames \subseteq Nat /\ Below4G \subseteq Frames
  /\ PrefAddress \in Nat
  /\ InitSize \in Nat \ {0} /\ FileSize \in 1..InitSize /\ InitrdSize \in Nat
  /\ Segments \in Seq([paddr : Nat, offset : Nat, filesz : Nat, memsz : Nat])
  /\ \A s \in 1..Len(Segments) :
       /\ Segments[s].filesz <= Segments[s].memsz
       /\ Segments[s].offset >= 1
       /\ Segments[s].offset + Segments[s].filesz <= FileSize
(* The window the setup header announces holds the segments, apart from one *)
(* another.                                                                 *)
ASSUME LayoutAssumption ==
  \A s \in 1..Len(Segments) :
    /\ PrefAddress <= Segments[s].paddr
    /\ Segments[s].paddr + Segments[s].memsz <= PrefAddress + InitSize
    /\ \A t \in (s + 1)..Len(Segments) :
         Segments[s].paddr + Segments[s].memsz <= Segments[t].paddr

VARIABLES
  pc,      \* the next step, "kernel" once entered, "failed"
  used,    \* the frames that are allocated or firmware's
  mem,     \* what every frame holds
  base,    \* decompressed_kernel, the first frame of the decompressed file
  initrd,  \* the first frame of the initramfs
  params,  \* the frame of boot_params
  i,       \* the next program header of wboot_get_kernel_entry
  entry    \* its result: "none", "e_entry" or "garbage"

vars == <<pc, used, mem, base, initrd, params, i, entry>>

(* n frames from frame a on.                                                *)
Span(a, n) == a..(a + n - 1)
IsFree(a, n) == Span(a, n) \subseteq Frames /\ Span(a, n) \cap used = {}

Elf(k) == [what |-> "elf", frame |-> k]
Initrd(k) == [what |-> "initrd", frame |-> k]
Content(w) == [what |-> w, frame |-> 0]

Window == Span(PrefAddress, InitSize)

Init ==
  /\ pc = "allocate_preferred"
  /\ used \in UsedSets
  /\ mem = [f \in Frames |-> Content(IF f \in used THEN "used" ELSE "free")]
  /\ base = 0 /\ initrd = 0 /\ params = 0
  /\ i = 1
  /\ entry = "none"

-----------------------------------------------------------------------------
Fail ==
  /\ pc' = "failed"
  /\ UNCHANGED <<used, mem, base, initrd, params, i, entry>>

(* AllocateAddress at pref_address, if the header has one.                  *)
FileSizedAllocatePreferred ==
  /\ pc = "allocate_preferred"
  /\ IF PrefAddress # 0 /\ IsFree(PrefAddress, InitSize)
       THEN /\ pc' = "decompress"
            /\ base' = PrefAddress
            /\ used' = used \cup Span(PrefAddress, FileSize)
       ELSE /\ pc' = "allocate_any"
            /\ UNCHANGED <<base, used>>
  /\ UNCHANGED <<mem, initrd, params, i, entry>>
AllocatePreferred ==
  /\ pc = "allocate_preferred"
  /\ IF PrefAddress # 0 /\ IsFree(PrefAddress, InitSize)
       THEN /\ pc' = "decompress"
            /\ base' = PrefAddress
            /\ used' = used \cup Window
       ELSE /\ pc' = "allocate_any"
            /\ UNCHANGED <<base, used>>
  /\ UNCHANGED <<mem, initrd, params, i, entry>>

(* AllocateAnyPages.                                                        *)
AllocateAny ==
  /\ pc = "allocate_any"
  /\ \/ \E a \in Frames :
          /\ IsFree(a, InitSize)
          /\ pc' = "decompress"
          /\ base' = a
          /\ used' = used \cup Span(a, InitSize)
          /\ UNCHANGED <<mem, initrd, params, i, entry>>
     \/ ~(\E a \in Frames : IsFree(a, InitSize)) /\ Fail

(* ZSTD_decompressDCtx writes the file from base on.                        *)
Decompress ==
  /\ pc = "decompress"
  /\ pc' = "load_initramfs"
  /\ mem' = [f \in Frames |-> IF f \in Span(base, FileSize) THEN Elf(f - base) ELSE mem[f]]
  /\ UNCHANGED <<used, base, initrd, params, i, entry>>

(* AllocateMaxAddress below 4 GiB, else AllocateAnyPages; then the file.    *)
LowChoices == {a \in Frames : IsFree(a, InitrdSize) /\ Span(a, InitrdSize) \subseteq Below4G}
InitrdChoices ==
  IF LowChoices # {} THEN LowChoices ELSE {a \in Frames : IsFree(a, InitrdSize)}

LoadInitramfs ==
  /\ pc = "load_initramfs"
  /\ \/ \E a \in InitrdChoices :
          /\ pc' = "prepare_bootparams"
          /\ initrd' = a
          /\ used' = used \cup Span(a, InitrdSize)
          /\ mem' = [f \in Frames |->
                       IF f \in Span(a, InitrdSize) THEN Initrd(f - a) ELSE mem[f]]
          /\ UNCHANGED <<base, params, i, entry>>
     \/ InitrdChoices = {} /\ Fail

(* malloc and fill boot_params.                                             *)
PrepareBootparams ==
  /\ pc = "prepare_bootparams"
  /\ \/ \E f \in Frames \ used :
          /\ pc' = "get_kernel_entry"
          /\ params' = f
          /\ used' = used \cup {f}
          /\ mem' = [mem EXCEPT ![f] = Content("params")]
          /\ UNCHANGED <<base, initrd, i, entry>>
     \/ used = Frames /\ Fail

(* wboot_get_kernel_entry reads e_phnum, the program headers and e_entry    *)
(* from the decompressed file each time it needs them.                      *)
HeadersIntact == mem[base] = Elf(0)

(* memmove of the file's part of segment s, memset of the rest: every frame *)
(* is read before any is written.                                           *)
UnclearedMoved(s, f) ==
  IF f \in Span(s.paddr, s.filesz) THEN mem[base + s.offset + (f - s.paddr)] ELSE mem[f]
Moved(s, f) ==
  CASE f \in Span(s.paddr, s.filesz) -> mem[base + s.offset + (f - s.paddr)]
    [] f \in Span(s.paddr, s.memsz) \ Span(s.paddr, s.filesz) -> Content("zero")
    [] OTHER -> mem[f]

CopySegment ==
  /\ pc = "get_kernel_entry"
  /\ HeadersIntact
  /\ i <= Len(Segments)
  /\ mem' = [f \in Frames |-> Moved(Segments[i], f)]
  /\ i' = i + 1
  /\ UNCHANGED <<pc, used, base, initrd, params, entry>>

ReturnEntry ==
  /\ pc = "get_kernel_entry"
  /\ HeadersIntact
  /\ i > Len(Segments)
  /\ pc' = "kernel"
  /\ entry' = "e_entry"
  /\ UNCHANGED <<used, mem, base, initrd, params, i>>

(* With the headers overwritten the loop runs on whatever is there now: it  *)
(* may copy nothing more or write anywhere, and the entry point is read     *)
(* from there too.                                                          *)
ReturnGarbage ==
  /\ pc = "get_kernel_entry"
  /\ ~HeadersIntact
  /\ pc' = "kernel"
  /\ entry' = "garbage"
  /\ mem' \in {mem, [f \in Frames |-> Content("junk")]}
  /\ UNCHANGED <<used, base, initrd, params, i>>

Next ==
  \/ AllocatePreferred \/ AllocateAny \/ Decompress \/ LoadInitramfs
  \/ PrepareBootparams \/ CopySegment \/ ReturnEntry \/ ReturnGarbage

Spec == Init /\ [][Next]_vars
FairSpec == Spec /\ WF_vars(Next)

-----------------------------------------------------------------------------
(* Properties.                                                              *)

(* Every segment lies at its physical address, its tail cleared.            *)
SegmentLoaded(s) ==
  /\ \A f \in Span(s.paddr, s.filesz) : mem[f] = Elf(s.offset + (f - s.paddr))
  /\ \A f \in Span(s.paddr, s.memsz) \ Span(s.paddr, s.filesz) : mem[f] = Content("zero")
KernelLoaded ==
  entry = "e_entry" /\ \A s \in 1..Len(Segments) : SegmentLoaded(Segments[s])

InitrdIntact == \A k \in 0..(InitrdSize - 1) : mem[initrd + k] = Initrd(k)
ParamsIntact == mem[params] = Content("params")

(* When the file was decompressed clear of the window the segments go to,   *)
(* wboot_get_kernel_entry loads the whole kernel and returns its entry.     *)
LoadedFromElsewhere ==
  pc = "kernel" /\ Span(base, FileSize) \cap Window = {} => KernelLoaded

(* When it was decompressed at pref_address, the segments that are moved    *)
(* while its headers last overwrite nothing but the kernel's own pages:     *)
(* init_size reserves their cleared tails too.                              *)
PreferredSparesOthers ==
  pc = "get_kernel_entry" /\ base = PrefAddress => InitrdIntact /\ ParamsIntact

(* wboot.h:61-63: the loader "jumps to the kernel entry point".             *)
JumpsToKernelEntry == pc = "kernel" => entry = "e_entry"

(* wboot.h:34-38: the boot parameters passed to the kernel hold "the        *)
(* location and size of the initramfs".                                     *)
KernelFindsInitramfs == pc = "kernel" /\ entry = "e_entry" => InitrdIntact
==============================================================================
