# wboot in TLA+

wboot is a UEFI boot loader for Linux (`src/src/phase3`, with the library in
`src/src/shared`). It runs alone on the machine, but on top of a firmware that has
callbacks of its own: every call into the firmware may fail, and the firmware's
memory map may change under the loader until boot services end. The loader ends
them itself, in a step that can be rejected once, and afterwards must work with what it
prepared. That is the part of the program that tests in QEMU hardly reach, and the
centre of this project. Paths below are relative to the repository; `wboot.c` and the
other bare names are in `src/phase3`, `wstdlib.c` and `linux.h` in `src/shared`.

## The system

| part | state | operations | hard behaviour | what makes it correct |
|---|---|---|---|---|
| boot sequence: `main.c`, the loading half of `wboot.c` | what is allocated and open, `status`, the parts of `boot_params` filled in | `efi_main`, `wboot_open_kernel`, `wboot_read_setup_header`, `wboot_decompress_kernel`, `wboot_load_initramfs`, `wboot_prepare_bootparams` | about twenty calls that may fail, each with its own cleanup; two report failure by `NULL` | cleanup on each path; the kernel entered with everything in place; the right way to wait for a key |
| memory map handover: `wboot.c:351-480` | map buffer, its size, map key, `e820ext` and its size, `_bs_exited` | `wboot_allocate_e820`, `wboot_exit_bs` | the map changes between sizing, fetching and exiting; a rejected exit and its retry | the kernel gets exactly the map boot services ended with; no overrun; no leak; an end |
| memory map translation: `wboot.c:482-584` | the zero page's table, `e820ext`, counters | `wboot_translate_memmap`, `add_e820ext` | merging, the border of two tables, one size check for all later writes, a buffer sized from an older map | no address lost, invented or retyped; no write out of bounds; the slack suffices |
| kernel image: `wboot.c:150-220, 273-289, 586-604` | pages and what they hold | page allocation with fallback, decompression, moving the segments | overlap of source, destination and other allocations | segments complete, entry point read correctly, initramfs intact |
| configuration: `wboot_config.c` | the configuration, parse state, blocks, open file | `wboot_locate_config`, `wboot_load_config`, line parsing, numbers of a mode line | nine points of failure per volume, then the next volume; numbers that wrap | the first usable file wins, its last values count, nothing is left behind, a mode is the one written |
| graphics: `wboot_graphics.c` | output, mode, `screen_info`, `edid_info` | `wboot_setup_graphics` | refused queries and mode switches; two computations of the depth | the kernel is told the mode the output is in; the request is honoured |
| console: `wstdlib.c` | the printf buffer, the port's register, `_bs_exited`, `_errno` | `printf`, `serial_putc`, `malloc`, `free`, `read_char`, strings, numbers | a port with its own pace; one flush per text; messages of `malloc` and `free` in the middle of a `printf` | what was printed arrives, whole and in order; no firmware call after the exit |
| hand-off: `wboot_handoff.s` | CPU registers, GDT | one straight line of instructions | an interrupt between `lgdt` and `cli` | the kernel's entry conditions |
| earlier stage: `src/phase2` | open files, the kernel and initramfs found, what is allocated | `wboot_locate_kernel`, `efi_main`, the loading functions of phase 3 | a volume with one of the two files; out-parameters set before success is known | both files of one volume; success means both are in memory |

The parts interact by plain calls from `efi_main`, in the order configuration, kernel,
initramfs, parameters, graphics, `wboot_allocate_e820`, `wboot_exit_bs`,
`wboot_translate_memmap`, `wboot_get_kernel_entry`, `wboot_handoff`; by `boot_params`,
which each of the later ones extends; by `e820ext`, allocated two calls before it is
filled; and by `_bs_exited`, set once and read by the library.
`src/phase1` prints a greeting; `src/phase2` is the loader at an earlier stage.

## Modules

* **MapHandover** - the abstract specification of the end of boot services. The firmware
  replaces its map as often as it likes; the loader takes over in one step, in which the
  kernel's map equals the firmware's last one; it gives up only while services are up.
* **BootParams** - what the two functions of ExitBs leave for the one of E820: `efiInfo`,
  what `boot_params.efi_info` says, and `extFor`, the number of descriptors `e820ext` was sized for.
* **ExitBs** - `wboot_allocate_e820` and `wboot_exit_bs`. An action is one firmware call
  with the code up to the next: `E820Query`, `E820Malloc`, `E820Fetch`, `E820Ext`,
  `ExitQuery`, `ExitMalloc`, `ExitFetch`, `ExitCall`, `RetryFetch`, `RetryCall`, `Populate`.
  `pc` names the next call, `failedAt` the one that failed. The firmware is `fwMap` with a
  version `fwKey` that stands for UEFI's map key; `FirmwareEvent` is a callback that
  changes it, and each pool call of the loader may change it as well. `quiet` says which kind of
  firmware this is: one that leaves its map alone after the first rejected exit, or not. Sizes are counted in
  descriptors: the code multiplies and divides by the same `desc_size` everywhere.
* **E820** - `wboot_translate_memmap`. An action is one turn of its loop (`Skip`, `Merge`,
  `TooSmall`, `AddEntry`) or the code after it (`Finish`, with `add_e820ext`). `out` is the
  sequence of entries written; its first 128 elements are the zero page's table, the others
  `e820ext->data`, and `prev` is its last element. Sizes in bytes are the structures' own,
  and `e820_entries` is a byte. `descs` is read off `efiInfo`. `TranslateSpec` is the loop on its own,
  from any map and an `e820ext` sized for any other.
* **Handover** - extends ExitBs and E820 and runs the second after the first, as `efi_main` does:
  translation reads what `efi_info` says and the `e820ext` that the first function left.
* **BootLoader** - the abstract specification of the whole program: it gathers what the
  kernel needs while the firmware runs the machine, takes over once all of it is there,
  completes the memory map, and enters the kernel with everything ready.
* **Loading** - `wboot_read_setup_header`, `wboot_decompress_kernel` and
  `wboot_load_initramfs`, one action per call that can fail. `live` holds the resources
  (pool blocks, page ranges, files); `in` names the function that gave up. Phases 2 and 3
  both use it; where they differ, the actions take what follows as a parameter.
* **Handoff** - `wboot_handoff`, one action per instruction that changes the machine, and
  `Interrupt`. An interrupt goes through the firmware's IDT in the GDT of the moment; it is
  handled, and then a stutter, if the gate's selector and the interrupted `cs` and `ss` (unless
  that is null) are descriptors there; else the machine is lost. The selectors of the firmware are a
  constant: any code selector, any stack selector, any for its other data.
* **Boot** - `efi_main`, which extends Loading and Handoff. The functions with modules of
  their own (configuration, graphics, the three of Handover) are single steps with all the
  outcomes `efi_main` can see. Boot implements BootLoader: `machine` is read off `pc` and
  `services`, `ready` is `filled` and the decompressed kernel.
* **Phase2** - `wboot_locate_kernel` and `efi_main` of `src/phase2`, with Loading. `faulty`
  remembers on which volumes a call failed.
* **KernelImage** - memory as a function from page frames to contents: the choice of
  addresses by `AllocatePages`, decompression, the initramfs, and
  `wboot_get_kernel_entry` segment by segment. `ReturnGarbage` is what the code does once
  its ELF header has been overwritten: it reads kernel text as a header, and anything may follow.
* **ModeLine** - `strtoul`, `parse_u32`, `parse_mode_format` and `parse_config_mode` on
  sequences of digits, with integers that wrap; and beside them `Admissible` and `ModeWritten`,
  what a reader takes the line to say, where a number is the sum of its digits' values.
* **Config** - the search for `wboot.conf`: a step per firmware call and per line of the file.
  A line is what `parse_config_line` makes of it; a mode line holds its tokens; blocks are counted per kind.
* **Graphics** - `wboot_setup_graphics`: a step per handle, per queried mode, for `SetMode`,
  `screen_info` and EDID. Pixel masks are sets of bits; the 16-bit fields wrap. `ModeInfos` holds what UEFI says of a mode:
  a scan line is no shorter than a row, each of the four masks is contiguous and no two overlap; between
  them there may be a gap. The EDID is data nothing depends on, and left out.
* **Console** - `printf`. `todo` is what the running call has still to do: pieces of text
  to append, a flush, the `malloc` and `free` of `%-s`, whose own messages after the end of boot
  services are put in front of the rest, as the nested call is. `SerialPutc` fills the port's
  register `thr`, and `Transmit` is the port emptying it. A character is its number. The actions
  print what the code prints; `Meaning`, beside them, is what `wstdlib.h` says of each item, and `Departs`
  names the two kinds of items for which the two differ.
* **HandoverProofs** (with ExitBs and E820), **BootProofs** (with Handoff), **Phase2Proofs**,
  **KernelImageProofs**, **ConfigProofs** (with ModeLine), **GraphicsProofs**, **ConsoleProofs** - the
  theorems about the modules they are named after; **Recursion** - the lemmas on induction and
  recursive functions that the last three of them rest on.
* **MC...** modules give the constants their values for TLC.

An operator whose name says what is wrong with it (`StaleReadConfig`, `ForgottenCli`), placed
before the definition it varies, is a deliberately broken variant that shows that a
property can fail; the specifications do not use it.

## Runs

| run | module, cfg | what it asks | states |
|---|---|---|---|
| `handover` | MCHandover | of ExitBs: type, `FinalMap`, `BufferNotOverrun`, `MemmapOwned`, `SlackCoversRetryFetch`, `QuietRetryAccepted` and the refinement `ImplementsHandover`; of it with E820: `KernelSeesFinalMap`, `FailsAfterExitOnlyPastSlack`, and `Ends` | 63,434 |
| `exit_bs_slack` | MCExitBs, MCExitBsSlack | violated: the slack does not help the first fetch | |
| `e820` | MCE820 | `TranslateTypeOK`, `Coverage`, `ExtFits`, `NoMergeableNeighbours`, `KernelReadsAll`, `SlackSuffices` | 53,154 |
| `boot` | MCBoot | `StagesFreeTheirOwn`, `HandoffReady`, `KernelEntryState`, `ReadsKeySafely`, `FailureReported`, `BootEnds`, and the refinement `ImplementsBootLoader` | 1,948 |
| `phase2` | MCPhase2 | `FilesTogether`, `SuccessMeansLoaded` | 21,675 |
| `console` | MCConsole | `SerialOutput`, `OverrunOnlyByLongString`, `PrintfReturns` | 9,742 |
| `kernel_image` | MCKernelImage | `LoadedFromElsewhere`, `PreferredSparesOthers` | 1,364 |
| `kernel_image_entry` | MCKernelImage, MCKernelImageEntry | violated: the entry point is not always the kernel's | |
| `kernel_image_initrd` | MCKernelImage, MCKernelImageInitrd | violated: the initramfs may be overwritten | |
| `config` | MCConfig | `FindsFirst`, `NotFoundHonest`, `NoLeak`, `ModeAsWritten`, `ReportedLine` | 18,548 |
| `config_line` | MCConfig, MCConfigLine | violated: the line number of a parse error | |
| `graphics` | MCGraphics | `PrimaryGop`, `DescribesActiveMode`, `ModeHonoured`, `DepthAsAsked`, `LineHoldsRow` | 78,457 |

Bounds. `handover` and `e820` scale the zero page from 128 to 7 entries and the slack from
32 to 1, the smallest table for which `TableAssumption`, the relation of the real sizes
(20 (128 - 32) >= 123 - 16), still holds. Maps in `handover` have 2, 6, 7, 8 and 15
descriptors: they fit the table, fill it, need the extension within the slack, and outgrow
it. At most `MaxKey` = 7 versions of the map occur, enough for a change at each of the
points where one matters: after the first sizing, after the second, between the fetch and
the exit, and twice around the retry. `MaxKey` also keeps the map from changing for ever; it
is the only bound in a guard of the project. In `e820` maps go to 16 descriptors.
`exit_bs_slack` needs no more than four versions and a table of 3. TLC explores
all of Boot, with interrupts on and off, and with firmwares whose code selector is the kernel's or one
beyond the loader's GDT, each with a stack selector that is null, the kernel's or beyond that GDT: a selector
matters only by which of these it is. Phase2 runs on all lists of up to three volumes,
each with both files, one or none, and on one list longer than the handle buffer. Console
has a buffer of 6 characters in place of 1024 and pairs of texts of 0 to 7, so that each
ends before, at and beyond the end of the buffer, a copy of at most 3 in place of 255, with strings shorter than, as long as
and longer than that, and pointers of 4 digits. The widths of ModeLine are 256, 15 and 7 in place of 2^64, 2^32 - 1 and
2^31 - 1: three digits wrap, and one or two reach each limit from both sides. KernelImage has 14
frames, a file of three and a window of four, in eight situations at the start that leave
the window and low memory free or not. `kernel_image` puts the first segment one frame above
`pref_address`, so that a file decompressed there keeps its headers and the rest of the copy
is checked; the other two runs put it at `pref_address`. Config has up to three volumes of
eight different files, four against a buffer of three handles, and single volumes with every
mode line of one or two tokens of eleven, and of three to five. Graphics has no, one or three
outputs of up to three modes and ten mode lines. Its modes have lines padded and not, lines that end
within a byte, lines too long for the field, one that is only too long if four bytes a pixel were assumed,
and masks with and without a gap; lists with two modes of the wanted size let a refused query hide one of them.

Deadlock is not checked (`CHECK_DEADLOCK FALSE`): the loader stops when it has handed over,
booted, printed or given up.

Fairness. The loader is the only thread of the machine, and a firmware callback returns to
it, so its next step is always taken: `WF_vars(LoaderStep)` in ExitBs, the two conjuncts of
`FairHandoverSpec`, `WF_vars(Program)` in Boot, `WF_vars(Loader)` in Console, and `FairSpec` of
KernelImage. The firmware is under no fairness, nobody has to press a key
(`Key` is not part of `Program`), and interrupts need not come. The port sends what it holds:
`WF_vars(Transmit)`.

## What the runs found

* **The slack is not given to the first fetch** (`exit_bs_slack`, `wboot.c:445`). The buffer of
  `wboot_exit_bs` has 32 spare descriptors "in case the memory map changes", but the
  first `GetMemoryMap` is still given the size from before the allocation. One more
  descriptor, which the allocation of the buffer itself can cause, ends the boot.
* **The ELF header is overwritten before it is last read** (`kernel_image_entry`,
  `wboot.c:590-603`), when the file was decompressed at `pref_address`.
* **The destination of the segments is not reserved** (`kernel_image_initrd`,
  `wboot.c:176, 594`), when it was not.
* **Parse errors name the wrong line** after an empty line (`config_line`,
  `wboot_config.c:314`).
The models have these faults and limits of the code, too. The property concerned
states them as they are, or leaves them out by name and nothing else with them.

* A failed boot may return success. After a `NULL` of `wboot_prepare_bootparams` or `wboot_exit_bs`
  (`main.c:71, 96`), `efi_main` prints that it failed and returns the `EFI_SUCCESS` of the call before
  (`FailureReported` leaves out these two); phase 2 does so when its first `malloc` fails
  (`src/phase2/main.c:20`, left out of `SuccessMeansLoaded`);
* an unsupported `%-` loses its `-` (`wstdlib.c:193`), where `wstdlib.h:32` makes
  unsupported modifiers literal; and `%-s` prints at most 255 characters (`wstdlib.c:186`), where
  `wstdlib.h:24` knows no limit and the copy is allocated for the whole string. `Meaning` is what the header
  says, and `SerialOutput` says what is on the line until an item of these two kinds is printed (`Departed`);
  that a call leaves neither text nor a copy behind holds whatever is printed;
* `ReportedLine` says how lines are counted;
* a number of a mode line that is 2^64 or more is accepted if it is small modulo 2^64
  (`ModeAsWritten` excludes exactly the numbers that wrap);
* a `%s` longer than the whole printf buffer overruns it, and nothing else does
  (`OverrunOnlyByLongString`); a `%-s` whose `malloc` fails writes to address 0 (`CopyToNull`), after
  which the program ends or, where there is memory, goes on;
* `LineHoldsRow` leaves out lines that are not of whole bytes, which the division rounds down, and lines of
  65536 bytes or more, which the 16-bit field cannot hold; `DepthAsAsked` and it leave out masks with a gap, which `pixel_bpp`
  counts and `setup_screen_info` does not;
* an interrupt between `lgdt` and `cli` is fatal on a firmware that left interrupts on and
  runs with selectors of its own: another code selector than the kernel's `0x10`, or a stack selector that is
  neither null nor the kernel's `0x18` (`BootEnds` excludes exactly this).

## What is proved

All theorems hold for every value of the constants: any set of maps, any table size and
slack, any number of map changes, volumes, lines, digits, outputs, modes and segments. The
hypotheses are the named assumptions of the modules and, where one is added, the statement shows it.
Each module of proofs names an inductive invariant, the conjunction of the parts listed here, and
shows it step by step, an action at a time.

*HandoverProofs, first part: ExitBs.* `Spec => []TypeOK` first, since it is inductive by itself. The other
invariants follow from `IInv`, the conjunction of

* `ServicesInv`: which `pc` goes with which state of boot services and `_bs_exited`;
* `HeapInv`: at which `pc` the map buffer is allocated, which gives `MemmapOwned`;
* `KeyInv`: if the key the loader holds is the firmware's, then so is its copy of the
  map, at the calls to `ExitBootServices`. `FinalMap` is not inductive without this: an accepted key says
  something about the copy only if the two were fetched together;
* `OldKeyInv`: the loader's key is never newer than the firmware's;
* `SizeInv`: `map_size` is the length of the copy, within the buffer's capacity;
* `ExtInv`: `e820ext` was sized for `nr_desc` exactly when the threshold asked for it;

and of `BufferNotOverrun`, `FinalMap` and `HandedOver`. `Refinement` shows that every step
is a step of MapHandover or a stutter: the accepted `ExitBootServices` is `TakeOver`,
`Populate` is `Finish`, a failure is `GiveUp` (or a `Change`, when freeing the buffer
changes the map), and everything else changes the firmware's map or nothing.
`QuietRetry` has a small invariant of its own: after a rejection a quiet
firmware does not change its map, so the key of the second fetch is current.

*HandoverProofs, second part: E820.* `TranslateIInv` adds to `TranslateTypeOK`: `CountInv`, the relation of the loop counter to the
entries written (no more entries than descriptors read); `RoomInv`, that the one size check leaves
room for all descriptors still to come, from which `ExtFits` follows; and `LinkInv`, what the counters and
the list are at the end. `SlackSuffices`, `NoMergeableNeighbours` and `Coverage` are inductive with these. The
assumptions are the named ones of the module: `TableAssumption` (satisfied by the
program's 128, 32, 20, 16 and 123), and that inputs are descriptors with natural numbers.

*HandoverProofs, third part* puts the two together. While the first half runs, Handover is ExitBs with the
loop's variables at rest; once it has handed over, it is E820 with the others at rest, and by
`HandedOver` the map it reads is the one boot services ended with. `LoopInv` says which of the two it
is, and `ExtForInv` that an `e820ext` was made for `nr_desc`. With `Coverage` this gives
`KernelSeesFinalMap`, the property the two halves exist for; with `ExtReady` and `SlackSuffices`,
`FailsAfterExitOnlyPastSlack`; and the refinement of MapHandover carries over.

*BootProofs.* `PathInv` ties `in`, the function that gave up, to `status`; `OwnInv` says at which points
each block, page range and file can be held, `HeldInv` at which it is; `ServicesInv` where boot
services can have ended; `FilledInv` which boot parameters are filled in; `CpuInv` the registers at each
instruction of `wboot_handoff`, and `HandoffInv` that it runs where `efi_main` calls it; `SelectorsInv` that `cs` and `ss`
hold the firmware's selectors or the kernel's. The properties of the run but `BootEnds` follow, and of that the half that
is safety, `LostByOwnSelectors`, for every set of firmware selectors; and with `FilledInv` and `HeldInv` every step is one of
BootLoader or a stutter (`Refinement`).

*Phase2Proofs* does the same for the shared functions in phase 2 (`SharedStagesFree`), and adds
`SearchInv`: the volumes passed were unusable, the current one has not failed, and the kernel that is open is
its own. This is what makes `FilesTogether` hold for any number of volumes.

*KernelImageProofs.* The three allocations lie apart (`AllocInv`); the file stays whole while its
segments go elsewhere (`FileInv`); segments moved within a reserved window leave the rest of memory
alone (`OthersInv`); and the segments moved so far are in place (`SegmentsInv`). `SparesOthers` has
no further hypothesis. `LoadsFromElsewhere` has one: that the machine has memory in the window at all. Nothing
in the code looks, and where there is none the segments go nowhere.

*ConfigProofs.* `SearchInv`, the volumes passed are unusable; `HeldInv`, `live` is exactly the set
of blocks that `pc` and the fields call for; `FieldsInv`, each field is the value of the last line
of its key among those read; `CountInv`, the line number; `RefusedInv`, a reported line does not
parse. None of these looks into `parse_config_mode`. The last part of the module does:
`ValueIsWritten` shows, digit by digit, that the remainders of `strtoul` are the number written as long
as that fits, by the invariant `value so far * weight of the rest = sum of the terms so far`;
`DigitsAre` that it stops where the digits do; and from these `ModeParsed`, that a line parses
exactly if it writes a mode, and to that mode, or a number of it wraps.

*Recursion.* The library's induction theorems take operators, which the provers cannot instantiate; here a
predicate is a set. `UpTo` is induction by the least element outside a set (from the library's `WFMin`
for `<` on the naturals), `SequencesUpTo` the same for sequences, `ConcatRegroups` that concatenation is
associative, proved element by element, and `RecursionExists` justifies a function defined by recursion.
ConfigProofs, GraphicsProofs and ConsoleProofs use them.

*GraphicsProofs.* `FindInv`, what the search over the outputs has passed; `FramebufferInv`, the mode in
use and the one to set have a frame buffer; `MatchInv`, each mode passed did not match or its query was refused, and unless
`SetMode` was refused the mode in use matches or all have been passed; `ScreenInv`, `screen_info` was made from the mode in use. `DepthsAgree` rests
on `DepthOfMasks`: the sizes of four contiguous, disjoint masks add up to the number of all
their bits, which without a gap is the size `pixel_bpp` finds in their union. `RowFits` rests on
that and on the arithmetic of the line length. `ActiveModeDescribed` is about sides below
65536, which fit the 16-bit fields.

*ConsoleProofs.* Three things come before the invariant: that `FlattenSeq` takes sequences apart
and puts them together as one expects (it is a recursive function);
`DigitsNumeral`, that the digits a divisor takes off the front are those the base takes off the back; and
`PrintfIs`, that what `Printf` puts into `todo` will say what its items mean, where `Outputs` is what the
operations of `todo` still put on the line, a `malloc` or `free` with the message it prints after the end
of boot services. The invariant then relates `todo` to the rest:

* `OutputInv`: what the port was given, what waits in the buffer and `Outputs(todo)` make up `Shown`,
  what the code prints for the calls so far, at every step; `SerialOutput` alone says nothing of the
  buffer and of the texts to come. `PrintedIsMeaning` and `ShownIsSaid` show that this is what the header
  says as long as no item departs from it;
* `StoreInv`: a text that is stored next fits the buffer, or the buffer was just flushed, or it
  is longer than the buffer; and longer than the buffer is only the text of a `%s`. The code checks the
  room before a flush and not after it, so that this is all the protection there is;
* `FreeInv` and `BlocksInv`: one copy at a time, and the block that is allocated is the one the
  `free` in `todo` will release;
* `CallInv`: a call ends with a flush, and leaves nothing behind.

The assumptions are those of the module, and the code meets them: the copy of `%-s` is shorter than the
buffer (255 < 1024), a pointer has no more digits than `%p` writes, and an argument has the type its
conversion reads (`IsItem`). The pace of the port, the length and number of the calls, the texts and the
messages of `malloc` and `free` are arbitrary.

Only model-checked: liveness (`Ends`, `BootEnds`, `PrintfReturns`), which is out of the prover's
reach. Every safety property and every refinement that a run finds to hold is a theorem.

## What is not modelled

* The helpers of `wstdlib.c` that copy, measure or compare bytes, and the table of
  `strerror`. Of `printf`: a `%d` of the most negative number, a format that ends in `%`,
  and a `%s` of `NULL`, which reads whatever is at address 0.
* The EDID that is copied to the kernel, and what the firmware's interrupt handler does beyond its entry and
  its `iretq`: one that reloads `ds` or `es` would need those selectors, too.
* Which boot services still work after a rejected `ExitBootServices`, and what the
  firmware does when `efi_main` returns to it after their end.
* 64-bit wrap-around of addresses and of `NumberOfPages << 12`, and a `desc_size` that
  changes between two calls: no firmware has them.
* `boot_params` fields that are copied without a decision. An initial `setup_data` list: in
  a kernel file it is empty.
* zstd and the file system driver are calls that may fail. `choose_mode_auto` of phase 3 is
  never called. `wboot_dump_setup_header` of phase 2 only prints; phase 3 declares it and has no
  definition.
* `src/phase1`, the headers' layouts, and the build and disk image scripts: no state that
  changes in an order worth checking.

## Plan

Modelled, in this order: ExitBs with MapHandover, E820, Handover; Boot,
KernelImage, Config, Graphics; ModeLine, Console, Handoff, Loading with Phase2, BootLoader.
Proved: the safety properties of all of these, and the refinements. What remains: Boot with
ExitBs and E820 in place of three of its single steps would join Handover to the rest; today
`HandoffReady` and `KernelSeesFinalMap` meet only in the reader's mind.
