-------------------------------- MODULE Boot ---------------------------------
(***************************************************************************)
(* efi_main (src/phase3/main.c) from the search for a configuration to the *)
(* kernel's first instruction.  The functions that load the kernel and the *)
(* initramfs are in Loading, the instructions of wboot_handoff in Handoff. *)
(*                                                                         *)
(* wboot_locate_config, wboot_setup_graphics, wboot_allocate_e820,         *)
(* wboot_exit_bs and wboot_translate_memmap are single steps here, with    *)
(* every outcome efi_main can see of them; ExitBs, E820, Config and        *)
(* Graphics open them up.                                                  *)
(***************************************************************************)
EXTENDS Loading, Handoff

VARIABLES
  services,   \* boot services: "running", "closing" or "exited"
  bsExited,   \* _bs_exited of wstdlib
  filled,     \* the parts of boot_params that have been filled in
  waitingOn   \* what read_char waits for: "nothing", "firmware" or "keyboard"

bootVars == <<services, bsExited, filled, waitingOn>>
vars == <<loadVars, bootVars, cpu>>

Parts == {"hdr", "ramdisk", "cmdline", "screen_info", "efi_info", "e820_table"}

Init ==
  /\ LoadingInit("locate_config")
  /\ HandoffInit
  /\ services = "running" /\ bsExited = FALSE
  /\ filled = {}
  /\ waitingOn = "nothing"

-----------------------------------------------------------------------------
(* wboot_locate_config leaves the configuration and the open volume, and    *)
(* the volumes it found no configuration on.                                *)
LocateConfig ==
  \/ /\ Continue("locate_config", "open_kernel")
     /\ live' = live \cup {"config", "root"}
     /\ UNCHANGED base
  \/ /\ GiveUp("locate_config", "locate_config", "error")
     /\ live' \in {live, live \cup {"root"}}

OpenKernel == Acquire("open_kernel", "read_setup_header", "open_kernel", "kernel_file", {})

(* wboot_load_initramfs opens the file itself; it never closes it.          *)
OpenInitramfs ==
  Acquire("open_initramfs", "initramfs_info_size", "load_initramfs", "initramfs_file", {})

(* Read fails or is short.                                                  *)
ReadInitramfs ==
  Check("read_initramfs", "prepare_bootparams", "load_initramfs", {"initramfs_pages"})

LoadingStep ==
  /\ \/ LocateConfig \/ OpenKernel \/ ReadSetupHeader("create_dctx")
     \/ wboot_decompress_kernel("open_initramfs")
     \/ OpenInitramfs \/ InitramfsBuffer \/ ReadInitramfs
  /\ UNCHANGED bootVars

-----------------------------------------------------------------------------
(* efi_main sees a NULL, and leaves status as the last call left it.        *)
PrepareBootparams ==
  \/ /\ Continue("prepare_bootparams", "setup_graphics")
     /\ live' = live \cup {"params"}
     /\ filled' = {"hdr", "ramdisk", "cmdline"}
     /\ UNCHANGED <<base, services, bsExited, waitingOn>>
  \/ GiveUp("prepare_bootparams", "prepare_bootparams", status) /\ UNCHANGED <<live, bootVars>>

(* The handles LocateHandleBuffer returns are never freed.                  *)
GraphicsFails(st) ==
  /\ GiveUp("setup_graphics", "setup_graphics", st)
  /\ live' \in {live, live \cup {"gop_handles"}}
  /\ UNCHANGED bootVars
GraphicsSet ==
  /\ Continue("setup_graphics", "allocate_e820")
  /\ filled' = filled \cup {"screen_info"}
  /\ live' = live \cup {"gop_handles"}
  /\ UNCHANGED <<base, services, bsExited, waitingOn>>
SilentSetupGraphics == GraphicsSet \/ GraphicsFails(status)
SetupGraphics == GraphicsSet \/ GraphicsFails("error")

AllocateE820 ==
  /\ \/ /\ Continue("allocate_e820", "exit_bs")
        /\ live' \in {live, live \cup {"e820ext"}}
        /\ UNCHANGED base
     \/ GiveUp("allocate_e820", "allocate_e820", "error") /\ UNCHANGED live
  /\ UNCHANGED bootVars

(* wboot_exit_bs succeeds, fails before the firmware began to shut down, or *)
(* fails on its second attempt; the last two are one NULL to efi_main.      *)
ExitsBs(gate) ==
  /\ Continue("exit_bs", "translate_memmap")
  /\ live' = live \cup {"memmap"}
  /\ services' = "exited" /\ bsExited' = gate
  /\ filled' = filled \cup {"efi_info"}
  /\ UNCHANGED <<base, waitingOn>>
ExitBsFails ==
  /\ GiveUp("exit_bs", "exit_bs", status)
  /\ services' \in {"running", "closing"}
  /\ UNCHANGED <<live, bsExited, filled, waitingOn>>
UngatedExitBs == ExitsBs(FALSE) \/ ExitBsFails
ExitBs == ExitsBs(TRUE) \/ ExitBsFails

Translates(table) ==
  /\ Continue("translate_memmap", "handoff")
  /\ filled' = filled \cup table
  /\ UNCHANGED <<live, base, services, bsExited, waitingOn>>
UncheckedTranslateMemmap == Translates({}) \/ Translates({"e820_table"})
TranslateMemmap ==
  \/ Translates({"e820_table"})
  \/ /\ GiveUp("translate_memmap", "translate_memmap", "error")
     /\ UNCHANGED <<live, bootVars>>

(* exit: read_char waits for the firmware's event, or polls the keyboard.   *)
Exit ==
  /\ pc = "exit" /\ pc' = "read_char"
  /\ waitingOn' = IF bsExited THEN "keyboard" ELSE "firmware"
  /\ UNCHANGED <<in, status, live, base, services, bsExited, filled>>

Key ==
  /\ pc = "read_char" /\ pc' = "returned"
  /\ waitingOn' = "nothing"
  /\ UNCHANGED <<in, status, live, base, services, bsExited, filled>>

MainStep ==
  \/ PrepareBootparams \/ SetupGraphics \/ AllocateE820 \/ ExitBs
  \/ TranslateMemmap \/ Exit

(* wboot_handoff, until the kernel has the machine or the machine is lost.  *)
HandoffStep ==
  /\ pc = "handoff"
  /\ HandoffNext
  /\ pc' = CASE cpu'.ip = "kernel_entry" -> "kernel"
            [] cpu'.ip = "lost" -> "lost"
            [] OTHER -> "handoff"
  /\ UNCHANGED <<in, status, live, base, bootVars>>

Program == ((LoadingStep \/ MainStep) /\ UNCHANGED cpu) \/ HandoffStep

Next == Program \/ (Key /\ UNCHANGED cpu)

Spec == Init /\ [][Next]_vars

(* Every call of the firmware returns and the processor goes on; nobody has *)
(* to press a key.                                                          *)
FairSpec == Spec /\ WF_vars(Program)

-----------------------------------------------------------------------------
(* Properties.                                                              *)

(* The kernel is entered with boot services over, every part of boot_params *)
(* filled in, and everything those point to still allocated: the command    *)
(* line belongs to the configuration.                                       *)
HandoffReady ==
  pc = "kernel" =>
    /\ services = "exited" /\ bsExited
    /\ filled = Parts
    /\ {"config", "kernel_pages", "initramfs_pages", "params", "memmap"} \subseteq live

(* Its first instruction finds the machine as a 64-bit kernel has to find   *)
(* it: interrupts off, the flat segments of __BOOT_CS and __BOOT_DS in a    *)
(* GDT that has them, and the boot parameters in rsi.                       *)
KernelEntryState ==
  pc = "kernel" =>
    /\ ~cpu.interrupts
    /\ cpu.gdt = "wboot" /\ cpu.cs = BOOT_CS /\ cpu.cs \in Code
    /\ \A s \in {"ds", "es", "ss"} : cpu.seg[s] = BOOT_DS /\ cpu.seg[s] \in Data
    /\ cpu.seg["fs"] = 0 /\ cpu.seg["gs"] = 0
    /\ cpu.rsi = "boot_params"

(* The firmware's interrupts work with the loader's GDT only if it runs     *)
(* with the kernel's code selector, and with its data selector or none in   *)
(* ss.                                                                      *)
SharesSelectors(fw) == fw.cs = BOOT_CS /\ fw.ss \in {0, BOOT_DS}

(* efi_main always comes to the kernel or to the prompt, but for one case:  *)
(* an interrupt between lgdt and cli, on a firmware that left interrupts on *)
(* and runs with selectors of its own.                                      *)
BootEnds ==
  <>(\/ pc \in {"kernel", "read_char"}
     \/ pc = "lost" /\ cpu.interrupts /\ ~SharesSelectors(cpu.fw))

(* The half of it that is safety: the machine is lost in no other way.      *)
LostByOwnSelectors ==
  pc = "lost" => cpu.interrupts /\ ~SharesSelectors(cpu.fw)

(* On the way out, read_char asks the firmware for a key exactly as long as *)
(* boot services have not ended, also after a failed wboot_exit_bs and a    *)
(* failed translation.                                                      *)
ReadsKeySafely ==
  waitingOn # "nothing" => (waitingOn = "keyboard" <=> services = "exited")

(* Only the two functions that report failure by a NULL make efi_main       *)
(* return EFI_SUCCESS without having booted a kernel.                       *)
FailureReported ==
  pc = "returned" /\ in \notin {"prepare_bootparams", "exit_bs"} => status = "error"

(* The loader as its caller sees it: everything the kernel needs is in      *)
(* place before the firmware is ended, and the kernel is entered only with  *)
(* all of it; a failure before gives the machine back.                      *)
Machine ==
  CASE pc = "kernel" -> "kernel"
    [] pc = "lost" -> "nobody"
    [] pc = "returned" -> IF services = "exited" THEN "nobody" ELSE "returned"
    [] pc \notin {"kernel", "lost", "returned"} ->
         IF services = "exited" THEN "loader" ELSE "firmware"
KernelReady == "kernel_pages" \in live /\ "compressed_kernel" \notin live
Ready == filled \cup IF KernelReady THEN {"kernel"} ELSE {}

Loader == INSTANCE BootLoader WITH
  Needs <- Parts \cup {"kernel"},
  Late <- {"efi_info", "e820_table"},
  machine <- Machine,
  ready <- Ready

ImplementsBootLoader == Loader!Spec
==============================================================================
