----------------------------- MODULE BootProofs ------------------------------
(***************************************************************************)
(* Proofs about Boot: what is held, filled in and running at each point of *)
(* efi_main, what the processor is set to at each instruction of           *)
(* wboot_handoff, and that together they implement BootLoader.             *)
(***************************************************************************)
EXTENDS Boot, TLAPS

-----------------------------------------------------------------------------
(* The points of efi_main.                                                  *)

Leaving == {"exit", "read_char", "returned"}
Entering == {"handoff", "kernel"}
TakenOver == {"translate_memmap"} \cup Entering
Described == {"allocate_e820", "exit_bs"} \cup TakenOver
Prepared == {"setup_graphics"} \cup Described
WithInitramfs == {"read_initramfs", "prepare_bootparams"} \cup Prepared
WithKernel == {"open_initramfs", "initramfs_info_size", "malloc_file_info",
               "initramfs_info", "allocate_initramfs"} \cup WithInitramfs
Compressed == {"read_compressed", "allocate_preferred", "allocate_any", "decompress"}
Configured == {"open_kernel", "read_setup_header", "create_dctx", "malloc_compressed"}
              \cup Compressed \cup WithKernel
Points == {"locate_config", "lost"} \cup Configured \cup Leaving

(* The functions that report failure by a NULL.                             *)
NullReporters == {"prepare_bootparams", "exit_bs"}

-----------------------------------------------------------------------------
(* The inductive invariant.                                                 *)

(* efi_main leaves because of one function, whose failure it reports unless *)
(* that function cannot say it.                                             *)
PathInv ==
  /\ pc \in Points
  /\ in # "none" <=> pc \in Leaving
  /\ in \in NullReporters \cup {"none"} \/ status = "error"

(* Where what a stage allocates can still be.                               *)
OwnInv ==
  /\ "compressed_kernel" \in live => pc \in Compressed
  /\ "file_info" \in live => pc = "initramfs_info"
  /\ "kernel_pages" \in live =>
       \/ pc \in {"decompress", "lost"} \cup WithKernel
       \/ pc \in Leaving /\ in # "decompress_kernel"
  /\ "initramfs_pages" \in live =>
       \/ pc \in {"lost"} \cup WithInitramfs
       \/ pc \in Leaving /\ in # "load_initramfs"

(* What is held on the way to the kernel.                                   *)
HeldInv ==
  /\ pc \in Configured => "config" \in live
  /\ pc \in Compressed => "compressed_kernel" \in live
  /\ pc \in {"decompress"} \cup WithKernel => "kernel_pages" \in live
  /\ pc \in WithInitramfs => "initramfs_pages" \in live
  /\ pc \in Prepared => "params" \in live
  /\ pc \in TakenOver => "memmap" \in live

(* Boot services end in exit_bs and nowhere else, and wstdlib is told.      *)
ServicesInv ==
  /\ services \in {"running", "closing", "exited"} /\ bsExited \in BOOLEAN
  /\ bsExited <=> services = "exited"
  /\ pc \in TakenOver \cup {"lost"} => services = "exited"
  /\ services = "exited" => pc \in TakenOver \cup {"lost"} \cup Leaving
  /\ waitingOn # "nothing" =>
       pc = "read_char" /\ waitingOn = IF bsExited THEN "keyboard" ELSE "firmware"

FromHeader == {"hdr", "ramdisk", "cmdline"}
FilledInv ==
  /\ pc \in {"locate_config"} \cup (Configured \ Prepared) => filled = {}
  /\ pc = "setup_graphics" => filled = FromHeader
  /\ pc \in {"allocate_e820", "exit_bs"} => filled = FromHeader \cup {"screen_info"}
  /\ pc = "translate_memmap" => filled = FromHeader \cup {"screen_info", "efi_info"}
  /\ pc \in Entering \cup {"lost"} => filled = Parts

(* The instructions in order, and what those before each have set.          *)
AfterMovq == {"jmpq", "kernel_entry"}
AfterCli == {"movq_rsi"} \cup AfterMovq
AfterClear == {"cli"} \cup AfterCli
AfterSs == {"movw_gs"} \cup AfterClear
AfterFar == {"movw_ss"} \cup AfterSs
AfterLgdt == {"lretq"} \cup AfterFar
Registers == [ip : {"lgdt", "lost"} \cup AfterLgdt, gdt : {"firmware", "wboot"},
              fw : [cs : Nat, ss : Nat, data : Nat], cs : Nat, seg : [Segments -> Nat],
              interrupts : BOOLEAN, rcx : {"boot_params"}, rsi : {"boot_params", "other"}]

CpuInv ==
  /\ cpu \in Registers
  /\ cpu.ip \in AfterLgdt => cpu.gdt = "wboot"
  /\ cpu.ip \in AfterFar => cpu.cs = BOOT_CS
  /\ cpu.ip \in AfterSs => \A s \in {"ds", "es", "ss"} : cpu.seg[s] = BOOT_DS
  /\ cpu.ip \in AfterClear => cpu.seg["fs"] = 0 /\ cpu.seg["gs"] = 0
  /\ cpu.ip \in AfterCli => ~cpu.interrupts
  /\ cpu.ip \in AfterMovq => cpu.rsi = "boot_params"

(* wboot_handoff runs when efi_main has called it, to the kernel or nowhere.*)
HandoffInv ==
  /\ pc \notin Entering \cup {"lost"} => cpu.ip = "lgdt"
  /\ pc = "kernel" <=> cpu.ip = "kernel_entry"
  /\ pc = "lost" <=> cpu.ip = "lost"

IInv ==
  /\ PathInv
  /\ OwnInv
  /\ HeldInv
  /\ ServicesInv
  /\ FilledInv
  /\ CpuInv
  /\ HandoffInv

-----------------------------------------------------------------------------
LEMMA InitIInv == Init => IInv
<1> SUFFICES ASSUME Init PROVE IInv
  OBVIOUS
<1> USE DEF Points, Leaving, Entering, TakenOver, Described, Prepared, WithInitramfs,
            WithKernel, Compressed, Configured
<1>1. PathInv /\ OwnInv /\ HeldInv
  BY DEF Init, LoadingInit, PathInv, OwnInv, HeldInv, NullReporters
<1>2. ServicesInv /\ FilledInv
  BY DEF Init, LoadingInit, ServicesInv, FilledInv
<1>3. CpuInv /\ cpu.ip = "lgdt"
  BY SelectorsAssumption DEF Init, HandoffInit, CpuInv, Registers, AfterMovq, AfterCli,
         AfterClear, AfterSs, AfterFar, AfterLgdt
<1>4. HandoffInv
  BY <1>3 DEF Init, LoadingInit, HandoffInv
<1> QED
  BY <1>1, <1>2, <1>3, <1>4 DEF IInv

(* The steps of Next, in groups that change the same things.                *)
Kernel == wboot_decompress_kernel("open_initramfs")
Initramfs == OpenInitramfs \/ InitramfsBuffer \/ ReadInitramfs
Opening == LocateConfig \/ OpenKernel \/ ReadSetupHeader("create_dctx")

LEMMA NextPath == PathInv /\ [Next]_vars => PathInv'
<1> SUFFICES ASSUME PathInv, [Next]_vars PROVE PathInv'
  OBVIOUS
<1> USE DEF PathInv, Points, Leaving, Entering, TakenOver, Described, Prepared,
            WithInitramfs, WithKernel, Compressed, Configured, NullReporters,
            Continue, GiveUp, Check, Acquire
<1>1. CASE Opening
  BY <1>1 DEF Opening, LocateConfig, OpenKernel, ReadSetupHeader
<1>2. CASE Kernel
  BY <1>2 DEF Kernel, wboot_decompress_kernel, CreateDCtx, MallocCompressed,
              ReadCompressed, AllocatePreferred, AllocateAny, Decompress
<1>3. CASE Initramfs
  BY <1>3 DEF Initramfs, OpenInitramfs, InitramfsBuffer, InitramfsInfoSize,
              MallocFileInfo, InitramfsInfo, AllocateInitramfs, ReadInitramfs
<1>4. CASE MainStep
  BY <1>4 DEF MainStep, PrepareBootparams, SetupGraphics, GraphicsSet, GraphicsFails,
              AllocateE820, ExitBs, ExitsBs, ExitBsFails, TranslateMemmap, Translates, Exit
<1>5. CASE HandoffStep
  BY <1>5 DEF HandoffStep
<1>6. CASE Key \/ UNCHANGED vars
  BY <1>6 DEF Key, vars, loadVars
<1> QED
  BY <1>1, <1>2, <1>3, <1>4, <1>5, <1>6
     DEF Next, Program, LoadingStep, Opening, Kernel, Initramfs

(* Each stage allocates at one point and releases on every other way out.   *)
LEMMA NextOwn == PathInv /\ OwnInv /\ [Next]_vars => OwnInv'
<1> SUFFICES ASSUME PathInv, OwnInv, [Next]_vars PROVE OwnInv'
  OBVIOUS
<1> USE DEF PathInv, OwnInv, Leaving, Entering, TakenOver, Described, Prepared,
            WithInitramfs, WithKernel, Compressed, Continue, GiveUp, Check, Acquire
<1>1. CASE Opening
  BY <1>1 DEF Opening, LocateConfig, OpenKernel, ReadSetupHeader
<1>2. CASE Kernel
  BY <1>2 DEF Kernel, wboot_decompress_kernel, CreateDCtx, MallocCompressed,
              ReadCompressed, AllocatePreferred, AllocateAny, Decompress
<1>3. CASE Initramfs
  BY <1>3 DEF Initramfs, OpenInitramfs, InitramfsBuffer, InitramfsInfoSize,
              MallocFileInfo, InitramfsInfo, AllocateInitramfs, ReadInitramfs
<1>4. CASE MainStep
  BY <1>4 DEF MainStep, PrepareBootparams, SetupGraphics, GraphicsSet, GraphicsFails,
              AllocateE820, ExitBs, ExitsBs, ExitBsFails, TranslateMemmap, Translates, Exit
<1>5. CASE HandoffStep
  BY <1>5 DEF HandoffStep
<1>6. CASE Key \/ UNCHANGED vars
  BY <1>6 DEF Key, vars, loadVars
<1> QED
  BY <1>1, <1>2, <1>3, <1>4, <1>5, <1>6
     DEF Next, Program, LoadingStep, Opening, Kernel, Initramfs

(* Nothing that was acquired on the way to the kernel is given up on it.    *)
LEMMA NextHeld == HeldInv /\ [Next]_vars => HeldInv'
<1> SUFFICES ASSUME HeldInv, [Next]_vars PROVE HeldInv'
  OBVIOUS
<1> USE DEF HeldInv, Entering, TakenOver, Described, Prepared, WithInitramfs,
            WithKernel, Compressed, Configured, Continue, GiveUp, Check, Acquire
<1>1. CASE Opening
  BY <1>1 DEF Opening, LocateConfig, OpenKernel, ReadSetupHeader
<1>2. CASE Kernel
  BY <1>2 DEF Kernel, wboot_decompress_kernel, CreateDCtx, MallocCompressed,
              ReadCompressed, AllocatePreferred, AllocateAny, Decompress
<1>3. CASE Initramfs
  BY <1>3 DEF Initramfs, OpenInitramfs, InitramfsBuffer, InitramfsInfoSize,
              MallocFileInfo, InitramfsInfo, AllocateInitramfs, ReadInitramfs
<1>4. CASE MainStep
  BY <1>4 DEF MainStep, PrepareBootparams, SetupGraphics, GraphicsSet, GraphicsFails,
              AllocateE820, ExitBs, ExitsBs, ExitBsFails, TranslateMemmap, Translates, Exit
<1>5. CASE HandoffStep
  BY <1>5 DEF HandoffStep
<1>6. CASE Key \/ UNCHANGED vars
  BY <1>6 DEF Key, vars, loadVars
<1> QED
  BY <1>1, <1>2, <1>3, <1>4, <1>5, <1>6
     DEF Next, Program, LoadingStep, Opening, Kernel, Initramfs

LEMMA NextServicesFilled ==
  ServicesInv /\ FilledInv /\ [Next]_vars => ServicesInv' /\ FilledInv'
<1> SUFFICES ASSUME ServicesInv, FilledInv, [Next]_vars PROVE ServicesInv' /\ FilledInv'
  OBVIOUS
<1> USE DEF ServicesInv, FilledInv, FromHeader, Parts, Leaving, Entering, TakenOver,
            Described, Prepared, WithInitramfs, WithKernel, Compressed, Configured,
            Continue, GiveUp, Check, Acquire, bootVars
<1>1. CASE Opening /\ UNCHANGED bootVars
  BY <1>1 DEF Opening, LocateConfig, OpenKernel, ReadSetupHeader
<1>2. CASE Kernel /\ UNCHANGED bootVars
  BY <1>2 DEF Kernel, wboot_decompress_kernel, CreateDCtx, MallocCompressed,
              ReadCompressed, AllocatePreferred, AllocateAny, Decompress
<1>3. CASE Initramfs /\ UNCHANGED bootVars
  BY <1>3 DEF Initramfs, OpenInitramfs, InitramfsBuffer, InitramfsInfoSize,
              MallocFileInfo, InitramfsInfo, AllocateInitramfs, ReadInitramfs
<1>4. CASE PrepareBootparams \/ AllocateE820
  BY <1>4 DEF PrepareBootparams, AllocateE820
<1>5. CASE SetupGraphics
  <2>1. CASE GraphicsSet
    BY <2>1 DEF GraphicsSet
  <2>2. CASE GraphicsFails("error")
    BY <2>2 DEF GraphicsFails
  <2> QED
    BY <1>5, <2>1, <2>2 DEF SetupGraphics
<1>6. CASE ExitBs
  <2>1. CASE ExitsBs(TRUE)
    BY <2>1 DEF ExitsBs
  <2>2. CASE ExitBsFails
    BY <2>2 DEF ExitBsFails
  <2> QED
    BY <1>6, <2>1, <2>2 DEF ExitBs
<1>7. CASE TranslateMemmap
  BY <1>7 DEF TranslateMemmap, Translates
<1>8. CASE Exit
  BY <1>8 DEF Exit
<1>9. CASE HandoffStep
  BY <1>9 DEF HandoffStep
<1>10. CASE Key \/ UNCHANGED vars
  BY <1>10 DEF Key, vars, loadVars
<1> QED
  BY <1>1, <1>2, <1>3, <1>4, <1>5, <1>6, <1>7, <1>8, <1>9, <1>10
     DEF Next, Program, LoadingStep, MainStep, Opening, Kernel, Initramfs

(* The registers keep their types, and each instruction adds what it sets   *)
(* to what those before it have set.  An interrupt changes only ip.         *)
LEMMA NextCpu == CpuInv /\ [Next]_vars => CpuInv'
<1> SUFFICES ASSUME CpuInv, [Next]_vars PROVE CpuInv'
  OBVIOUS
<1> USE DEF CpuInv, Registers, AfterMovq, AfterCli, AfterClear, AfterSs, AfterFar, AfterLgdt,
            Step
<1>1. CASE LoadGdt
  BY <1>1 DEF LoadGdt
<1>2. CASE FarReturn
  BY <1>2 DEF FarReturn, BOOT_CS
<1>3. CASE LoadDataSegments
  <2> DEFINE seg == [s \in Segments |-> IF s \in {"ds", "es", "ss"} THEN BOOT_DS ELSE cpu.seg[s]]
  <2>1. cpu.ip = "movw_ss" /\ cpu' = [cpu EXCEPT !.ip = "movw_gs", !.seg = seg]
    BY <1>3 DEF LoadDataSegments
  <2>2. seg \in [Segments -> Nat] /\ \A s \in {"ds", "es", "ss"} : seg[s] = BOOT_DS
    BY DEF Segments, BOOT_DS
  <2> HIDE DEF seg
  <2> QED
    BY <2>1, <2>2
<1>4. CASE ClearSegments
  <2> DEFINE seg == [cpu.seg EXCEPT !["fs"] = 0, !["gs"] = 0]
  <2>1. cpu.ip = "movw_gs" /\ cpu' = [cpu EXCEPT !.ip = "cli", !.seg = seg]
    BY <1>4 DEF ClearSegments
  <2>2. /\ seg \in [Segments -> Nat] /\ seg["fs"] = 0 /\ seg["gs"] = 0
        /\ \A s \in {"ds", "es", "ss"} : seg[s] = cpu.seg[s]
    BY DEF Segments
  <2> HIDE DEF seg
  <2> QED
    BY <2>1, <2>2
<1>5. CASE Cli
  BY <1>5 DEF Cli
<1>6. CASE PassBootParams
  BY <1>6 DEF PassBootParams
<1>7. CASE Jump
  BY <1>7 DEF Jump
<1>8. CASE Interrupt
  BY <1>8 DEF Interrupt
<1>9. CASE UNCHANGED cpu
  BY <1>9
<1> QED
  BY <1>1, <1>2, <1>3, <1>4, <1>5, <1>6, <1>7, <1>8, <1>9
     DEF Next, Program, HandoffStep, HandoffNext, Instruction, vars

LEMMA NextHandoff == CpuInv /\ HandoffInv /\ PathInv /\ [Next]_vars => HandoffInv'
<1> SUFFICES ASSUME CpuInv, HandoffInv, PathInv, [Next]_vars PROVE HandoffInv'
  OBVIOUS
<1>1. CASE HandoffStep
  <2>1. pc = "handoff" /\ pc' \in {"kernel", "lost", "handoff"}
        /\ (pc' = "kernel" <=> cpu'.ip = "kernel_entry")
        /\ (pc' = "lost" <=> cpu'.ip = "lost")
    BY <1>1 DEF HandoffStep
  <2> QED
    BY <2>1 DEF HandoffInv, Entering
<1>2. CASE UNCHANGED cpu /\ ~HandoffStep
  <2>1. pc' = pc \/ {pc, pc'} \cap {"kernel", "lost"} = {}
    BY <1>2 DEF Next, Program, LoadingStep, LocateConfig, OpenKernel, ReadSetupHeader,
           wboot_decompress_kernel, CreateDCtx, MallocCompressed, ReadCompressed,
           AllocatePreferred, AllocateAny, Decompress, OpenInitramfs, InitramfsBuffer,
           InitramfsInfoSize, MallocFileInfo, InitramfsInfo, AllocateInitramfs,
           ReadInitramfs, MainStep, PrepareBootparams, SetupGraphics, GraphicsSet,
           GraphicsFails, AllocateE820, ExitBs, ExitsBs, ExitBsFails, TranslateMemmap,
           Translates, Exit, Key, Continue, GiveUp, Check, Acquire, vars, loadVars
  <2>2. pc = "handoff" => pc' = pc
    BY <1>2 DEF Next, Program, LoadingStep, LocateConfig, OpenKernel, ReadSetupHeader,
           wboot_decompress_kernel, CreateDCtx, MallocCompressed, ReadCompressed,
           AllocatePreferred, AllocateAny, Decompress, OpenInitramfs, InitramfsBuffer,
           InitramfsInfoSize, MallocFileInfo, InitramfsInfo, AllocateInitramfs,
           ReadInitramfs, MainStep, PrepareBootparams, SetupGraphics, GraphicsSet,
           GraphicsFails, AllocateE820, ExitBs, ExitsBs, ExitBsFails, TranslateMemmap,
           Translates, Exit, Key, Continue, GiveUp, Check, Acquire, vars, loadVars
  <2> QED
    BY <1>2, <2>1, <2>2 DEF HandoffInv, Entering
<1> QED
  BY <1>1, <1>2 DEF Next, Program, vars

LEMMA NextIInv == IInv /\ [Next]_vars => IInv'
BY NextPath, NextOwn, NextHeld, NextServicesFilled, NextCpu, NextHandoff DEF IInv

LEMMA Inductive == Spec => []IInv
BY InitIInv, NextIInv, PTL DEF Spec

-----------------------------------------------------------------------------
(* A stage that fails has released the memory of its result and of its own  *)
(* use, whichever of its calls failed, and no stage leaves behind the       *)
(* compressed kernel or the file information it read.                       *)
THEOREM StagesFree == Spec => []StagesFreeTheirOwn
<1>1. IInv => StagesFreeTheirOwn
  BY DEF IInv, PathInv, OwnInv, StagesFreeTheirOwn, Points, Leaving, Entering, TakenOver,
         Described, Prepared, WithInitramfs, WithKernel, Compressed, Configured
<1> QED
  BY <1>1, Inductive, PTL

(* The kernel is entered after the end of boot services, with all the boot  *)
(* parameters filled in and what they point to still allocated.             *)
THEOREM EntersReady == Spec => []HandoffReady
<1>1. IInv => HandoffReady
  BY DEF IInv, HeldInv, ServicesInv, FilledInv, HandoffReady, Entering, TakenOver,
         Described, Prepared, WithInitramfs, WithKernel, Compressed, Configured
<1> QED
  BY <1>1, Inductive, PTL

(* The registers at the kernel's first instruction are those the boot       *)
(* protocol asks for, wherever an interrupt came in wboot_handoff and       *)
(* whatever selectors the firmware runs with.                               *)
THEOREM EntryState == Spec => []KernelEntryState
<1>1. IInv => KernelEntryState
  BY DEF IInv, CpuInv, HandoffInv, KernelEntryState, AfterMovq, AfterCli, AfterClear,
         AfterSs, AfterFar, AfterLgdt, Code, Data
<1> QED
  BY <1>1, Inductive, PTL

(* While a selector has not been reloaded it is the firmware's; a machine   *)
(* that is lost was interrupted with one the loader's GDT does not have.    *)
SelectorsInv ==
  /\ cpu.cs \in {cpu.fw.cs, BOOT_CS}
  /\ cpu.seg["ss"] \in {cpu.fw.ss, BOOT_DS}
  /\ cpu.ip = "lost" => cpu.interrupts /\ ~SharesSelectors(cpu.fw)

LEMMA NextSelectors == CpuInv /\ SelectorsInv /\ [Next]_vars => SelectorsInv'
<1> SUFFICES ASSUME CpuInv, SelectorsInv, [Next]_vars PROVE SelectorsInv'
  OBVIOUS
<1>1. cpu \in Registers /\ "ss" \in Segments
  BY DEF CpuInv, Segments
<1>2. CASE LoadGdt \/ FarReturn \/ Cli \/ PassBootParams \/ Jump
  <2>1. cpu'.fw = cpu.fw /\ cpu'.seg = cpu.seg /\ cpu'.cs \in {cpu.cs, BOOT_CS} /\ cpu'.ip # "lost"
    BY <1>1, <1>2 DEF LoadGdt, FarReturn, Cli, PassBootParams, Jump, Step, Registers
  <2> QED
    BY <2>1 DEF SelectorsInv
<1>3. CASE LoadDataSegments
  <2> DEFINE seg == [s \in Segments |-> IF s \in {"ds", "es", "ss"} THEN BOOT_DS ELSE cpu.seg[s]]
  <2>1. cpu' = [cpu EXCEPT !.ip = "movw_gs", !.seg = seg] /\ seg["ss"] = BOOT_DS
    BY <1>1, <1>3 DEF LoadDataSegments, Step, Registers
  <2> HIDE DEF seg
  <2> QED
    BY <1>1, <2>1 DEF SelectorsInv, Registers
<1>4. CASE ClearSegments
  <2> DEFINE seg == [cpu.seg EXCEPT !["fs"] = 0, !["gs"] = 0]
  <2>1. cpu' = [cpu EXCEPT !.ip = "cli", !.seg = seg]
    BY <1>4 DEF ClearSegments, Step
  <2>2. seg["ss"] = cpu.seg["ss"]
    BY <1>1 DEF Registers, Segments
  <2> HIDE DEF seg
  <2> QED
    BY <1>1, <2>1, <2>2 DEF SelectorsInv, Registers
<1>5. CASE Interrupt
  <2>1. /\ cpu'.fw = cpu.fw /\ cpu'.cs = cpu.cs /\ cpu'.seg = cpu.seg
        /\ cpu'.interrupts = cpu.interrupts /\ cpu.interrupts /\ ~Serviceable
    BY <1>1, <1>5 DEF Interrupt, Registers
  <2>2. ~SharesSelectors(cpu.fw)
    BY <2>1 DEF SelectorsInv, Serviceable, SharesSelectors, Code, Data, BOOT_CS, BOOT_DS
  <2> QED
    BY <2>1, <2>2 DEF SelectorsInv, SharesSelectors
<1>6. CASE UNCHANGED cpu
  BY <1>6 DEF SelectorsInv, SharesSelectors
<1> QED
  BY <1>2, <1>3, <1>4, <1>5, <1>6 DEF Next, Program, HandoffStep, HandoffNext, Instruction, vars

(* The machine is lost in wboot_handoff only to an interrupt the firmware   *)
(* left enabled, and only if its code or stack selector is not the kernel's.*)
THEOREM MachineKept == Spec => []LostByOwnSelectors
<1>1. Init => SelectorsInv
  BY SelectorsAssumption DEF Init, HandoffInit, SelectorsInv, Segments
<1>2. IInv => CpuInv
  BY DEF IInv
<1>3. IInv /\ SelectorsInv => LostByOwnSelectors
  BY DEF IInv, HandoffInv, SelectorsInv, LostByOwnSelectors
<1> QED
  BY <1>1, <1>2, <1>3, NextSelectors, Inductive, PTL DEF Spec

(* read_char never asks a firmware that has ended for a key.                *)
THEOREM KeySafe == Spec => []ReadsKeySafely
<1>1. IInv => ReadsKeySafely
  BY DEF IInv, ServicesInv, ReadsKeySafely
<1> QED
  BY <1>1, Inductive, PTL

(* efi_main returns an error unless the function that failed cannot say so. *)
THEOREM FailuresReported == Spec => []FailureReported
<1>1. IInv => FailureReported
  BY DEF IInv, PathInv, FailureReported, Leaving, NullReporters
<1> QED
  BY <1>1, Inductive, PTL

-----------------------------------------------------------------------------
(* The refinement of BootLoader.                                            *)

Early == FromHeader \cup {"screen_info"}
Gone == {"kernel", "lost", "returned"}

(* While the firmware runs the machine, a step that loses nothing of what   *)
(* is ready, and adds nothing that needs the end of boot services, gathers. *)
LEMMA GatherStep ==
  ASSUME services # "exited", services' # "exited", pc \notin Gone, pc' \notin Gone,
         filled \subseteq filled', filled' \subseteq Early, KernelReady => KernelReady'
  PROVE  Loader!Gather
<1>1. Machine = "firmware" /\ Machine' = "firmware"
  BY DEF Machine, Gone
<1>2. Ready' = Ready \cup Ready'
  BY DEF Ready
<1>3. Ready' \in SUBSET ((Parts \cup {"kernel"}) \ {"efi_info", "e820_table"})
  BY DEF Ready, Early, FromHeader, Parts
<1> QED
  BY <1>1, <1>2, <1>3 DEF Loader!Gather

(* A step that leaves the machine where it is and what is ready as it is.   *)
LEMMA StutterStep ==
  ASSUME UNCHANGED <<services, filled>>, KernelReady' <=> KernelReady,
         pc \notin Gone, pc' \notin Gone
  PROVE  UNCHANGED Loader!vars
BY DEF Loader!vars, Machine, Ready, Gone

(* The stages that load the kernel and the initramfs, up to the end of boot *)
(* services: the kernel is ready once it is decompressed, and stays so.     *)
LEMMA LoadingGathers == IInv /\ LoadingStep => Loader!Gather
<1> SUFFICES ASSUME IInv, LoadingStep PROVE Loader!Gather
  OBVIOUS
<1> USE DEF Leaving, Entering, TakenOver, Described, Prepared, WithInitramfs, WithKernel,
            Compressed, Configured, Continue, GiveUp, Check, Acquire
<1>0. UNCHANGED bootVars
  BY DEF LoadingStep
<1>1. pc \in ({"locate_config"} \cup Configured) \ Prepared /\ pc' \notin Gone
  BY DEF LoadingStep, LocateConfig, OpenKernel, ReadSetupHeader, wboot_decompress_kernel,
         CreateDCtx, MallocCompressed, ReadCompressed, AllocatePreferred, AllocateAny,
         Decompress, OpenInitramfs, InitramfsBuffer, InitramfsInfoSize, MallocFileInfo,
         InitramfsInfo, AllocateInitramfs, ReadInitramfs, Gone
<1>2. services # "exited" /\ filled = {}
  BY <1>1 DEF IInv, ServicesInv, FilledInv
<1>3. KernelReady => pc \in WithKernel
  BY <1>1 DEF IInv, OwnInv, HeldInv, KernelReady
<1>4. KernelReady => KernelReady'
  <2> SUFFICES ASSUME KernelReady, pc \in WithKernel PROVE KernelReady'
    BY <1>3
  <2> QED
    BY DEF LoadingStep, LocateConfig, OpenKernel, ReadSetupHeader, wboot_decompress_kernel,
         CreateDCtx, MallocCompressed, ReadCompressed, AllocatePreferred, AllocateAny,
         Decompress, OpenInitramfs, InitramfsBuffer, InitramfsInfoSize, MallocFileInfo,
         InitramfsInfo, AllocateInitramfs, ReadInitramfs, KernelReady
<1> QED
  BY <1>0, <1>1, <1>2, <1>4, GatherStep DEF bootVars, Gone, Early

(* prepare_bootparams, setup_graphics and allocate_e820.                    *)
LEMMA PreparingGathers ==
  IInv /\ (PrepareBootparams \/ SetupGraphics \/ AllocateE820) => Loader!Gather
<1> SUFFICES ASSUME IInv, PrepareBootparams \/ SetupGraphics \/ AllocateE820
             PROVE  Loader!Gather
  OBVIOUS
<1> USE DEF Continue, GiveUp
<1>1. /\ pc \in {"prepare_bootparams", "setup_graphics", "allocate_e820"}
      /\ pc' \notin Gone /\ UNCHANGED services
  BY DEF PrepareBootparams, SetupGraphics, GraphicsSet, GraphicsFails, AllocateE820,
         Gone, bootVars
<1>2. services # "exited"
  BY <1>1 DEF IInv, ServicesInv, TakenOver, Entering, Leaving
<1>3. KernelReady => KernelReady'
  BY DEF PrepareBootparams, SetupGraphics, GraphicsSet, GraphicsFails, AllocateE820,
         KernelReady
<1>4. filled \subseteq filled' /\ filled' \subseteq Early
  <2>1. CASE PrepareBootparams
    BY <2>1 DEF PrepareBootparams, IInv, FilledInv, Configured, WithKernel, WithInitramfs,
           Prepared, Described, TakenOver, Entering, Early, FromHeader, bootVars
  <2>2. CASE SetupGraphics
    <3>1. filled = FromHeader
      BY <2>2 DEF SetupGraphics, GraphicsSet, GraphicsFails, IInv, FilledInv
    <3>2. filled' \in {filled, filled \cup {"screen_info"}}
      BY <2>2 DEF SetupGraphics, GraphicsSet, GraphicsFails, bootVars
    <3> QED
      BY <3>1, <3>2 DEF Early
  <2>3. CASE AllocateE820
    BY <2>3 DEF AllocateE820, IInv, FilledInv, Early, bootVars
  <2> QED
    BY <2>1, <2>2, <2>3
<1> QED
  BY <1>1, <1>2, <1>3, <1>4, GatherStep DEF Gone

(* The end of boot services takes the machine over, with everything that    *)
(* the kernel needs in place but the memory map.                            *)
LEMMA ExitTakesOver == IInv /\ ExitBs => Loader!TakeOver \/ Loader!Gather
<1> SUFFICES ASSUME IInv, ExitBs PROVE Loader!TakeOver \/ Loader!Gather
  OBVIOUS
<1>1. pc = "exit_bs" /\ filled = Early /\ services # "exited"
  BY DEF ExitBs, ExitsBs, ExitBsFails, Continue, GiveUp, IInv, FilledInv, ServicesInv, Early,
         TakenOver, Entering, Leaving
<1>2. KernelReady
  BY <1>1 DEF IInv, OwnInv, HeldInv, KernelReady, Compressed, WithKernel, WithInitramfs,
              Prepared, Described
<1>3. CASE ExitsBs(TRUE)
  <2>1. Machine = "firmware" /\ Machine' = "loader"
    BY <1>1, <1>3 DEF ExitsBs, Continue, Machine
  <2>2. KernelReady'
    BY <1>2, <1>3 DEF ExitsBs, KernelReady
  <2>3. Ready = Early \cup {"kernel"} /\ Ready' = Ready \cup {"efi_info"}
    BY <1>1, <1>2, <1>3, <2>2 DEF ExitsBs, Ready
  <2>4. (Parts \cup {"kernel"}) \ {"efi_info", "e820_table"} \subseteq Early \cup {"kernel"}
    BY DEF Parts, Early, FromHeader
  <2> QED
    BY <2>1, <2>3, <2>4 DEF Loader!TakeOver
<1>4. CASE ExitBsFails
  BY <1>1, <1>4, GatherStep DEF ExitBsFails, GiveUp, Gone, KernelReady
<1> QED
  BY <1>3, <1>4 DEF ExitBs

LEMMA TranslationCompletes ==
  IInv /\ TranslateMemmap => Loader!Complete \/ UNCHANGED Loader!vars
<1> SUFFICES ASSUME IInv, TranslateMemmap PROVE Loader!Complete \/ UNCHANGED Loader!vars
  OBVIOUS
<1>1. pc = "translate_memmap" /\ services = "exited"
  BY DEF TranslateMemmap, Translates, Continue, GiveUp, IInv, ServicesInv, TakenOver
<1>2. CASE Translates({"e820_table"})
  <2>1. Machine = "loader" /\ Machine' = "loader"
    BY <1>1, <1>2 DEF Translates, Continue, Machine
  <2>2. Ready' = Ready \cup {"e820_table"}
    BY <1>2 DEF Translates, Ready, KernelReady
  <2> QED
    BY <2>1, <2>2 DEF Loader!Complete
<1>3. CASE GiveUp("translate_memmap", "translate_memmap", "error") /\ UNCHANGED <<live, bootVars>>
  BY <1>1, <1>3, StutterStep DEF GiveUp, bootVars, KernelReady, Gone
<1> QED
  BY <1>2, <1>3 DEF TranslateMemmap

(* wboot_handoff enters the kernel, or strands the machine, at its last     *)
(* instruction or the interrupt nobody can serve.                           *)
LEMMA HandoffEnters == IInv /\ HandoffStep => [Loader!Next]_(Loader!vars)
<1> SUFFICES ASSUME IInv, HandoffStep PROVE [Loader!Next]_(Loader!vars)
  OBVIOUS
<1>1. pc = "handoff" /\ UNCHANGED <<live, filled, services>>
  BY DEF HandoffStep, bootVars
<1>2. services = "exited" /\ filled = Parts /\ KernelReady
  BY <1>1 DEF IInv, OwnInv, HeldInv, ServicesInv, FilledInv, KernelReady, Compressed,
              WithKernel, WithInitramfs, Prepared, Described, TakenOver, Entering
<1>3. Ready = Parts \cup {"kernel"} /\ UNCHANGED Ready
  BY <1>1, <1>2 DEF Ready, KernelReady
<1>4. Machine = "loader"
  BY <1>1, <1>2 DEF Machine
<1>5. CASE pc' = "kernel"
  BY <1>3, <1>4, <1>5 DEF Machine, Loader!Next, Loader!Enter
<1>6. CASE pc' = "lost"
  BY <1>3, <1>4, <1>6 DEF Machine, Loader!Next, Loader!Strand
<1>7. CASE pc' = "handoff"
  BY <1>1, <1>3, <1>7 DEF Machine, Loader!vars
<1> QED
  BY <1>5, <1>6, <1>7 DEF HandoffStep

(* After a failure the machine goes back to the firmware, if there still is *)
(* one, when the key has been pressed.                                      *)
LEMMA LeavingGivesBack ==
  IInv /\ (Exit \/ Key) => [Loader!Next]_(Loader!vars)
<1> SUFFICES ASSUME IInv, Exit \/ Key PROVE [Loader!Next]_(Loader!vars)
  OBVIOUS
<1>1. CASE Exit
  BY <1>1, StutterStep DEF Exit, KernelReady, Gone
<1>2. CASE Key
  <2>1. UNCHANGED Ready
    BY <1>2 DEF Key, Ready, KernelReady
  <2>2. CASE services = "exited"
    BY <1>2, <2>1, <2>2 DEF Key, Machine, Loader!Next, Loader!Strand
  <2>3. CASE services # "exited"
    BY <1>2, <2>1, <2>3 DEF Key, Machine, Loader!Next, Loader!GiveBack
  <2> QED
    BY <2>2, <2>3
<1> QED
  BY <1>1, <1>2

LEMMA NextBootLoader == IInv /\ [Next]_vars => [Loader!Next]_(Loader!vars)
<1> SUFFICES ASSUME IInv, [Next]_vars PROVE [Loader!Next]_(Loader!vars)
  OBVIOUS
<1>1. CASE LoadingStep \/ MainStep
  BY <1>1, LoadingGathers, PreparingGathers, ExitTakesOver, TranslationCompletes,
     LeavingGivesBack DEF MainStep, Loader!Next
<1>2. CASE HandoffStep
  BY <1>2, HandoffEnters
<1>3. CASE Key
  BY <1>3, LeavingGivesBack
<1>4. CASE UNCHANGED vars
  BY <1>4 DEF vars, loadVars, bootVars, Loader!vars, Machine, Ready, KernelReady
<1> QED
  BY <1>1, <1>2, <1>3, <1>4 DEF Next, Program

(* The loader is a boot loader: it ends the firmware only with everything   *)
(* the kernel needs in place but the memory map, and enters the kernel only *)
(* with all of it.                                                          *)
THEOREM Refinement == Spec => ImplementsBootLoader
<1>1. Init => Loader!Init
  BY DEF Init, LoadingInit, Loader!Init, Machine, Ready, KernelReady
<1> QED
  BY <1>1, Inductive, NextBootLoader, PTL DEF Spec, ImplementsBootLoader, Loader!Spec
==============================================================================
