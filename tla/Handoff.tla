------------------------------ MODULE Handoff --------------------------------
(***************************************************************************)
(* wboot_handoff (src/phase3/wboot_handoff.s), one action per instruction  *)
(* that changes the machine's state, with the interrupts that may come     *)
(* between them.  They go through the firmware's IDT, whose gates name the *)
(* firmware's code selector, in the GDT of the moment.                     *)
(***************************************************************************)
EXTENDS Naturals

CONSTANT FirmwareSelectors  \* the selectors a firmware may run with

(* They are those of its own GDT: of its code, its stack, and its other     *)
(* data segments.  The stack selector may be null in 64-bit mode.           *)
ASSUME SelectorsAssumption ==
  FirmwareSelectors \subseteq [cs : Nat \ {0}, ss : Nat, data : Nat]

VARIABLE cpu  \* the registers, ip naming the next instruction

BOOT_CS == 16 \* 0x10
BOOT_DS == 24 \* 0x18

(* The descriptors of the loader's GDT.                                     *)
SwappedCode == {BOOT_DS}
Code == {BOOT_CS}
Data == {BOOT_DS}

Segments == {"ds", "es", "ss", "fs", "gs"}

HandoffInit ==
  \E fw \in FirmwareSelectors, enabled \in BOOLEAN :
    cpu = [ip |-> "lgdt", gdt |-> "firmware", fw |-> fw, cs |-> fw.cs,
           seg |-> [s \in Segments |-> IF s = "ss" THEN fw.ss ELSE fw.data], interrupts |-> enabled,
           rcx |-> "boot_params", rsi |-> "other"]

Step(from, to) == cpu.ip = from /\ cpu' = to

(* lgdt gdtr(%rip) *)
LoadGdt == Step("lgdt", [cpu EXCEPT !.ip = "lretq", !.gdt = "wboot"])

(* pushq $0x10 ... lretq *)
FarReturn == Step("lretq", [cpu EXCEPT !.ip = "movw_ss", !.cs = BOOT_CS])

(* movw %ax, %ds ... movw %ax, %ss: ds and es, then ss.  A move to ss holds *)
(* interrupts off until the instruction after it.                           *)
LoadDataSegments ==
  Step("movw_ss", [cpu EXCEPT !.ip = "movw_gs",
                              !.seg = [s \in Segments |->
                                         IF s \in {"ds", "es", "ss"} THEN BOOT_DS ELSE @[s]]])

(* xorw %ax, %ax; movw %ax, %fs; movw %ax, %gs *)
ClearSegments ==
  Step("movw_gs", [cpu EXCEPT !.ip = "cli", !.seg.fs = 0, !.seg.gs = 0])

ForgottenCli == Step("cli", [cpu EXCEPT !.ip = "movq_rsi"])
Cli == Step("cli", [cpu EXCEPT !.ip = "movq_rsi", !.interrupts = FALSE])

(* movq %rcx, %rsi *)
PassBootParams == Step("movq_rsi", [cpu EXCEPT !.ip = "jmpq", !.rsi = cpu.rcx])

(* jmpq *%rdx *)
Jump == Step("jmpq", [cpu EXCEPT !.ip = "kernel_entry"])

Instruction ==
  \/ LoadGdt \/ FarReturn \/ LoadDataSegments \/ ClearSegments
  \/ Cli \/ PassBootParams \/ Jump

(* The handler can be entered if its gate names code in the GDT, and its    *)
(* iretq does not fault if the interrupted cs and ss are still descriptors  *)
(* of it; a null ss is none to check.                                       *)
Serviceable ==
  cpu.gdt = "wboot" =>
    /\ cpu.fw.cs \in Code
    /\ cpu.cs \in Code
    /\ cpu.seg["ss"] \in {0} \cup Data

Inside == cpu.ip \notin {"kernel_entry", "lost"}

(* A handled interrupt leaves the registers as they were.  Any other loses  *)
(* the machine: to a triple fault if no gate can be entered, and to the     *)
(* firmware's handler of exceptions if the iretq faults.                    *)
Interrupt ==
  /\ Inside /\ cpu.interrupts
  /\ ~Serviceable
  /\ cpu' = [cpu EXCEPT !.ip = "lost"]

HandoffNext == Instruction \/ Interrupt
==============================================================================
