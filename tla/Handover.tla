------------------------------ MODULE Handover -------------------------------
(***************************************************************************)
(* The tail of efi_main (src/phase3/main.c): wboot_allocate_e820 and       *)
(* wboot_exit_bs against the firmware (ExitBs), then                       *)
(* wboot_translate_memmap on what they left in the boot parameters (E820). *)
(***************************************************************************)
EXTENDS ExitBs, E820

allVars == <<vars, loopVars>>

HandoverInit == Init /\ LoopInit

TakeOverStep == Next /\ UNCHANGED loopVars

(* efi_main calls wboot_translate_memmap only when wboot_exit_bs succeeded. *)
TranslateStep == pc = "handed_over" /\ UNCHANGED vars /\ TranslateNext

HandoverNext == TakeOverStep \/ TranslateStep

HandoverSpec == HandoverInit /\ [][HandoverNext]_allVars

(* The loader is the machine's only thread; the firmware is under no        *)
(* obligation.                                                              *)
FairHandoverSpec ==
  /\ HandoverSpec
  /\ WF_allVars(LoaderStep /\ UNCHANGED loopVars)
  /\ WF_allVars(TranslateStep)

-----------------------------------------------------------------------------
(* Properties.                                                              *)

(* The kernel boots with the firmware's last map: an address has an e820    *)
(* type in the table it reads exactly if the map that boot services ended   *)
(* with gives it that type, whatever changed between sizing and exit.       *)
KernelSeesFinalMap ==
  status = "success" =>
    \A a \in Addresses, t \in E820Types :
      (\E k \in 1..Len(KernelTable) :
         /\ KernelTable[k].type = t
         /\ EntryCovers(KernelTable[k], a))
      <=> (\E j \in 1..Len(fwMap) :
             E820Type(fwMap[j].type) = t /\ DescCovers(fwMap[j], a))

(* The loader fails after the end of boot services only if the map grew,    *)
(* between wboot_allocate_e820 and the exit, by more than the slack.        *)
FailsAfterExitOnlyPastSlack ==
  status = "buffer_too_small" => Len(fwMap) > nrDesc + EFI_MMAP_NR_SLACK_SLOTS

(* Sizing, retrying and translating come to an end: the loader gives up     *)
(* while services run, or has a table, or has found e820ext too small.      *)
Ends == <>(pc = "failed" \/ status # "translating")
==============================================================================
