------------------------------- MODULE MCBoot --------------------------------
(* Boot on firmwares with the kernel's code selector or another one, each   *)
(* with a null stack selector, the kernel's and another one.                *)
EXTENDS Boot

MCFirmwareSelectors == [cs : {BOOT_CS, 56}, ss : {0, BOOT_DS, 48}, data : {48}]
==============================================================================
