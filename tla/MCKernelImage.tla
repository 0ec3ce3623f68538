---------------------------- MODULE MCKernelImage ----------------------------
(* KernelImage on 14 frames: a kernel file of one header frame and two      *)
(* segments, the second with a cleared tail, and an initramfs of 2 frames.  *)
(* The first segment goes to pref_address itself, or one frame above it: a  *)
(* file decompressed there then keeps its headers while the tail, which is  *)
(* longer than the file, is cleared.                                        *)
(* The frames in use at the start leave the window of pref_address free or  *)
(* not, and leave room for all, some or none of the three allocations.      *)
EXTENDS KernelImage

MCFrames == 0..13
MCBelow4G == 0..9
MCSegments == <<[paddr |-> 4, offset |-> 1, filesz |-> 1, memsz |-> 1],
                [paddr |-> 5, offset |-> 2, filesz |-> 1, memsz |-> 2]>>
MCHighSegments == <<[paddr |-> 5, offset |-> 1, filesz |-> 1, memsz |-> 1],
                    [paddr |-> 6, offset |-> 2, filesz |-> 1, memsz |-> 2]>>
MCUsedSets == {{0}, {0, 4}, {0, 7}, {0, 1, 2, 3, 7}, {0, 4, 8, 12}, 0..3 \cup {8, 9},
               0..3 \cup 8..13, 0..3 \cup 10..13}
==============================================================================
