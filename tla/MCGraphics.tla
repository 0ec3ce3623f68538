----------------------------- MODULE MCGraphics ------------------------------
(* Graphics on one or two outputs with up to three modes.  Two modes differ *)
(* only in the format or the masks; one has no frame buffer and the size    *)
(* the configuration asks for; one leaves a gap between its masks.  Lines   *)
(* end within a byte, or are longer than their field, or only four bytes a  *)
(* pixel would be.                                                          *)
EXTENDS Graphics

NoBits == [c \in Masks |-> {}]
Bits565 == [red |-> 11..15, green |-> 5..10, blue |-> 0..4, rsvd |-> {}]
Bits555 == [red |-> 10..14, green |-> 5..9, blue |-> 0..4, rsvd |-> {15}]
Bits15 == [red |-> 10..14, green |-> 5..9, blue |-> 0..4, rsvd |-> {}]
BitsGap == [red |-> 11..15, green |-> 6..10, blue |-> 0..4, rsvd |-> {}]

Info(w, h, ppsl, format, bits) ==
  [w |-> w, h |-> h, ppsl |-> ppsl, format |-> format, bits |-> bits]
Rgb == Info(1024, 768, 1024, "rgb", NoBits)
Bgr == Info(1024, 768, 1088, "bgr", NoBits)
Blt == Info(1024, 768, 1024, "blt", NoBits)
Mask565 == Info(1024, 768, 1024, "mask", Bits565)
Mask555 == Info(1366, 768, 1366, "mask", Bits555)
Mask15 == Info(1024, 768, 1024, "mask", Bits15)
Odd15 == Info(1366, 768, 1366, "mask", Bits15)
Gap == Info(1024, 768, 1024, "mask", BitsGap)
Wide565 == Info(20000, 768, 20000, "mask", Bits565)
Small == Info(640, 480, 640, "bgr", NoBits)
Huge == Info(16384, 4320, 16384, "rgb", NoBits)

ModeLists == {<<Rgb>>, <<Small, Bgr>>, <<Small, Rgb, Bgr>>, <<Blt, Mask15, Mask565>>,
              <<Mask555, Blt, Small>>, <<Huge, Wide565, Odd15>>,
              <<Gap, Mask565>>, <<Blt>>}
Gop(modes, mode, conOut) == [modes |-> modes, mode |-> mode, conOut |-> conOut]

Singles ==
  UNION {{Gop(modes, mode, TRUE) : mode \in 1..Len(modes)} : modes \in ModeLists}
Several ==
  UNION {{Gop(modes, 1, conOut) : conOut \in BOOLEAN} :
           modes \in {<<Small, Bgr>>, <<Blt, Rgb>>}}

MCHandleLists ==
  {<<>>} \cup {<<g>> : g \in Singles} \cup {<<g, h, k>> : g, h, k \in Several}

MCConfigs == {[w |-> 1024, h |-> 768, format |-> f, depth |-> d] :
                f \in {"any", "bgr"}, d \in {0, 32}}
             \cup {[w |-> 1024, h |-> 768, format |-> "mask", depth |-> d] : d \in {15, 16}}
             \cup {[w |-> 1366, h |-> 768, format |-> "any", depth |-> 16],
                   [w |-> 1024, h |-> 768, format |-> "any", depth |-> 15],
                   [w |-> 1024, h |-> 768, format |-> "blt", depth |-> 0],
                   [w |-> 0, h |-> 0, format |-> "any", depth |-> 0]}
==============================================================================
