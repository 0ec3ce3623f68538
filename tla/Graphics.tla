------------------------------ MODULE Graphics -------------------------------
(***************************************************************************)
(* wboot_setup_graphics (src/phase3/wboot_graphics.c): the loader looks    *)
(* for the graphics output (GOP) to use, sets the mode the configuration   *)
(* asks for, and describes that mode to the kernel in screen_info.  One    *)
(* action is one call into the firmware, which may refuse it, with the     *)
(* code up to the next.  A mask of PixelBitMask is the set of its bits.    *)
(***************************************************************************)
EXTENDS Integers, Sequences, FiniteSetsExt

CONSTANTS
  HandleLists,  \* the handles LocateHandleBuffer may return, each with its GOP
  Configs       \* the mode lines wboot.conf may have

Formats == {"rgb", "bgr", "mask", "blt", "max"}
Masks == {"red", "green", "blue", "rsvd"}

(* UEFI: a scan line is no shorter than a row; the bits of each mask are    *)
(* contiguous, and the four masks do not overlap.                           *)
Contiguous(S) == S = {} \/ S = Min(S)..Max(S)
ModeInfos ==
  {info \in [w : Nat, h : Nat, ppsl : Nat, format : Formats, bits : [Masks -> SUBSET (0..31)]] :
     /\ info.w <= info.ppsl
     /\ info.format = "mask" =>
          /\ \A c \in Masks : Contiguous(info.bits[c])
          /\ \A c, e \in Masks : c # e => info.bits[c] \cap info.bits[e] = {}}
Gops == [conOut : BOOLEAN, modes : Seq(ModeInfos), mode : Nat]

ASSUME HandlesAssumption ==
  \A list \in HandleLists :
    /\ list \in Seq(Gops)
    /\ \A n \in 1..Len(list) : list[n].mode \in 1..Len(list[n].modes)
ASSUME ConfigsAssumption ==
  Configs \subseteq [w : Nat, h : Nat, format : Formats \cup {"any"}, depth : 0..255]

VARIABLES
  config,    \* the mode line of the configuration
  gops,      \* the handles with what the firmware keeps for them
  pc,        \* the next call, or "done"
  status,    \* "none", "success", "not_found" or "error"
  i,         \* loop counter of find_handle_with_primary_gop
  first,     \* first_gop_handle, 0 for NULL
  handle,    \* the handle it returned
  m,         \* loop counter of choose_mode
  new_mode,  \* what choose_mode_res returned
  screen,    \* boot_params->screen_info, NoScreen when it is zero
  refused    \* which calls the firmware refused

vars == <<config, gops, pc, status, i, first, handle, m, new_mode, screen, refused>>
findVars == <<i, first, handle>>
modeVars == <<m, new_mode>>

NoScreen == [width |-> 0, height |-> 0, depth |-> 0, linelength |-> 0,
             bits |-> [c \in Masks |-> {}]]

Init ==
  /\ config \in Configs
  /\ gops \in HandleLists
  /\ pc = "locate_handles"
  /\ status = "none"
  /\ i = 1 /\ first = 0 /\ handle = 0
  /\ m = 1 /\ new_mode = 0
  /\ screen = NoScreen
  /\ refused = {}

-----------------------------------------------------------------------------
(* What the code computes from a mode.                                      *)

HasFramebuffer(info) == info.format \notin {"blt", "max"}

(* find_bits: the size it finds, and the bits from pos on.                  *)
SizeOf(bits) == IF bits = {} THEN 0 ELSE Max(bits) - Min(bits) + 1
BitsFound(bits) == IF bits = {} THEN {} ELSE Min(bits)..(Min(bits) + SizeOf(bits) - 1)

AllBits(info) == UNION {info.bits[c] : c \in Masks}
OffByOnePixelBpp(info) ==
  IF info.format = "mask" THEN Max(AllBits(info)) - Min(AllBits(info)) ELSE 32
pixel_bpp(info) == IF info.format = "mask" THEN SizeOf(AllBits(info)) ELSE 32

match_res(info) ==
  /\ HasFramebuffer(info)
  /\ config.w = info.w /\ config.h = info.h
  /\ config.format \in {"any", info.format}
  /\ config.depth \in {0, pixel_bpp(info)}

(* The layouts of the two formats without masks.                            *)
FixedBits(format) ==
  [red |-> IF format = "rgb" THEN 0..7 ELSE 16..23, green |-> 8..15,
   blue |-> IF format = "rgb" THEN 16..23 ELSE 0..7, rsvd |-> 24..31]

(* setup_screen_info; width, height and line length are UINT16 fields.      *)
lfb_depth(info) ==
  IF info.format = "mask"
    THEN SizeOf(info.bits["red"]) + SizeOf(info.bits["green"])
           + SizeOf(info.bits["blue"]) + SizeOf(info.bits["rsvd"])
    ELSE 32
RoundedLineLength(info) ==
  (IF info.format = "mask" THEN (info.ppsl \div 8) * lfb_depth(info) ELSE info.ppsl * 4) % 65536
lfb_linelength(info) ==
  (IF info.format = "mask" THEN (info.ppsl * lfb_depth(info)) \div 8 ELSE info.ppsl * 4) % 65536

ScreenInfo(info) ==
  [width |-> info.w % 65536, height |-> info.h % 65536,
   depth |-> lfb_depth(info), linelength |-> lfb_linelength(info),
   bits |-> IF info.format = "mask" THEN [c \in Masks |-> BitsFound(info.bits[c])]
                                    ELSE FixedBits(info.format)]

Active == gops[handle].modes[gops[handle].mode]
current == gops[handle].mode

-----------------------------------------------------------------------------
Return(st) == pc' = "done" /\ status' = st

(* LocateHandleBuffer, after screen_info and edid_info are zeroed.          *)
LocateHandles ==
  /\ pc = "locate_handles"
  /\ \/ pc' = "find" /\ UNCHANGED status
     \/ Return("error")
  /\ UNCHANGED <<config, gops, findVars, modeVars, screen, refused>>

(* One handle: HandleProtocol may refuse its GOP, its current mode may have *)
(* no frame buffer, and the first one with the console output wins.         *)
NextHandle == i' = i + 1 /\ UNCHANGED <<pc, handle>>
Usable == HasFramebuffer(gops[i].modes[gops[i].mode])

SkipHandle ==
  /\ pc = "find" /\ i <= Len(gops)
  /\ NextHandle
  /\ UNCHANGED first
  /\ \/ refused' = refused \cup {<<"gop", i>>}
     \/ ~Usable /\ UNCHANGED refused
  /\ UNCHANGED <<config, gops, status, modeVars, screen>>

LastRememberHandle ==
  /\ pc = "find" /\ i <= Len(gops)
  /\ Usable /\ ~gops[i].conOut
  /\ NextHandle
  /\ first' = i
  /\ UNCHANGED <<config, gops, status, modeVars, screen, refused>>
RememberHandle ==
  /\ pc = "find" /\ i <= Len(gops)
  /\ Usable /\ ~gops[i].conOut
  /\ NextHandle
  /\ first' = IF first = 0 THEN i ELSE first
  /\ UNCHANGED <<config, gops, status, modeVars, screen, refused>>

TakeConsole ==
  /\ pc = "find" /\ i <= Len(gops)
  /\ Usable /\ gops[i].conOut
  /\ handle' = i
  /\ pc' = "choose_mode"
  /\ UNCHANGED <<config, gops, status, i, first, modeVars, screen, refused>>

TakeFirst ==
  /\ pc = "find" /\ i > Len(gops)
  /\ IF first = 0 THEN Return("not_found") /\ UNCHANGED handle
                  ELSE pc' = "choose_mode" /\ handle' = first /\ UNCHANGED status
  /\ UNCHANGED <<config, gops, i, first, modeVars, screen, refused>>

(* choose_mode_res keeps a current mode that fits.                          *)
ChooseMode ==
  /\ pc = "choose_mode"
  /\ pc' = IF match_res(Active) THEN "screen_info" ELSE "query_mode"
  /\ UNCHANGED <<config, gops, status, findVars, modeVars, screen, refused>>

(* QueryMode(m): refused, not a match, or the first match.                  *)
GivingUpQueryMode ==
  /\ pc = "query_mode" /\ m <= Len(gops[handle].modes)
  /\ \/ /\ refused' = refused \cup {<<"query", m>>}
        /\ new_mode' = current /\ pc' = "set_mode"
        /\ UNCHANGED m
     \/ /\ ~match_res(gops[handle].modes[m])
        /\ m' = m + 1
        /\ UNCHANGED <<pc, new_mode, refused>>
     \/ /\ match_res(gops[handle].modes[m])
        /\ new_mode' = m
        /\ pc' = "set_mode"
        /\ UNCHANGED <<m, refused>>
  /\ UNCHANGED <<config, gops, status, findVars, screen>>
QueryMode ==
  /\ pc = "query_mode" /\ m <= Len(gops[handle].modes)
  /\ \/ /\ refused' = refused \cup {<<"query", m>>}
        /\ m' = m + 1
        /\ UNCHANGED <<pc, new_mode>>
     \/ /\ ~match_res(gops[handle].modes[m])
        /\ m' = m + 1
        /\ UNCHANGED <<pc, new_mode, refused>>
     \/ /\ match_res(gops[handle].modes[m])
        /\ new_mode' = m
        /\ pc' = "set_mode"
        /\ UNCHANGED <<m, refused>>
  /\ UNCHANGED <<config, gops, status, findVars, screen>>

(* No mode fits: choose_mode returns the current one, which set_mode keeps. *)
NoModeFits ==
  /\ pc = "query_mode" /\ m > Len(gops[handle].modes)
  /\ new_mode' = current
  /\ pc' = "set_mode"
  /\ UNCHANGED <<config, gops, status, findVars, m, screen, refused>>

(* SetMode, unless it is the current mode.  A refused SetMode is reported   *)
(* and ignored; the device may be in either mode then.                      *)
SetMode ==
  /\ pc = "set_mode"
  /\ pc' = "screen_info"
  /\ \/ /\ gops' = [gops EXCEPT ![handle].mode = new_mode]
        /\ UNCHANGED refused
     \/ /\ new_mode # current
        /\ gops' \in {gops, [gops EXCEPT ![handle].mode = new_mode]}
        /\ refused' = refused \cup {<<"set", new_mode>>}
  /\ UNCHANGED <<config, status, findVars, modeVars, screen>>

(* setup_screen_info reads gop->Mode again.                                 *)
TrustingSetupScreenInfo ==
  /\ pc = "screen_info"
  /\ pc' = "edid"
  /\ screen' = ScreenInfo(gops[handle].modes[IF new_mode = 0 THEN current ELSE new_mode])
  /\ UNCHANGED <<config, gops, status, findVars, modeVars, refused>>
SetupScreenInfo ==
  /\ pc = "screen_info"
  /\ pc' = "edid"
  /\ screen' = ScreenInfo(Active)
  /\ UNCHANGED <<config, gops, status, findVars, modeVars, refused>>

(* The EDID that is copied is data no property is about; whatever it is,    *)
(* the function succeeds.                                                   *)
SetupEdid ==
  /\ pc = "edid"
  /\ Return("success")
  /\ UNCHANGED <<config, gops, findVars, modeVars, screen, refused>>

Next ==
  \/ LocateHandles \/ SkipHandle \/ RememberHandle \/ TakeConsole \/ TakeFirst
  \/ ChooseMode \/ QueryMode \/ NoModeFits \/ SetMode
  \/ SetupScreenInfo \/ SetupEdid

Spec == Init /\ [][Next]_vars

-----------------------------------------------------------------------------
(* Properties.                                                              *)

Answered(n) == <<"gop", n>> \notin refused
Displays(n) == Answered(n) /\ HasFramebuffer(gops[n].modes[gops[n].mode])

(* wboot_setup_graphics takes the first output that shows the console; if   *)
(* there is none, the first one with a frame buffer; it fails to find one   *)
(* only if none that answered has a frame buffer.                           *)
PrimaryGop ==
  LET shown == {n \in 1..Len(gops) : Displays(n)}
      consoles == {n \in shown : gops[n].conOut}
  IN /\ pc = "choose_mode" =>
          handle = IF consoles # {} THEN Min({n \in consoles : n <= i}) ELSE Min(shown)
     /\ status = "not_found" => shown = {}

(* The kernel is told the size and the layout of the mode the output really *)
(* is in, also when SetMode was refused, and that mode has a frame buffer.  *)
(* A side of 65536 pixels or more does not fit its field.                   *)
DescribesActiveMode ==
  status = "success" =>
    /\ HasFramebuffer(Active)
    /\ Active.w < 65536 => screen.width = Active.w
    /\ Active.h < 65536 => screen.height = Active.h
    /\ screen.bits = IF Active.format = "mask" THEN Active.bits ELSE FixedBits(Active.format)

(* The kernel starts in a mode the configuration asks for if the output has *)
(* one that QueryMode does not hide: a refused query ends only the look at  *)
(* that mode.  If SetMode was refused nothing can be promised.              *)
SetRefused == \E k \in 1..Len(gops[handle].modes) : <<"set", k>> \in refused
ModeHonoured ==
  status = "success" /\ ~SetRefused =>
    \/ match_res(Active)
    \/ \A k \in 1..Len(gops[handle].modes) :
         match_res(gops[handle].modes[k]) => <<"query", k>> \in refused

(* The masks of the mode leave no gap, so that a pixel is as wide as they.  *)
Gapless == Active.format = "mask" => Contiguous(AllBits(Active))

(* The depth that pixel_bpp matched with the configuration is the depth     *)
(* setup_screen_info adds up from the four masks, if they leave no gap: a   *)
(* gap is counted by the first and not by the second.                       *)
DepthAsAsked ==
  status = "success" /\ config.depth # 0 /\ Gapless /\ match_res(Active) =>
    screen.depth = config.depth

(* The line length given to the kernel is that of the device's scan line,   *)
(* and a row of pixels fits in it.  Two kinds of lines are left out: those  *)
(* that are not of whole bytes, which the code rounds down, and those of    *)
(* 65536 bytes or more, which the field cannot hold.                        *)
LineHoldsRow ==
  LET line == Active.ppsl * (IF Active.format = "mask" THEN Cardinality(AllBits(Active)) ELSE 32)
  IN status = "success" /\ Gapless /\ line % 8 = 0 /\ line < 8 * 65536 =>
       screen.linelength * 8 = line /\ screen.width * screen.depth <= line
==============================================================================
