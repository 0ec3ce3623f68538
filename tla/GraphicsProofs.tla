--------------------------- MODULE GraphicsProofs ----------------------------
(***************************************************************************)
(* Proofs about Graphics: which output is found, which mode it is left in, *)
(* and that screen_info describes that mode.                               *)
(***************************************************************************)
EXTENDS Graphics, Recursion, FiniteSetTheorems

ModeInUse == pc \in {"screen_info", "edid"} \/ status = "success"
HandleInUse == pc \in {"choose_mode", "query_mode", "set_mode"} \/ ModeInUse

PathInv ==
  /\ config \in [w : Nat, h : Nat, format : Formats \cup {"any"}, depth : 0..255]
  /\ gops \in Seq(Gops)
  /\ \A n \in 1..Len(gops) : gops[n].mode \in 1..Len(gops[n].modes)
  /\ pc \in {"locate_handles", "find", "choose_mode", "query_mode", "set_mode",
             "screen_info", "edid", "done"}
  /\ status \in {"none", "success", "not_found", "error"}
  /\ status = "none" <=> pc # "done"
  /\ i \in 1..(Len(gops) + 1)
  /\ m \in Nat \ {0}
  /\ pc \in {"locate_handles", "find", "choose_mode"} => m = 1
  /\ HandleInUse => handle \in 1..Len(gops)

(* find_handle_with_primary_gop, before handle i: none of the earlier       *)
(* outputs shows the console, and first is the first with a frame buffer.   *)
FindInv ==
  pc \in {"locate_handles", "find"} =>
    /\ \A n \in i..Len(gops) : Answered(n)
    /\ \A n \in 1..(i - 1) : Displays(n) => ~gops[n].conOut
    /\ first \in 0..(i - 1)
    /\ first # 0 => Displays(first)
    /\ \A n \in 1..(i - 1) : Displays(n) => first \in 1..n

(* The current mode of the output in use has a frame buffer, and so has the *)
(* one SetMode is asked for.                                                *)
FramebufferInv ==
  /\ HandleInUse => HasFramebuffer(Active)
  /\ pc = "set_mode" =>
       /\ new_mode \in 1..Len(gops[handle].modes)
       /\ HasFramebuffer(gops[handle].modes[new_mode])

(* choose_mode returns a mode that matches, unless QueryMode hid them all.  *)
Found(k) == match_res(gops[handle].modes[k]) /\ <<"query", k>> \notin refused
NoneBefore(n) == \A k \in 1..Len(gops[handle].modes) : k < n => ~Found(k)
NoneFound == \A k \in 1..Len(gops[handle].modes) : ~Found(k)
MatchInv ==
  /\ pc = "query_mode" => NoneBefore(m)
  /\ pc = "set_mode" => match_res(gops[handle].modes[new_mode]) \/ NoneFound
  /\ ModeInUse /\ ~SetRefused => match_res(Active) \/ NoneFound

ScreenInv == pc = "edid" \/ status = "success" => screen = ScreenInfo(Active)

IInv == PathInv /\ FindInv /\ PrimaryGop /\ FramebufferInv /\ MatchInv /\ ScreenInv

-----------------------------------------------------------------------------
LEMMA MinIs ==
  ASSUME NEW S \in SUBSET Nat, NEW x \in S, \A y \in S : x <= y
  PROVE  Min(S) = x
<1>1. \A z \in S : (\A y \in S : z <= y) => z = x
  OBVIOUS
<1> QED
  BY <1>1 DEF Min

LEMMA ModeFacts ==
  ASSUME PathInv, NEW n \in 1..Len(gops)
  PROVE  /\ gops[n] \in Gops
         /\ gops[n].modes \in Seq(ModeInfos) /\ Len(gops[n].modes) \in Nat
         /\ gops[n].mode \in 1..Len(gops[n].modes)
         /\ \A k \in 1..Len(gops[n].modes) : gops[n].modes[k] \in ModeInfos
<1>1. gops[n] \in Gops /\ gops[n].mode \in 1..Len(gops[n].modes)
  BY DEF PathInv
<1>2. gops[n].modes \in Seq(ModeInfos)
  <2> HIDE DEF ModeInfos
  <2> QED  BY <1>1 DEF Gops
<1>3. \A list \in Seq(ModeInfos) : Len(list) \in Nat /\ \A k \in 1..Len(list) : list[k] \in ModeInfos
  OBVIOUS
<1> HIDE DEF Gops, ModeInfos
<1> QED
  BY <1>1, <1>2, <1>3

LEMMA InitIInv ==
  ASSUME Init
  PROVE  IInv
<1>1. PathInv
  BY HandlesAssumption, ConfigsAssumption DEF Init, PathInv, HandleInUse, ModeInUse
<1>2. FindInv
  BY DEF Init, FindInv, Answered
<1>3. PrimaryGop
  BY DEF Init, PrimaryGop
<1>4. FramebufferInv /\ MatchInv /\ ScreenInv
  BY DEF Init, FramebufferInv, MatchInv, ScreenInv, HandleInUse, ModeInUse
<1> QED
  BY <1>1, <1>2, <1>3, <1>4 DEF IInv

(* SetMode changes the current mode of the output in use to new_mode, or    *)
(* nothing.                                                                 *)
LEMMA SetModeFacts ==
  ASSUME IInv, SetMode
  PROVE  /\ handle \in 1..Len(gops) /\ new_mode \in 1..Len(gops[handle].modes)
         /\ gops' \in Seq(Gops) /\ Len(gops') = Len(gops)
         /\ \A n \in 1..Len(gops) : gops'[n].modes = gops[n].modes
         /\ \A n \in 1..Len(gops) : gops'[n].mode \in 1..Len(gops[n].modes)
         /\ gops'[handle].mode \in {gops[handle].mode, new_mode}
         /\ \/ gops'[handle].mode = new_mode /\ refused' = refused
            \/ refused' = refused \cup {<<"set", new_mode>>}
<1>1. handle \in 1..Len(gops) /\ new_mode \in 1..Len(gops[handle].modes)
  BY DEF IInv, PathInv, FramebufferInv, SetMode, HandleInUse
<1>2. \/ gops' = gops
      \/ gops' = [gops EXCEPT ![handle].mode = new_mode]
  BY DEF SetMode
<1>3. \/ gops' = [gops EXCEPT ![handle].mode = new_mode] /\ refused' = refused
      \/ refused' = refused \cup {<<"set", new_mode>>}
  BY DEF SetMode
<1>4. gops \in Seq(Gops) /\ \A n \in 1..Len(gops) : gops[n].mode \in 1..Len(gops[n].modes)
  BY DEF IInv, PathInv
<1>5. new_mode \in Nat
  BY <1>1, ModeFacts DEF IInv
<1>6. gops[handle] \in Gops
  BY <1>1, <1>4
<1>7. [gops[handle] EXCEPT !.mode = new_mode] \in Gops
  BY <1>5, <1>6 DEF Gops
<1> DEFINE new == [gops[handle] EXCEPT !.mode = new_mode]
<1>8. new.modes = gops[handle].modes /\ new.mode = new_mode
  BY <1>6 DEF Gops
<1>9. [gops EXCEPT ![handle].mode = new_mode] = [gops EXCEPT ![handle] = new]
  OBVIOUS
<1> HIDE DEF new, Gops
<1>10. CASE gops' = [gops EXCEPT ![handle] = new]
  BY <1>1, <1>3, <1>4, <1>7, <1>8, <1>9, <1>10 DEF new
<1>11. CASE gops' = gops
  BY <1>1, <1>3, <1>4, <1>8, <1>9, <1>11
<1> QED
  BY <1>2, <1>9, <1>10, <1>11

LEMMA PathStep ==
  ASSUME IInv, [Next]_vars
  PROVE  PathInv'
<1> USE DEF IInv, PathInv, HandleInUse, ModeInUse, Return, findVars, modeVars
<1>0. Len(gops) \in Nat
  <2> HIDE DEF Gops
  <2> QED  OBVIOUS
<1> HIDE DEF Gops
<1>1. CASE LocateHandles
  BY <1>1 DEF LocateHandles
<1>2. CASE SkipHandle \/ RememberHandle
  <2>1. /\ pc = "find" /\ i <= Len(gops) /\ i' = i + 1
        /\ UNCHANGED <<pc, handle, config, gops, status, m>>
    BY <1>2 DEF SkipHandle, RememberHandle, NextHandle
  <2>2. i' \in 1..(Len(gops) + 1)
    BY <1>0, <2>1
  <2> QED
    BY <2>1, <2>2
<1>3. CASE TakeConsole
  BY <1>0, <1>3 DEF TakeConsole
<1>4. CASE TakeFirst
  BY <1>0, <1>4 DEF TakeFirst, FindInv
<1>5. CASE ChooseMode
  BY <1>5 DEF ChooseMode
<1>6. CASE QueryMode
  BY <1>6 DEF QueryMode
<1>7. CASE NoModeFits
  BY <1>7 DEF NoModeFits
<1>8. CASE SetMode
  BY <1>8, SetModeFacts DEF SetMode
<1>9. CASE SetupScreenInfo
  BY <1>9 DEF SetupScreenInfo
<1>10. CASE SetupEdid
  BY <1>10 DEF SetupEdid
<1>11. CASE UNCHANGED vars
  BY <1>11 DEF vars
<1> QED
  BY <1>1, <1>2, <1>3, <1>4, <1>5, <1>6, <1>7, <1>8, <1>9, <1>10, <1>11 DEF Next

LEMMA FindStep ==
  ASSUME IInv, [Next]_vars
  PROVE  FindInv'
<1> USE DEF IInv
<1>a. Len(gops) \in Nat /\ i \in 1..(Len(gops) + 1)
  <2> HIDE DEF Gops
  <2> QED  BY DEF PathInv
<1>b. ASSUME pc' \notin {"locate_handles", "find"}
      PROVE  FindInv'
  BY <1>b DEF FindInv
<1>c. ASSUME UNCHANGED <<gops, i, first, refused>>, pc \in {"locate_handles", "find"}
      PROVE  FindInv'
  BY <1>c DEF FindInv, Answered, Displays
<1>1. CASE LocateHandles
  BY <1>1, <1>c DEF LocateHandles, findVars
<1>2. CASE SkipHandle
  <2>1. /\ pc = "find" /\ i <= Len(gops) /\ UNCHANGED <<gops, pc, first>> /\ i' = i + 1
        /\ \/ refused' = refused \cup {<<"gop", i>>}
           \/ refused' = refused /\ ~Usable
    BY <1>2 DEF SkipHandle, NextHandle
  <2>2. ASSUME NEW n \in 1..Len(gops), n # i
        PROVE  (Displays(n)' <=> Displays(n)) /\ (Answered(n)' <=> Answered(n))
    BY <2>1, <2>2 DEF Displays, Answered
  <2>3. ASSUME NEW n \in 1..Len(gops), n = i
        PROVE  ~Displays(n)'
    BY <2>1, <2>3 DEF Displays, Answered, Usable
  <2>4. /\ \A n \in i..Len(gops) : Answered(n)
        /\ \A n \in 1..(i - 1) : Displays(n) => ~gops[n].conOut
        /\ first \in 0..(i - 1)
        /\ first # 0 => Displays(first)
        /\ \A n \in 1..(i - 1) : Displays(n) => first \in 1..n
    BY <2>1 DEF FindInv
  <2>5. /\ first' \in 0..(i' - 1)
        /\ \A n \in (i')..Len(gops) : Answered(n)'
    BY <1>a, <2>1, <2>2, <2>4
  <2>6. ASSUME NEW n \in 1..i, Displays(n)'
        PROVE  ~gops[n].conOut /\ first \in 1..n
    BY <1>a, <2>1, <2>2, <2>3, <2>4, <2>6
  <2>7. ASSUME NEW n \in {first'}, n # 0
        PROVE  Displays(n)'
    BY <1>a, <2>1, <2>2, <2>4, <2>7
  <2>8. first' # 0 => Displays(first)'
    BY <2>1, <2>7 DEF Displays, Answered
  <2> QED
    BY <1>a, <2>1, <2>5, <2>6, <2>8 DEF FindInv
<1>3. CASE RememberHandle
  <2>1. /\ pc = "find" /\ i <= Len(gops) /\ UNCHANGED <<gops, pc, refused>> /\ i' = i + 1
        /\ Usable /\ ~gops[i].conOut
        /\ first' = IF first = 0 THEN i ELSE first
    BY <1>3 DEF RememberHandle, NextHandle
  <2>2. ASSUME NEW n \in 1..Len(gops)
        PROVE  (Displays(n)' <=> Displays(n)) /\ (Answered(n)' <=> Answered(n))
    BY <2>1 DEF Displays, Answered
  <2>3. /\ \A n \in i..Len(gops) : Answered(n)
        /\ \A n \in 1..(i - 1) : Displays(n) => ~gops[n].conOut
        /\ first \in 0..(i - 1)
        /\ first # 0 => Displays(first)
        /\ \A n \in 1..(i - 1) : Displays(n) => first \in 1..n
    BY <2>1 DEF FindInv
  <2>4. Displays(i)
    BY <1>a, <2>1, <2>3 DEF Displays, Usable
  <2>5. /\ first' \in 1..(i' - 1)
        /\ \A n \in (i')..Len(gops) : Answered(n)'
    BY <1>a, <2>1, <2>2, <2>3
  <2>6. ASSUME NEW n \in 1..i, Displays(n)
        PROVE  ~gops[n].conOut /\ first' \in 1..n
    BY <1>a, <2>1, <2>3, <2>6
  <2>7. ASSUME NEW n \in {first'}
        PROVE  Displays(n)'
    BY <1>a, <2>1, <2>2, <2>3, <2>4, <2>7
  <2>8. Displays(first)'
    BY <2>1, <2>7 DEF Displays, Answered
  <2> QED
    BY <1>a, <2>1, <2>2, <2>5, <2>6, <2>8 DEF FindInv
<1>4. CASE TakeConsole \/ TakeFirst
  BY <1>4, <1>b DEF TakeConsole, TakeFirst, Return
<1>5. CASE ChooseMode \/ QueryMode \/ NoModeFits \/ SetMode \/ SetupScreenInfo \/ SetupEdid
  BY <1>5, <1>b DEF ChooseMode, QueryMode, NoModeFits, SetMode, SetupScreenInfo, SetupEdid, Return
<1>6. CASE UNCHANGED vars
  BY <1>6, <1>b, <1>c DEF vars
<1> QED
  BY <1>1, <1>2, <1>3, <1>4, <1>5, <1>6 DEF Next

LEMMA PrimaryStep ==
  ASSUME IInv, [Next]_vars
  PROVE  PrimaryGop'
<1> USE DEF IInv
<1>a. Len(gops) \in Nat /\ i \in 1..(Len(gops) + 1)
  <2> HIDE DEF Gops
  <2> QED  BY DEF PathInv
<1>b. ASSUME pc' # "choose_mode", status' # "not_found"
      PROVE  PrimaryGop'
  BY <1>b DEF PrimaryGop
<1>c. pc # "done" => status = "none"
  BY DEF PathInv
<1> DEFINE shown == {n \in 1..Len(gops) : Displays(n)}
           consoles == {n \in shown : gops[n].conOut}
<1>1. CASE LocateHandles \/ SkipHandle \/ RememberHandle
  BY <1>1, <1>b, <1>c DEF LocateHandles, SkipHandle, RememberHandle, NextHandle, Return
<1>2. CASE TakeConsole
  <2>1. /\ pc = "find" /\ i \in 1..Len(gops) /\ Usable /\ gops[i].conOut
        /\ handle' = i /\ status' = "none" /\ UNCHANGED <<gops, i, refused>>
    BY <1>2, <1>a, <1>c DEF TakeConsole
  <2>2. Displays(i) /\ \A n \in 1..(i - 1) : Displays(n) => ~gops[n].conOut
    BY <2>1, <1>a DEF FindInv, Displays, Usable
  <2>3. i \in consoles /\ {n \in consoles : n <= i} = {i}
    BY <2>1, <2>2, <1>a
  <2>4. Min({i}) = i
    BY <1>a, MinIs
  <2>5. shown' = shown /\ consoles' = consoles
    BY <2>1 DEF Displays, Answered
  <2>6. pc' = "choose_mode" =>
          handle' = IF consoles # {} THEN Min({n \in consoles : n <= i}) ELSE Min(shown)
    <3> HIDE DEF consoles, shown
    <3> QED  BY <2>1, <2>3, <2>4
  <2> QED
    BY <2>1, <2>5, <2>6 DEF PrimaryGop
<1>3. CASE TakeFirst
  <2>1. /\ pc = "find" /\ i = Len(gops) + 1 /\ UNCHANGED <<gops, i, refused>>
        /\ first = 0 => pc' = "done" /\ status' = "not_found"
        /\ first # 0 => pc' = "choose_mode" /\ handle' = first /\ status' = "none"
    BY <1>3, <1>a, <1>c DEF TakeFirst, Return, findVars
  <2>2. /\ \A n \in 1..Len(gops) : Displays(n) => ~gops[n].conOut /\ first \in 1..n
        /\ first \in 0..Len(gops) /\ (first # 0 => Displays(first))
    BY <2>1, <1>a DEF FindInv
  <2>3. consoles = {}
    BY <2>2
  <2>4. shown' = shown /\ consoles' = consoles
    BY <2>1 DEF Displays, Answered
  <2>5. first = 0 => shown = {}
    BY <2>2
  <2>6. first # 0 => Min(shown) = first
    <3> SUFFICES ASSUME first # 0
                 PROVE  Min(shown) = first
      OBVIOUS
    <3>1. first \in shown /\ shown \in SUBSET Nat /\ \A n \in shown : first <= n
      BY <2>2, <1>a
    <3> HIDE DEF shown
    <3> QED  BY <3>1, MinIs
  <2>7. /\ pc' = "choose_mode" =>
             handle' = IF consoles # {} THEN Min({n \in consoles : n <= i}) ELSE Min(shown)
        /\ status' = "not_found" => shown = {}
    <3> HIDE DEF consoles, shown
    <3> QED  BY <2>1, <2>3, <2>5, <2>6
  <2> QED
    BY <2>1, <2>4, <2>7 DEF PrimaryGop
<1>4. CASE ChooseMode \/ QueryMode \/ NoModeFits \/ SetMode \/ SetupScreenInfo \/ SetupEdid
  <2>1. pc' # "choose_mode" \/ (QueryMode /\ pc = "query_mode")
    BY <1>4 DEF ChooseMode, QueryMode, NoModeFits, SetMode, SetupScreenInfo, SetupEdid, Return
  <2>2. status' # "not_found"
    BY <1>4, <1>c DEF ChooseMode, QueryMode, NoModeFits, SetMode, SetupScreenInfo, SetupEdid,
                      Return
  <2> QED
    BY <2>1, <2>2, <1>b DEF QueryMode
<1>5. CASE UNCHANGED vars
  <2>1. shown' = shown /\ consoles' = consoles
    BY <1>5 DEF vars, Displays, Answered
  <2> QED
    BY <1>5, <2>1 DEF vars, PrimaryGop
<1> QED
  BY <1>1, <1>2, <1>3, <1>4, <1>5 DEF Next

LEMMA FramebufferStep ==
  ASSUME IInv, [Next]_vars
  PROVE  FramebufferInv'
<1> USE DEF IInv
<1>c. pc # "done" => status = "none"
  BY DEF PathInv
<1>d. HandleInUse => handle \in 1..Len(gops)
  BY DEF PathInv
<1>a. ASSUME UNCHANGED <<gops, handle>>, pc' # "set_mode", HandleInUse
      PROVE  FramebufferInv'
  BY <1>a DEF FramebufferInv, Active
<1>b. ASSUME ~HandleInUse', pc' # "set_mode"
      PROVE  FramebufferInv'
  BY <1>b DEF FramebufferInv
<1>1. CASE LocateHandles \/ SkipHandle \/ RememberHandle
  BY <1>1, <1>b, <1>c
     DEF LocateHandles, SkipHandle, RememberHandle, NextHandle, Return, HandleInUse, ModeInUse
<1>2. CASE TakeConsole
  BY <1>2 DEF TakeConsole, Usable, FramebufferInv, Active
<1>3. CASE TakeFirst
  <2>1. CASE first = 0
    BY <1>3, <2>1, <1>b, <1>c DEF TakeFirst, Return, HandleInUse, ModeInUse
  <2>2. CASE first # 0
    BY <1>3, <2>2 DEF TakeFirst, FindInv, Displays, FramebufferInv, Active
  <2> QED
    BY <2>1, <2>2
<1>4. CASE ChooseMode
  BY <1>4, <1>a DEF ChooseMode, findVars, HandleInUse
<1>5. CASE QueryMode
  <2>1. m \in Nat \ {0} /\ handle \in 1..Len(gops) /\ Len(gops[handle].modes) \in Nat
    BY <1>5, <1>d, ModeFacts DEF QueryMode, HandleInUse, PathInv
  <2>2. CASE new_mode' = m /\ match_res(gops[handle].modes[m])
    BY <1>5, <2>1, <2>2 DEF QueryMode, FramebufferInv, match_res, Active, findVars, HandleInUse
  <2>3. CASE pc' = "query_mode"
    BY <1>5, <2>3, <1>a DEF QueryMode, findVars, HandleInUse
  <2> QED
    BY <1>5, <2>2, <2>3 DEF QueryMode
<1>6. CASE NoModeFits
  <2>1. handle \in 1..Len(gops) /\ gops[handle].mode \in 1..Len(gops[handle].modes)
    BY <1>6, <1>d, ModeFacts DEF NoModeFits, HandleInUse
  <2> QED
    BY <1>6, <2>1 DEF NoModeFits, FramebufferInv, Active, current, findVars, HandleInUse
<1>7. CASE SetMode
  <2>1. /\ gops'[handle].modes = gops[handle].modes
        /\ gops'[handle].mode \in {gops[handle].mode, new_mode}
    BY <1>7, SetModeFacts
  <2> QED
    BY <1>7, <2>1 DEF SetMode, FramebufferInv, Active, findVars, HandleInUse
<1>8. CASE SetupScreenInfo \/ SetupEdid
  BY <1>8, <1>a DEF SetupScreenInfo, SetupEdid, Return, findVars, HandleInUse, ModeInUse
<1>9. CASE UNCHANGED vars
  BY <1>9 DEF vars, FramebufferInv, HandleInUse, ModeInUse, Active
<1> QED
  BY <1>1, <1>2, <1>3, <1>4, <1>5, <1>6, <1>7, <1>8, <1>9 DEF Next

LEMMA MatchStep ==
  ASSUME IInv, [Next]_vars
  PROVE  MatchInv'
<1> USE DEF IInv
<1>c. pc # "done" => status = "none"
  BY DEF PathInv
<1>d. HandleInUse => handle \in 1..Len(gops)
  BY DEF PathInv
<1>s. config' = config /\ refused \subseteq refused'
  BY DEF Next, vars, LocateHandles, SkipHandle, RememberHandle, TakeConsole, TakeFirst, ChooseMode,
         QueryMode, NoModeFits, SetMode, SetupScreenInfo, SetupEdid
<1>m. \A info : match_res(info)' <=> match_res(info)
  BY <1>s DEF match_res
<1>b. ASSUME ~ModeInUse', pc' \notin {"query_mode", "set_mode"}
      PROVE  MatchInv'
  BY <1>b DEF MatchInv
(* What was not found is not found later.                                   *)
<1>k. ASSUME handle' = handle, gops'[handle].modes = gops[handle].modes
      PROVE  /\ \A k : Found(k)' => Found(k)
             /\ NoneFound => NoneFound'
             /\ SetRefused => SetRefused'
             /\ \A k : match_res(gops[handle].modes[k]) => match_res(gops[handle].modes[k])'
  <2>1. \A k : match_res(gops[handle].modes[k])' <=> match_res(gops[handle].modes[k])
    BY <1>k, <1>s DEF match_res
  <2>2. \A k : Found(k)' => Found(k)
    BY <1>s, <2>1 DEF Found
  <2> QED
    BY <1>k, <1>s, <2>1, <2>2 DEF NoneFound, SetRefused
<1>1. CASE \/ LocateHandles \/ SkipHandle \/ RememberHandle \/ TakeConsole \/ TakeFirst
  BY <1>1, <1>b, <1>c DEF LocateHandles, SkipHandle, RememberHandle, TakeConsole, TakeFirst,
                          NextHandle, Return, ModeInUse
<1>2. CASE ChooseMode
  <2>1. /\ pc = "choose_mode" /\ UNCHANGED <<gops, handle, status, m, refused>>
        /\ pc' = IF match_res(Active) THEN "screen_info" ELSE "query_mode"
    BY <1>2 DEF ChooseMode, findVars, modeVars
  <2>2. m = 1
    BY <2>1 DEF PathInv
  <2>3. NoneBefore(1)'
    BY <2>1, <1>d, ModeFacts DEF NoneBefore, HandleInUse
  <2>4. match_res(Active) => match_res(Active)'
    BY <2>1, <1>s DEF Active, match_res
  <2> QED
    BY <2>1, <2>2, <2>3, <2>4, <1>c DEF MatchInv, NoneBefore, ModeInUse
<1>3. CASE QueryMode
  <2>1. /\ pc = "query_mode" /\ m \in 1..Len(gops[handle].modes)
        /\ UNCHANGED <<gops, handle, status>>
        /\ handle \in 1..Len(gops) /\ Len(gops[handle].modes) \in Nat
    BY <1>3, <1>d, ModeFacts DEF QueryMode, findVars, HandleInUse, PathInv
  <2>2. CASE pc' = pc /\ m' = m + 1 /\ \A k : k = m => ~Found(k)'
    <3>1. \A k \in 1..Len(gops[handle].modes) : k < m + 1 => ~Found(k)'
      BY <1>k, <2>1, <2>2 DEF MatchInv, NoneBefore
    <3>2. NoneBefore(m)'
      BY <2>1, <2>2, <3>1 DEF NoneBefore
    <3> QED
      BY <2>1, <2>2, <3>2, <1>c DEF MatchInv, ModeInUse
  <2>3. CASE match_res(gops[handle].modes[m]) /\ new_mode' = m /\ pc' = "set_mode"
    <3>1. match_res(gops[handle].modes[new_mode])'
      BY <2>1, <2>3, <1>s DEF match_res
    <3> QED
      BY <2>1, <2>3, <3>1, <1>c DEF MatchInv, ModeInUse
  <2>4. CASE refused' = refused \cup {<<"query", m>>} /\ m' = m + 1 /\ pc' = pc
    BY <2>2, <2>4 DEF Found
  <2>5. CASE ~match_res(gops[handle].modes[m]) /\ m' = m + 1 /\ pc' = pc
    <3>1. \A k : Found(k)' => Found(k)
      BY <1>k, <2>1
    <3>2. \A k : k = m => ~Found(k)
      BY <2>5 DEF Found
    <3> QED
      BY <2>2, <2>5, <3>1, <3>2
  <2> QED
    BY <1>3, <2>3, <2>4, <2>5 DEF QueryMode
<1>4. CASE NoModeFits
  <2>1. /\ pc = "query_mode" /\ m > Len(gops[handle].modes) /\ pc' = "set_mode"
        /\ UNCHANGED <<gops, handle, status, refused>>
        /\ handle \in 1..Len(gops) /\ Len(gops[handle].modes) \in Nat /\ m \in Nat
    BY <1>4, <1>d, ModeFacts DEF NoModeFits, findVars, HandleInUse, PathInv
  <2>2. NoneFound
    BY <2>1 DEF MatchInv, NoneBefore, NoneFound
  <2> QED
    BY <2>1, <2>2, <1>c, <1>k DEF MatchInv, ModeInUse
<1>5. CASE SetMode
  <2>1. /\ handle' = handle /\ pc = "set_mode" /\ gops'[handle].modes = gops[handle].modes
        /\ new_mode \in 1..Len(gops[handle].modes)
        /\ \/ gops'[handle].mode = new_mode
           \/ refused' = refused \cup {<<"set", new_mode>>}
    BY <1>5, SetModeFacts DEF SetMode, findVars
  <2> SUFFICES ASSUME ~SetRefused'
               PROVE  match_res(Active)' \/ NoneFound'
    BY <1>5, <1>c DEF SetMode, MatchInv, ModeInUse
  <2>2. gops'[handle].mode = new_mode
    BY <2>1 DEF SetRefused
  <2>3. match_res(gops[handle].modes[new_mode]) \/ NoneFound
    BY <2>1 DEF MatchInv
  <2>4. match_res(gops[handle].modes[new_mode]) => match_res(Active)'
    BY <2>1, <2>2, <1>s DEF Active, match_res
  <2> QED
    BY <1>k, <2>1, <2>3, <2>4
<1>6. CASE SetupScreenInfo \/ SetupEdid
  <2>1. /\ ModeInUse /\ UNCHANGED <<gops, handle, refused>> /\ pc' \in {"edid", "done"}
    BY <1>6 DEF SetupScreenInfo, SetupEdid, Return, findVars, ModeInUse
  <2>2. match_res(Active) => match_res(Active)'
    BY <2>1, <1>m, <1>s DEF Active, match_res
  <2> QED
    BY <1>k, <2>1, <2>2 DEF MatchInv
<1>7. CASE UNCHANGED vars
  <2>1. UNCHANGED <<config, gops, handle, m, new_mode, pc, status, refused>>
    BY <1>7 DEF vars
  <2>2. match_res(Active) => match_res(Active)'
    BY <2>1 DEF Active, match_res
  <2>3. NoneBefore(m) => NoneBefore(m)'
    BY <2>1, <1>k DEF NoneBefore
  <2>4. match_res(gops[handle].modes[new_mode]) => match_res(gops[handle].modes[new_mode])'
    BY <2>1 DEF match_res
  <2> QED
    BY <1>k, <2>1, <2>2, <2>3, <2>4 DEF MatchInv, ModeInUse
<1> QED
  BY <1>1, <1>2, <1>3, <1>4, <1>5, <1>6, <1>7 DEF Next

LEMMA ScreenStep ==
  ASSUME IInv, [Next]_vars
  PROVE  ScreenInv'
<1> USE DEF IInv
<1>c. pc # "done" => status = "none"
  BY DEF PathInv
<1>a. ASSUME pc' # "edid", status' # "success"
      PROVE  ScreenInv'
  BY <1>a DEF ScreenInv
<1>1. CASE LocateHandles \/ SkipHandle \/ RememberHandle \/ TakeConsole \/ TakeFirst
           \/ ChooseMode \/ QueryMode \/ NoModeFits \/ SetMode
  BY <1>1, <1>a, <1>c DEF LocateHandles, SkipHandle, RememberHandle, TakeConsole, TakeFirst,
                          ChooseMode, QueryMode, NoModeFits, SetMode, NextHandle, Return
<1>2. CASE SetupScreenInfo
  BY <1>2 DEF SetupScreenInfo, ScreenInv, Active, findVars
<1>3. CASE SetupEdid
  BY <1>3 DEF SetupEdid, ScreenInv, Active, findVars
<1>4. CASE UNCHANGED vars
  BY <1>4 DEF vars, ScreenInv, Active
<1> QED
  BY <1>1, <1>2, <1>3, <1>4 DEF Next

-----------------------------------------------------------------------------
(* find_bits: the masks of UEFI are found as they are, and the sizes of the *)
(* four add up to the number of their bits.                                 *)
LEMMA Extremes ==
  ASSUME NEW S \in SUBSET (0..31), S # {}
  PROVE  /\ IsFiniteSet(S)
         /\ Min(S) \in S /\ Max(S) \in S
         /\ \A x \in S : Min(S) <= x /\ x <= Max(S)
<1>0. 0 \in Int /\ 31 \in Int
  OBVIOUS
<1>1. IsFiniteSet(0..31)
  BY <1>0, FS_Interval, Zenon
<1>2. \A T \in SUBSET (0..31) : IsFiniteSet(T)
  BY <1>1, FS_Subset
<1>3. Min(S) \in S /\ \A x \in S : Min(S) <= x
  <2>1. S \in SUBSET Nat
    OBVIOUS
  <2> QED
    BY <2>1, LeastExists DEF Min
<1>4. \E n \in S : \A x \in S : n >= x
  <2> DEFINE T == {31 - x : x \in S}
  <2>0. \A x \in S : x \in 0..31 /\ 31 - x \in 0..31
    OBVIOUS
  <2>1. T \in SUBSET (0..31) /\ T \in SUBSET Nat
    BY <2>0
  <2>e. T # {}
    OBVIOUS
  <2>2. PICK t \in T : \A k \in T : t <= k
    <3> HIDE DEF T
    <3> QED  BY <2>1, <2>e, LeastExists
  <2>3. PICK n \in S : t = 31 - n
    BY <2>2
  <2>4. ASSUME NEW x \in S
        PROVE  n >= x
    <3>1. t <= 31 - x
      BY <2>2
    <3> QED
      BY <2>0, <2>3, <3>1
  <2> QED
    BY <2>4
<1>5. Max(S) \in S /\ \A x \in S : Max(S) >= x
  BY <1>4 DEF Max
<1>6. \A x \in S : Max(S) >= x <=> x <= Max(S)
  BY <1>5
<1> QED
  BY <1>2, <1>3, <1>5, <1>6

LEMMA ContiguousBits ==
  ASSUME NEW S \in SUBSET (0..31), Contiguous(S)
  PROVE  IsFiniteSet(S) /\ SizeOf(S) = Cardinality(S) /\ BitsFound(S) = S
<1>1. CASE S = {}
  BY <1>1, FS_EmptySet DEF SizeOf, BitsFound
<1>2. CASE S # {}
  <2>1. IsFiniteSet(S) /\ Min(S) \in S /\ Max(S) \in S /\ Min(S) <= Max(S)
    BY <1>2, Extremes
  <2>2. Min(S) \in Int /\ Max(S) \in Int
    <3>1. \A x \in S : x \in Int
      OBVIOUS
    <3> QED
      BY <2>1, <3>1
  <2>3. S = Min(S)..Max(S)
    BY <1>2 DEF Contiguous
  <2>4. Cardinality(Min(S)..Max(S)) = Max(S) - Min(S) + 1
    <3> HIDE DEF Min, Max
    <3> QED  BY <2>1, <2>2, FS_Interval
  <2>5. SizeOf(S) = Max(S) - Min(S) + 1
    BY <1>2 DEF SizeOf
  <2>6. Min(S) + SizeOf(S) - 1 = Max(S)
    BY <2>2, <2>5
  <2> QED
    BY <1>2, <2>1, <2>3, <2>4, <2>5, <2>6 DEF BitsFound
<1> QED
  BY <1>1, <1>2

LEMMA DisjointSizes ==
  ASSUME NEW S, NEW T, IsFiniteSet(S), IsFiniteSet(T), S \cap T = {}
  PROVE  IsFiniteSet(S \cup T) /\ Cardinality(S \cup T) = Cardinality(S) + Cardinality(T)
<1>1. Cardinality(S) \in Nat /\ Cardinality(T) \in Nat /\ Cardinality({}) = 0
  BY FS_CardinalityType, FS_EmptySet
<1>2. /\ IsFiniteSet(S \cup T)
      /\ Cardinality(S \cup T) = Cardinality(S) + Cardinality(T) - Cardinality(S \cap T)
  BY FS_Union
<1>3. Cardinality(S \cap T) = 0
  BY <1>1
<1> QED
  BY <1>1, <1>2, <1>3

LEMMA DepthOfMasks ==
  ASSUME NEW info \in ModeInfos
  PROVE  /\ lfb_depth(info) = IF info.format = "mask" THEN Cardinality(AllBits(info)) ELSE 32
         /\ lfb_depth(info) \in 0..32
<1>1. CASE info.format # "mask"
  BY <1>1 DEF lfb_depth
<1>2. CASE info.format = "mask"
  <2> DEFINE r == info.bits["red"]
             g == info.bits["green"]
             b == info.bits["blue"]
             v == info.bits["rsvd"]
  <2>1. /\ r \in SUBSET (0..31) /\ g \in SUBSET (0..31)
        /\ b \in SUBSET (0..31) /\ v \in SUBSET (0..31)
    BY DEF ModeInfos, Masks
  <2>2. Contiguous(r) /\ Contiguous(g) /\ Contiguous(b) /\ Contiguous(v)
    BY <1>2 DEF ModeInfos, Masks
  <2>3. /\ r \cap g = {} /\ (r \cup g) \cap b = {} /\ (r \cup g \cup b) \cap v = {}
    BY <1>2 DEF ModeInfos, Masks
  <2>4. AllBits(info) = r \cup g \cup b \cup v
    BY <1>2 DEF ModeInfos, Masks, AllBits
  <2>5. AllBits(info) \in SUBSET (0..31)
    BY <2>1, <2>4
  <2>6. lfb_depth(info) = SizeOf(r) + SizeOf(g) + SizeOf(b) + SizeOf(v)
    BY <1>2 DEF lfb_depth
  <2> HIDE DEF r, g, b, v
  <2>7. /\ IsFiniteSet(r) /\ SizeOf(r) = Cardinality(r)
        /\ IsFiniteSet(g) /\ SizeOf(g) = Cardinality(g)
        /\ IsFiniteSet(b) /\ SizeOf(b) = Cardinality(b)
        /\ IsFiniteSet(v) /\ SizeOf(v) = Cardinality(v)
    BY <2>1, <2>2, ContiguousBits
  <2>8. /\ IsFiniteSet(r \cup g)
        /\ Cardinality(r \cup g) = Cardinality(r) + Cardinality(g)
    BY <2>3, <2>7, DisjointSizes
  <2>9. /\ IsFiniteSet(r \cup g \cup b)
         /\ Cardinality(r \cup g \cup b) = Cardinality(r \cup g) + Cardinality(b)
    BY <2>3, <2>7, <2>8, DisjointSizes
  <2>10. Cardinality(r \cup g \cup b \cup v) = Cardinality(r \cup g \cup b) + Cardinality(v)
    BY <2>3, <2>7, <2>9, DisjointSizes
  <2>11. Cardinality(AllBits(info)) \in 0..32
    <3>1. 0 \in Int /\ 31 \in Int /\ ~(0 > 31) /\ 31 - 0 + 1 = 32
      OBVIOUS
    <3>2. IsFiniteSet(0..31) /\ Cardinality(0..31) = IF 0 > 31 THEN 0 ELSE 31 - 0 + 1
      BY <3>1, FS_Interval, Zenon
    <3>3. IsFiniteSet(AllBits(info)) /\ Cardinality(AllBits(info)) <= Cardinality(0..31)
      BY <2>5, <3>2, FS_Subset
    <3>4. Cardinality(AllBits(info)) \in Nat
      BY <3>3, FS_CardinalityType
    <3> QED
      BY <3>1, <3>2, <3>3, <3>4
  <2>12. lfb_depth(info) = Cardinality(AllBits(info))
    BY <2>4, <2>6, <2>7, <2>8, <2>9, <2>10
  <2> QED
    BY <1>2, <2>11, <2>12
<1> QED
  BY <1>1, <1>2

(* Without a gap the masks are as wide as they have bits.                   *)
LEMMA GaplessDepth ==
  ASSUME NEW info \in ModeInfos, info.format = "mask" => Contiguous(AllBits(info))
  PROVE  pixel_bpp(info) = lfb_depth(info)
<1>1. AllBits(info) \in SUBSET (0..31)
  BY DEF ModeInfos, AllBits
<1>2. info.format = "mask" => SizeOf(AllBits(info)) = Cardinality(AllBits(info))
  BY <1>1, ContiguousBits
<1> QED
  BY <1>2, DepthOfMasks DEF pixel_bpp

(* Whole bytes that fit the field are neither rounded nor wrapped.          *)
LEMMA WholeBytes ==
  ASSUME NEW x \in Nat, x % 8 = 0, x < 8 * 65536
  PROVE  ((x \div 8) % 65536) * 8 = x
<1>1. x \div 8 \in Nat /\ x \div 8 < 65536 /\ (x \div 8) * 8 = x
  OBVIOUS
<1>2. \A y \in Nat : y < 65536 => y % 65536 = y
  OBVIOUS
<1> QED
  BY <1>1, <1>2

LEMMA RowOfBits ==
  ASSUME NEW w \in Nat, NEW p \in Nat, NEW d \in Nat, w <= p
  PROVE  w % 65536 \in Nat /\ p * d \in Nat /\ (w % 65536) * d <= p * d
<1> DEFINE v == w % 65536
<1>1. v \in Nat /\ v <= p
  OBVIOUS
<1> HIDE DEF v
<1>2. p * d \in Nat /\ v * d <= p * d
  BY <1>1
<1> QED
  BY <1>1, <1>2 DEF v

LEMMA LineOfPixels ==
  ASSUME NEW info \in ModeInfos,
         (info.ppsl * lfb_depth(info)) % 8 = 0, info.ppsl * lfb_depth(info) < 8 * 65536
  PROVE  /\ lfb_linelength(info) * 8 = info.ppsl * lfb_depth(info)
         /\ (info.w % 65536) * lfb_depth(info) <= info.ppsl * lfb_depth(info)
<1> DEFINE p == info.ppsl
           w == info.w
           d == lfb_depth(info)
<1>1. w \in Nat /\ p \in Nat /\ w <= p
  BY DEF ModeInfos
<1>2. d \in Nat /\ (info.format # "mask" => d = 32)
  BY DepthOfMasks DEF lfb_depth
<1>3. (p * d) % 8 = 0 /\ p * d < 8 * 65536
  OBVIOUS
<1>4. lfb_linelength(info) =
        IF info.format = "mask" THEN ((p * d) \div 8) % 65536 ELSE (p * 4) % 65536
  BY DEF lfb_linelength
<1> HIDE DEF w, p, d
<1>5. p * d \in Nat /\ (w % 65536) * d <= p * d
  BY <1>1, <1>2, RowOfBits
<1>6. ((p * d) \div 8 % 65536) * 8 = p * d
  BY <1>3, <1>5, WholeBytes
<1>7. info.format # "mask" => ((p * 4) % 65536) * 8 = p * d
  <2> SUFFICES ASSUME info.format # "mask" PROVE ((p * 4) % 65536) * 8 = p * 32
    BY <1>2
  <2>1. p * 4 \in Nat /\ p * 4 < 65536
    BY <1>1, <1>2, <1>3
  <2>2. \A y \in Nat : y < 65536 => y % 65536 = y
    OBVIOUS
  <2> QED
    BY <1>1, <2>1, <2>2
<1>8. lfb_linelength(info) * 8 = p * d
  BY <1>4, <1>6, <1>7
<1> QED
  BY <1>5, <1>8 DEF w, p, d

-----------------------------------------------------------------------------
LEMMA SpecIInv == Spec => []IInv
<1>1. IInv /\ [Next]_vars => IInv'
  BY PathStep, FindStep, PrimaryStep, FramebufferStep, MatchStep, ScreenStep DEF IInv
<1> QED
  BY <1>1, InitIInv, PTL DEF Spec

(* What is known of the mode at the end, whichever SetMode left it in.      *)
LEMMA AtSuccess ==
  ASSUME IInv, status = "success"
  PROVE  Active \in ModeInfos /\ HasFramebuffer(Active) /\ screen = ScreenInfo(Active)
<1>1. handle \in 1..Len(gops)
  BY DEF IInv, PathInv, HandleInUse, ModeInUse
<1>2. Active \in ModeInfos
  <2> HIDE DEF ModeInfos
  <2> QED  BY <1>1, ModeFacts DEF IInv, Active
<1> QED
  BY <1>2 DEF IInv, FramebufferInv, ScreenInv, HandleInUse, ModeInUse

(* The output used is the first one that shows the console, else the first  *)
(* with a frame buffer; none is found only if none has one.                 *)
THEOREM FirstConsole == Spec => []PrimaryGop
<1>1. IInv => PrimaryGop
  BY DEF IInv
<1> QED
  BY <1>1, SpecIInv, PTL

(* screen_info describes the mode the output is in, with a frame buffer and *)
(* the masks of the firmware, also after a SetMode that was refused.        *)
THEOREM ActiveModeDescribed == Spec => []DescribesActiveMode
<1>1. IInv => DescribesActiveMode
  <2> SUFFICES ASSUME IInv, status = "success"
               PROVE  /\ HasFramebuffer(Active)
                      /\ Active.w < 65536 => screen.width = Active.w
                      /\ Active.h < 65536 => screen.height = Active.h
                      /\ screen.bits = IF Active.format = "mask" THEN Active.bits
                                       ELSE FixedBits(Active.format)
    BY DEF DescribesActiveMode
  <2>1. Active \in ModeInfos /\ HasFramebuffer(Active) /\ screen = ScreenInfo(Active)
    BY AtSuccess
  <2>2. ASSUME NEW y \in Nat, y < 65536
        PROVE  y % 65536 = y
    BY <2>2
  <2>3. Active.w \in Nat /\ Active.h \in Nat
    BY <2>1 DEF ModeInfos
  <2>4. screen.width = Active.w % 65536 /\ screen.height = Active.h % 65536
    BY <2>1 DEF ScreenInfo
  <2>5. Active.format = "mask" => [c \in Masks |-> BitsFound(Active.bits[c])] = Active.bits
    <3> SUFFICES ASSUME Active.format = "mask"
                 PROVE  [c \in Masks |-> BitsFound(Active.bits[c])] = Active.bits
      OBVIOUS
    <3>1. Active.bits \in [Masks -> SUBSET (0..31)] /\ \A c \in Masks : Contiguous(Active.bits[c])
      BY <2>1 DEF ModeInfos
    <3>2. \A c \in Masks : BitsFound(Active.bits[c]) = Active.bits[c]
      BY <3>1, ContiguousBits
    <3> QED
      BY <3>1, <3>2
  <2>6. screen.bits = IF Active.format = "mask" THEN [c \in Masks |-> BitsFound(Active.bits[c])]
                                               ELSE FixedBits(Active.format)
    BY <2>1 DEF ScreenInfo
  <2> QED
    BY <2>1, <2>2, <2>3, <2>4, <2>5, <2>6
<1> QED
  BY <1>1, SpecIInv, PTL

(* A mode the configuration asks for is used if the output has one that     *)
(* QueryMode answered for, unless SetMode was refused.                      *)
THEOREM WishGranted == Spec => []ModeHonoured
<1>1. IInv => ModeHonoured
  BY DEF IInv, MatchInv, NoneFound, Found, ModeInUse, ModeHonoured
<1> QED
  BY <1>1, SpecIInv, PTL

(* The two ways the code has of computing a depth agree on every mask       *)
(* layout without a gap.                                                    *)
THEOREM DepthsAgree == Spec => []DepthAsAsked
<1>1. IInv => DepthAsAsked
  <2> SUFFICES ASSUME IInv, status = "success", config.depth # 0, Gapless, match_res(Active)
               PROVE  screen.depth = config.depth
    BY DEF DepthAsAsked
  <2>1. Active \in ModeInfos /\ screen = ScreenInfo(Active)
    BY AtSuccess
  <2>2. config.depth = pixel_bpp(Active)
    BY DEF match_res
  <2>3. screen.depth = lfb_depth(Active)
    BY <2>1 DEF ScreenInfo
  <2> QED
    BY <2>1, <2>2, <2>3, GaplessDepth DEF Gapless
<1> QED
  BY <1>1, SpecIInv, PTL

(* The line length given to the kernel is the device's and holds a row of   *)
(* its pixels, for every mode whose lines are whole bytes and fit the field.*)
THEOREM RowFits == Spec => []LineHoldsRow
<1>1. IInv => LineHoldsRow
  <2> DEFINE line == Active.ppsl * (IF Active.format = "mask" THEN Cardinality(AllBits(Active))
                                                              ELSE 32)
  <2> SUFFICES ASSUME IInv, status = "success", line % 8 = 0, line < 8 * 65536
               PROVE  screen.linelength * 8 = line /\ screen.width * screen.depth <= line
    BY DEF LineHoldsRow
  <2>1. Active \in ModeInfos /\ screen = ScreenInfo(Active)
    BY AtSuccess
  <2>2. /\ screen.linelength = lfb_linelength(Active)
        /\ screen.width = Active.w % 65536
        /\ screen.depth = lfb_depth(Active)
    BY <2>1 DEF ScreenInfo
  <2>3. line = Active.ppsl * lfb_depth(Active)
    BY <2>1, DepthOfMasks
  <2> HIDE DEF line
  <2> QED
    BY <2>1, <2>2, <2>3, LineOfPixels
<1> QED
  BY <1>1, SpecIInv, PTL
==============================================================================
