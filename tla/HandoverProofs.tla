--------------------------- MODULE HandoverProofs ----------------------------
(***************************************************************************)
(* Proofs about the handover of the memory map, in three parts: the end of *)
(* boot services (ExitBs), for every set of maps, every size of the tables *)
(* and of the slack, and every bound MaxKey; the translation (E820), for   *)
(* every map, every size of the zero page's table up to 255 and every      *)
(* slack the sizes of the structures allow; and the two together           *)
(* (Handover), where the second starts on what the first has left.         *)
(***************************************************************************)
EXTENDS Handover, SequenceTheorems, TLAPS

-----------------------------------------------------------------------------
(* Part 1, the end of boot services (ExitBs): the inductive invariant.      *)

(* Boot services are over exactly in the last two control states.           *)
ServicesInv == services = "exited" <=> pc \in {"populate", "handed_over"}

(* The calls between a malloc and the matching free of the map buffer.      *)
Owning == {"e820_fetch", "e820_ext", "exit_fetch", "exit_call",
           "retry_fetch", "retry_call", "populate", "handed_over"}
HeapInv == pc \in Owning <=> "memmap" \in heap

(* A key names one version of the map: while the key the loader holds is    *)
(* the firmware's, so is the copy it fetched with it.                       *)
KeyInv ==
  pc \in {"exit_call", "retry_call"} /\ mapKey = fwKey =>
    memmap = fwMap /\ mapSize = Len(fwMap)
OldKeyInv == mapKey <= fwKey

(* Whatever size the code passes to GetMemoryMap, the buffer has.           *)
SizeInv == pc \in {"exit_malloc", "exit_fetch"} => mapSize <= bufferSize

ExitPhase == {"exit_query", "exit_malloc", "exit_fetch", "exit_call",
              "retry_fetch", "retry_call", "populate", "handed_over"}
ExtInv ==
  pc \in ExitPhase /\ NeedsExtension(nrDesc) => "e820ext" \in heap /\ extFor = nrDesc

IInv ==
  /\ TypeOK
  /\ ServicesInv
  /\ HeapInv
  /\ KeyInv
  /\ OldKeyInv
  /\ SizeInv
  /\ ExtInv
  /\ BufferNotOverrun
  /\ FinalMap
  /\ HandedOver

-----------------------------------------------------------------------------
(* A map, and an empty buffer, have a length.                               *)
LEMMA MapLength == \A m \in Maps \cup {<<>>} : Len(m) \in Nat
BY MapsAssumption DEF Descriptors

(* The initial states satisfy the type invariant.                           *)
LEMMA InitTypeOK == Init => TypeOK
<1> SUFFICES ASSUME Init PROVE TypeOK
  OBVIOUS
<1> USE DEF Init
<1>1. FirmwareTypeOK
  BY DEF FirmwareTypeOK
<1>2. ControlTypeOK
  BY DEF ControlTypeOK, Calls
<1>3. SizesTypeOK
  BY DEF SizesTypeOK
<1>4. HeapTypeOK
  BY DEF HeapTypeOK
<1>5. bsExited \in BOOLEAN
  OBVIOUS
<1>6. efiInfo \in [map : Maps \cup {<<>>}, size : Nat]
  OBVIOUS
<1> QED
  BY <1>1, <1>2, <1>3, <1>4, <1>5, <1>6 DEF TypeOK, OutTypeOK

(* Sizes and counts stay natural numbers: e820ext is sized for the whole    *)
(* map and no size is the result of a subtraction.                          *)
LEMMA NextSizesTypeOK == TypeOK /\ [Next]_vars => SizesTypeOK'
<1> SUFFICES ASSUME TypeOK, [Next]_vars PROVE SizesTypeOK'
  OBVIOUS
<1> USE SizesAssumption DEF TypeOK, SizesTypeOK, Goto, Fail, e820Vars, bufVars
<1>1. Len(fwMap) \in Nat
  BY MapLength DEF FirmwareTypeOK
<1>2. CASE E820Query
  BY <1>1, <1>2 DEF E820Query, BufferFor, QueryFails
<1>3. CASE E820Malloc \/ ExitMalloc
  BY <1>3 DEF E820Malloc, ExitMalloc, MallocMemmap
<1>4. CASE E820Fetch
  BY <1>1, <1>4 DEF E820Fetch
<1>5. CASE E820Ext
  BY <1>5 DEF E820Ext, ExtEntries
<1>6. CASE ExitQuery
  BY <1>1, <1>6 DEF ExitQuery, BufferFor, QueryFails, FirmwareTypeOK
<1>7. CASE ExitFetch \/ RetryFetch
  BY <1>1, <1>7 DEF ExitFetch, RetryFetch, FetchMap, FirmwareTypeOK
<1>8. CASE ExitCall \/ RetryCall \/ Populate \/ FirmwareEvent \/ UNCHANGED vars
  BY <1>8 DEF ExitCall, RetryCall, Exits, Populate,
          populate_bootparams_efi, FirmwareEvent, vars
<1> QED
  BY <1>2, <1>3, <1>4, <1>5, <1>6, <1>7, <1>8 DEF Next, LoaderStep

(* Every step of the loader and of the firmware preserves the types.        *)
LEMMA NextTypeOK == TypeOK /\ [Next]_vars => TypeOK'
<1> SUFFICES ASSUME TypeOK, [Next]_vars PROVE TypeOK'
  OBVIOUS
<1> USE DEF Next, LoaderStep, E820Query, E820Malloc, E820Fetch, E820Ext, ExitQuery,
        ExitMalloc, ExitFetch, ExitCall, RetryFetch, RetryCall, Populate,
        populate_bootparams_efi, FirmwareEvent,
        QueryFails, MallocMemmap, FetchMap, Exits, Goto, Fail, vars, fwVars, e820Vars,
        bufVars, outVars, MapMayChange, NewMap, NewVersion
<1>1. FirmwareTypeOK'
  BY DEF TypeOK, FirmwareTypeOK
<1>2. ControlTypeOK'
  BY DEF TypeOK, ControlTypeOK, Calls
<1>3. SizesTypeOK'
  BY NextSizesTypeOK
<1>4. HeapTypeOK'
  BY DEF TypeOK, HeapTypeOK, FirmwareTypeOK
<1>5. OutTypeOK'
  <2>1. bsExited' \in BOOLEAN
    BY DEF TypeOK, OutTypeOK
  <2>2. efiInfo' \in [map : Maps \cup {<<>>}, size : Nat]
    BY DEF TypeOK, OutTypeOK, HeapTypeOK, SizesTypeOK
  <2> QED
    BY <2>1, <2>2 DEF OutTypeOK
<1> QED
  BY <1>1, <1>2, <1>3, <1>4, <1>5 DEF TypeOK

(* The type invariant of wboot_allocate_e820 and wboot_exit_bs.             *)
THEOREM TypeCorrect == Spec => []TypeOK
BY InitTypeOK, NextTypeOK, PTL DEF Spec

-----------------------------------------------------------------------------
(* The inductive invariant holds initially.                                 *)
LEMMA InitIInv == Init => IInv
<1> SUFFICES ASSUME Init PROVE IInv
  OBVIOUS
<1>1. TypeOK
  BY InitTypeOK
<1>2. ServicesInv /\ HeapInv /\ FinalMap /\ HandedOver
  BY DEF Init, ServicesInv, HeapInv, Owning, FinalMap, HandedOver
<1>3. KeyInv /\ OldKeyInv /\ SizeInv /\ ExtInv /\ BufferNotOverrun
  BY DEF Init, KeyInv, OldKeyInv, SizeInv, ExtInv, ExitPhase, BufferNotOverrun
<1> QED
  BY <1>1, <1>2, <1>3 DEF IInv

(* Who owns the buffer, and whether services run, follow the control state. *)
LEMMA NextControl ==
  IInv /\ [Next]_vars => ServicesInv' /\ HeapInv' /\ ExtInv'
<1> SUFFICES ASSUME IInv, [Next]_vars PROVE ServicesInv' /\ HeapInv' /\ ExtInv'
  OBVIOUS
<1> USE DEF IInv, Next, LoaderStep, E820Query, E820Malloc, E820Fetch, E820Ext, ExitQuery,
        ExitMalloc, ExitFetch, ExitCall, RetryFetch, RetryCall, Populate,
        populate_bootparams_efi, FirmwareEvent,
        QueryFails, MallocMemmap, FetchMap, Exits, Goto, Fail, vars, fwVars, e820Vars,
        bufVars, outVars, MapMayChange, NewMap, NewVersion
<1>1. ServicesInv'
  BY DEF ServicesInv
<1>2. HeapInv'
  BY DEF HeapInv, Owning
<1>3. ExtInv'
  BY DEF ExtInv, ExitPhase, ExtEntries, NeedsExtension
<1> QED
  BY <1>1, <1>2, <1>3

(* What the buffer holds is what the loader's key and sizes say of it.      *)
LEMMA NextBuffer ==
  IInv /\ [Next]_vars => KeyInv' /\ OldKeyInv' /\ SizeInv' /\ BufferNotOverrun'
<1> SUFFICES ASSUME IInv, [Next]_vars
             PROVE  KeyInv' /\ OldKeyInv' /\ SizeInv' /\ BufferNotOverrun'
  OBVIOUS
<1>0. /\ fwKey \in Nat /\ mapKey \in Nat /\ mapSize \in Nat /\ bufferSize \in Nat
      /\ Len(fwMap) \in Nat /\ Len(memmap) \in Nat
  BY MapLength DEF IInv, TypeOK, FirmwareTypeOK, SizesTypeOK, HeapTypeOK
<1> USE SizesAssumption DEF Next, LoaderStep, E820Query, E820Malloc, E820Fetch,
        E820Ext, ExitQuery, ExitMalloc, ExitFetch, ExitCall, RetryFetch, RetryCall,
        Populate, populate_bootparams_efi, FirmwareEvent, QueryFails,
        MallocMemmap, FetchMap, Exits, Goto, Fail,
        vars, fwVars, e820Vars, bufVars, outVars, MapMayChange, NewMap, NewVersion
<1>1. KeyInv'
  BY <1>0 DEF IInv, KeyInv, OldKeyInv, KeyAccepted
<1>2. OldKeyInv'
  BY <1>0 DEF IInv, OldKeyInv
<1>3. SizeInv'
  BY <1>0 DEF IInv, SizeInv, BufferFor
<1>4. BufferNotOverrun'
  BY <1>0 DEF IInv, BufferNotOverrun, SizeInv, HeapInv, Owning, FirstCapacity, RetryCapacity
<1> QED
  BY <1>1, <1>2, <1>3, <1>4

(* The handover itself: the copy is the firmware's last map, and stays it.  *)
LEMMA NextFinal == IInv /\ [Next]_vars => FinalMap' /\ HandedOver'
<1> SUFFICES ASSUME IInv, [Next]_vars PROVE FinalMap' /\ HandedOver'
  OBVIOUS
<1> USE DEF Next, LoaderStep, E820Query, E820Malloc, E820Fetch, E820Ext, ExitQuery,
        ExitMalloc, ExitFetch, ExitCall, RetryFetch, RetryCall, Populate,
        populate_bootparams_efi, FirmwareEvent,
        QueryFails, MallocMemmap, FetchMap, Exits, Goto, Fail, vars, fwVars, e820Vars,
        bufVars, outVars, MapMayChange, NewMap, NewVersion
<1>1. FinalMap'
  BY DEF IInv, FinalMap, ServicesInv, KeyInv, KeyAccepted, HeapInv, Owning
<1>2. HandedOver'
  BY DEF IInv, HandedOver, FinalMap, ServicesInv
<1> QED
  BY <1>1, <1>2

LEMMA NextIInv == IInv /\ [Next]_vars => IInv'
<1> SUFFICES ASSUME IInv, [Next]_vars PROVE IInv'
  OBVIOUS
<1>1. TypeOK'
  BY NextTypeOK DEF IInv
<1>2. ServicesInv' /\ HeapInv' /\ ExtInv'
  BY NextControl
<1>3. KeyInv' /\ OldKeyInv' /\ SizeInv' /\ BufferNotOverrun'
  BY NextBuffer
<1>4. FinalMap' /\ HandedOver'
  BY NextFinal
<1> QED
  BY <1>1, <1>2, <1>3, <1>4 DEF IInv

LEMMA Inductive == Spec => []IInv
BY InitIInv, NextIInv, PTL DEF Spec

-----------------------------------------------------------------------------
(* wboot_exit_bs holds the map boot services ended with from the moment     *)
(* they end, whichever attempt ended them and whatever the firmware did     *)
(* between the size query, the fetches and the exits.                       *)
THEOREM FinalMapCorrect == Spec => []FinalMap
BY Inductive, PTL DEF IInv

(* What it gives the kernel describes that map, with its exact size.        *)
THEOREM HandedOverCorrect == Spec => []HandedOver
BY Inductive, PTL DEF IInv

(* No GetMemoryMap writes past the buffer of either function.               *)
THEOREM BufferNeverOverrun == Spec => []BufferNotOverrun
BY Inductive, PTL DEF IInv

(* The buffer is freed on every error path, and freed by the first function *)
(* before the second one allocates its own.                                 *)
THEOREM NoMemmapLeak == Spec => []MemmapOwned
<1>1. IInv => MemmapOwned
  BY DEF IInv, HeapInv, Owning, MemmapOwned
<1> QED
  BY <1>1, Inductive, PTL

(* The extension is allocated whenever a final map within the slack needs   *)
(* it: 128 - 32 is the right threshold for a slack of 32, and any other     *)
(* table size minus the slack is right for that slack.                      *)
THEOREM ExtensionReady == Spec => []ExtReady
<1>1. IInv => ExtReady
  <2> SUFFICES ASSUME IInv, pc = "handed_over", mapSize > E820_MAX_ENTRIES_ZEROPAGE,
                      mapSize <= nrDesc + EFI_MMAP_NR_SLACK_SLOTS
               PROVE  "e820ext" \in heap /\ extFor = nrDesc
    BY DEF ExtReady
  <2>1. NeedsExtension(nrDesc)
    BY SizesAssumption DEF IInv, TypeOK, SizesTypeOK, NeedsExtension
  <2> QED
    BY <2>1 DEF IInv, ExtInv, ExitPhase
<1> QED
  BY <1>1, Inductive, PTL

(* The second fetch fails only when the map has outgrown all of the slack.  *)
THEOREM RetryUsesSlack == Spec => SlackCoversRetryFetch
<1>1. IInv /\ [Next]_vars => [FailsOnlyPastSlack("retry_fetch")]_vars
  <2> SUFFICES ASSUME IInv, Next, pc = "retry_fetch", pc' = "failed"
               PROVE  Len(fwMap) > bufferSize
    BY DEF FailsOnlyPastSlack
  <2>1. RetryFetch
    BY DEF Next, LoaderStep, E820Query, E820Malloc, E820Fetch, E820Ext, ExitQuery,
        ExitMalloc, ExitFetch, ExitCall, RetryCall, Populate,
        populate_bootparams_efi, FirmwareEvent, QueryFails,
        MallocMemmap, FetchMap, Exits, Goto, Fail
  <2> QED
    BY <2>1 DEF RetryFetch, FetchMap, RetryCapacity, Goto
<1> QED
  BY <1>1, Inductive, PTL DEF Spec, SlackCoversRetryFetch

-----------------------------------------------------------------------------
(* On a quiet firmware nothing moves between the second fetch and the       *)
(* second ExitBootServices.                                                 *)
QuietInv ==
  /\ pc \in {"retry_fetch", "retry_call"} => services = "closing"
  /\ quiet /\ pc = "retry_call" => mapKey = fwKey
  /\ QuietRetryAccepted

LEMMA NextQuietInv == QuietInv /\ [Next]_vars => QuietInv'
<1> SUFFICES ASSUME QuietInv, [Next]_vars PROVE QuietInv'
  OBVIOUS
<1> QED
  BY DEF QuietInv, QuietRetryAccepted, KeyAccepted, Next, LoaderStep,
        E820Query, E820Malloc, E820Fetch, E820Ext, ExitQuery, ExitMalloc, ExitFetch,
        ExitCall, RetryFetch, RetryCall, Populate,
        populate_bootparams_efi, FirmwareEvent, QueryFails,
        MallocMemmap, FetchMap, Exits, Goto, Fail, vars, fwVars, e820Vars, bufVars,
        outVars, MapMayChange, NewMap, NewVersion

(* There the second attempt to exit is always accepted.                     *)
THEOREM QuietRetry == Spec => []QuietRetryAccepted
<1>1. Init => QuietInv
  BY DEF Init, QuietInv, QuietRetryAccepted
<1>2. QuietInv => QuietRetryAccepted
  BY DEF QuietInv
<1> QED
  BY <1>1, <1>2, NextQuietInv, PTL DEF Spec

-----------------------------------------------------------------------------
(* Refinement.  A step that keeps services running is, for the abstract     *)
(* specification, a change of the map, a failure, both or nothing.          *)
LEMMA RunningStep ==
  ASSUME IInv, services # "exited", services' # "exited",
         pc \notin {"failed", "handed_over"} \/ UNCHANGED pc,
         pc' # "handed_over",
         NewVersion \/ UNCHANGED <<fwKey, fwMap>>
  PROVE  [Handover!Next]_(Handover!vars)
<1>0. fwKey \in Nat /\ fwMap \in Maps
  BY DEF IInv, TypeOK, FirmwareTypeOK
<1>1. Outcome' \in {Outcome, "gave_up"}
  BY DEF Outcome
<1>2. Outcome' = Outcome \/ Outcome = "pending"
  BY DEF Outcome
<1>3. CASE NewVersion
  <2>1. fwKey' \in Nat /\ fwKey' > fwKey /\ fwMap' \in Maps
    BY <1>0, <1>3 DEF NewVersion
  <2>2. Handover!Change
    BY <2>1, <1>1 DEF Handover!Change
  <2> QED
    BY <2>2 DEF Handover!Next
<1>4. CASE UNCHANGED <<fwKey, fwMap>> /\ Outcome' = Outcome
  BY <1>4 DEF Handover!vars
<1>5. CASE UNCHANGED <<fwKey, fwMap>> /\ Outcome' # Outcome
  <2>1. Outcome = "pending" /\ Outcome' = "gave_up"
    BY <1>1, <1>2, <1>5
  <2>2. Handover!GiveUp
    BY <2>1, <1>5 DEF Handover!GiveUp
  <2> QED
    BY <2>2 DEF Handover!Next
<1> QED
  BY <1>3, <1>4, <1>5

(* The accepted ExitBootServices is the abstract take-over.                 *)
LEMMA ExitStep ==
  ASSUME IInv, NEW call \in {"exit_call", "retry_call"}, Exits(call)
  PROVE  Handover!Next
<1>1. services # "exited" /\ services' = "exited" /\ memmap' = fwMap
  BY DEF IInv, ServicesInv, KeyInv, Exits, KeyAccepted, Goto, bufVars
<1>2. Outcome = "pending" /\ Outcome' = "pending"
  BY DEF Exits, Goto, Outcome
<1>3. UNCHANGED <<fwKey, fwMap>>
  BY DEF Exits
<1>4. Handover!TakeOver
  BY <1>1, <1>2, <1>3 DEF Handover!TakeOver
<1> QED
  BY <1>4 DEF Handover!Next

(* Telling wstdlib and the boot parameters finishes it.                     *)
LEMMA PopulateStep == ASSUME IInv, Populate PROVE Handover!Next
<1>1. services = "exited" /\ UNCHANGED <<services, fwKey, fwMap, memmap>>
  BY DEF IInv, ServicesInv, Populate, populate_bootparams_efi, Goto, fwVars, bufVars
<1>2. Outcome = "pending" /\ Outcome' = "handed_over"
  BY DEF Populate, populate_bootparams_efi, Goto, Outcome
<1>3. Handover!Finish
  BY <1>1, <1>2 DEF Handover!Finish
<1> QED
  BY <1>3 DEF Handover!Next

LEMMA NextHandover == IInv /\ [Next]_vars => [Handover!Next]_(Handover!vars)
<1> SUFFICES ASSUME IInv, [Next]_vars PROVE [Handover!Next]_(Handover!vars)
  OBVIOUS
<1>1. CASE Exits("exit_call") \/ Exits("retry_call")
  BY <1>1, ExitStep
<1>2. CASE Populate
  BY <1>2, PopulateStep
<1>3. CASE UNCHANGED vars
  BY <1>3 DEF vars, Handover!vars, Outcome
<1>4. CASE Next /\ ~Populate /\ ~Exits("exit_call") /\ ~Exits("retry_call")
  <2> USE <1>4 DEF Next, LoaderStep, E820Query, E820Malloc, E820Fetch, E820Ext,
        ExitQuery, ExitMalloc, ExitFetch, ExitCall, RetryFetch, RetryCall,
        FirmwareEvent, QueryFails, MallocMemmap, FetchMap, Goto, Fail, fwVars,
        MapMayChange, NewMap
  <2>1. services # "exited" /\ services' # "exited"
    BY DEF IInv, ServicesInv
  <2>2. pc \notin {"failed", "handed_over"} \/ UNCHANGED pc
    OBVIOUS
  <2>3. pc' # "handed_over"
    BY <2>1 DEF IInv, ServicesInv
  <2>4. NewVersion \/ UNCHANGED <<fwKey, fwMap>>
    OBVIOUS
  <2> QED
    BY <2>1, <2>2, <2>3, <2>4, RunningStep
<1> QED
  BY <1>1, <1>2, <1>3, <1>4

(* The two functions implement the abstract handover, however often the     *)
(* firmware replaces its map.                                               *)
THEOREM Refinement == Spec => ImplementsHandover
<1>1. Init => Handover!Init
  BY DEF Init, Handover!Init, Outcome
<1> QED
  BY <1>1, Inductive, NextHandover, PTL DEF Spec, ImplementsHandover, Handover!Spec

-----------------------------------------------------------------------------
(* Part 2, the translation (E820).                                          *)
USE DEF ZP, SizeofEntry, SizeofSetupData, SizeofSetupHeader, inputs

(* A descriptor that is not skipped makes a well-formed entry.              *)
LEMMA EntryType ==
  ASSUME NEW desc \in Descriptors, E820Type(desc.type) # "none"
  PROVE  EntryFor(desc) \in Entries
<1>1. E820Type(desc.type) \in E820Types
  BY DEF E820Type, E820Types
<1>2. desc.start \in Nat /\ 4096 * desc.pages \in Nat
  BY DEF Descriptors
<1> QED
  BY <1>1, <1>2 DEF EntryFor, Entries, Bytes

(* The loop starts well typed on any map in efi_info, whatever e820ext was  *)
(* sized for.                                                               *)
LEMMA LoopInitTypeOK == InputsOK /\ LoopInit => TranslateTypeOK
<1> SUFFICES ASSUME InputsOK, LoopInit PROVE TranslateTypeOK
  OBVIOUS
<1>1. Len(descs) \in Nat
  BY DEF InputsOK
<1> QED
  BY <1>1 DEF LoopInit, TableOK, TranslateTypeOK

(* The map that efi_info describes is all of the firmware's.                *)
LEMMA InitInputsOK == TranslateInit => InputsOK
<1> SUFFICES ASSUME TranslateInit PROVE InputsOK
  OBVIOUS
<1>1. PICK m \in Maps : efiInfo = [map |-> m, size |-> Len(m)]
  BY DEF TranslateInit
<1>2. m \in Seq(Descriptors) /\ descs = m
  BY <1>1, MapsAssumption, SubSeqFull DEF descs
<1>3. extFor \in Nat
  <2>1. \A n \in Maps : Len(n) \in Nat
    BY MapsAssumption
  <2> QED
    BY <2>1 DEF TranslateInit
<1> QED
  BY <1>2, <1>3 DEF InputsOK

LEMMA TranslateInitTypeOK == TranslateInit => TranslateTypeOK
BY InitInputsOK, LoopInitTypeOK DEF TranslateInit

(* The loop does not change what it reads.                                  *)
LEMMA InputsUnchanged == [TranslateNext]_translateVars => UNCHANGED <<inputs, descs>>
BY DEF TranslateNext, Skip, Merge, TooSmall, AddEntry, Finish, add_e820ext, translateVars, descs

(* The last entry of a table that has grown at its end.                     *)
LEMMA MergeType ==
  ASSUME NEW s \in Seq(Entries), s # <<>>, NEW n \in Nat
  PROVE  [s EXCEPT ![Len(s)].size = @ + n] \in Seq(Entries)
<1>1. Len(s) \in 1..Len(s) /\ s[Len(s)] \in Entries
  OBVIOUS
<1>2. [s[Len(s)] EXCEPT !.size = @ + n] \in Entries
  BY <1>1 DEF Entries
<1> QED
  BY <1>1, <1>2

LEMMA TranslateNextTypeOK == TranslateTypeOK /\ [TranslateNext]_translateVars => TranslateTypeOK'
<1> SUFFICES ASSUME TranslateTypeOK, [TranslateNext]_translateVars PROVE TranslateTypeOK'
  OBVIOUS
<1>1. InputsOK' /\ descs' = descs
  BY InputsUnchanged DEF TranslateTypeOK, InputsOK
<1>2. Len(descs) \in Nat /\ Len(out) \in Nat /\ i \in Nat
  BY DEF TranslateTypeOK, InputsOK, TableOK
<1>3. ASSUME Translating PROVE d \in Descriptors /\ i + 1 \in 1..Len(descs)
  BY <1>2, <1>3 DEF Translating, d, TranslateTypeOK, InputsOK, TableOK
<1>4. CASE Skip
  BY <1>1, <1>2, <1>3, <1>4 DEF Skip, TranslateTypeOK, TableOK
<1>5. CASE Merge
  <2>1. Bytes(d.pages) \in Nat /\ out # <<>>
    BY <1>3, <1>5 DEF Merge, Mergeable, Descriptors, Bytes
  <2>2. out' \in Seq(Entries)
    BY <2>1, <1>5, MergeType DEF Merge, TranslateTypeOK, TableOK
  <2> QED
    BY <2>2, <1>1, <1>2, <1>3, <1>5 DEF Merge, TranslateTypeOK, TableOK
<1>6. CASE AddEntry
  <2>1. EntryFor(d) \in Entries
    BY <1>3, <1>6, EntryType DEF AddEntry
  <2>2. out' \in Seq(Entries)
    BY <2>1, <1>6 DEF AddEntry, TranslateTypeOK, TableOK
  <2> QED
    BY <2>2, <1>1, <1>2, <1>3, <1>6 DEF AddEntry, TranslateTypeOK, TableOK
<1>7. CASE TooSmall
  BY <1>1, <1>7 DEF TooSmall, TranslateTypeOK, TableOK
<1>8. CASE Finish
  <2>1. e820_entries' \in 0..255
    <3>1. \A n \in Nat : n % 256 \in 0..255
      OBVIOUS
    <3>2. ZP \in Nat
      BY TableAssumption
    <3> QED
      BY <1>2, <1>8, <3>1, <3>2 DEF Finish, add_e820ext
  <2>2. setup_data' \in Seq(Nat)
    <3>1. ASSUME Len(out) > ZP PROVE Append(setup_data, Len(out) - ZP) \in Seq(Nat)
      <4>1. Len(out) - ZP \in Nat
        BY <1>2, <3>1, TableAssumption
      <4> QED
        BY <4>1, AppendProperties DEF TranslateTypeOK
    <3> QED
      BY <1>8, <3>1 DEF Finish, add_e820ext, TranslateTypeOK
  <2> QED
    BY <2>1, <2>2, <1>1, <1>8 DEF Finish, add_e820ext, TranslateTypeOK, TableOK
<1>9. CASE UNCHANGED translateVars
  BY <1>1, <1>9 DEF translateVars, TranslateTypeOK, TableOK
<1> QED
  BY <1>4, <1>5, <1>6, <1>7, <1>8, <1>9 DEF TranslateNext

(* The types of the translation loop.                                       *)
THEOREM TranslateTypeCorrect == TranslateSpec => []TranslateTypeOK
BY TranslateInitTypeOK, TranslateNextTypeOK, PTL DEF TranslateSpec

-----------------------------------------------------------------------------
(* The inductive invariant.                                                 *)

(* A descriptor makes at most one entry.                                    *)
CountInv == Len(out) <= i

(* Once the table has left the zero page, e820ext has room for its entries  *)
(* there and for every descriptor still to come, with the bytes to spare    *)
(* that the code's estimate has in excess.                                  *)
RoomInv ==
  Len(out) > ZP =>
    SizeofEntry * (Len(out) - ZP) + SizeofEntry * (Len(descs) - i) + SizeofSetupHeader
      <= ExtSize

(* What the two parts of the table are told to hold.                        *)
LinkInv ==
  /\ status = "translating" => setup_data = <<>>
  /\ status = "success" => i = Len(descs)
  /\ status = "success" =>
       IF Len(out) > ZP THEN e820_entries = ZP /\ setup_data = <<Len(out) - ZP>>
                        ELSE e820_entries = Len(out) /\ setup_data = <<>>

TranslateIInv ==
  /\ TranslateTypeOK
  /\ CountInv
  /\ RoomInv
  /\ LinkInv
  /\ SlackSuffices
  /\ NoMergeableNeighbours
  /\ Coverage

-----------------------------------------------------------------------------
(* What each step that writes does to the table.                            *)
LEMMA Numbers ==
  ASSUME TranslateTypeOK
  PROVE  /\ Len(descs) \in Nat /\ Len(out) \in Nat /\ i \in Nat /\ i <= Len(descs)
         /\ extFor \in Nat /\ ExtSize \in Nat /\ ZP \in Nat /\ ZP > 0
BY TableAssumption DEF TranslateTypeOK, InputsOK, TableOK, ExtSize

LEMMA AddEntryTable ==
  ASSUME TranslateTypeOK, AddEntry
  PROVE  /\ EntryFor(d) \in Entries /\ d \in Descriptors
         /\ i' = i + 1 /\ i + 1 \in 1..Len(descs)
         /\ Len(out') = Len(out) + 1
         /\ \A k \in 1..Len(out) : out'[k] = out[k]
         /\ out'[Len(out) + 1] = EntryFor(d)
<1>1. i + 1 \in 1..Len(descs)
  BY Numbers DEF AddEntry, Translating
<1>2. d \in Descriptors
  BY <1>1 DEF d, TranslateTypeOK, InputsOK
<1>3. EntryFor(d) \in Entries
  BY <1>2, EntryType DEF AddEntry
<1>4. out \in Seq(Entries) /\ out' = Append(out, EntryFor(d))
  BY DEF AddEntry, TranslateTypeOK, TableOK
<1> QED
  BY <1>1, <1>2, <1>3, <1>4, AppendProperties DEF AddEntry

LEMMA MergeTable ==
  ASSUME TranslateTypeOK, Merge
  PROVE  /\ d \in Descriptors
         /\ i' = i + 1 /\ i + 1 \in 1..Len(descs)
         /\ Len(out) \in 1..Len(out) /\ Len(out') = Len(out)
         /\ \A k \in 1..Len(out) :
              /\ out[k] \in Entries
              /\ out'[k].addr = out[k].addr /\ out'[k].type = out[k].type
              /\ out'[k].size = IF k = Len(out) THEN out[k].size + Bytes(d.pages)
                                                ELSE out[k].size
<1>1. i + 1 \in 1..Len(descs)
  BY Numbers DEF Merge, Translating
<1>2. d \in Descriptors
  BY <1>1 DEF d, TranslateTypeOK, InputsOK
<1>3. out \in Seq(Entries) /\ out # <<>>
  BY DEF Merge, Mergeable, TranslateTypeOK, TableOK
<1>4. Len(out) \in 1..Len(out) /\ \A k \in 1..Len(out) : out[k] \in Entries
  BY <1>3
<1>5. out' = [out EXCEPT ![Len(out)].size = @ + Bytes(d.pages)]
  BY DEF Merge
<1>6. Len(out') = Len(out)
  BY <1>3, <1>4, <1>5
<1>7. ASSUME NEW k \in 1..Len(out)
      PROVE  /\ out'[k].addr = out[k].addr /\ out'[k].type = out[k].type
             /\ out'[k].size = IF k = Len(out) THEN out[k].size + Bytes(d.pages)
                                               ELSE out[k].size
  BY <1>3, <1>4, <1>5 DEF Entries
<1> QED
  BY <1>1, <1>2, <1>4, <1>6, <1>7 DEF Merge

-----------------------------------------------------------------------------
LEMMA LoopInitIInv == InputsOK /\ LoopInit => TranslateIInv
<1> SUFFICES ASSUME InputsOK, LoopInit PROVE TranslateIInv
  OBVIOUS
<1>1. TranslateTypeOK
  BY LoopInitTypeOK
<1>2. out = <<>> /\ i = 0 /\ Len(out) = 0 /\ status = "translating" /\ setup_data = <<>>
  BY DEF LoopInit
<1>3. CountInv /\ RoomInv
  BY <1>1, <1>2, Numbers DEF CountInv, RoomInv
<1>4. NoMergeableNeighbours
  BY <1>2 DEF NoMergeableNeighbours
<1>5. LinkInv /\ SlackSuffices
  BY <1>2 DEF LinkInv, SlackSuffices
<1>6. Coverage
  BY <1>2 DEF Coverage, Listed, Described
<1> QED
  BY <1>1, <1>3, <1>4, <1>5, <1>6 DEF TranslateIInv

LEMMA TranslateInitIInv == TranslateInit => TranslateIInv
BY InitInputsOK, LoopInitIInv DEF TranslateInit

(* The check at the border makes room for every entry that can follow.      *)
LEMMA NextRoom == TranslateIInv /\ [TranslateNext]_translateVars => CountInv' /\ RoomInv'
<1> SUFFICES ASSUME TranslateIInv, [TranslateNext]_translateVars PROVE CountInv' /\ RoomInv'
  OBVIOUS
<1>0. TranslateTypeOK /\ CountInv /\ RoomInv
  BY DEF TranslateIInv
<1>1. /\ Len(descs) \in Nat /\ Len(out) \in Nat /\ i \in Nat
      /\ ZP \in Nat /\ ExtSize \in Nat
  BY <1>0, Numbers
<1>2. descs' = descs /\ ExtSize' = ExtSize
  BY InputsUnchanged DEF ExtSize
<1>3. CASE Skip
  BY <1>0, <1>1, <1>2, <1>3 DEF Skip, CountInv, RoomInv
<1>4. CASE Merge
  <2>1. Len(out') = Len(out) /\ i' = i + 1
    BY <1>0, <1>4, MergeTable
  <2> QED
    BY <2>1, <1>0, <1>1, <1>2 DEF CountInv, RoomInv
<1>5. CASE AddEntry
  <2>1. Len(out') = Len(out) + 1 /\ i' = i + 1
    BY <1>0, <1>5, AddEntryTable
  <2>2. Len(out) = ZP => (Len(descs) - i) * 20 + 123 <= ExtSize
    BY <1>1, <1>5 DEF AddEntry, ExtTooSmall, Need
  <2> QED
    BY <2>1, <2>2, <1>0, <1>1, <1>2 DEF CountInv, RoomInv
<1>6. CASE TooSmall \/ Finish \/ UNCHANGED translateVars
  BY <1>0, <1>2, <1>6 DEF TooSmall, Finish, add_e820ext, translateVars, CountInv, RoomInv
<1> QED
  BY <1>3, <1>4, <1>5, <1>6 DEF TranslateNext

(* The kernel is told of both parts of the table.                           *)
LEMMA NextLink == TranslateIInv /\ [TranslateNext]_translateVars => LinkInv'
<1> SUFFICES ASSUME TranslateIInv, [TranslateNext]_translateVars PROVE LinkInv'
  OBVIOUS
<1>0. TranslateTypeOK /\ LinkInv /\ descs' = descs
  BY InputsUnchanged DEF TranslateIInv
<1>1. Len(out) \in Nat /\ ZP \in Nat /\ ZP <= 255
  BY <1>0, Numbers, TableAssumption
<1>2. CASE Finish
  <2>1. \A n \in Nat : n <= 255 => n % 256 = n
    OBVIOUS
  <2>2. /\ setup_data = <<>> /\ UNCHANGED out
        /\ status' = "success" /\ i' = Len(descs')
    BY <1>0, <1>2 DEF Finish, add_e820ext, LinkInv
  <2>3. CASE Len(out) > ZP
    BY <1>1, <1>2, <2>1, <2>2, <2>3 DEF Finish, add_e820ext, LinkInv
  <2>4. CASE Len(out) <= ZP
    BY <1>1, <1>2, <2>1, <2>2, <2>4 DEF Finish, add_e820ext, LinkInv
  <2> QED
    BY <1>1, <2>3, <2>4
<1>3. CASE Skip \/ Merge \/ TooSmall \/ AddEntry \/ UNCHANGED translateVars
  BY <1>0, <1>3 DEF Skip, Merge, TooSmall, AddEntry, Translating, translateVars, LinkInv
<1> QED
  BY <1>2, <1>3 DEF TranslateNext

(* Within the slack the size check never fails: the entries that need the   *)
(* extension are at most those the allocation made room for.                *)
LEMMA NextSlack == TranslateIInv /\ [TranslateNext]_translateVars => SlackSuffices'
<1> SUFFICES ASSUME TranslateIInv, [TranslateNext]_translateVars PROVE SlackSuffices'
  OBVIOUS
<1>0. TranslateTypeOK /\ CountInv /\ SlackSuffices
  BY DEF TranslateIInv
<1>1. UNCHANGED <<inputs, descs>>
  BY InputsUnchanged
<1>2. CASE TooSmall
  <2> SUFFICES ASSUME NEW n \in 0..(Len(descs) + extFor), AllocatedFor(n),
                      Len(descs) <= n + EFI_MMAP_NR_SLACK_SLOTS
               PROVE  FALSE
    BY <1>1 DEF SlackSuffices, AllocatedFor
  <2>1. /\ Len(descs) \in Nat /\ i \in Nat /\ ZP \in Nat /\ n \in Nat
        /\ EFI_MMAP_NR_SLACK_SLOTS \in Nat
    BY <1>0, Numbers, TableAssumption
  <2>2. ZP <= i /\ i < Len(descs) /\ ExtSize < (Len(descs) - i) * 20 + 123
    BY <1>0, <1>2, <2>1 DEF TooSmall, ExtTooSmall, Need, Translating, CountInv
  <2>3. n > ZP - EFI_MMAP_NR_SLACK_SLOTS /\ extFor = n
    BY <2>1, <2>2 DEF AllocatedFor
  <2>4. extFor # 0
    BY <2>1, <2>3, TableAssumption
  <2>5. ExtSize = 16 + 20 * n
    BY <2>3, <2>4 DEF ExtSize
  <2>6. 20 * (ZP - EFI_MMAP_NR_SLACK_SLOTS) >= 107
    BY TableAssumption
  <2> QED
    BY <2>1, <2>2, <2>5, <2>6
<1>3. CASE Skip \/ Merge \/ AddEntry \/ Finish \/ UNCHANGED translateVars
  <2>1. status' # "buffer_too_small" \/ status' = status
    BY <1>3 DEF Skip, Merge, AddEntry, Finish, add_e820ext, translateVars
  <2> QED
    BY <1>0, <1>1, <2>1 DEF SlackSuffices, AllocatedFor
<1> QED
  BY <1>2, <1>3 DEF TranslateNext

(* A merge moves the end of the last entry only, and a new entry is made    *)
(* only when it does not continue the last.                                 *)
LEMMA NextNeighbours == TranslateIInv /\ [TranslateNext]_translateVars => NoMergeableNeighbours'
<1> SUFFICES ASSUME TranslateIInv, [TranslateNext]_translateVars PROVE NoMergeableNeighbours'
  OBVIOUS
<1>0. TranslateTypeOK /\ NoMergeableNeighbours /\ Len(out) \in Nat
  BY Numbers DEF TranslateIInv
<1>1. CASE AddEntry
  <2>1. /\ Len(out') = Len(out) + 1
        /\ \A k \in 1..Len(out) : out'[k] = out[k]
        /\ out'[Len(out) + 1] = EntryFor(d)
    BY <1>0, <1>1, AddEntryTable
  <2>2. out # <<>> =>
          ~(/\ out[Len(out)].type = EntryFor(d).type
            /\ out[Len(out)].addr + out[Len(out)].size = EntryFor(d).addr)
    BY <1>1 DEF AddEntry, Mergeable, EntryFor
  <2>3. Len(out) > 0 => out # <<>>
    OBVIOUS
  <2> SUFFICES ASSUME NEW k \in 1..(Len(out') - 1)
               PROVE  ~(/\ out'[k].type = out'[k + 1].type
                        /\ out'[k].addr + out'[k].size = out'[k + 1].addr)
    BY DEF NoMergeableNeighbours
  <2>4. CASE k = Len(out)
    BY <1>0, <2>1, <2>2, <2>3, <2>4
  <2>5. CASE k # Len(out)
    <3>1. k \in 1..(Len(out) - 1) /\ k \in 1..Len(out) /\ k + 1 \in 1..Len(out)
      BY <1>0, <2>1, <2>5
    <3> QED
      BY <1>0, <2>1, <3>1 DEF NoMergeableNeighbours
  <2> QED
    BY <2>4, <2>5
<1>2. CASE Merge
  <2>1. /\ Len(out') = Len(out)
        /\ \A k \in 1..Len(out) :
              /\ out'[k].addr = out[k].addr /\ out'[k].type = out[k].type
              /\ k # Len(out) => out'[k].size = out[k].size
    BY <1>0, <1>2, MergeTable
  <2> SUFFICES ASSUME NEW k \in 1..(Len(out) - 1)
               PROVE  ~(/\ out'[k].type = out'[k + 1].type
                        /\ out'[k].addr + out'[k].size = out'[k + 1].addr)
    BY <2>1 DEF NoMergeableNeighbours
  <2>2. k \in 1..Len(out) /\ k + 1 \in 1..Len(out) /\ k # Len(out)
    BY <1>0
  <2> QED
    BY <1>0, <2>1, <2>2 DEF NoMergeableNeighbours
<1>3. CASE Skip \/ TooSmall \/ Finish \/ UNCHANGED translateVars
  BY <1>0, <1>3 DEF Skip, TooSmall, Finish, add_e820ext, translateVars, NoMergeableNeighbours
<1> QED
  BY <1>1, <1>2, <1>3 DEF TranslateNext

(* One more descriptor adds its own addresses to what is described ...      *)
LEMMA DescribedNext ==
  ASSUME TranslateTypeOK, Translating, UNCHANGED inputs, i' = i + 1, NEW a, NEW t
  PROVE  Described(a, t)' <=>
           (Described(a, t) \/ (E820Type(d.type) = t /\ DescCovers(d, a)))
<1>1. i \in Nat /\ i + 1 \in 1..(i + 1) /\ 1..(i + 1) = 1..i \cup {i + 1}
  BY Numbers
<1>2. d = descs[i + 1] /\ descs' = descs
  BY DEF d, descs
<1> QED
  BY <1>1, <1>2 DEF Described, DescCovers

(* ... a new entry adds the same addresses to the table ...                 *)
LEMMA AddEntryCoverage ==
  ASSUME TranslateTypeOK, AddEntry, NEW a, NEW t
  PROVE  Listed(a, t)' <=> (Listed(a, t) \/ (E820Type(d.type) = t /\ DescCovers(d, a)))
<1>1. Len(out) \in Nat /\ 1..(Len(out) + 1) = 1..Len(out) \cup {Len(out) + 1}
  BY Numbers
<1>2. /\ Len(out') = Len(out) + 1
      /\ \A k \in 1..Len(out) : out'[k] = out[k]
      /\ out'[Len(out) + 1] = EntryFor(d)
  BY AddEntryTable
<1>3. /\ EntryFor(d).type = E820Type(d.type)
      /\ EntryCovers(EntryFor(d), a) <=> DescCovers(d, a)
  BY DEF EntryFor, EntryCovers, DescCovers
<1> QED
  BY <1>1, <1>2, <1>3 DEF Listed, EntryCovers

(* ... and so does stretching the last entry to the end of the descriptor,  *)
(* which starts where that entry ends.                                      *)
LEMMA MergeCoverage ==
  ASSUME TranslateTypeOK, Merge, NEW a \in Nat, NEW t
  PROVE  Listed(a, t)' <=> (Listed(a, t) \/ (E820Type(d.type) = t /\ DescCovers(d, a)))
<1> DEFINE n == Len(out)
<1>1. /\ d \in Descriptors /\ n \in 1..n /\ Len(out') = n
      /\ \A k \in 1..n :
           /\ out[k] \in Entries
           /\ out'[k].addr = out[k].addr /\ out'[k].type = out[k].type
           /\ out'[k].size = IF k = n THEN out[k].size + Bytes(d.pages) ELSE out[k].size
  BY MergeTable
<1>2. out[n].type = E820Type(d.type) /\ out[n].addr + out[n].size = d.start
  BY DEF Merge, Mergeable
<1>3. d.start \in Nat /\ Bytes(d.pages) \in Nat
  BY <1>1 DEF Descriptors, Bytes
<1>4. out[n].addr \in Nat /\ out[n].size \in Nat
  BY <1>1 DEF Entries
<1>5. EntryCovers(out'[n], a) <=> (EntryCovers(out[n], a) \/ DescCovers(d, a))
  <2>1. out'[n].addr = out[n].addr /\ out'[n].size = out[n].size + Bytes(d.pages)
    BY <1>1
  <2> HIDE DEF n
  <2>2. /\ EntryCovers(out'[n], a) <=>
             out[n].addr <= a /\ a < out[n].addr + (out[n].size + Bytes(d.pages))
        /\ DescCovers(d, a) <=>
             out[n].addr + out[n].size <= a /\ a < (out[n].addr + out[n].size) + Bytes(d.pages)
    BY <2>1, <1>2 DEF EntryCovers, DescCovers
  <2> QED
    BY <2>2, <1>3, <1>4 DEF EntryCovers
<1>6. \A k \in 1..n : k # n => (EntryCovers(out'[k], a) <=> EntryCovers(out[k], a))
  BY <1>1 DEF EntryCovers
<1>7. \A k \in 1..n : out'[k].type = out[k].type
  BY <1>1
<1> HIDE DEF n
<1>8. (\E k \in 1..n : out'[k].type = t /\ EntryCovers(out'[k], a)) <=>
        \/ \E k \in 1..n : out[k].type = t /\ EntryCovers(out[k], a)
        \/ E820Type(d.type) = t /\ DescCovers(d, a)
  BY <1>1, <1>2, <1>5, <1>6, <1>7
<1> QED
  BY <1>1, <1>8 DEF n, Listed, EntryCovers

LEMMA NextCoverage == TranslateIInv /\ [TranslateNext]_translateVars => Coverage'
<1> SUFFICES ASSUME TranslateIInv, [TranslateNext]_translateVars, NEW a \in Addresses, NEW t \in E820Types
             PROVE  Listed(a, t)' <=> Described(a, t)'
  BY DEF Coverage
<1>0. TranslateTypeOK /\ (Listed(a, t) <=> Described(a, t)) /\ a \in Nat /\ t # "none"
  BY AddressesAssumption DEF TranslateIInv, Coverage, E820Types
<1>1. CASE Skip
  <2>1. Described(a, t)' <=> Described(a, t)
    BY <1>0, <1>1, DescribedNext DEF Skip
  <2>2. Listed(a, t)' <=> Listed(a, t)
    BY <1>1 DEF Skip, Listed, EntryCovers
  <2> QED
    BY <1>0, <2>1, <2>2
<1>2. CASE AddEntry
  <2>1. Translating /\ UNCHANGED inputs /\ i' = i + 1
    BY <1>2 DEF AddEntry
  <2> QED
    BY <1>0, <1>2, <2>1, AddEntryCoverage, DescribedNext
<1>3. CASE Merge
  <2>1. Translating /\ UNCHANGED inputs /\ i' = i + 1
    BY <1>3 DEF Merge
  <2> QED
    BY <1>0, <1>3, <2>1, MergeCoverage, DescribedNext
<1>4. CASE TooSmall \/ Finish \/ UNCHANGED translateVars
  <2>1. UNCHANGED <<descs, i, out>>
    BY <1>4, InputsUnchanged DEF TooSmall, Finish, add_e820ext, translateVars
  <2> QED
    BY <1>0, <2>1 DEF Listed, Described, EntryCovers, DescCovers
<1> QED
  BY <1>1, <1>2, <1>3, <1>4 DEF TranslateNext

LEMMA TranslateNextIInv == TranslateIInv /\ [TranslateNext]_translateVars => TranslateIInv'
<1> SUFFICES ASSUME TranslateIInv, [TranslateNext]_translateVars PROVE TranslateIInv'
  OBVIOUS
<1>1. TranslateTypeOK'
  BY TranslateNextTypeOK DEF TranslateIInv
<1> QED
  BY <1>1, NextRoom, NextLink, NextSlack, NextNeighbours, NextCoverage DEF TranslateIInv

LEMMA TranslateInductive == TranslateSpec => []TranslateIInv
BY TranslateInitIInv, TranslateNextIInv, PTL DEF TranslateSpec

-----------------------------------------------------------------------------
(* The table gives every address exactly the types the memory map gives it. *)
THEOREM CoverageCorrect == TranslateSpec => []Coverage
BY TranslateInductive, PTL DEF TranslateIInv

(* No neighbouring entries of the table could be one.                       *)
THEOREM NeighboursMerged == TranslateSpec => []NoMergeableNeighbours
BY TranslateInductive, PTL DEF TranslateIInv

(* The slack is enough: 128 entries, 32 spare slots and structures of 20,   *)
(* 16 and 123 bytes satisfy TableAssumption, so a final map of at most 32   *)
(* descriptors more than the one measured is always translated.             *)
THEOREM SlackIsEnough == TranslateSpec => []SlackSuffices
BY TranslateInductive, PTL DEF TranslateIInv

(* No entry is written past the end of e820ext, whatever it was sized for   *)
(* and however far the map has grown since.                                 *)
THEOREM ExtNeverOverrun == TranslateSpec => []ExtFits
<1>1. TranslateIInv => ExtFits
  <2> SUFFICES ASSUME TranslateIInv, Len(out) > ZP PROVE 16 + 20 * (Len(out) - ZP) <= ExtSize
    BY DEF ExtFits
  <2>1. TranslateTypeOK /\ RoomInv
    BY DEF TranslateIInv
  <2>2. /\ Len(descs) \in Nat /\ Len(out) \in Nat /\ i \in Nat /\ i <= Len(descs)
        /\ ZP \in Nat /\ ExtSize \in Nat
    BY <2>1, Numbers
  <2> QED
    BY <2>1, <2>2 DEF RoomInv
<1> QED
  BY <1>1, TranslateInductive, PTL

(* With the two counts it is given the kernel reads the whole table.        *)
LEMMA KernelReadsTable == TranslateIInv => KernelReadsAll
<1> SUFFICES ASSUME TranslateIInv, status = "success" PROVE KernelTable = out
  BY DEF KernelReadsAll
<1>1. TranslateTypeOK /\ LinkInv /\ out \in Seq(Entries)
  BY DEF TranslateIInv, TranslateTypeOK, TableOK
<1>2. Len(out) \in Nat /\ ZP \in Nat
  BY <1>1, Numbers
<1>3. CASE Len(out) > ZP
  <2>1. e820_entries = ZP /\ setup_data = <<Len(out) - ZP>>
    BY <1>1, <1>3 DEF LinkInv
  <2>2. setup_data # <<>> /\ ZP + setup_data[1] = Len(out)
    BY <1>2, <2>1
  <2>3. KernelTable = SubSeq(out, 1, ZP) \o SubSeq(out, ZP + 1, Len(out))
    BY <2>1, <2>2 DEF KernelTable
  <2>4. SubSeq(out, 1, ZP) \o SubSeq(out, ZP + 1, Len(out)) = SubSeq(out, 1, Len(out))
    <3>1. 1 \in 1..Len(out) + 1 /\ ZP \in 1 - 1..Len(out) /\ Len(out) \in ZP..Len(out)
      BY <1>2, <1>3
    <3> QED
      BY <1>1, <3>1, ConcatAdjacentSubSeq, Zenon
  <2> QED
    BY <1>1, <2>3, <2>4, SubSeqFull
<1>4. CASE Len(out) <= ZP
  <2>1. e820_entries = Len(out) /\ setup_data = <<>>
    BY <1>1, <1>2, <1>4 DEF LinkInv
  <2>2. KernelTable = SubSeq(out, 1, Len(out)) \o <<>>
    BY <2>1 DEF KernelTable
  <2>3. SubSeq(out, 1, Len(out)) = out
    BY <1>1, SubSeqFull
  <2> QED
    BY <1>1, <2>2, <2>3, ConcatEmptySeq
<1> QED
  BY <1>2, <1>3, <1>4

(* The kernel reads, in order, exactly the entries that were written.       *)
THEOREM KernelReads == TranslateSpec => []KernelReadsAll
BY KernelReadsTable, TranslateInductive, PTL

-----------------------------------------------------------------------------
(* Part 3, the two together (Handover).                                     *)

(* The first half is ExitBs: the translation leaves its variables alone.    *)
LEMMA HandoverIsExitBs == HandoverSpec => Spec
<1>1. HandoverInit => Init
  BY DEF HandoverInit
<1>2. [HandoverNext]_allVars => [Next]_vars
  BY DEF HandoverNext, TakeOverStep, TranslateStep, allVars
<1> QED
  BY <1>1, <1>2, PTL DEF HandoverSpec, Spec

(* So with the translation behind it the take-over is still one instant at  *)
(* which boot services end with the kernel's map equal to the firmware's,   *)
(* and after which it cannot fail.                                          *)
THEOREM HandoverImplements == HandoverSpec => ImplementsHandover
BY HandoverIsExitBs, Refinement

-----------------------------------------------------------------------------
(* The inductive invariant.                                                 *)

(* e820ext is allocated only after the map was counted, and only for a      *)
(* count that calls for it.                                                 *)
ExtForInv ==
  extFor # 0 => pc \in ExitPhase \cup {"failed"} /\ NeedsExtension(nrDesc)

(* Nothing is translated before boot services are over and efi_info is      *)
(* written; from then on the loop's own invariant holds.                    *)
LoopInv ==
  /\ pc # "handed_over" => LoopInit
  /\ pc = "handed_over" => TranslateIInv

HandoverIInv == IInv /\ ExtForInv /\ LoopInv

(* The map the loop reads is the one boot services ended with.              *)
LEMMA FinalDescs == ASSUME IInv, pc = "handed_over" PROVE descs = fwMap /\ InputsOK
<1>1. efiInfo = [map |-> fwMap, size |-> Len(fwMap)] /\ fwMap \in Seq(Descriptors)
  BY MapsAssumption DEF IInv, HandedOver, TypeOK, FirmwareTypeOK
<1>2. descs = fwMap
  BY <1>1, SubSeqFull DEF descs
<1> QED
  BY <1>1, <1>2 DEF InputsOK, IInv, TypeOK, SizesTypeOK

LEMMA HandoverInitIInv == HandoverInit => HandoverIInv
<1> SUFFICES ASSUME HandoverInit PROVE HandoverIInv
  OBVIOUS
<1>1. IInv
  BY InitIInv DEF HandoverInit
<1>2. ExtForInv /\ LoopInv
  BY DEF HandoverInit, Init, ExtForInv, LoopInv
<1> QED
  BY <1>1, <1>2 DEF HandoverIInv

(* Only E820Fetch sets nr_desc, before the extension, and only E820Ext      *)
(* allocates it.                                                            *)
LEMMA NextExtFor == IInv /\ ExtForInv /\ [Next]_vars => ExtForInv'
<1> SUFFICES ASSUME IInv, ExtForInv, [Next]_vars PROVE ExtForInv'
  OBVIOUS
<1> USE DEF ExtForInv, ExitPhase, NeedsExtension, Goto, Fail, e820Vars
<1>1. CASE E820Ext
  BY <1>1 DEF E820Ext, ExtEntries
<1>2. CASE E820Query \/ E820Malloc \/ E820Fetch
  BY <1>2 DEF E820Query, QueryFails, E820Malloc, MallocMemmap, E820Fetch
<1>3. CASE ExitQuery \/ ExitMalloc \/ ExitFetch \/ RetryFetch
  BY <1>3 DEF ExitQuery, QueryFails, ExitMalloc, MallocMemmap, ExitFetch, RetryFetch, FetchMap
<1>4. CASE ExitCall \/ RetryCall \/ Populate
  BY <1>4 DEF ExitCall, RetryCall, Exits, Populate, populate_bootparams_efi
<1>5. CASE FirmwareEvent \/ UNCHANGED vars
  BY <1>5 DEF FirmwareEvent, vars
<1> QED
  BY <1>1, <1>2, <1>3, <1>4, <1>5 DEF Next, LoaderStep

(* Nothing happens to the loader's half once the map is handed over.        *)
LEMMA HandedOverIsLast == IInv /\ pc = "handed_over" /\ [Next]_vars => UNCHANGED vars
BY DEF IInv, ServicesInv, Next, LoaderStep, E820Query, E820Malloc, E820Fetch, E820Ext,
        ExitQuery, ExitMalloc, ExitFetch, ExitCall, RetryFetch, RetryCall, Populate,
        FirmwareEvent, QueryFails, MallocMemmap, FetchMap, Exits, Goto, Fail

(* At Populate the loop starts on what efi_info describes.                  *)
LEMMA LoopStarts == (InputsOK /\ LoopInit)' => TranslateIInv'
BY LoopInitIInv, PTL
LEMMA FinalInputs == (IInv /\ pc = "handed_over")' => InputsOK'
<1>1. IInv /\ pc = "handed_over" => InputsOK
  BY FinalDescs
<1> QED
  BY <1>1, PTL

LEMMA HandoverNextIInv == HandoverIInv /\ [HandoverNext]_allVars => HandoverIInv'
<1> SUFFICES ASSUME HandoverIInv, [HandoverNext]_allVars PROVE HandoverIInv'
  OBVIOUS
<1>1. IInv /\ ExtForInv /\ LoopInv
  BY DEF HandoverIInv
<1>2. [Next]_vars
  BY DEF HandoverNext, TakeOverStep, TranslateStep, allVars
<1>3. IInv' /\ ExtForInv'
  BY <1>1, <1>2, NextIInv, NextExtFor
<1>4. LoopInv'
  <2>1. CASE pc # "handed_over"
    <3>1. LoopInit'
      BY <1>1, <2>1 DEF LoopInv, LoopInit, HandoverNext, TakeOverStep, TranslateStep,
                        allVars, loopVars
    <3>2. pc' = "handed_over" => TranslateIInv'
      BY <1>3, <3>1, LoopStarts, FinalInputs
    <3> QED
      BY <3>1, <3>2 DEF LoopInv
  <2>2. CASE pc = "handed_over"
    <3>1. UNCHANGED vars /\ TranslateIInv
      BY <1>1, <1>2, <2>2, HandedOverIsLast DEF LoopInv
    <3>2. [TranslateNext]_translateVars
      BY <3>1 DEF HandoverNext, TakeOverStep, TranslateStep, allVars, vars, loopVars,
                  translateVars
    <3>3. TranslateIInv' /\ pc' = pc
      BY <3>1, <3>2, TranslateNextIInv DEF vars
    <3> QED
      BY <2>2, <3>3 DEF LoopInv
  <2> QED
    BY <2>1, <2>2
<1> QED
  BY <1>3, <1>4 DEF HandoverIInv

LEMMA HandoverInductive == HandoverSpec => []HandoverIInv
BY HandoverInitIInv, HandoverNextIInv, PTL DEF HandoverSpec

-----------------------------------------------------------------------------
(* The table the kernel reads gives every address the types that the map at *)
(* the end of boot services gives it: through a firmware that changes its   *)
(* map at any call, a retried exit, a table that leaves the zero page and   *)
(* entries that are merged, nothing is lost and nothing made up.            *)
THEOREM FinalMapSeen == HandoverSpec => []KernelSeesFinalMap
<1>1. HandoverIInv => KernelSeesFinalMap
  <2> SUFFICES ASSUME HandoverIInv, status = "success",
                      NEW a \in Addresses, NEW t \in E820Types
               PROVE  (\E k \in 1..Len(KernelTable) :
                         KernelTable[k].type = t /\ EntryCovers(KernelTable[k], a))
                      <=> (\E j \in 1..Len(fwMap) :
                             E820Type(fwMap[j].type) = t /\ DescCovers(fwMap[j], a))
    BY DEF KernelSeesFinalMap
  <2>1. pc = "handed_over" /\ TranslateIInv /\ IInv
    BY DEF HandoverIInv, LoopInv, LoopInit
  <2>2. descs = fwMap /\ i = Len(descs) /\ KernelTable = out
    BY <2>1, FinalDescs, KernelReadsTable DEF TranslateIInv, LinkInv, KernelReadsAll
  <2>3. Listed(a, t) <=> Described(a, t)
    BY <2>1 DEF TranslateIInv, Coverage
  <2> QED
    BY <2>2, <2>3 DEF Listed, Described
<1> QED
  BY <1>1, HandoverInductive, PTL

(* A loader that has ended boot services gives up only if the map grew by   *)
(* more than the slack since wboot_allocate_e820 counted it: then and only  *)
(* then the check of wboot_translate_memmap can fail.                       *)
THEOREM FailureOnlyPastSlack == HandoverSpec => []FailsAfterExitOnlyPastSlack
<1>1. HandoverIInv => FailsAfterExitOnlyPastSlack
  <2> SUFFICES ASSUME HandoverIInv, status = "buffer_too_small"
               PROVE  ~(Len(descs) <= nrDesc + EFI_MMAP_NR_SLACK_SLOTS) /\ descs = fwMap
    <3>1. HandoverIInv => /\ Len(fwMap) \in Nat /\ nrDesc \in Nat
                          /\ EFI_MMAP_NR_SLACK_SLOTS \in Nat
      BY MapLength, SizesAssumption
         DEF HandoverIInv, IInv, TypeOK, FirmwareTypeOK, SizesTypeOK
    <3> QED
      BY <3>1 DEF FailsAfterExitOnlyPastSlack
  <2> SUFFICES ASSUME Len(descs) <= nrDesc + EFI_MMAP_NR_SLACK_SLOTS PROVE FALSE
    BY FinalDescs DEF HandoverIInv, LoopInv, LoopInit
  <2> USE DEF ZP
  <2>1. pc = "handed_over" /\ TranslateIInv /\ IInv /\ ExtForInv
    BY DEF HandoverIInv, LoopInv, LoopInit
  <2>2. descs = fwMap /\ Len(descs) \in Nat /\ nrDesc \in Nat /\ extFor \in Nat
    BY <2>1, FinalDescs, Numbers DEF TranslateIInv, IInv, TypeOK, SizesTypeOK
  <2>3. EFI_MMAP_NR_SLACK_SLOTS \in Nat /\ ZP \in Nat
    BY TableAssumption
  <2>4. \A n \in 0..(Len(descs) + extFor) :
          AllocatedFor(n) => Len(descs) > n + EFI_MMAP_NR_SLACK_SLOTS
    BY <2>1, <2>2, <2>3 DEF TranslateIInv, SlackSuffices
  <2>5. CASE NeedsExtension(nrDesc)
    <3>1. extFor = nrDesc
      BY <2>1, <2>5 DEF IInv, ExtInv, ExitPhase
    <3>2. AllocatedFor(nrDesc) /\ nrDesc \in 0..(Len(descs) + extFor)
      BY <2>2, <2>3, <2>5, <3>1 DEF AllocatedFor, NeedsExtension
    <3> QED
      BY <2>2, <2>3, <2>4, <3>2
  <2>6. CASE ~NeedsExtension(nrDesc)
    <3>1. extFor = 0 /\ nrDesc <= ZP - EFI_MMAP_NR_SLACK_SLOTS
      BY <2>1, <2>2, <2>3, <2>6 DEF ExtForInv, NeedsExtension
    <3>2. CASE nrDesc <= Len(descs)
      <4>1. AllocatedFor(nrDesc) /\ nrDesc \in 0..(Len(descs) + extFor)
        BY <2>2, <2>3, <3>1, <3>2 DEF AllocatedFor
      <4> QED
        BY <2>2, <2>3, <2>4, <4>1
    <3>3. CASE nrDesc > Len(descs)
      <4>1. AllocatedFor(Len(descs)) /\ Len(descs) \in 0..(Len(descs) + extFor)
        BY <2>2, <2>3, <3>1, <3>3 DEF AllocatedFor
      <4> QED
        BY <2>2, <2>3, <2>4, <4>1
    <3> QED
      BY <2>2, <3>2, <3>3
  <2> QED
    BY <2>5, <2>6
<1> QED
  BY <1>1, HandoverInductive, PTL
==============================================================================
