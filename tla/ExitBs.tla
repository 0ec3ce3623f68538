------------------------------- MODULE ExitBs --------------------------------
(***************************************************************************)
(* wboot_allocate_e820 and wboot_exit_bs (src/phase3/wboot.c): the two     *)
(* functions that size and fetch the firmware's memory map around the end  *)
(* of boot services, against a firmware whose map changes under them: on   *)
(* every pool call of the loader, and from timer callbacks at any moment.  *)
(*                                                                         *)
(* One action is one call into the firmware with the code up to the next.  *)
(***************************************************************************)
EXTENDS BootParams

CONSTANT MaxKey  \* bound on the versions of the map

ASSUME SizesAssumption ==
  /\ E820_MAX_ENTRIES_ZEROPAGE \in Nat \ {0}
  /\ EFI_MMAP_NR_SLACK_SLOTS \in Nat
  /\ MaxKey \in Nat

VARIABLES
  (* the firmware *)
  fwKey,      \* version of its memory map, the MapKey of UEFI
  fwMap,      \* its memory map
  services,   \* "running", "closing" (a rejected ExitBootServices), "exited"
  quiet,      \* its callbacks stop with the first ExitBootServices call; never changes
  (* the loader *)
  pc,         \* the next call, or "handed_over" or "failed"
  failedAt,   \* the call that made the loader fail
  heap,       \* the pool blocks of these two functions that are live
  nrDesc,     \* nr_desc of wboot_allocate_e820
  bufferSize, \* buffer_size, capacity of the live memmap
  mapSize,    \* map_size
  mapKey,     \* map_key
  memmap,     \* the contents of the memmap buffer
  bsExited    \* _bs_exited of wstdlib

fwVars == <<fwKey, fwMap, services, quiet>>
e820Vars == <<nrDesc, extFor>>
bufVars == <<bufferSize, mapSize, mapKey, memmap>>
outVars == <<bsExited, efiInfo>>
vars == <<fwKey, fwMap, services, quiet, pc, failedAt, heap, nrDesc, extFor,
          bufferSize, mapSize, mapKey, memmap, bsExited, efiInfo>>

Calls == {"e820_query", "e820_malloc", "e820_fetch", "e820_ext",
          "exit_query", "exit_malloc", "exit_fetch", "exit_call",
          "retry_fetch", "retry_call", "populate"}

Init ==
  /\ fwKey = 1
  /\ fwMap \in Maps
  /\ services = "running"
  /\ quiet \in BOOLEAN
  /\ pc = "e820_query"
  /\ failedAt = "none"
  /\ heap = {}
  /\ nrDesc = 0 /\ extFor = 0
  /\ bufferSize = 0 /\ mapSize = 0 /\ mapKey = 0 /\ memmap = <<>>
  /\ bsExited = FALSE
  /\ efiInfo = [map |-> <<>>, size |-> 0]

-----------------------------------------------------------------------------
(* The firmware.                                                            *)

NewVersion ==
  /\ fwKey < MaxKey
  /\ fwKey' = fwKey + 1
  /\ fwMap' \in Maps

(* A new version of the map, or none: what any allocator call may do.       *)
NewMap == NewVersion /\ UNCHANGED <<services, quiet>>

MapMayChange == NewMap \/ UNCHANGED fwVars

(* A timer or device callback of the firmware allocates or frees memory.    *)
FirmwareEvent ==
  /\ services = "running" \/ (services = "closing" /\ ~quiet)
  /\ NewMap
  /\ UNCHANGED <<pc, failedAt, heap, e820Vars, bufVars, outVars>>

(* ExitBootServices(key) is accepted only for the current version.          *)
KeyAccepted(k) == k = fwKey

-----------------------------------------------------------------------------
(* Sizes the code computes.                                                 *)

(* buffer_size = map_size + desc_size * 32                                  *)
BufferFor(size) == size + EFI_MMAP_NR_SLACK_SLOTS

(* The map may need more than the zero page's e820 table.                   *)
EagerExtension(n) == n > E820_MAX_ENTRIES_ZEROPAGE
NeedsExtension(n) == n > E820_MAX_ENTRIES_ZEROPAGE - EFI_MMAP_NR_SLACK_SLOTS

(* e820ext has room for every descriptor of the map, not for the excess.    *)
ExcessEntries(n) == n - E820_MAX_ENTRIES_ZEROPAGE - EFI_MMAP_NR_SLACK_SLOTS
ExtEntries(n) == n

(* The size wboot_exit_bs passes to the first and to the second fetch.      *)
FirstCapacity == mapSize
OverRetryCapacity == bufferSize + EFI_MMAP_NR_SLACK_SLOTS
StaleRetryCapacity == mapSize
RetryCapacity == bufferSize

-----------------------------------------------------------------------------
(* Steps of the loader.                                                     *)

Goto(from, to) == pc = from /\ pc' = to /\ UNCHANGED failedAt

Fail(from) == pc = from /\ pc' = "failed" /\ failedAt' = from

(* GetMemoryMap(&map_size = 0, NULL) must answer BUFFER_TOO_SMALL with the  *)
(* size of the map; any other answer makes the caller return.               *)
QueryFails(from) ==
  /\ Fail(from)
  /\ UNCHANGED <<fwVars, heap, e820Vars, bufVars, outVars>>

E820Query ==
  \/ /\ Goto("e820_query", "e820_malloc")
     /\ mapSize' = Len(fwMap)
     /\ bufferSize' = BufferFor(Len(fwMap))
     /\ UNCHANGED <<fwVars, heap, e820Vars, mapKey, memmap, outVars>>
  \/ QueryFails("e820_query")

(* malloc(buffer_size) for the map, in either function.                     *)
MallocMemmap(from, to) ==
  /\ MapMayChange
  /\ \/ /\ Goto(from, to)
        /\ heap' = heap \cup {"memmap"}
        /\ memmap' = <<>>
     \/ /\ Fail(from)
        /\ UNCHANGED <<heap, memmap>>
  /\ UNCHANGED <<e820Vars, bufferSize, mapSize, mapKey, outVars>>

E820Malloc == MallocMemmap("e820_malloc", "e820_fetch")

(* wboot_allocate_e820 sets map_size = buffer_size first; it asks for no    *)
(* map key.  A failed fetch frees the buffer.                               *)
E820Fetch ==
  \/ /\ Len(fwMap) <= bufferSize
     /\ Goto("e820_fetch", "e820_ext")
     /\ memmap' = fwMap
     /\ mapSize' = Len(fwMap)
     /\ nrDesc' = Len(fwMap)
     /\ UNCHANGED <<fwVars, heap, extFor, bufferSize, mapKey, outVars>>
  \/ /\ Len(fwMap) > bufferSize
     /\ Fail("e820_fetch")
     /\ MapMayChange
     /\ heap' = heap \ {"memmap"}
     /\ UNCHANGED <<e820Vars, bufVars, outVars>>

(* malloc(e820ext) when it is needed, then free(memmap) on either result.   *)
E820Ext ==
  /\ pc = "e820_ext"
  /\ MapMayChange
  /\ \/ /\ ~NeedsExtension(nrDesc)
        /\ Goto("e820_ext", "exit_query")
        /\ heap' = heap \ {"memmap"}
        /\ UNCHANGED extFor
     \/ /\ NeedsExtension(nrDesc)
        /\ Goto("e820_ext", "exit_query")
        /\ heap' = (heap \cup {"e820ext"}) \ {"memmap"}
        /\ extFor' = ExtEntries(nrDesc)
     \/ /\ NeedsExtension(nrDesc)
        /\ Fail("e820_ext")
        /\ heap' = heap \ {"memmap"}
        /\ UNCHANGED extFor
  /\ UNCHANGED <<nrDesc, bufVars, outVars>>

ExitQuery ==
  \/ /\ Goto("exit_query", "exit_malloc")
     /\ mapSize' = Len(fwMap)
     /\ bufferSize' = BufferFor(Len(fwMap))
     /\ mapKey' = fwKey
     /\ UNCHANGED <<fwVars, heap, e820Vars, memmap, outVars>>
  \/ QueryFails("exit_query")

ExitMalloc == MallocMemmap("exit_malloc", "exit_fetch")

(* GetMemoryMap(&map_size, memmap, &map_key) with room for capacity.        *)
FetchMap(from, to, capacity) ==
  \/ /\ Len(fwMap) <= capacity
     /\ Goto(from, to)
     /\ memmap' = fwMap
     /\ mapSize' = Len(fwMap)
     /\ mapKey' = fwKey
     /\ UNCHANGED <<fwVars, heap, e820Vars, bufferSize, outVars>>
  \/ /\ Len(fwMap) > capacity
     /\ Fail(from)
     /\ MapMayChange
     /\ heap' = heap \ {"memmap"}
     /\ UNCHANGED <<e820Vars, bufVars, outVars>>

(* The first fetch still has the map_size of the size query.                *)
ExitFetch == FetchMap("exit_fetch", "exit_call", FirstCapacity)

(* ExitBootServices(ImageHandle, map_key).                                  *)
Exits(from) ==
  /\ KeyAccepted(mapKey)
  /\ Goto(from, "populate")
  /\ services' = "exited"
  /\ UNCHANGED <<fwKey, fwMap, quiet, heap, e820Vars, bufVars, outVars>>

(* A rejected first call leaves the firmware partly shut down, and the      *)
(* handlers it notified may have changed the map; the code tries again.     *)
ExitCall ==
  \/ Exits("exit_call")
  \/ /\ ~KeyAccepted(mapKey)
     /\ Goto("exit_call", "retry_fetch")
     /\ services' = "closing"
     /\ NewVersion \/ UNCHANGED <<fwKey, fwMap>>
     /\ UNCHANGED <<quiet, heap, e820Vars, bufVars, outVars>>

(* The key is refreshed and the copy of the map is not.                     *)
KeyOnlyRetryFetch ==
  /\ Goto("retry_fetch", "retry_call")
  /\ mapKey' = fwKey
  /\ UNCHANGED <<fwVars, heap, e820Vars, bufferSize, mapSize, memmap, outVars>>

(* The copy is refreshed and the key is not.                                *)
StaleKeyRetryFetch ==
  /\ Len(fwMap) <= RetryCapacity
  /\ Goto("retry_fetch", "retry_call")
  /\ memmap' = fwMap
  /\ mapSize' = Len(fwMap)
  /\ UNCHANGED <<fwVars, heap, e820Vars, bufferSize, mapKey, outVars>>

(* map_size = buffer_size this time.                                        *)
RetryFetch == FetchMap("retry_fetch", "retry_call", RetryCapacity)

(* Mutants: it keeps the buffer; it tries the rejected key for ever.       *)
LeakyRetryCall ==
  \/ Exits("retry_call")
  \/ /\ ~KeyAccepted(mapKey)
     /\ Fail("retry_call")
     /\ UNCHANGED <<fwVars, heap, e820Vars, bufVars, outVars>>
StubbornRetryCall ==
  \/ Exits("retry_call")
  \/ /\ ~KeyAccepted(mapKey)
     /\ Goto("retry_call", "retry_call")
     /\ UNCHANGED <<fwVars, heap, e820Vars, bufVars, outVars>>

(* A second rejection is final: free(memmap), return NULL.                  *)
RetryCall ==
  \/ Exits("retry_call")
  \/ /\ ~KeyAccepted(mapKey)
     /\ Fail("retry_call")
     /\ MapMayChange
     /\ heap' = heap \ {"memmap"}
     /\ UNCHANGED <<e820Vars, bufVars, outVars>>

(* boot_params.efi_info names the buffer and how much of it is the map.     *)
populate_bootparams_efi(size) == efiInfo' = [map |-> memmap, size |-> size]

(* wstdlib_bs_exited(), then populate_bootparams_efi().                     *)
Populate ==
  /\ Goto("populate", "handed_over")
  /\ bsExited' = TRUE
  /\ populate_bootparams_efi(mapSize)
  /\ UNCHANGED <<fwVars, heap, e820Vars, bufVars>>

LoaderStep ==
  \/ E820Query \/ E820Malloc \/ E820Fetch \/ E820Ext
  \/ ExitQuery \/ ExitMalloc \/ ExitFetch \/ ExitCall
  \/ RetryFetch \/ RetryCall \/ Populate

Next == LoaderStep \/ FirmwareEvent

Spec == Init /\ [][Next]_vars

(* The loader is the only thread of the machine and firmware callbacks      *)
(* return, so its next call is always made.                                 *)
FairSpec == Spec /\ WF_vars(LoaderStep)

-----------------------------------------------------------------------------
(* Properties.                                                              *)

(* Every variable has its type: what a buffer holds is a whole map of the   *)
(* firmware or nothing, and no size or count has wrapped below zero.        *)
FirmwareTypeOK ==
  /\ fwKey \in Nat
  /\ fwMap \in Maps
  /\ services \in {"running", "closing", "exited"}
  /\ quiet \in BOOLEAN
ControlTypeOK ==
  /\ pc \in Calls \cup {"handed_over", "failed"}
  /\ failedAt \in Calls \cup {"none"}
SizesTypeOK ==
  /\ nrDesc \in Nat /\ extFor \in Nat
  /\ bufferSize \in Nat /\ mapSize \in Nat /\ mapKey \in Nat
HeapTypeOK ==
  /\ heap \subseteq {"memmap", "e820ext"}
  /\ memmap \in Maps \cup {<<>>}
OutTypeOK ==
  /\ bsExited \in BOOLEAN
  /\ efiInfo \in [map : Maps \cup {<<>>}, size : Nat]
TypeOK == FirmwareTypeOK /\ ControlTypeOK /\ SizesTypeOK /\ HeapTypeOK /\ OutTypeOK

(* From the moment wboot_exit_bs gets ExitBootServices accepted, at the     *)
(* first or the second attempt, its buffer is allocated and holds the map   *)
(* boot services ended with, and map_size is the size of that map.          *)
FinalMap ==
  services = "exited" =>
    memmap = fwMap /\ mapSize = Len(fwMap) /\ "memmap" \in heap

(* When wboot_exit_bs returns the buffer, the boot parameters describe      *)
(* exactly the firmware's last map, boot services are over and wstdlib has  *)
(* been told so.                                                            *)
HandedOver ==
  pc = "handed_over" =>
    /\ services = "exited" /\ bsExited
    /\ efiInfo = [map |-> fwMap, size |-> Len(fwMap)]

(* GetMemoryMap never writes past the buffer: what wboot_exit_bs and        *)
(* wboot_allocate_e820 fetched fits what they allocated.                    *)
BufferNotOverrun == "memmap" \in heap => Len(memmap) <= bufferSize

(* Every error path of the two functions frees the map buffer, and so does  *)
(* the successful wboot_allocate_e820, before wboot_exit_bs makes its own.  *)
MemmapOwned ==
  pc \in {"failed", "exit_query", "exit_malloc"} => "memmap" \notin heap

(* The e820 extension exists whenever translation may need it: if the final *)
(* map has at most the slack more descriptors than wboot_allocate_e820 saw  *)
(* and still more than the zero page holds, e820ext was allocated.          *)
ExtReady ==
  /\ pc = "handed_over"
  /\ mapSize > E820_MAX_ENTRIES_ZEROPAGE
  /\ mapSize <= nrDesc + EFI_MMAP_NR_SLACK_SLOTS
  => "e820ext" \in heap /\ extFor = nrDesc

(* On a firmware whose timer callbacks stop with the first rejected         *)
(* ExitBootServices, the second attempt of wboot_exit_bs is never rejected: *)
(* it uses the key of the map it just fetched.                              *)
QuietRetryAccepted == quiet => failedAt # "retry_call"

(* A fetch of wboot_exit_bs fails only when the map outgrew the buffer it   *)
(* allocated with slack for that purpose.                                   *)
FailsOnlyPastSlack(call) == pc = call /\ pc' = "failed" => Len(fwMap) > bufferSize

(* The second fetch, after a rejected exit, can use all of the slack.       *)
SlackCoversRetryFetch == [][FailsOnlyPastSlack("retry_fetch")]_vars

(* "add some slack in case the memory map changes" (wboot.c:436) says the   *)
(* same of the first fetch.                                                 *)
SlackCoversFirstFetch == [][FailsOnlyPastSlack("exit_fetch")]_vars

(* The code implements the abstract handover: one instant at which services *)
(* end with the kernel's map equal to the firmware's, no failure after it.  *)
Outcome ==
  CASE pc = "handed_over" -> "handed_over"
    [] pc = "failed" -> "gave_up"
    [] OTHER -> "pending"

Handover == INSTANCE MapHandover WITH
  NoMap <- <<>>,
  key <- fwKey,
  map <- fwMap,
  services <- IF services = "exited" THEN "down" ELSE "up",
  kernelMap <- IF services = "exited" THEN memmap ELSE <<>>,
  outcome <- Outcome

ImplementsHandover == Handover!Spec
==============================================================================
