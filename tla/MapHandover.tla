----------------------------- MODULE MapHandover -----------------------------
(***************************************************************************)
(* What the end of boot services has to look like from the outside.  The   *)
(* firmware owns a memory map and may replace it for as long as boot       *)
(* services run.  The loader takes the machine over in one step, and in    *)
(* that step the kernel's copy of the map is the firmware's last one.  A   *)
(* loader that gives up does so with boot services still available.        *)
(* ExitBs.tla implements this specification.                               *)
(***************************************************************************)
EXTENDS Naturals

CONSTANTS
  Maps,   \* the memory maps the firmware can have
  NoMap   \* what the kernel has before the handover

VARIABLES
  key,        \* names the version of the firmware's map
  map,        \* the firmware's map
  services,   \* boot services: "up" or "down"
  kernelMap,  \* the map the kernel will be given
  outcome     \* "pending", "handed_over" or "gave_up"

vars == <<key, map, services, kernelMap, outcome>>

TypeOK ==
  /\ key \in Nat
  /\ map \in Maps
  /\ services \in {"up", "down"}
  /\ kernelMap \in Maps \cup {NoMap}
  /\ outcome \in {"pending", "handed_over", "gave_up"}

Init ==
  /\ key \in Nat
  /\ map \in Maps
  /\ services = "up"
  /\ kernelMap = NoMap
  /\ outcome = "pending"

(* The firmware replaces its map; every replacement has a later key.  The  *)
(* loader may give up because of the call that replaced it.                *)
Change ==
  /\ services = "up"
  /\ key' \in Nat /\ key' > key
  /\ map' \in Maps
  /\ outcome' \in {outcome, "gave_up"}
  /\ UNCHANGED <<services, kernelMap>>

(* The loader ends boot services and has the map they ended with.          *)
TakeOver ==
  /\ services = "up"
  /\ outcome = "pending"
  /\ services' = "down"
  /\ kernelMap' = map
  /\ UNCHANGED <<key, map, outcome>>

(* The handover is complete.                                               *)
Finish ==
  /\ services = "down"
  /\ outcome = "pending"
  /\ outcome' = "handed_over"
  /\ UNCHANGED <<key, map, services, kernelMap>>

(* The loader fails, which it may only do while the firmware still runs.   *)
GiveUp ==
  /\ services = "up"
  /\ outcome = "pending"
  /\ outcome' = "gave_up"
  /\ UNCHANGED <<key, map, services, kernelMap>>

Next == Change \/ TakeOver \/ Finish \/ GiveUp

Spec == Init /\ [][Next]_vars
==============================================================================
