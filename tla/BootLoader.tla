----------------------------- MODULE BootLoader ------------------------------
(***************************************************************************)
(* What a boot loader promises, without its calls: it gathers what the     *)
(* kernel needs while the firmware runs the machine, takes the machine     *)
(* over once all of that is in place, completes the memory map, and enters *)
(* the kernel with everything ready.  Until it has taken over it may give  *)
(* the machine back; afterwards a failure leaves the machine to no one.    *)
(***************************************************************************)
CONSTANTS
  Needs,  \* what the kernel needs
  Late    \* those of them that exist only once the firmware has ended

VARIABLES
  machine,  \* who runs it: "firmware", "loader", "kernel", "returned" or "nobody"
  ready     \* the parts of Needs that are in place

vars == <<machine, ready>>

Init == machine = "firmware" /\ ready = {}

Gather ==
  /\ machine = "firmware"
  /\ \E part \in SUBSET (Needs \ Late) : ready' = ready \cup part
  /\ UNCHANGED machine

GiveBack ==
  /\ machine = "firmware"
  /\ machine' = "returned"
  /\ UNCHANGED ready

TakeOver ==
  /\ machine = "firmware"
  /\ Needs \ Late \subseteq ready
  /\ machine' = "loader"
  /\ \E part \in SUBSET Late : ready' = ready \cup part

Complete ==
  /\ machine = "loader"
  /\ \E part \in SUBSET Late : ready' = ready \cup part
  /\ UNCHANGED machine

Enter ==
  /\ machine = "loader"
  /\ ready = Needs
  /\ machine' = "kernel"
  /\ UNCHANGED ready

Strand ==
  /\ machine = "loader"
  /\ machine' = "nobody"
  /\ UNCHANGED ready

Next == Gather \/ GiveBack \/ TakeOver \/ Complete \/ Enter \/ Strand

Spec == Init /\ [][Next]_vars
==============================================================================
