------------------------------ MODULE MCExitBs -------------------------------
(* ExitBs on four maps of 1 to 5 descriptors: against a slack of 1 and a    *)
(* zero page of 3 these cover a map that fits, one that fits by its slack,  *)
(* one that needs the extension and one that outgrows every buffer.         *)
EXTENDS ExitBs

Descriptor(n) == [type |-> "EfiConventionalMemory", start |-> 8192 * n, pages |-> 1]

MCMaps == { [n \in 1..len |-> Descriptor(n)] : len \in {1, 2, 3, 4, 5} }
==============================================================================
