----------------------------- MODULE MCHandover ------------------------------
(* Handover on five maps, of 2, 6, 7, 8 and 15 descriptors, with a zero     *)
(* page of 7 entries and a slack of 1: the map may fit the zero page, need  *)
(* the extension within the slack, or outgrow it.  A descriptor that has no *)
(* e820 type and one that continues its neighbour are among them.           *)
EXTENDS Handover

Conventional(n) == [type |-> "EfiConventionalMemory", start |-> 8192 * n, pages |-> 1]
Runtime(n) == [type |-> "EfiRuntimeServicesData", start |-> 8192 * n, pages |-> 2]
Unknown(n) == [type |-> "EfiMaxMemoryType", start |-> 8192 * n, pages |-> 1]

Alternating(len) == [n \in 1..len |-> IF n % 3 = 0 THEN Runtime(n) ELSE Conventional(n)]

MCMaps == { Alternating(6), Alternating(8), Alternating(15),
            <<Runtime(1), Runtime(2)>>,
            Alternating(5) \o <<Runtime(6), Unknown(7)>> }

MCAddresses == {4096 * n : n \in 0..33}
==============================================================================
