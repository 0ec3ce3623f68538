------------------------------- MODULE MCE820 --------------------------------
(* E820 on memory maps of 1 to 16 descriptors, against a zero page of 7     *)
(* entries and a slack of 1 (the smallest zero page for which the code's    *)
(* own sizes make the slack enough).  The maps of up to 3 descriptors are   *)
(* free combinations; the longer ones start with 5 separate entries, so     *)
(* that what follows fills the zero page and crosses into e820ext.          *)
EXTENDS E820

Desc(type, start, pages) == [type |-> type, start |-> start, pages |-> pages]

(* Descriptor n of a map: it follows the one before it, or leaves a gap.    *)
Continued(n) == Desc("EfiConventionalMemory", 8192 * n, 2)
Separate(n) == Desc("EfiLoaderData", 8192 * n, 1)
OtherType(n) == Desc("EfiRuntimeServicesData", 8192 * n, 2)
Untyped(n) == Desc("EfiMaxMemoryType", 8192 * n, 2)

Kind(k, n) ==
  CASE k = 1 -> Continued(n) [] k = 2 -> Separate(n) [] k = 3 -> Untyped(n) [] k = 4 -> OtherType(n)

Free ==
  UNION {{[n \in 1..len |-> Kind(k[n], n)] : k \in [1..len -> 1..4]} : len \in 1..3}

Base == [n \in 1..5 |-> IF n % 2 = 0 THEN Separate(n) ELSE OtherType(n)]
Tails(len) == {[n \in 1..len |-> Kind(k[n], n + 5)] : k \in [1..len -> 1..3]}

(* Every remaining type of the switch, once.                                *)
OneOfEach == <<Desc("EfiACPIReclaimMemory", 0, 1), Desc("EfiACPIMemoryNVS", 4096, 1),
               Desc("EfiUnusableMemory", 8192, 1), Desc("EfiPersistentMemory", 12288, 2),
               Desc("EfiBootServicesCode", 20480, 1), Desc("EfiPalCode", 24576, 1)>>

(* Maps long enough to fill an e820ext made for 7 descriptors, and more.    *)
Long(len) == [n \in 1..len |-> Separate(n)]

MCMaps == Free \cup {Base \o s : s \in UNION {Tails(len) : len \in 3..5}}
                    \cup {OneOfEach}
                    \cup {Long(len) : len \in 13..16}
MCAddresses == {4096 * n : n \in 0..34} \cup {8191, 81919}
==============================================================================
