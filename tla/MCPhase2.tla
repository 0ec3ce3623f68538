------------------------------ MODULE MCPhase2 -------------------------------
(* Phase2 on every list of up to three volumes, with both files, one or     *)
(* none, and one list longer than the handles.                              *)
EXTENDS Phase2

MCVolumeLists ==
  UNION {[1..n -> SUBSET Files] : n \in 0..3} \cup {<<Files, Files, Files, Files>>}
==============================================================================
