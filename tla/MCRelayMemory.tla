--------------------------- MODULE MCRelayMemory ---------------------------
(***************************************************************************)
(* Instances of RelayMemory for TLC: identifiers and polls are model       *)
(* values, interchangeable in the safety run.                              *)
(***************************************************************************)
EXTENDS RelayMemory, TLC

Symmetry == Permutations(Ids) \cup Permutations(Polls)
============================================================================
