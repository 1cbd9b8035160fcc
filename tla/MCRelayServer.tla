--------------------------- MODULE MCRelayServer ---------------------------
(***************************************************************************)
(* Instances of RelayServer for TLC.                                       *)
(***************************************************************************)
EXTENDS RelayServer
============================================================================
