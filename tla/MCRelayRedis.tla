---------------------------- MODULE MCRelayRedis ----------------------------
(***************************************************************************)
(* Instances of RelayRedis for TLC.                                        *)
(***************************************************************************)
EXTENDS RelayRedis

CONSTANTS r1, r2

\* Clocks in step, and the clock of one replica ahead of Redis's.
InStep == [r \in Replicas |-> 0]
OneAhead == [r \in Replicas |-> IF r = r2 THEN 1 ELSE 0]
=============================================================================
