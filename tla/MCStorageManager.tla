-------------------------- MODULE MCStorageManager --------------------------
(* Instances of StorageManager for TLC.                                    *)
EXTENDS StorageManager

CONSTANT p1

\* Two goroutines of one process.
OneProcess == [w \in Workers |-> p1]
============================================================================
