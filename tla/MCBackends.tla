----------------------------- MODULE MCBackends -----------------------------
(* Instances of Backends for TLC.                                          *)
EXTENDS Backends

CONSTANTS n1, v1, v2

MCPlaces == 1..2

\* Both names map to one environment-style key.
MCEnvKey == [n \in Names |-> 1]
MCRemote == [n \in Names |-> IF n = n1 THEN 1 ELSE 2]

\* One value fits an entry of the credential store, the others take two.
MCChunksOf == [v \in Values |-> IF v = v1 THEN 1 ELSE 2]

\* Only the keychain tells two values of the same layout from one.
MCOffers == [k \in Kinds |-> IF k = "keychain" THEN Values ELSE {v1, v2} \cap Values]

\* The backends whose calls take most steps are given one call less.
MCMaxCalls == [k \in Kinds |-> IF k \in {"agevault", "keychain"} THEN 2 ELSE 3]

\* One call for each of three processes.
MCThreeCalls == [k \in Kinds |-> 3]
============================================================================
