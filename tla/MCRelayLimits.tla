--------------------------- MODULE MCRelayLimits ---------------------------
(* An instance of RelayLimits for TLC.                                     *)
EXTENDS RelayLimits, TLC

CONSTANTS x1, x2

Alike == Permutations(Requests) \cup Permutations(Clients)

\* Three a minute and one and a half, in halves.
Rates == [l \in Limiters |-> IF l = "page" THEN 6 ELSE 3]

\* Requests to the limiters, or five that meet the global limit only.
SomeQuotas ==
    {[k \in Kinds |-> CASE k = "page" -> p [] k = "agent" -> 3 - p [] k = "other" -> 0] : p \in 0..3}
    \cup {[k \in Kinds |-> IF k = "other" THEN 5 ELSE 0]}

\* Direct, behind one proxy, behind two.
SomeRoutes == {<<>>, <<x1>>, <<x1, x2>>}

\* Nothing, a client's address, something that is none, an address and a proxy's.
SomeForged ==
    {<<>>} \cup {<<a>> : a \in Clients \cup {Garbage}} \cup {<<c, x1>> : c \in Clients}

\* None, more than the longest lifetime, and a product that
\* wraps around to less than the shortest one.
SomeSeconds == {0, 7, 26}
============================================================================
