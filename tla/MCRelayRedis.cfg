\* Two replicas, one with its clock ahead, sweep two slots while callers use them:
\* slots are expired for one replica and alive for the other, and a batch holds one
\* member.
CONSTANTS
    r1 = r1
    r2 = r2
    Ids = {i1, i2}
    Replicas = {r1, r2}
    Offset <- OneAhead
    Ahead = 1
    Sizes = {2}
    TTLs = {1}
    Grace = 1
    MaxLive = 1
    MaxBytes = 3
    Batch = 1
    Outage = FALSE
    Horizon = 3
SPECIFICATION FairSpec
\* The clock is bounded and identifiers are finitely many, so runs end.
CHECK_DEADLOCK FALSE
INVARIANTS
    LiveCounted
    BytesCounted
    ReadOnce
    Indexed
PROPERTIES ReplicaContract IndexesDrain
