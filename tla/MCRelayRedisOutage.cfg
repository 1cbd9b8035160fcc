\* The relays are away for longer than the grace period while Redis stays up.
CONSTANTS
    r1 = r1
    r2 = r2
    Ids = {i1}
    Replicas = {r1}
    Offset <- InStep
    Ahead = 0
    Sizes = {2}
    TTLs = {1}
    Grace = 1
    MaxLive = 1
    MaxBytes = 2
    Batch = 1
    Outage = TRUE
    Horizon = 3
SPECIFICATION Spec
CHECK_DEADLOCK FALSE
INVARIANT LiveCounted
