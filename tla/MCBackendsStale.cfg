\* Three processes share a vault: one dies while it holds the lock, the others find it stale.
CONSTANTS
    n1 = n1
    v1 = v1
    v2 = v2
    Workers = {w1, w2, w3}
    Names = {n1}
    Values = {v1}
    Earlier = {}
    Absent = Absent
    Mixed = Mixed
    Kinds = {"agevault"}
    Shared = {"agevault"}
    Places <- MCPlaces
    EnvKey <- MCEnvKey
    Remote <- MCRemote
    Attempts = 2
    NoKey = NoKey
    OldKey = OldKey
    Tries = 0
    Stalls = FALSE
    Together = FALSE
    ChunksOf <- MCChunksOf
    MaxChunks = 2
    Alike = {}
    MaxCalls <- MCThreeCalls
    Offers <- MCOffers
SPECIFICATION Spec
CHECK_DEADLOCK FALSE
INVARIANT OneWriter
