\* Every backend, two workers and two or three calls of theirs, from any content.
CONSTANTS
    n1 = n1
    v1 = v1
    v2 = v2
    Workers = {w1, w2}
    Names = {n1, n2}
    Values = {v1, v2, v3}
    Earlier = {v2}
    Absent = Absent
    Mixed = Mixed
    Kinds = {"doppler", "infisical", "vault", "aws", "gcp", "azure", "azure-purge", "bitwarden", "onepassword", "agevault", "dotenv", "keychain"}
    Shared = {"agevault", "vault", "aws", "gcp", "azure", "azure-purge"}
    Places <- MCPlaces
    EnvKey <- MCEnvKey
    Remote <- MCRemote
    Attempts = 2
    NoKey = NoKey
    OldKey = OldKey
    Tries = 2
    Stalls = FALSE
    Together = FALSE
    ChunksOf <- MCChunksOf
    MaxChunks = 2
    Alike = {v2, v3}
    MaxCalls <- MCMaxCalls
    Offers <- MCOffers
SPECIFICATION FairSpec
\* The number of calls is bounded.
CHECK_DEADLOCK FALSE
INVARIANTS
    OneWriter
    OneVariableEach
    ListTrue
    MixedTakesTwoFaults
PROPERTIES
    KeepsContract
    EveryCallEnds
