\* Two slots that fill the store, two polls, a clock long enough for a slot to
\* be created, ended, expired and forgotten while another one lives.
CONSTANTS
    Ids = {i1, i2}
    Polls = {p1, p2}
    Sizes = {2}
    TTLs = {1, 2}
    Grace = 1
    MaxLive = 2
    MaxBytes = 3
    Horizon = 4
SPECIFICATION Spec
SYMMETRY Symmetry
\* The clock is bounded and identifiers are finitely many, so runs end.
CHECK_DEADLOCK FALSE
INVARIANTS
    LiveCounted
    BytesCounted
    NothingLeftBehind
    ReadOnce
    NoLostWakeup
    WokenWithNews
    EndScheduled
PROPERTY SlotContract
