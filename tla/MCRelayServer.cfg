\* Two clients, room for one long poll; no symmetry, as liveness is checked.
CONSTANTS
    Ids = {i1}
    Polls = {p1, p2}
    Sizes = {1}
    TTLs = {1, 2}
    Grace = 1
    MaxLive = 1
    MaxBytes = 1
    Horizon = 3
    MaxWaiters = 1
SPECIFICATION ServerFairSpec
\* The clock is bounded and there is one identifier, so runs end.
CHECK_DEADLOCK FALSE
INVARIANT WaitersCounted
PROPERTIES AnswersGoForward EveryRequestAnswered EverySlotForgotten
