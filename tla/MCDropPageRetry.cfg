\* One page for one slot, as in MCDropPage; a wrong password and the countdown.
CONSTANTS
    Ids = {i1}
    Link = i1
    Sizes = {1}
    TTLs = {1, 2}
    Grace = 1
    MaxPolls = 2
    Skews = {0}
    Horizon = 4
SPECIFICATION PageSpec
CHECK_DEADLOCK FALSE
INVARIANT RetryPossible
