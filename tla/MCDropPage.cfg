\* One page for one slot, in a browser whose clock may be off; time for the slot to
\* expire and be forgotten.
CONSTANTS
    Ids = {i1}
    Link = i1
    Sizes = {1}
    TTLs = {1, 2}
    Grace = 1
    MaxPolls = 2
    Skews <- SomeSkews
    Horizon = 4
SPECIFICATION PageFairSpec
\* The clock is bounded and a page ends, so runs end.
CHECK_DEADLOCK FALSE
INVARIANT PageTrue
PROPERTIES EndStays PageSettles
