\* One operation and one slot: the submission is gone when the agent comes for it.
SPECIFICATION Spec
CONSTANTS
    i0 = i0
    Ids = {i0, i1}
    Names = {n1}
    SessionNames = {}
    Calls = {c1}
    MaxFailures = 1
    Past <- ValueThere
    None = None
INVARIANT ElsewhereTrue
CHECK_DEADLOCK FALSE
