\* Two goroutines of one process make three calls on two names.
CONSTANTS
    p1 = p1
    Processes = {p1}
    Workers = {w1, w2}
    ProcessOf <- OneProcess
    Names = {n1, n2}
    Values = {v1}
    Dates = {1, 2}
    None = None
    Horizon = 2
    MaxCalls = 3
SPECIFICATION Spec
\* The clock and the number of calls are bounded.
CHECK_DEADLOCK FALSE
INVARIANTS
    InStep
    ListFresh
