\* Two requests at a time of two clients with one agent key: three in all, or five
\* to routes without a limiter of their own, which is enough for one that reads the
\* clock early and takes a token late to matter.
CONSTANTS
    x1 = x1
    x2 = x2
    Requests = {r1, r2}
    Clients = {c1, c2}
    Proxies = {x1, x2}
    Garbage = Garbage
    Keys = {k1}
    NoKey = NoKey
    Modes = {TRUE, FALSE}
    PerMin <- Rates
    Unit = 2
    PerSec = 2
    Minute = 2
    Period = 1
    IdleTTL = 2
    Modulus = 256
    Second = 10
    MinTTL = 20
    DefaultTTL = 30
    MaxTTL = 60
    AbsoluteMaxTTL = 70
    MaxLongPoll = 30
    Seconds <- SomeSeconds
    Forged <- SomeForged
    Routes <- SomeRoutes
    Horizon = 4
    Quotas <- SomeQuotas
SPECIFICATION Spec
\* The clock and the number of requests are bounded.
SYMMETRY Alike
CHECK_DEADLOCK FALSE
INVARIANTS
    ForgottenIsFull
    GlobalBudget
    MeteredAsItself
    WithinLimits
