---------------------------- MODULE RelayLimits ----------------------------
(***************************************************************************)
(* What a request passes before it reaches a store: the global rate limit  *)
(* and the origin check of the middleware, authentication, the limiter of  *)
(* its route, decoding and the limits on its durations (internal/relay/    *)
(* ratelimit.go, auth.go, config.go and the helpers of server.go).         *)
(*                                                                         *)
(* A rate is any positive number, so rates are counted in parts of one     *)
(* Unit-th.  A token bucket holds credit: every tick adds the rate, and a  *)
(* token costs Unit times the ticks of the rate's period.  Durations are   *)
(* integers modulo Modulus.                                                *)
(***************************************************************************)
EXTENDS Integers, Sequences, FiniteSets

CONSTANTS
    Requests,      \* requests that may be in flight together
    Clients,       \* addresses of clients
    Proxies,       \* TrustedProxies
    Garbage,       \* an X-Forwarded-For entry that is no address
    Keys,          \* ids of the configured agent keys
    NoKey,         \* no key, or one that is not configured
    Modes,         \* AGENT_AUTH as it may be set: TRUE for required
    Unit,          \* the common denominator of the rates
    PerMin,        \* RATE_PAGE_PER_MIN and RATE_AGENT_PER_MIN, times Unit
    PerSec,        \* RATE_GLOBAL_PER_SEC, times Unit
    Minute, Period, \* ticks of a minute, and of the time in which the global rate is allowed
    IdleTTL,       \* ticks after which an idle bucket is dropped
    Modulus,       \* 2 to the width of a duration
    Second,        \* units of a duration in a second
    MinTTL, DefaultTTL, MaxTTL, AbsoluteMaxTTL, MaxLongPoll,
    Seconds,       \* durations a request may ask for
    Forged,        \* X-Forwarded-For headers a client may send
    Routes,        \* sequences of proxies between a client and the relay
    Quotas,        \* how many requests of each kind may come: a choice of mixtures
    Horizon

Limiters == {"page", "agent"}
Addresses == Clients \cup Proxies
Kinds == Limiters \cup {"other"}
BucketsOf(l) == IF l = "page" THEN Addresses ELSE Addresses \cup Keys

\* New: burst int(rate/3)+1; NewGlobal: burst int(rate*2), at least 1.
Burst(l) == PerMin[l] \div (3 * Unit) + 1
GlobalBurst == IF PerSec * 2 < Unit THEN 1 ELSE (PerSec * 2) \div Unit
Token == Unit * Minute
GlobalToken == Unit * Period
Capacity(l) == Burst(l) * Token
GlobalCapacity == GlobalBurst * GlobalToken

\* Config.Validate: lifetimes in order, and rates that are positive, however
\* small.
ValidTTLs ==
    /\ MinTTL <= DefaultTTL /\ MinTTL <= MaxTTL
    /\ MaxTTL <= AbsoluteMaxTTL /\ DefaultTTL <= MaxTTL
ValidRates == PerMin \in [Limiters -> Nat \ {0}] /\ PerSec \in Nat \ {0}

ASSUME ConfigAssumption ==
    /\ ValidTTLs /\ ValidRates
    /\ {MinTTL, DefaultTTL, MaxTTL, AbsoluteMaxTTL, MaxLongPoll} \subseteq Nat
    /\ Modes \subseteq BOOLEAN
ASSUME UnitsAssumption ==
    /\ {Unit, Minute, Period, Modulus, Second} \subseteq Nat \ {0}
    /\ {IdleTTL, Horizon} \subseteq Nat /\ Quotas \subseteq [Kinds -> Nat]
    /\ Seconds \subseteq Int
ASSUME AddressAssumption ==
    /\ Clients \cap Proxies = {}
    /\ Garbage \notin Addresses /\ NoKey \notin Keys /\ Keys \cap Addresses = {}
    /\ Forged \subseteq Seq(Addresses \cup {Garbage}) /\ Routes \subseteq Seq(Proxies)
\* A bucket refills while it is idle: any rate above 60/580 a minute.  Validate
\* asks only for a positive one.
ASSUME RefillAssumption == \A l \in Limiters : Capacity(l) <= IdleTTL * PerMin[l]

VARIABLES
    clock,
    authRequired,  \* Config.AuthRequired, fixed at the start
    buckets,       \* Limiter.buckets
    lastGC,        \* Limiter.lastGC
    global,        \* Global.lim
    request,       \* the request each of Requests is
    ideal,         \* history: the buckets, had none been dropped
    admitted,      \* history: requests that passed the global limit
    setBack,       \* history: ticks by which late clock readings moved global.last back
    quota          \* requests of each kind that may still come

vars == <<clock, authRequired, buckets, lastGC, global, request, ideal, admitted, setBack, quota>>

None == [pc |-> "none"]

----------------------------------------------------------------------------
(* golang.org/x/time/rate.                                                 *)

AtMost(a, b) == IF a < b THEN a ELSE b

\* Limiter.advance: a reading before the last one adds nothing.
Level(b, now, rate, capacity) ==
    IF now < b.last THEN b.tokens ELSE AtMost(capacity, b.tokens + (now - b.last) * rate)

\* AllowN(now, 1): a call that is refused leaves the bucket alone.
Allowed(b, now, rate, capacity, cost) == Level(b, now, rate, capacity) >= cost
Taken(b, now, rate, capacity, cost) ==
    IF Allowed(b, now, rate, capacity, cost)
    THEN [b EXCEPT !.tokens = Level(b, now, rate, capacity) - cost, !.last = now]
    ELSE b

----------------------------------------------------------------------------
(* The caller's address.                                                   *)

LastOf(S) == CHOOSE i \in S : \A j \in S : j <= i

\* Mutant: the leftmost entry is taken for the client.
ClientIP_Leftmost(peer, xff) ==
    IF peer \notin Proxies \/ xff = <<>> \/ xff[1] = Garbage THEN peer ELSE xff[1]

\* ClientIP; ipIn is membership of Proxies.
ClientIP(peer, xff) ==
    LET foreign == {i \in DOMAIN xff : xff[i] \notin Proxies} IN
    IF peer \notin Proxies \/ foreign = {} \/ xff[LastOf(foreign)] = Garbage
    THEN peer
    ELSE xff[LastOf(foreign)]

\* What the relay sees of a client behind a route of proxies, each of which
\* appends the address it was called from to the header.
Peer(c, route) == IF route = <<>> THEN c ELSE route[Len(route)]
Header(c, route, forged) ==
    IF route = <<>> THEN forged
    ELSE (forged \o <<c>>) \o SubSeq(route, 1, Len(route) - 1)

----------------------------------------------------------------------------
(* Durations.                                                              *)

\* The value of a signed integer that keeps x modulo Modulus.
Wrap(x) == ((x + Modulus \div 2) % Modulus) - Modulus \div 2

\* Mutant: a request is taken for what it asks, so nothing looks too short.
ClampTTL_NoFloor(seconds) ==
    LET ttl == Wrap(seconds * Second) IN
    IF seconds <= 0 THEN DefaultTTL ELSE IF ttl > MaxTTL THEN MaxTTL ELSE ttl

\* Config.ClampTTL.
ClampTTL(seconds) ==
    LET ttl == Wrap(seconds * Second) IN
    IF seconds <= 0 THEN DefaultTTL
    ELSE IF ttl < MinTTL THEN MinTTL
    ELSE IF ttl > MaxTTL THEN MaxTTL ELSE ttl

\* statusHandler's test of wait_seconds.
WaitAccepted(seconds) == seconds >= 0 /\ Wrap(seconds * Second) <= MaxLongPoll

----------------------------------------------------------------------------

Init ==
    /\ clock = 0
    /\ authRequired \in Modes
    /\ buckets = [l \in Limiters |-> <<>>]
    /\ lastGC = [l \in Limiters |-> 0]
    /\ global = [tokens |-> GlobalCapacity, last |-> 0]
    /\ request = [r \in Requests |-> None]
    /\ ideal = [l \in Limiters |-> [k \in BucketsOf(l) |-> [tokens |-> Capacity(l), last |-> 0]]]
    /\ admitted = 0
    /\ setBack = 0
    /\ quota \in Quotas

Tick ==
    /\ clock < Horizon
    /\ clock' = clock + 1
    /\ UNCHANGED <<authRequired, buckets, lastGC, global, request, ideal, admitted, setBack, quota>>

\* A request arrives: to the routes of agents, of the page, or to one without a
\* limiter of its own.  Only agents send a key.  Global.Allow reads the clock
\* before it takes the lock.
Arrive(r, kind, client, key, route, forged) ==
    /\ request[r] = None /\ quota[kind] > 0
    /\ kind # "agent" => key = NoKey
    /\ quota' = [quota EXCEPT ![kind] = @ - 1]
    /\ request' = [request EXCEPT ![r] =
          [pc |-> "global", kind |-> kind, at |-> clock, key |-> key, client |-> client,
           addr |-> ClientIP(Peer(client, route), Header(client, route, forged))]]
    /\ UNCHANGED <<clock, authRequired, buckets, lastGC, global, ideal, admitted, setBack>>

Answer(r) == request' = [request EXCEPT ![r] = None]

\* cors: a request to the API passes without an origin, with a listed one and
\* with an extension's.  Only the API has limiters of its own.
Cors(r, origin) ==
    IF request[r].kind = "other" \/ origin = "foreign" THEN Answer(r)
    ELSE request' = [request EXCEPT ![r].pc = "limit", ![r].at = 0]

\* Mutant: the request reserves a token and does not wait for it.
GlobalAllow_Reserve(r, origin) ==
    LET at == request[r].at IN
    /\ request[r].pc = "global"
    /\ global' = [tokens |-> Level(global, at, PerSec, GlobalCapacity) - GlobalToken, last |-> at]
    /\ admitted' = admitted + 1
    /\ setBack' = setBack + (IF at < global.last THEN global.last - at ELSE 0)
    /\ Cors(r, origin)
    /\ UNCHANGED <<clock, authRequired, buckets, lastGC, ideal, quota>>

\* middleware: Global.Allow with the time read on arrival, then the origin check.
GlobalAllow(r, origin) ==
    LET at == request[r].at IN
    /\ request[r].pc = "global"
    /\ global' = Taken(global, at, PerSec, GlobalCapacity, GlobalToken)
    /\ IF Allowed(global, at, PerSec, GlobalCapacity, GlobalToken)
       THEN /\ admitted' = admitted + 1
            /\ setBack' = setBack + (IF at < global.last THEN global.last - at ELSE 0)
            /\ Cors(r, origin)
       ELSE Answer(r) /\ UNCHANGED <<admitted, setBack>>
    /\ UNCHANGED <<clock, authRequired, buckets, lastGC, ideal, quota>>

\* authenticate and bearerID.
Authenticated(r) == request[r].key # NoKey \/ ~authRequired

Unauthorized(r) ==
    /\ request[r].pc = "limit" /\ request[r].kind = "agent" /\ ~Authenticated(r)
    /\ Answer(r)
    /\ UNCHANGED <<clock, authRequired, buckets, lastGC, global, ideal, admitted, setBack, quota>>

\* Mutant: every bucket but the caller's is dropped.
Gc_All(l, bs, k) == [ran |-> clock, kept |-> [b \in {k} |-> bs[b]]]

\* Limiter.gc: when it ran and what it leaves; bs has the bucket of k, seen now.
Gc(l, bs, k) ==
    [ran |-> clock,
     kept |-> [b \in {j \in DOMAIN bs : clock - bs[j].seen <= IdleTTL} |-> bs[b]]]

Full(l) == [tokens |-> Capacity(l), last |-> clock, seen |-> clock]

Use(l, b) == Taken(b, clock, PerMin[l], Capacity(l), Token)

\* Limiter.Allow, all of it under the limiter's mutex.
Allow(r, l, k) ==
    LET found == IF k \in DOMAIN buckets[l] THEN [buckets[l][k] EXCEPT !.seen = clock] ELSE Full(l)
        known == [b \in DOMAIN buckets[l] \cup {k} |-> IF b = k THEN found ELSE buckets[l][b]]
        due == clock - lastGC[l] > IdleTTL
        gc == IF due THEN Gc(l, known, k) ELSE [ran |-> lastGC[l], kept |-> known]
    IN
    /\ lastGC' = [lastGC EXCEPT ![l] = gc.ran]
    /\ buckets' = [buckets EXCEPT ![l] = [gc.kept EXCEPT ![k] = Use(l, found)]]
    /\ ideal' = [ideal EXCEPT ![l][k] = Use(l, @)]
    /\ IF Allowed(found, clock, PerMin[l], Capacity(l), Token)
       THEN request' = [request EXCEPT ![r] = [pc |-> "decode", kind |-> l]]
       ELSE Answer(r)
    /\ UNCHANGED <<clock, authRequired, global, admitted, setBack, quota>>

\* limitPage.
LimitPage(r) ==
    /\ request[r].pc = "limit" /\ request[r].kind = "page"
    /\ Allow(r, "page", request[r].addr)

\* limitAgent: by key, or by address without one.
LimitAgent(r) ==
    /\ request[r].pc = "limit" /\ request[r].kind = "agent" /\ Authenticated(r)
    /\ Allow(r, "agent", IF request[r].key = NoKey THEN request[r].addr ELSE request[r].key)

\* decodeJSON refuses the request.
BadRequest(r) ==
    /\ request[r].pc = "decode"
    /\ Answer(r)
    /\ UNCHANGED <<clock, authRequired, buckets, lastGC, global, ideal, admitted, setBack, quota>>

\* The handler takes the durations the request asks for.
Accept(r, seconds) ==
    /\ request[r].pc = "decode"
    /\ IF request[r].kind = "agent"
       THEN request' = [request EXCEPT ![r] = [pc |-> "served", ttl |-> ClampTTL(seconds)]]
       ELSE IF WaitAccepted(seconds)
       THEN request' = [request EXCEPT ![r] = [pc |-> "waiting", wait |-> Wrap(seconds * Second)]]
       ELSE Answer(r)
    /\ UNCHANGED <<clock, authRequired, buckets, lastGC, global, ideal, admitted, setBack, quota>>

Done(r) ==
    /\ request[r].pc \in {"served", "waiting"}
    /\ Answer(r)
    /\ UNCHANGED <<clock, authRequired, buckets, lastGC, global, ideal, admitted, setBack, quota>>

Next ==
    \/ Tick
    \/ \E r \in Requests :
          \/ \E kind \in Kinds, client \in Clients, key \in Keys \cup {NoKey},
                route \in Routes, forged \in Forged : Arrive(r, kind, client, key, route, forged)
          \/ \E origin \in {"none", "listed", "extension", "foreign"} : GlobalAllow(r, origin)
          \/ Unauthorized(r) \/ LimitPage(r) \/ LimitAgent(r) \/ BadRequest(r)
          \/ \E seconds \in Seconds : Accept(r, seconds)
          \/ Done(r)

Spec == Init /\ [][Next]_vars

----------------------------------------------------------------------------

LevelOf(l, b) == Level(b, clock, PerMin[l], Capacity(l))

\* Dropping idle buckets changes no verdict: a bucket has what it would have
\* had if none had ever been dropped, and one that is not there would be full
\* (Limiter.gc, ratelimit.go:65-72).
ForgottenIsFull ==
    \A l \in Limiters : \A k \in BucketsOf(l) :
       IF k \in DOMAIN buckets[l]
       THEN LevelOf(l, buckets[l][k]) = LevelOf(l, ideal[l][k])
       ELSE LevelOf(l, ideal[l][k]) = Capacity(l)

\* The relay admits no more than the burst and what the rate adds in the time
\* that has passed, but for the time by which a request that read the clock
\* early and took the bucket late set it back (Global.Allow reads the clock
\* outside the bucket's lock, ratelimit.go:93).
GlobalBudget == admitted * GlobalToken <= GlobalCapacity + PerSec * (clock + setBack)

\* A client behind trusted proxies is metered under its own address, whatever
\* X-Forwarded-For it sends ("the only entry a client cannot forge",
\* ratelimit.go:95-98).
MeteredAsItself ==
    \A r \in Requests : request[r].pc \in {"global", "limit"}
                        => request[r].addr = request[r].client

\* No request gets a lifetime outside the configured range or a longer poll
\* than MaxLongPoll, although the product of seconds and a second wraps before
\* it is compared (ClampTTL, config.go:231-243; statusHandler, handlers.go:226).
WithinLimits ==
    \A r \in Requests :
       /\ request[r].pc = "served" => request[r].ttl \in MinTTL..MaxTTL
       /\ request[r].pc = "waiting" => request[r].wait <= MaxLongPoll

RequestState ==
    {None} \cup [pc : {"global", "limit"}, kind : Kinds, at : 0..Horizon,
                key : Keys \cup {NoKey}, client : Clients, addr : Addresses]
    \cup [pc : {"decode"}, kind : Limiters]
    \cup [pc : {"served"}, ttl : Int] \cup [pc : {"waiting"}, wait : Int]

TypeOK ==
    /\ clock \in 0..Horizon /\ quota \in [Kinds -> Nat]
    /\ authRequired \in Modes /\ admitted \in Nat /\ setBack \in Nat
    /\ global \in [tokens : Int, last : 0..clock]
    /\ lastGC \in [Limiters -> 0..clock]
    /\ DOMAIN buckets = Limiters
    /\ \A l \in Limiters :
          /\ DOMAIN buckets[l] \subseteq BucketsOf(l)
          /\ buckets[l] \in [DOMAIN buckets[l] ->
                              [tokens : 0..Capacity(l), last : 0..clock, seen : 0..clock]]
    /\ request \in [Requests -> RequestState]
============================================================================
