------------------------- MODULE RelayLimits_proofs -------------------------
(***************************************************************************)
(* Proofs about RelayLimits, for any rates, durations, proxies and number  *)
(* of requests in flight.                                                  *)
(***************************************************************************)
EXTENDS RelayLimits, TLAPS

----------------------------------------------------------------------------
(* Token buckets.                                                          *)

\* Products of naturals are ordered as their first factors are.
LEMMA ProductMonotone ==
    ASSUME NEW a \in Nat, NEW b \in Nat, NEW c \in Nat, a <= b
    PROVE  a * c <= b * c
  <1>1. PICK d \in Nat : b = a + d
    <2>1. b - a \in Nat /\ b = a + (b - a)
      OBVIOUS
    <2>2. QED
      BY <2>1
  <1>2. b * c = a * c + d * c
    BY <1>1
  <1>3. a * c \in Nat /\ d * c \in Nat
    BY <1>1
  <1>4. QED
    BY <1>2, <1>3

\* A bucket's level stays within its capacity (Limiter.advance).
LEMMA LevelInRange ==
    ASSUME NEW b, NEW now \in Nat, NEW rate \in Nat, NEW capacity \in Nat,
           b.tokens \in 0..capacity, b.last \in Nat
    PROVE  Level(b, now, rate, capacity) \in 0..capacity
  <1>1. CASE now < b.last
    BY <1>1 DEF Level
  <1>2. CASE now >= b.last
    <2>1. now - b.last \in Nat
      BY <1>2
    <2>2. (now - b.last) * rate \in Nat
      BY <2>1
    <2>3. QED
      BY <1>2, <2>2 DEF Level, AtMost
  <1>3. QED
    BY <1>1, <1>2

\* A full bucket stays full, and one left alone for IdleTTL is full
\* (Limiter.gc drops it then).
LEMMA LevelGrows ==
    ASSUME NEW b, NEW now \in Nat, NEW later \in Nat, NEW rate \in Nat, NEW capacity \in Nat,
           b.tokens \in 0..capacity, b.last \in Nat, b.last <= now, now <= later,
           Level(b, now, rate, capacity) = capacity
    PROVE  Level(b, later, rate, capacity) = capacity
  <1>1. (now - b.last) * rate <= (later - b.last) * rate
    <2>1. now - b.last \in Nat /\ later - b.last \in Nat /\ now - b.last <= later - b.last
      OBVIOUS
    <2>2. QED
      BY <2>1, ProductMonotone
  <1>2. (now - b.last) * rate \in Int /\ (later - b.last) * rate \in Int
    OBVIOUS
  <1>3. capacity <= b.tokens + (now - b.last) * rate
    BY <1>2 DEF Level, AtMost
  <1>4. capacity <= b.tokens + (later - b.last) * rate
    BY <1>1, <1>2, <1>3
  <1>5. QED
    BY <1>2, <1>4 DEF Level, AtMost

LEMMA LevelRefilled ==
    ASSUME NEW b, NEW now \in Nat, NEW rate \in Nat, NEW capacity \in Nat, NEW idle \in Nat,
           b.tokens \in 0..capacity, b.last \in Nat, now - b.last >= idle,
           capacity <= idle * rate
    PROVE  Level(b, now, rate, capacity) = capacity
  <1>1. idle * rate <= (now - b.last) * rate
    <2>1. now - b.last \in Nat
      OBVIOUS
    <2>2. QED
      BY <2>1, ProductMonotone
  <1>2. (now - b.last) * rate \in Int /\ idle * rate \in Int
    OBVIOUS
  <1>3. capacity <= b.tokens + (now - b.last) * rate
    BY <1>1, <1>2
  <1>4. QED
    BY <1>2, <1>3 DEF Level, AtMost

----------------------------------------------------------------------------
(* The configured numbers.                                                 *)

LEMMA Capacities ==
    /\ \A l \in Limiters : PerMin[l] \in Nat /\ Capacity(l) \in Nat /\ Capacity(l) >= Token
    /\ PerSec \in Nat /\ GlobalCapacity \in Nat /\ Token \in Nat /\ GlobalToken \in Nat
    /\ IdleTTL \in Nat /\ Horizon \in Nat
  <1>1. /\ PerSec \in Nat /\ Minute \in Nat /\ Period \in Nat /\ Unit \in Nat /\ Unit > 0
        /\ IdleTTL \in Nat /\ Horizon \in Nat
    BY ConfigAssumption, UnitsAssumption DEF ValidTTLs, ValidRates
  <1>2. GlobalBurst \in Nat
    <2>1. PerSec * 2 \in Nat
      BY <1>1
    <2>2. \A a, b \in Nat : b > 0 => a \div b \in Nat
      OBVIOUS
    <2>3. (PerSec * 2) \div Unit \in Nat
      BY <1>1, <2>1, <2>2
    <2>4. QED
      BY <2>3 DEF GlobalBurst
  <1>3. Token \in Nat /\ GlobalToken \in Nat
    BY <1>1 DEF Token, GlobalToken
  <1>4. GlobalCapacity \in Nat
    BY <1>2, <1>3 DEF GlobalCapacity
  <1>5. ASSUME NEW l \in Limiters
        PROVE  PerMin[l] \in Nat /\ Capacity(l) \in Nat /\ Capacity(l) >= Token
    <2>1. PerMin[l] \in Nat
      BY ConfigAssumption DEF ValidTTLs, ValidRates
    <2>2. 3 * Unit \in Nat /\ 3 * Unit > 0
      BY <1>1
    <2>3. \A a, b \in Nat : b > 0 => a \div b \in Nat
      OBVIOUS
    <2>4. PerMin[l] \div (3 * Unit) \in Nat
      BY <2>1, <2>2, <2>3
    <2>5. Burst(l) \in Nat /\ Burst(l) >= 1
      BY <2>4 DEF Burst
    <2>6. 1 * Token <= Burst(l) * Token
      BY <2>5, <1>3, ProductMonotone
    <2>7. QED
      BY <2>1, <2>5, <2>6, <1>3 DEF Capacity
  <1>6. QED
    BY <1>1, <1>3, <1>4, <1>5
----------------------------------------------------------------------------
(* The caller's address.                                                   *)

LEMMA LastOfUnique ==
    ASSUME NEW S \in SUBSET Nat, NEW i \in S, \A j \in S : j <= i
    PROVE  LastOf(S) = i
  <1>1. \A k \in S : (\A j \in S : j <= k) => k = i
    OBVIOUS
  <1>2. QED
    BY <1>1 DEF LastOf

LEMMA PrefixLength ==
    ASSUME NEW S, NEW s \in Seq(S), NEW m \in Nat, m <= Len(s)
    PROVE  SubSeq(s, 1, m) \in Seq(S) /\ Len(SubSeq(s, 1, m)) = m
  OBVIOUS

\* The rightmost entry that is no trusted proxy was appended by the first
\* proxy of the route, and is the client (ClientIP, ratelimit.go:95-133).
LEMMA ClientIsSeen ==
    ASSUME NEW c \in Clients, NEW route \in Seq(Proxies),
           NEW forged \in Seq(Addresses \cup {Garbage})
    PROVE  ClientIP(Peer(c, route), Header(c, route, forged)) = c
  <1>c. c \notin Proxies /\ c # Garbage
    BY AddressAssumption DEF Addresses
  <1>1. CASE route = <<>>
    BY <1>1, <1>c DEF ClientIP, Peer
  <1>2. CASE route # <<>>
    <2> DEFINE tail == SubSeq(route, 1, Len(route) - 1)
               begin == forged \o <<c>>
               xff == begin \o tail
               n == Len(forged) + 1
    <2>1. Len(route) \in Nat /\ Len(route) >= 1
      BY <1>2
    <2>2. tail \in Seq(Proxies) /\ Len(tail) = Len(route) - 1
      <3>1. Len(route) - 1 \in Nat /\ Len(route) - 1 <= Len(route)
        BY <2>1
      <3>2. QED
        BY <3>1, PrefixLength
    <2>3. begin \in Seq(Addresses \cup {Garbage}) /\ Len(begin) = n /\ begin[n] = c /\ n \in Nat /\ n >= 1
      <3>1. <<c>> \in Seq(Addresses \cup {Garbage}) /\ Len(<<c>>) = 1 /\ <<c>>[1] = c
        BY DEF Addresses
      <3>2. QED
        BY <3>1
    <2> HIDE DEF tail, begin, n
    <2>4. Len(xff) = n + Len(tail) /\ DOMAIN xff = 1..(n + Len(tail))
      BY <2>2, <2>3
    <2>5. xff[n] = c /\ n \in DOMAIN xff
      BY <2>2, <2>3, <2>4
    <2>6. ASSUME NEW j \in DOMAIN xff, j > n  PROVE xff[j] \in Proxies
      <3>1. j - n \in 1..Len(tail)
        BY <2>2, <2>3, <2>4, <2>6
      <3>2. xff[j] = tail[j - n]
        BY <2>2, <2>3, <2>4, <2>6, <3>1
      <3>3. QED
        BY <2>2, <3>1, <3>2
    <2> DEFINE foreign == {i \in DOMAIN xff : xff[i] \notin Proxies}
    <2>7. n \in foreign /\ foreign \subseteq Nat
      BY <1>c, <2>2, <2>3, <2>4, <2>5
    <2>8. \A j \in foreign : j <= n
      BY <2>3, <2>4, <2>6
    <2> HIDE DEF xff
    <2>9. LastOf(foreign) = n
      BY <2>7, <2>8, LastOfUnique
    <2>10. xff[LastOf(foreign)] = c /\ foreign # {}
      BY <2>5, <2>7, <2>9
    <2>11. Peer(c, route) \in Proxies
      BY <1>2, <2>1 DEF Peer
    <2>12. Header(c, route, forged) = xff
      BY <1>2 DEF Header, xff, begin, tail
    <2>13. ClientIP(Peer(c, route), xff) = c
      BY <1>c, <2>10, <2>11 DEF ClientIP
    <2>14. QED
      BY <2>12, <2>13
  <1>3. QED
    BY <1>1, <1>2

----------------------------------------------------------------------------
(* Durations.                                                              *)

LEMMA WrapIsInt == ASSUME NEW x \in Int PROVE Wrap(x) \in Int
  <1>1. Modulus \in Nat \ {0}
    BY UnitsAssumption
  <1>2. Modulus \div 2 \in Int
    BY <1>1
  <1>3. (x + Modulus \div 2) % Modulus \in Int
    BY <1>1, <1>2
  <1>4. QED
    BY <1>2, <1>3 DEF Wrap

LEMMA SecondsAreInt == \A s \in Seconds : s \in Int /\ Wrap(s * Second) \in Int
  <1>1. TAKE s \in Seconds
  <1>2. s \in Int /\ Second \in Int
    BY UnitsAssumption
  <1>3. s * Second \in Int
    BY <1>2
  <1>4. QED
    BY <1>2, <1>3, WrapIsInt

\* ClampTTL keeps the range whatever the product wrapped to.
LEMMA ClampInRange == \A s \in Seconds : ClampTTL(s) \in MinTTL..MaxTTL
  <1>1. TAKE s \in Seconds
  <1>2. s \in Int /\ Wrap(s * Second) \in Int
    BY SecondsAreInt
  <1>3. /\ MinTTL \in Nat /\ DefaultTTL \in Nat /\ MaxTTL \in Nat
        /\ MinTTL <= DefaultTTL /\ DefaultTTL <= MaxTTL
    BY ConfigAssumption DEF ValidTTLs, ValidRates
  <1>4. QED
    BY <1>2, <1>3 DEF ClampTTL
----------------------------------------------------------------------------
(* The inductive invariant.                                                *)

Counters ==
    /\ clock \in 0..Horizon /\ quota \in [Kinds -> Nat]
    /\ authRequired \in Modes /\ admitted \in Nat /\ setBack \in Nat

\* What was admitted and what is left came from the burst and from the time
\* the bucket has been credited with, a stretch it was set back over twice.
GlobalOK ==
    /\ global \in [tokens : 0..GlobalCapacity, last : 0..clock]
    /\ global.tokens + admitted * GlobalToken <= GlobalCapacity + PerSec * (global.last + setBack)

\* A request read the clock in the past.
RequestsOK ==
    /\ request \in [Requests -> RequestState]
    /\ \A r \in Requests : request[r].pc = "global" => request[r].at <= clock
    /\ MeteredAsItself
    /\ WithinLimits

BucketState(l) == [tokens : 0..Capacity(l), last : 0..clock, seen : 0..clock]
IdealState(l) == [tokens : 0..Capacity(l), last : 0..clock]

\* A bucket that is there has what the ideal one has, and was used when it was
\* last seen or before; for one that is not there the ideal one is full.
Tracks(l, k) ==
    IF k \in DOMAIN buckets[l]
    THEN /\ buckets[l][k].tokens = ideal[l][k].tokens
         /\ buckets[l][k].last = ideal[l][k].last
         /\ buckets[l][k].last <= buckets[l][k].seen
    ELSE LevelOf(l, ideal[l][k]) = Capacity(l)

BucketsOK ==
    /\ lastGC \in [Limiters -> 0..clock]
    /\ DOMAIN buckets = Limiters /\ DOMAIN ideal = Limiters
    /\ \A l \in Limiters :
          /\ DOMAIN buckets[l] \subseteq BucketsOf(l)
          /\ buckets[l] \in [DOMAIN buckets[l] -> BucketState(l)]
          /\ ideal[l] \in [BucketsOf(l) -> IdealState(l)]
          /\ \A k \in BucketsOf(l) : Tracks(l, k)

IInv == Counters /\ GlobalOK /\ RequestsOK /\ BucketsOK

LEMMA InitIInv == Init => IInv
  <1> SUFFICES ASSUME Init PROVE IInv
    OBVIOUS
  <1> USE Capacities
  <1>1. Counters
    BY UnitsAssumption DEF Init, Counters
  <1>2. GlobalOK
    <2>1. global.tokens = GlobalCapacity /\ global.last = 0 /\ admitted * GlobalToken = 0 /\ PerSec * (global.last + setBack) = 0
      BY DEF Init
    <2>2. QED
      BY <2>1 DEF Init, GlobalOK
  <1>3. RequestsOK
    BY DEF Init, RequestsOK, RequestState, None, MeteredAsItself, WithinLimits
  <1>4. BucketsOK
    <2>1. lastGC \in [Limiters -> 0..clock] /\ DOMAIN buckets = Limiters /\ DOMAIN ideal = Limiters
      BY DEF Init
    <2>2. ASSUME NEW l \in Limiters
          PROVE  /\ DOMAIN buckets[l] = {}
                 /\ buckets[l] \in [DOMAIN buckets[l] -> BucketState(l)]
                 /\ ideal[l] \in [BucketsOf(l) -> IdealState(l)]
      BY DEF Init, BucketState, IdealState
    <2>3. ASSUME NEW l \in Limiters, NEW k \in BucketsOf(l)
          PROVE  Tracks(l, k)
      <3>1. ideal[l][k] = [tokens |-> Capacity(l), last |-> 0] /\ clock = 0
        BY DEF Init
      <3>2. PerMin[l] \in Nat /\ Capacity(l) \in Nat /\ 0 * PerMin[l] = 0
        OBVIOUS
      <3>3. LevelOf(l, ideal[l][k]) = Capacity(l)
        BY <3>1, <3>2 DEF LevelOf, Level, AtMost
      <3>4. QED
        BY <2>2, <3>3 DEF Tracks
    <2>4. QED
      BY <2>1, <2>2, <2>3 DEF BucketsOK
  <1>5. QED
    BY <1>1, <1>2, <1>3, <1>4 DEF IInv

\* The request states a step may meet, by where the request is.
LEMMA RequestAt ==
    ASSUME NEW q \in RequestState
    PROVE  /\ q.pc \in {"global", "limit"}
              => q \in [pc : {"global", "limit"}, kind : Kinds, at : 0..Horizon,
                        key : Keys \cup {NoKey}, client : Clients, addr : Addresses]
           /\ q.pc = "decode" => q.kind \in Limiters
  BY DEF RequestState, None

LEMMA TickIInv == IInv /\ Tick => IInv'
  <1> SUFFICES ASSUME IInv, Tick PROVE IInv'
    OBVIOUS
  <1> USE Capacities
  <1>0. Counters /\ GlobalOK /\ RequestsOK /\ BucketsOK
    BY DEF IInv
  <1>1. Counters'
    BY <1>0 DEF Counters, Tick
  <1>2. GlobalOK'
    BY <1>0 DEF GlobalOK, Counters, Tick
  <1>3. RequestsOK'
    <2>1. MeteredAsItself' /\ WithinLimits'
      BY <1>0 DEF RequestsOK, MeteredAsItself, WithinLimits, Tick
    <2>2. ASSUME NEW r \in Requests, request[r].pc = "global" PROVE request[r].at <= clock + 1
      <3>1. request[r].at \in 0..Horizon
        BY <1>0, <2>2, RequestAt DEF RequestsOK
      <3>2. QED
        BY <1>0, <2>2, <3>1 DEF RequestsOK, Counters
    <2>3. QED
      BY <1>0, <2>1, <2>2 DEF RequestsOK, Tick
  <1>4. BucketsOK'
    <2>c. clock \in Nat /\ clock' = clock + 1
      BY <1>0 DEF Counters, Tick
    <2>1. /\ lastGC' \in [Limiters -> 0..clock'] /\ DOMAIN buckets' = Limiters /\ DOMAIN ideal' = Limiters
      BY <1>0, <2>c DEF BucketsOK, Tick
    <2>2. ASSUME NEW l \in Limiters
          PROVE  /\ DOMAIN buckets'[l] \subseteq BucketsOf(l)
                 /\ buckets'[l] \in [DOMAIN buckets'[l] -> BucketState(l)']
                 /\ ideal'[l] \in [BucketsOf(l) -> IdealState(l)']
      BY <1>0, <2>c DEF BucketsOK, Tick, BucketState, IdealState
    <2>3. ASSUME NEW l \in Limiters, NEW k \in BucketsOf(l)
          PROVE  Tracks(l, k)'
      <3>1. Tracks(l, k) /\ ideal[l][k].tokens \in 0..Capacity(l) /\ ideal[l][k].last \in 0..clock
        BY <1>0 DEF BucketsOK, IdealState
      <3>2. CASE k \in DOMAIN buckets[l]
        BY <3>1, <3>2 DEF Tracks, Tick
      <3>3. CASE k \notin DOMAIN buckets[l]
        <4>1. Level(ideal[l][k], clock, PerMin[l], Capacity(l)) = Capacity(l)
          BY <3>1, <3>3 DEF Tracks, LevelOf
        <4>2. Level(ideal[l][k], clock', PerMin[l], Capacity(l)) = Capacity(l)
          BY <2>c, <3>1, <4>1, LevelGrows
        <4>3. QED
          BY <3>3, <4>2 DEF Tracks, LevelOf, Tick
      <3>4. QED
        BY <3>2, <3>3
    <2>4. QED
      BY <2>1, <2>2, <2>3 DEF BucketsOK
  <1>5. QED
    BY <1>1, <1>2, <1>3, <1>4 DEF IInv

\* A step that changes nothing but one request keeps the rest.
LEMMA RequestStep ==
    ASSUME IInv, RequestsOK', Counters',
           UNCHANGED <<clock, buckets, lastGC, global, ideal, admitted, setBack>>
    PROVE  IInv'
  <1>1. GlobalOK' /\ BucketsOK'
    BY DEF IInv, GlobalOK, BucketsOK, BucketState, IdealState, Tracks, LevelOf
  <1>2. QED
    BY <1>1 DEF IInv

\* A request whose next state is fine leaves the requests fine.
LEMMA OneRequest ==
    ASSUME IInv, NEW r \in Requests, NEW q \in RequestState,
           request' = [request EXCEPT ![r] = q], clock' = clock,
           q.pc = "global" => q.at <= clock,
           q.pc \in {"global", "limit"} => q.addr = q.client,
           q.pc = "served" => q.ttl \in MinTTL..MaxTTL,
           q.pc = "waiting" => q.wait <= MaxLongPoll
    PROVE  RequestsOK'
  <1>1. RequestsOK
    BY DEF IInv
  <1>2. \A s \in Requests : request'[s] = IF s = r THEN q ELSE request[s]
    BY <1>1 DEF RequestsOK
  <1>3. request' \in [Requests -> RequestState]
    BY <1>1 DEF RequestsOK
  <1>4. QED
    BY <1>1, <1>2, <1>3 DEF RequestsOK, MeteredAsItself, WithinLimits

LEMMA AnswerRequests ==
    ASSUME IInv, NEW r \in Requests, Answer(r), clock' = clock
    PROVE  RequestsOK'
  <1>1. None \in RequestState /\ None.pc = "none"
    BY DEF RequestState, None
  <1>2. QED
    BY <1>1, OneRequest DEF Answer

LEMMA ArriveIInv ==
    ASSUME IInv, NEW r \in Requests, NEW kind \in Kinds, NEW client \in Clients,
           NEW key \in Keys \cup {NoKey}, NEW route \in Routes, NEW forged \in Forged,
           Arrive(r, kind, client, key, route, forged)
    PROVE  IInv'
  <1> DEFINE q == [pc |-> "global", kind |-> kind, at |-> clock, key |-> key, client |-> client,
                   addr |-> ClientIP(Peer(client, route), Header(client, route, forged))]
  <1>1. Counters /\ Counters'
    <2>1. Counters /\ quota[kind] \in Nat /\ quota[kind] > 0
      BY DEF IInv, Counters, Arrive
    <2>2. quota' \in [Kinds -> Nat]
      BY <2>1 DEF Counters, Arrive
    <2>3. QED
      BY <2>1, <2>2 DEF Counters, Arrive
  <1>2. q.addr = client
    BY AddressAssumption, ClientIsSeen
  <1>3. client \in Addresses
    BY DEF Addresses
  <1>4. q \in RequestState
    BY <1>1, <1>2, <1>3 DEF RequestState, Counters
  <1>5. q.pc = "global" /\ q.at <= clock
    BY <1>1, Capacities DEF Counters
  <1>6. request' = [request EXCEPT ![r] = q] /\ clock' = clock
    BY DEF Arrive
  <1>7. RequestsOK'
    <2> HIDE DEF q
    <2>1. q.client = client
      BY DEF q
    <2>2. QED
      BY <1>2, <1>4, <1>5, <1>6, <2>1, OneRequest
  <1>8. QED
    BY <1>1, <1>7, RequestStep DEF Arrive

\* Global.Allow: the account of tokens and time stays balanced, also when the
\* request read the clock before the bucket was last used.
LEMMA GlobalAllowIInv ==
    ASSUME IInv, NEW r \in Requests, NEW origin, GlobalAllow(r, origin)
    PROVE  IInv'
  <1> DEFINE at == request[r].at
             level == Level(global, at, PerSec, GlobalCapacity)
  <1> USE Capacities
  <1>0. Counters /\ GlobalOK /\ RequestsOK /\ BucketsOK /\ request[r].pc = "global"
    BY DEF IInv, GlobalAllow
  <1>a. at \in 0..clock /\ clock \in Nat /\ admitted \in Nat /\ setBack \in Nat
    <2>1. request[r] \in RequestState
      BY <1>0 DEF RequestsOK
    <2>2. at \in 0..Horizon
      BY <1>0, <2>1, RequestAt
    <2>3. QED
      BY <1>0, <2>2 DEF RequestsOK, Counters
  <1>g. global.tokens \in 0..GlobalCapacity /\ global.last \in 0..clock
    BY <1>0 DEF GlobalOK
  <1>l. level \in 0..GlobalCapacity
    <2>1. /\ at \in Nat /\ PerSec \in Nat /\ GlobalCapacity \in Nat
          /\ global.tokens \in 0..GlobalCapacity /\ global.last \in Nat
      BY <1>a, <1>g
    <2> HIDE DEF at
    <2>2. QED
      BY ONLY <2>1, LevelInRange DEF level
  <1>1. BucketsOK'
    BY <1>0 DEF GlobalAllow, BucketsOK, BucketState, IdealState, Tracks, LevelOf
  <1>2. CASE level >= GlobalToken
    <2>1. /\ global' = [global EXCEPT !.tokens = level - GlobalToken, !.last = at]
          /\ admitted' = admitted + 1
          /\ setBack' = setBack + (IF at < global.last THEN global.last - at ELSE 0)
          /\ clock' = clock /\ quota' = quota /\ authRequired' = authRequired
          /\ Cors(r, origin)
      BY <1>2 DEF GlobalAllow, Taken, Allowed
    <2>2. Counters'
      BY <1>0, <1>a, <1>g, <2>1 DEF Counters
    <2>3. RequestsOK'
      <3> DEFINE q == [request[r] EXCEPT !.pc = "limit", !.at = 0]
      <3>1. CASE Answer(r)
        BY <2>1, <3>1, AnswerRequests
      <3>2. CASE request' = [request EXCEPT ![r].pc = "limit", ![r].at = 0]
        <4>0. request[r] \in RequestState /\ request \in [Requests -> RequestState]
          BY <1>0 DEF RequestsOK
        <4>1. request[r] \in [pc : {"global", "limit"}, kind : Kinds, at : 0..Horizon,
                        key : Keys \cup {NoKey}, client : Clients, addr : Addresses]
          BY <1>0, <4>0, RequestAt
        <4>2. q \in RequestState /\ q.pc = "limit" /\ q.addr = request[r].addr /\ q.client = request[r].client
          <5>1. 0 \in 0..Horizon
            OBVIOUS
          <5>2. /\ q.pc = "limit" /\ q.addr = request[r].addr /\ q.client = request[r].client
                /\ q \in [pc : {"global", "limit"}, kind : Kinds, at : 0..Horizon,
                          key : Keys \cup {NoKey}, client : Clients, addr : Addresses]
            BY ONLY <4>1, <5>1
          <5>3. QED
            BY <5>2 DEF RequestState
        <4>3. request[r].addr = request[r].client
          BY <1>0 DEF RequestsOK, MeteredAsItself
        <4>4. request' = [request EXCEPT ![r] = q]
          BY <3>2, <4>0
        <4> HIDE DEF q
        <4>5. QED
          BY <2>1, <4>2, <4>3, <4>4, OneRequest
      <3>3. QED
        BY <2>1, <3>1, <3>2 DEF Cors
    <2>4. GlobalOK'
      <3>1. global'.tokens = level - GlobalToken /\ global'.last = at
            /\ global' \in [tokens : 0..GlobalCapacity, last : 0..clock]
        <4>1. global \in [tokens : 0..GlobalCapacity, last : 0..clock]
          BY <1>0 DEF GlobalOK
        <4>2. level - GlobalToken \in 0..GlobalCapacity
          BY <1>2, <1>l
        <4> HIDE DEF level, at
        <4>3. QED
          BY ONLY <1>a, <2>1, <4>1, <4>2
      <3>2. global.tokens + admitted * GlobalToken <= GlobalCapacity + PerSec * (global.last + setBack)
        BY <1>0 DEF GlobalOK
      <3>3. admitted' * GlobalToken = admitted * GlobalToken + GlobalToken /\ admitted * GlobalToken \in Int
        <4>1. GlobalToken \in Nat
          OBVIOUS
        <4>2. \A a, p \in Nat : (a + 1) * p = a * p + p /\ a * p \in Int
          OBVIOUS
        <4>3. admitted \in Nat /\ admitted' = admitted + 1
          BY <1>a, <2>1
        <4>4. QED
          BY ONLY <4>1, <4>2, <4>3
      <3>4. PerSec * (global.last + setBack) \in Int
        BY <1>a, <1>g
      <3>5. CASE at < global.last
        <4>1. level = global.tokens
          BY <1>a, <1>g, <3>5 DEF Level
        <4>2. at + setBack' = global.last + setBack
          BY <1>a, <1>g, <2>1, <3>5
        <4>3. QED
          BY <1>a, <1>g, <1>l, <2>1, <3>1, <3>2, <3>3, <3>4, <4>1, <4>2 DEF GlobalOK
      <3>6. CASE at >= global.last
        <4> DEFINE credit == (at - global.last) * PerSec
        <4>1. credit \in Int
          BY <1>a, <1>g
        <4>2. level <= global.tokens + credit
          BY <1>a, <1>g, <3>6, <4>1 DEF Level, AtMost
        <4>3. setBack' = setBack
          BY <1>a, <1>g, <2>1, <3>6
        <4>4. PerSec * (at + setBack) = PerSec * (global.last + setBack) + credit
          BY <1>a, <1>g
        <4> HIDE DEF credit, level, at
        <4>5. level - GlobalToken + (admitted * GlobalToken + GlobalToken) <= GlobalCapacity + (PerSec * (global.last + setBack) + credit)
          BY <1>a, <1>g, <1>l, <3>2, <3>3, <3>4, <4>1, <4>2
        <4>6. QED
          BY <2>1, <3>1, <3>3, <4>3, <4>4, <4>5 DEF GlobalOK
      <3>7. QED
        BY <1>a, <1>g, <3>5, <3>6
    <2>5. QED
      BY <1>1, <2>2, <2>3, <2>4 DEF IInv
  <1>3. CASE ~(level >= GlobalToken)
    <2>1. global' = global /\ Answer(r)
          /\ UNCHANGED <<admitted, setBack, clock, authRequired, buckets, lastGC, ideal, quota>>
      BY <1>3 DEF GlobalAllow, Taken, Allowed
    <2>2. RequestsOK'
      BY <2>1, AnswerRequests
    <2>3. Counters'
      BY <1>0, <2>1 DEF Counters
    <2>4. QED
      BY <2>1, <2>2, <2>3, RequestStep
  <1>4. QED
    BY <1>2, <1>3

\* What Use makes of a bucket depends on its level only, and a bucket with the
\* level of another becomes what the other becomes, unless both are refused.
LEMMA UseBucket ==
    ASSUME NEW l \in Limiters, NEW b, b.tokens \in 0..Capacity(l), b.last \in 0..clock, clock \in Nat
    PROVE  /\ LevelOf(l, b) \in 0..Capacity(l)
           /\ LevelOf(l, b) >= Token
              => Use(l, b) = [b EXCEPT !.tokens = LevelOf(l, b) - Token, !.last = clock]
           /\ ~(LevelOf(l, b) >= Token) => Use(l, b) = b
  <1>1. /\ PerMin[l] \in Nat /\ Capacity(l) \in Nat /\ b.last \in Nat
    BY Capacities
  <1>2. LevelOf(l, b) \in 0..Capacity(l)
    BY <1>1, LevelInRange DEF LevelOf
  <1>3. QED
    BY <1>2 DEF Use, Taken, Allowed, LevelOf

\* Limiter.Allow with its garbage collection.
LEMMA AllowBuckets ==
    ASSUME IInv, NEW r \in Requests, NEW l \in Limiters, NEW k \in BucketsOf(l), Allow(r, l, k)
    PROVE  BucketsOK'
  <1> DEFINE bs == buckets[l]
             found == IF k \in DOMAIN bs THEN [bs[k] EXCEPT !.seen = clock] ELSE Full(l)
             known == [b \in DOMAIN bs \cup {k} |-> IF b = k THEN found ELSE bs[b]]
             due == clock - lastGC[l] > IdleTTL
             gc == IF due THEN Gc(l, known, k) ELSE [ran |-> lastGC[l], kept |-> known]
             old == ideal[l][k]
             used == Use(l, found)
             new == Use(l, old)
  <1>0. Counters /\ BucketsOK
    BY DEF IInv
  <1>c. /\ clock \in Nat /\ IdleTTL \in Nat /\ Token \in Nat /\ PerMin[l] \in Nat
        /\ Capacity(l) \in Nat /\ Capacity(l) >= Token
    BY <1>0, Capacities DEF Counters
  <1>1. /\ DOMAIN bs \subseteq BucketsOf(l)
        /\ bs \in [DOMAIN bs -> BucketState(l)]
        /\ ideal[l] \in [BucketsOf(l) -> IdealState(l)]
        /\ \A j \in BucketsOf(l) : Tracks(l, j)
        /\ lastGC \in [Limiters -> 0..clock]
    BY <1>0 DEF BucketsOK
  <1>2. old \in IdealState(l) /\ old.tokens \in 0..Capacity(l) /\ old.last \in 0..clock
    BY <1>1 DEF IdealState
  <1>3. found \in BucketState(l) /\ found.seen = clock
    <2>1. CASE k \in DOMAIN bs
      <3>1. bs[k] \in BucketState(l)
        BY <1>1, <2>1
      <3>2. QED
        BY <1>c, <2>1, <3>1 DEF BucketState
    <2>2. CASE k \notin DOMAIN bs
      BY <1>c, <2>2 DEF BucketState, Full
    <2>3. QED
      BY <2>1, <2>2
  <1>4. found.tokens \in 0..Capacity(l) /\ found.last \in 0..clock
    BY <1>3 DEF BucketState
  <1>5. LevelOf(l, found) = LevelOf(l, old) /\ (~(LevelOf(l, old) >= Token) => k \in DOMAIN bs)
        /\ (k \in DOMAIN bs => found.tokens = old.tokens /\ found.last = old.last)
    <2>1. CASE k \in DOMAIN bs
      <3>1. bs[k].tokens = old.tokens /\ bs[k].last = old.last /\ bs[k] \in BucketState(l)
        BY <1>1, <2>1 DEF Tracks
      <3>2. found.tokens = old.tokens /\ found.last = old.last
        BY <2>1, <3>1 DEF BucketState
      <3>3. QED
        BY <2>1, <3>2 DEF LevelOf, Level
    <2>2. CASE k \notin DOMAIN bs
      <3>1. LevelOf(l, old) = Capacity(l)
        BY <1>1, <2>2 DEF Tracks
      <3>2. found.tokens = Capacity(l) /\ found.last = clock
        BY <2>2 DEF Full
      <3>3. (clock - clock) * PerMin[l] = 0
        BY <1>c
      <3>4. LevelOf(l, found) = Capacity(l)
        BY <1>c, <3>2, <3>3 DEF LevelOf, Level, AtMost
      <3>5. QED
        BY <1>c, <2>2, <3>1, <3>4
    <2>3. QED
      BY <2>1, <2>2
  <1> HIDE DEF found, old
  <1>6. /\ used \in BucketState(l) /\ new \in IdealState(l)
        /\ used.tokens = new.tokens /\ used.last = new.last /\ used.last <= used.seen
    <2> DEFINE level == LevelOf(l, old)
    <2>1. level \in 0..Capacity(l)
      BY <1>2, <1>c, UseBucket
    <2>2. CASE level >= Token
      <3>1. /\ used = [found EXCEPT !.tokens = level - Token, !.last = clock]
            /\ new = [old EXCEPT !.tokens = level - Token, !.last = clock]
        <4>1. LevelOf(l, found) = level
          BY <1>5
        <4>2. new = [old EXCEPT !.tokens = level - Token, !.last = clock]
          BY <1>2, <1>c, <2>2, UseBucket
        <4>3. LevelOf(l, found) >= Token
              => used = [found EXCEPT !.tokens = LevelOf(l, found) - Token, !.last = clock]
          BY <1>4, <1>c, UseBucket
        <4> HIDE DEF used, new, level
        <4>4. QED
          BY ONLY <2>2, <4>1, <4>2, <4>3
      <3>2. level - Token \in 0..Capacity(l) /\ clock \in 0..clock /\ clock <= clock
        BY <1>c, <2>1, <2>2
      <3> HIDE DEF used, new, level
      <3>3. QED
        BY <1>2, <1>3, <3>1, <3>2 DEF BucketState, IdealState
    <2>3. CASE ~(level >= Token)
      <3>1. used = found /\ new = old
        BY <1>2, <1>4, <1>5, <1>c, <2>3, UseBucket
      <3>2. QED
        BY <1>2, <1>3, <1>4, <1>5, <1>c, <2>3, <3>1
    <2>4. QED
      BY <2>2, <2>3
  <1>7. /\ gc.ran \in 0..clock
        /\ DOMAIN gc.kept \subseteq DOMAIN bs \cup {k} /\ k \in DOMAIN gc.kept
        /\ gc.kept = [j \in DOMAIN gc.kept |-> gc.kept[j]]
        /\ \A j \in DOMAIN gc.kept : j # k => j \in DOMAIN bs /\ gc.kept[j] = bs[j]
        /\ \A j \in DOMAIN bs : j \notin DOMAIN gc.kept => clock - bs[j].seen > IdleTTL
    <2>1. CASE due
      <3>1. gc.ran = clock
            /\ gc.kept = [b \in {j \in DOMAIN bs \cup {k} : clock - known[j].seen <= IdleTTL} |-> known[b]]
        BY <2>1 DEF Gc
      <3>2. known[k].seen = clock /\ clock - clock <= IdleTTL
        BY <1>3, <1>c
      <3>3. \A j \in DOMAIN bs : bs[j].seen \in 0..clock
        BY <1>1 DEF BucketState
      <3> HIDE DEF gc
      <3>4. QED
        BY <1>c, <3>1, <3>2, <3>3
    <2>2. CASE ~due
      <3>1. gc.ran = lastGC[l] /\ gc.kept = known
        BY <2>2
      <3> HIDE DEF gc
      <3>2. QED
        BY <1>1, <3>1
    <2>3. QED
      BY <2>1, <2>2
  <1>8. /\ lastGC' = [lastGC EXCEPT ![l] = gc.ran]
        /\ buckets' = [buckets EXCEPT ![l] = [gc.kept EXCEPT ![k] = used]]
        /\ ideal' = [ideal EXCEPT ![l][k] = new]
        /\ clock' = clock
    BY DEF Allow, found, old
  <1> HIDE DEF gc, used, new
  <1>9. /\ buckets'[l] = [gc.kept EXCEPT ![k] = used]
        /\ ideal'[l] = [ideal[l] EXCEPT ![k] = new]
        /\ \A m \in Limiters \ {l} : buckets'[m] = buckets[m] /\ ideal'[m] = ideal[m]
    BY <1>0, <1>8 DEF BucketsOK
  <1>10. /\ DOMAIN buckets'[l] = DOMAIN gc.kept
         /\ buckets'[l][k] = used
         /\ \A j \in DOMAIN gc.kept : j # k => buckets'[l][j] = bs[j]
    BY <1>7, <1>9
  <1>11. ideal'[l][k] = new /\ \A j \in BucketsOf(l) : j # k => ideal'[l][j] = ideal[l][j]
    BY <1>1, <1>9
  <1>12. /\ lastGC' \in [Limiters -> 0..clock'] /\ DOMAIN buckets' = Limiters /\ DOMAIN ideal' = Limiters
    BY <1>0, <1>1, <1>7, <1>8 DEF BucketsOK
  <1>13. ASSUME NEW m \in Limiters
         PROVE  /\ DOMAIN buckets'[m] \subseteq BucketsOf(m)
                /\ buckets'[m] \in [DOMAIN buckets'[m] -> BucketState(m)']
                /\ ideal'[m] \in [BucketsOf(m) -> IdealState(m)']
    <2>1. BucketState(m)' = BucketState(m) /\ IdealState(m)' = IdealState(m)
      BY <1>8 DEF BucketState, IdealState
    <2>2. CASE m = l
      <3>1. DOMAIN buckets'[l] \subseteq BucketsOf(l)
        BY <1>1, <1>7, <1>10
      <3>2. buckets'[l] \in [DOMAIN buckets'[l] -> BucketState(l)]
        <4>1. \A j \in DOMAIN gc.kept : buckets'[l][j] \in BucketState(l)
          BY <1>1, <1>6, <1>7, <1>10
        <4>2. buckets'[l] = [j \in DOMAIN buckets'[l] |-> buckets'[l][j]]
          BY <1>7, <1>9
        <4>3. QED
          BY <1>10, <4>1, <4>2
      <3>3. ideal'[l] \in [BucketsOf(l) -> IdealState(l)]
        BY <1>1, <1>6, <1>9
      <3>4. QED
        BY <2>1, <2>2, <3>1, <3>2, <3>3
    <2>3. CASE m # l
      BY <1>0, <1>9, <2>1, <2>3 DEF BucketsOK
    <2>4. QED
      BY <2>2, <2>3
  <1>14. ASSUME NEW m \in Limiters, NEW j \in BucketsOf(m)
         PROVE  Tracks(m, j)'
    <2>1. CASE m # l
      BY <1>0, <1>8, <1>9, <2>1 DEF BucketsOK, Tracks, LevelOf
    <2>2. CASE m = l /\ j = k
      BY <1>6, <1>7, <1>10, <1>11, <2>2 DEF Tracks
    <2>3. CASE m = l /\ j # k /\ j \in DOMAIN gc.kept
      BY <1>1, <1>7, <1>10, <1>11, <2>3 DEF Tracks
    <2>4. CASE m = l /\ j # k /\ j \notin DOMAIN gc.kept
      <3>1. LevelOf(l, ideal[l][j]) = Capacity(l)
        <4>1. CASE j \notin DOMAIN bs
          BY <1>1, <2>4, <4>1 DEF Tracks
        <4>2. CASE j \in DOMAIN bs
          <5>1. /\ bs[j].last = ideal[l][j].last /\ bs[j].last <= bs[j].seen
                /\ clock - bs[j].seen > IdleTTL
            BY <1>1, <1>7, <2>4, <4>2 DEF Tracks
          <5>2. bs[j] \in BucketState(l) /\ ideal[l][j] \in IdealState(l)
            BY <1>1, <2>4, <4>2
          <5>3. /\ ideal[l][j].tokens \in 0..Capacity(l) /\ ideal[l][j].last \in Nat
                /\ clock - ideal[l][j].last >= IdleTTL
            BY <1>c, <5>1, <5>2 DEF BucketState, IdealState
          <5>4. Capacity(l) <= IdleTTL * PerMin[l]
            BY RefillAssumption
          <5>5. QED
            BY <1>c, <5>3, <5>4, LevelRefilled DEF LevelOf
        <4>3. QED
          BY <4>1, <4>2
      <3>2. j \notin DOMAIN buckets'[l] /\ ideal'[l][j] = ideal[l][j]
        BY <1>10, <1>11, <2>4
      <3>3. QED
        BY <1>8, <2>4, <3>1, <3>2 DEF Tracks, LevelOf
    <2>5. QED
      BY <2>1, <2>2, <2>3, <2>4
  <1>15. QED
    BY <1>12, <1>13, <1>14 DEF BucketsOK

LEMMA AllowIInv ==
    ASSUME IInv, NEW r \in Requests, NEW l \in Limiters, NEW k \in BucketsOf(l), Allow(r, l, k)
    PROVE  IInv'
  <1>0. Counters /\ GlobalOK
    BY DEF IInv
  <1>u. UNCHANGED <<clock, authRequired, global, admitted, setBack, quota>>
    BY DEF Allow
  <1>1. Counters' /\ GlobalOK'
    BY <1>0, <1>u DEF Counters, GlobalOK
  <1>2. RequestsOK'
    <2> DEFINE q == [pc |-> "decode", kind |-> l]
    <2>1. CASE Answer(r)
      BY <1>u, <2>1, AnswerRequests
    <2>2. CASE request' = [request EXCEPT ![r] = q]
      <3>1. q \in RequestState /\ q.pc = "decode"
        BY DEF RequestState
      <3> HIDE DEF q
      <3>2. QED
        BY <1>u, <2>2, <3>1, OneRequest
    <2>3. QED
      BY <2>1, <2>2 DEF Allow
  <1>3. QED
    BY <1>1, <1>2, AllowBuckets DEF IInv

\* limitPage and limitAgent give the limiter one of its own keys.
LEMMA LimitIInv ==
    ASSUME IInv, NEW r \in Requests, LimitPage(r) \/ LimitAgent(r)
    PROVE  IInv'
  <1>1. request[r] \in RequestState
    BY DEF IInv, RequestsOK
  <1>2. request[r].pc = "limit"
    BY DEF LimitPage, LimitAgent
  <1>3. request[r].addr \in Addresses /\ request[r].key \in Keys \cup {NoKey}
    BY <1>1, <1>2, RequestAt
  <1>4. CASE LimitPage(r)
    <2>1. "page" \in Limiters /\ request[r].addr \in BucketsOf("page")
      BY <1>3 DEF Limiters, BucketsOf
    <2>2. QED
      BY <1>4, <2>1, AllowIInv DEF LimitPage
  <1>5. CASE LimitAgent(r)
    <2> DEFINE k == IF request[r].key = NoKey THEN request[r].addr ELSE request[r].key
    <2>1. "agent" \in Limiters /\ k \in BucketsOf("agent")
      BY <1>3 DEF Limiters, BucketsOf
    <2>2. Allow(r, "agent", k)
      BY <1>5 DEF LimitAgent
    <2> HIDE DEF k
    <2>3. QED
      BY <2>1, <2>2, AllowIInv
  <1>6. QED
    BY <1>4, <1>5

LEMMA AcceptIInv ==
    ASSUME IInv, NEW r \in Requests, NEW seconds \in Seconds, Accept(r, seconds)
    PROVE  IInv'
  <1>u. UNCHANGED <<clock, authRequired, buckets, lastGC, global, ideal, admitted, setBack, quota>>
    BY DEF Accept
  <1>1. Counters'
    BY <1>u DEF IInv, Counters
  <1>2. CASE Answer(r)
    BY <1>1, <1>2, <1>u, AnswerRequests, RequestStep
  <1>3. CASE request' = [request EXCEPT ![r] = [pc |-> "served", ttl |-> ClampTTL(seconds)]]
    <2> DEFINE q == [pc |-> "served", ttl |-> ClampTTL(seconds)]
    <2>1. q.pc = "served" /\ q.ttl \in MinTTL..MaxTTL
      BY ClampInRange
    <2>2. ClampTTL(seconds) \in Int
      BY ClampInRange, ConfigAssumption
    <2>3. q \in RequestState
      BY <2>2 DEF RequestState
    <2>4. request' = [request EXCEPT ![r] = q]
      BY <1>3
    <2> HIDE DEF q
    <2>5. RequestsOK'
      BY <1>u, <2>1, <2>3, <2>4, OneRequest
    <2>6. QED
      BY <1>1, <1>u, <2>5, RequestStep
  <1>4. CASE /\ WaitAccepted(seconds)
             /\ request' = [request EXCEPT ![r] = [pc |-> "waiting", wait |-> Wrap(seconds * Second)]]
    <2> DEFINE q == [pc |-> "waiting", wait |-> Wrap(seconds * Second)]
    <2>1. q.pc = "waiting" /\ q.wait <= MaxLongPoll
      BY <1>4 DEF WaitAccepted
    <2>2. q \in RequestState
      BY SecondsAreInt DEF RequestState
    <2>3. request' = [request EXCEPT ![r] = q]
      BY <1>4
    <2> HIDE DEF q
    <2>4. RequestsOK'
      BY <1>u, <2>1, <2>2, <2>3, OneRequest
    <2>5. QED
      BY <1>1, <1>u, <2>4, RequestStep
  <1>5. QED
    BY <1>2, <1>3, <1>4 DEF Accept

LEMMA NextIInv == IInv /\ [Next]_vars => IInv'
  <1> SUFFICES ASSUME IInv, [Next]_vars PROVE IInv'
    OBVIOUS
  <1>1. CASE Tick
    BY <1>1, TickIInv
  <1>2. ASSUME NEW r \in Requests, NEW kind \in Kinds, NEW client \in Clients,
               NEW key \in Keys \cup {NoKey}, NEW route \in Routes, NEW forged \in Forged,
               Arrive(r, kind, client, key, route, forged)
        PROVE  IInv'
    BY <1>2, ArriveIInv
  <1>3. ASSUME NEW r \in Requests, NEW origin \in {"none", "listed", "extension", "foreign"},
               GlobalAllow(r, origin)
        PROVE  IInv'
    BY <1>3, GlobalAllowIInv
  <1>4. ASSUME NEW r \in Requests, LimitPage(r) \/ LimitAgent(r) PROVE IInv'
    BY <1>4, LimitIInv
  <1>5. ASSUME NEW r \in Requests, Unauthorized(r) \/ BadRequest(r) \/ Done(r) PROVE IInv'
    <2>1. /\ Answer(r)
          /\ UNCHANGED <<clock, authRequired, buckets, lastGC, global, ideal, admitted, setBack, quota>>
      BY <1>5 DEF Unauthorized, BadRequest, Done
    <2>2. Counters'
      BY <2>1 DEF IInv, Counters
    <2>3. QED
      BY <2>1, <2>2, AnswerRequests, RequestStep
  <1>6. ASSUME NEW r \in Requests, NEW seconds \in Seconds, Accept(r, seconds) PROVE IInv'
    BY <1>6, AcceptIInv
  <1>7. CASE UNCHANGED vars
    <2>1. RequestsOK' /\ Counters'
      BY <1>7 DEF IInv, vars, RequestsOK, Counters, MeteredAsItself, WithinLimits
    <2>2. QED
      BY <1>7, <2>1, RequestStep DEF vars
  <1>8. QED
    BY <1>1, <1>2, <1>3, <1>4, <1>5, <1>6, <1>7 DEF Next

LEMMA InvariantHolds == Spec => []IInv
  BY InitIInv, NextIInv, PTL DEF Spec

----------------------------------------------------------------------------

\* The limiters, the counters and every request in flight keep their types.
THEOREM LimitsTypeCorrect == Spec => []TypeOK
  <1>1. IInv => TypeOK
    <2> SUFFICES ASSUME IInv PROVE TypeOK
      OBVIOUS
    <2>1. global \in [tokens : Int, last : 0..clock]
      BY Capacities DEF IInv, GlobalOK
    <2>2. QED
      BY <2>1 DEF IInv, TypeOK, Counters, RequestsOK, BucketsOK, BucketState
  <1>2. QED
    BY <1>1, InvariantHolds, PTL

\* Dropping idle buckets never changes what a limiter answers, as long as an
\* idle bucket is full by the time it is dropped (Limiter.gc).
THEOREM ForgettingIsHarmless == Spec => []ForgottenIsFull
  <1>1. IInv => ForgottenIsFull
    <2> SUFFICES ASSUME IInv, NEW l \in Limiters, NEW k \in BucketsOf(l)
                 PROVE  IF k \in DOMAIN buckets[l]
                        THEN LevelOf(l, buckets[l][k]) = LevelOf(l, ideal[l][k])
                        ELSE LevelOf(l, ideal[l][k]) = Capacity(l)
      BY DEF ForgottenIsFull
    <2>1. Tracks(l, k)
      BY DEF IInv, BucketsOK
    <2>2. QED
      BY <2>1 DEF Tracks, LevelOf, Level
  <1>2. QED
    BY <1>1, InvariantHolds, PTL

\* The global limit admits no more than burst and rate allow, the stretches of
\* time that late requests set the bucket back over counted again
\* (Global.Allow).
THEOREM BudgetIsKept == Spec => []GlobalBudget
  <1>1. IInv => GlobalBudget
    <2> SUFFICES ASSUME IInv PROVE GlobalBudget
      OBVIOUS
    <2>1. /\ clock \in Nat /\ setBack \in Nat /\ admitted \in Nat
          /\ PerSec \in Nat /\ GlobalToken \in Nat /\ GlobalCapacity \in Nat
      BY Capacities DEF IInv, Counters
    <2>2. /\ global.tokens \in Nat /\ global.last \in Nat /\ global.last <= clock
          /\ global.tokens + admitted * GlobalToken <= GlobalCapacity + PerSec * (global.last + setBack)
      BY <2>1 DEF IInv, GlobalOK
    <2>3. (global.last + setBack) * PerSec <= (clock + setBack) * PerSec
      BY <2>1, <2>2, ProductMonotone
    <2>4. /\ (global.last + setBack) * PerSec = PerSec * (global.last + setBack)
          /\ (clock + setBack) * PerSec = PerSec * (clock + setBack)
          /\ admitted * GlobalToken \in Int /\ PerSec * (global.last + setBack) \in Int
          /\ PerSec * (clock + setBack) \in Int
      BY <2>1, <2>2
    <2>5. QED
      BY <2>1, <2>2, <2>3, <2>4 DEF GlobalBudget
  <1>2. QED
    BY <1>1, InvariantHolds, PTL

\* However many trusted proxies a request came through and whatever header its
\* client sent along, it is metered under the client's address (ClientIP).
THEOREM NobodyElseIsMetered == Spec => []MeteredAsItself
  <1>1. IInv => MeteredAsItself
    BY DEF IInv, RequestsOK
  <1>2. QED
    BY <1>1, InvariantHolds, PTL

\* No overflow gets a request past the configured lifetimes and the longest
\* poll (ClampTTL, statusHandler).
THEOREM LimitsHold == Spec => []WithinLimits
  <1>1. IInv => WithinLimits
    BY DEF IInv, RequestsOK
  <1>2. QED
    BY <1>1, InvariantHolds, PTL
============================================================================
