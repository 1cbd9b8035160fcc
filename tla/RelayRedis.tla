----------------------------- MODULE RelayRedis -----------------------------
(***************************************************************************)
(* The Redis slot store of the relay, internal/relay/redis_store.go, with  *)
(* any number of relay replicas on one Redis.                              *)
(*                                                                         *)
(* Every method is one Lua script and so one atomic step, run for a        *)
(* replica and with that replica's clock.  Sweep is not: it lists due      *)
(* members of a sorted set, runs one script for each, lists again, and     *)
(* other replicas and callers come in between any two of these calls.      *)
(* Redis deletes a slot's key by itself when its PEXPIRE runs out, without *)
(* running any script.  A script the client library sends twice because a  *)
(* reply was lost is the same step taken twice; Wait is Status again and   *)
(* again until the state differs or time is up.                            *)
(*                                                                         *)
(* Slots, tokens and ciphertexts are represented as in RelayMemory.        *)
(***************************************************************************)
EXTENDS Integers, FiniteSets

CONSTANTS
    Ids,        \* identifiers, each drawn at most once
    Replicas,   \* relay processes sharing the Redis
    Offset,     \* how far each replica's clock is ahead of Redis's
    Ahead,      \* the furthest any of them is
    Sizes,      \* lengths of the ciphertexts callers send
    TTLs,       \* lifetimes the configuration allows
    Grace,      \* StoreOptions.TombstoneGrace
    MaxLive,    \* StoreOptions.MaxLive, 0 means unlimited
    MaxBytes,   \* StoreOptions.MaxBytes, 0 means unlimited
    Batch,      \* how many members one ZRANGEBYSCORE returns at most
    Outage,     \* whether the relays may be away, or fail to sweep, for a whole grace period
    Horizon     \* bound on the clock

ASSUME IdsAssumption == IsFiniteSet(Ids)
ASSUME SizesAssumption == Sizes \subseteq Nat \ {0}
ASSUME TimesAssumption ==
    /\ TTLs \subseteq Nat \ {0} /\ Grace \in Nat \ {0} /\ Horizon \in Nat
    /\ Ahead \in Nat /\ Offset \in [Replicas -> 0..Ahead]
ASSUME LimitsAssumption == MaxLive \in Nat /\ MaxBytes \in Nat /\ Batch \in Nat \ {0} /\ Outage \in BOOLEAN

VARIABLES
    clock,      \* Redis's own clock
    slot,       \* the hashes slot:<id>
    goneAt,     \* when the PEXPIRE of a slot's key runs out
    expiry,     \* sorted set of live ids, scored by expiry; Never when not a member
    removal,    \* sorted set of all ids, scored by expiry plus grace
    live,       \* the counter live
    bytes,      \* the counter bytes
    sweep,      \* what each replica's Sweep is doing
    delivered   \* history: scripts that replied with the slot's ciphertext

slotVars == <<slot, goneAt, expiry, removal, live, bytes, delivered>>
vars == <<clock, slot, goneAt, expiry, removal, live, bytes, sweep, delivered>>

Kinds == {"drop", "reveal"}
Tokens == {"A", "B"}
Credentials == Tokens \cup {"other"}
LiveStates == {"created", "uploaded"}
TerminalStates == {"fetched", "opened", "revoked", "expired"}
UnknownStates == {"fresh", "forgotten"}

Never == -1

NoSlot(s) == [kind |-> "drop", state |-> s, ct |-> 0, tokens |-> {},
              commitment |-> FALSE, expires |-> 0]

Terminal(s) == s \in TerminalStates
Present(id) == slot[id].state \notin UnknownStates
Live(id) == slot[id].state \in LiveStates

\* No key is due to be dropped: what Redis sees to before it runs a script.
Settled == \A id \in Ids : goneAt[id] # Never => clock < goneAt[id]

\* The clock a replica passes in as ARGV[1].
Now(r) == clock + Offset[r]

Idle == [pc |-> "idle"]

Init ==
    /\ clock = 0
    /\ slot = [id \in Ids |-> NoSlot("fresh")]
    /\ goneAt = [id \in Ids |-> Never]
    /\ expiry = [id \in Ids |-> Never]
    /\ removal = [id \in Ids |-> Never]
    /\ live = 0 /\ bytes = 0
    /\ sweep = [r \in Replicas |-> Idle]
    /\ delivered = [id \in Ids |-> 0]

----------------------------------------------------------------------------
(* The script prelude.                                                     *)

\* Mutants: the size is read after tombstone deleted the ciphertext; the slot
\* stays in the set of slots that have yet to expire.
Retire_KeepsBytes(id, final) ==
    /\ bytes' = bytes
    /\ live' = live - 1
    /\ expiry' = [expiry EXCEPT ![id] = Never]
    /\ slot' = [slot EXCEPT ![id] = [@ EXCEPT !.ct = 0, !.tokens = {}, !.commitment = FALSE,
                                              !.state = final]]
Retire_KeepsIndex(id, final) ==
    /\ bytes' = bytes - slot[id].ct
    /\ live' = live - 1
    /\ slot' = [slot EXCEPT ![id] = [@ EXCEPT !.ct = 0, !.tokens = {}, !.commitment = FALSE,
                                              !.state = final]]
    /\ UNCHANGED expiry

\* release, then tombstone.
Retire(id, final) ==
    /\ bytes' = bytes - slot[id].ct
    /\ live' = live - 1
    /\ expiry' = [expiry EXCEPT ![id] = Never]
    /\ slot' = [slot EXCEPT ![id] = [@ EXCEPT !.ct = 0, !.tokens = {}, !.commitment = FALSE,
                                              !.state = final]]

\* Mutant: a slot is readable in the very instant of its expiry.
Due_Late(r, id) == Live(id) /\ Now(r) > slot[id].expires

\* get: a live slot whose time is up on the caller's clock is expired first.
Due(r, id) == Live(id) /\ Now(r) >= slot[id].expires

Expire(id) == Retire(id, "expired") /\ UNCHANGED delivered

\* What no script after get touches.
Untouched == UNCHANGED <<clock, goneAt, removal, sweep>>

Room(n) == MaxBytes > 0 => bytes + n <= MaxBytes

----------------------------------------------------------------------------
(* The scripts behind the store's methods.                                 *)

\* redisCreate.  PEXPIRE counts from Redis's clock, but what it counts down was
\* computed with the replica's.
Create(r, id, kind, n, ttl) ==
    LET expires == Now(r) + ttl
        left == expires + Grace - Now(r)
    IN
    /\ Settled /\ slot[id].state = "fresh"
    /\ n > 0 <=> kind = "reveal"
    /\ MaxLive > 0 => live < MaxLive
    /\ Room(n)
    /\ expires + Grace <= Horizon
    /\ slot' = [slot EXCEPT ![id] =
                  [kind |-> kind, state |-> "created", ct |-> n, tokens |-> Tokens,
                   commitment |-> kind = "drop", expires |-> expires]]
    /\ bytes' = bytes + n
    /\ live' = live + 1
    /\ expiry' = [expiry EXCEPT ![id] = expires]
    /\ removal' = [removal EXCEPT ![id] = expires + Grace]
    /\ goneAt' = [goneAt EXCEPT ![id] = clock + left]
    /\ UNCHANGED <<clock, sweep, delivered>>

UploadReply(d, token, commitment, n) ==
    IF d.kind # "drop" THEN "wrongkind"
    ELSE IF Terminal(d.state) THEN "state"
    ELSE IF token # "A" \/ token \notin d.tokens THEN "badtoken"
    ELSE IF d.state # "created" THEN "state"
    ELSE IF d.commitment # commitment THEN "commitment"
    ELSE IF ~Room(n) THEN "full"
    ELSE "ok"

Upload(r, id, token, commitment, n) ==
    /\ Settled /\ Present(id)
    /\ \/ Due(r, id) /\ Expire(id)
       \/ /\ ~Due(r, id) /\ UploadReply(slot[id], token, commitment, n) = "ok"
          /\ slot' = [slot EXCEPT ![id].ct = n, ![id].state = "uploaded"]
          /\ bytes' = bytes + n
          /\ UNCHANGED <<live, expiry, delivered>>
    /\ Untouched

FetchReply(d, token) ==
    IF d.kind # "drop" THEN "wrongkind"
    ELSE IF Terminal(d.state) THEN "state"
    ELSE IF token # "B" \/ token \notin d.tokens THEN "badtoken"
    ELSE IF d.state # "uploaded" THEN "state"
    ELSE "ok"

\* Mutant: the ciphertext is returned and stays.
Fetch_Peeks(r, id, token) ==
    /\ Settled /\ Present(id)
    /\ \/ Due(r, id) /\ Expire(id)
       \/ /\ ~Due(r, id) /\ FetchReply(slot[id], token) = "ok"
          /\ delivered' = [delivered EXCEPT ![id] = @ + 1]
          /\ UNCHANGED <<slot, live, bytes, expiry>>
    /\ Untouched

Fetch(r, id, token) ==
    /\ Settled /\ Present(id)
    /\ \/ Due(r, id) /\ Expire(id)
       \/ /\ ~Due(r, id) /\ FetchReply(slot[id], token) = "ok"
          /\ Retire(id, "fetched")
          /\ delivered' = [delivered EXCEPT ![id] = @ + 1]
    /\ Untouched

OpenReply(d, token) ==
    IF d.kind # "reveal" THEN "wrongkind"
    ELSE IF Terminal(d.state) THEN "state"
    ELSE IF token # "A" \/ token \notin d.tokens THEN "badtoken"
    ELSE "ok"

Open(r, id, token) ==
    /\ Settled /\ Present(id)
    /\ \/ Due(r, id) /\ Expire(id)
       \/ /\ ~Due(r, id) /\ OpenReply(slot[id], token) = "ok"
          /\ Retire(id, "opened")
          /\ delivered' = [delivered EXCEPT ![id] = @ + 1]
    /\ Untouched

RevokeReply(d, token) ==
    IF Terminal(d.state) THEN "state"
    ELSE IF token \notin d.tokens THEN "badtoken"
    ELSE "ok"

Revoke(r, id, token) ==
    /\ Settled /\ Present(id)
    /\ \/ Due(r, id) /\ Expire(id)
       \/ /\ ~Due(r, id) /\ RevokeReply(slot[id], token) = "ok"
          /\ Retire(id, "revoked")
          /\ UNCHANGED delivered
    /\ Untouched

\* Status, also as Wait and lastStatus repeat it.
Status(r, id) ==
    /\ Settled /\ Due(r, id)
    /\ Expire(id)
    /\ Untouched

----------------------------------------------------------------------------
(* Sweep: the sorted set expiry with redisExpire, then removal with        *)
(* redisRemove, both for the time at which Sweep began.                    *)

Listing(set, at, last) == [pc |-> "list", set |-> set, at |-> at, last |-> last]

\* Where sweepSet returns to.
NextSet(s) == IF s.set = "expiry" THEN Listing("removal", s.at, {}) ELSE Idle

Score(set) == IF set = "expiry" THEN expiry ELSE removal

SweepBegin(r) ==
    /\ sweep[r].pc = "idle"
    /\ \E id \in Ids : removal[id] # Never \/ expiry[id] # Never
    /\ sweep' = [sweep EXCEPT ![r] = Listing("expiry", Now(r), {})]
    /\ UNCHANGED clock /\ UNCHANGED slotVars

\* ZRANGEBYSCORE: the least members up to now, at most Batch of them.  The loop
\* ends when there are none, or when the first one is the first of the batch
\* before (last, a set of at most one element).
Lists(s, ids, first) ==
    LET score == Score(s.set)
        due == {id \in Ids : score[id] # Never /\ score[id] <= s.at}
    IN  /\ ids \subseteq due
        /\ IF Cardinality(due) <= Batch THEN ids = due ELSE Cardinality(ids) = Batch
        /\ \A id \in ids, other \in due \ ids : score[id] <= score[other]
        /\ first \subseteq ids
        /\ IF ids = {} THEN first = {} ELSE Cardinality(first) = 1
        /\ \A f \in first, id \in ids : score[f] <= score[id]

SweepList(r) ==
    LET s == sweep[r] IN
    /\ s.pc = "list"
    /\ \E ids, first \in SUBSET Ids :
          /\ Lists(s, ids, first)
          /\ sweep' = [sweep EXCEPT ![r] =
                IF ids = {} \/ first = s.last
                THEN NextSet(s)
                ELSE [pc |-> "run", set |-> s.set, at |-> s.at, last |-> first, ids |-> ids,
                      full |-> Cardinality(ids) = Batch]]
    /\ UNCHANGED clock /\ UNCHANGED slotVars

\* Mutant: the script trusts the listing and expires whatever is still there.
ExpireScript_TrustsListing(r, id) ==
    /\ IF ~Present(id)
       THEN /\ expiry' = [expiry EXCEPT ![id] = Never]
            /\ UNCHANGED <<slot, live, bytes>>
       ELSE Retire(id, "expired")
    /\ UNCHANGED <<goneAt, removal, delivered>>

\* redisExpire on one member.
ExpireScript(r, id) ==
    /\ IF ~Live(id)
       THEN /\ expiry' = [expiry EXCEPT ![id] = Never]
            /\ UNCHANGED <<slot, live, bytes>>
       ELSE IF Now(r) < slot[id].expires
       THEN UNCHANGED <<slot, live, bytes, expiry>>
       ELSE Retire(id, "expired")
    /\ UNCHANGED <<goneAt, removal, delivered>>

\* Mutant: a slot whose key is gone is left in the index.
RemoveScript_KnownOnly(id) ==
    /\ IF Present(id)
       THEN /\ removal' = [removal EXCEPT ![id] = Never]
            /\ expiry' = [expiry EXCEPT ![id] = Never]
            /\ slot' = [slot EXCEPT ![id] = NoSlot("forgotten")]
            /\ goneAt' = [goneAt EXCEPT ![id] = Never]
       ELSE UNCHANGED <<removal, expiry, slot, goneAt>>
    /\ IF Live(id)
       THEN live' = live - 1 /\ bytes' = bytes - slot[id].ct
       ELSE UNCHANGED <<live, bytes>>
    /\ UNCHANGED delivered

\* redisRemove on one member: unlike the memory store's removal it releases a
\* slot that is still live.
RemoveScript(id) ==
    /\ removal' = [removal EXCEPT ![id] = Never]
    /\ expiry' = [expiry EXCEPT ![id] = Never]
    /\ IF Live(id)
       THEN live' = live - 1 /\ bytes' = bytes - slot[id].ct
       ELSE UNCHANGED <<live, bytes>>
    /\ IF Present(id)
       THEN /\ slot' = [slot EXCEPT ![id] = NoSlot("forgotten")]
            /\ goneAt' = [goneAt EXCEPT ![id] = Never]
       ELSE UNCHANGED <<slot, goneAt>>
    /\ UNCHANGED delivered

\* One script of the loop over a batch, in any order, and the loop's turn
\* after the last.
SweepRun(r, id) ==
    LET s == sweep[r]
        rest == s.ids \ {id}
    IN
    /\ Settled /\ s.pc = "run" /\ id \in s.ids
    /\ IF s.set = "expiry" THEN ExpireScript(r, id) ELSE RemoveScript(id)
    /\ sweep' = [sweep EXCEPT ![r] =
                   IF rest # {} THEN [s EXCEPT !.ids = rest]
                   ELSE IF s.full THEN Listing(s.set, s.at, s.last)
                   ELSE NextSet(s)]
    /\ UNCHANGED clock

\* A call fails or the five seconds are over: sweepSet gives up where it is.
SweepError(r) ==
    /\ sweep[r].pc # "idle"
    /\ sweep' = [sweep EXCEPT ![r] = NextSet(sweep[r])]
    /\ UNCHANGED clock /\ UNCHANGED slotVars

\* The replica stops in the middle of a sweep; Close keeps everything in Redis.
Crash(r) ==
    /\ sweep[r].pc # "idle"
    /\ sweep' = [sweep EXCEPT ![r] = Idle]
    /\ UNCHANGED clock /\ UNCHANGED slotVars

----------------------------------------------------------------------------
(* Time.                                                                   *)

\* Redis drops a key whose PEXPIRE ran out before any script can see it; the
\* sorted sets and the counters know nothing of that.
KeyGone(id) ==
    /\ goneAt[id] # Never /\ goneAt[id] <= clock
    /\ slot' = [slot EXCEPT ![id] = NoSlot("forgotten")]
    /\ goneAt' = [goneAt EXCEPT ![id] = Never]
    /\ UNCHANGED <<clock, expiry, removal, live, bytes, sweep, delivered>>

\* Sweeps come every ten seconds and the grace period is a day, so without an
\* outage no slot is left live until Redis drops its key.
SweptInTime == \A id \in Ids : Live(id) => clock + 1 < goneAt[id]

Tick ==
    /\ Settled /\ clock < Horizon
    /\ Outage \/ SweptInTime
    /\ clock' = clock + 1
    /\ UNCHANGED sweep /\ UNCHANGED slotVars

SlotCall(r, id) ==
    \/ \E kind \in Kinds, n \in Sizes \cup {0}, ttl \in TTLs : Create(r, id, kind, n, ttl)
    \/ \E token \in Credentials, commitment \in BOOLEAN, n \in Sizes :
          Upload(r, id, token, commitment, n)
    \/ \E token \in Credentials : Fetch(r, id, token) \/ Open(r, id, token) \/ Revoke(r, id, token)
    \/ Status(r, id)

SweepStep(r) ==
    \/ SweepBegin(r)
    \/ SweepList(r)
    \/ \E id \in Ids : SweepRun(r, id)

Next ==
    \/ \E r \in Replicas :
          \/ \E id \in Ids : SlotCall(r, id)
          \/ SweepStep(r)
          \/ SweepError(r)
          \/ Crash(r)
    \/ \E id \in Ids : KeyGone(id)
    \/ Tick

Spec == Init /\ [][Next]_vars

\* Each replica's sweeper goroutine keeps sweeping, and time goes on.
Fairness ==
    /\ WF_vars(Tick)
    /\ \A id \in Ids : WF_vars(KeyGone(id))
    /\ \A r \in Replicas : WF_vars(SweepStep(r))

FairSpec == Spec /\ Fairness

----------------------------------------------------------------------------
(* Properties.                                                             *)

SweepState ==
    {Idle} \cup [pc : {"list"}, set : {"expiry", "removal"}, at : Nat, last : SUBSET Ids]
           \cup [pc : {"run"}, set : {"expiry", "removal"}, at : Nat, last : SUBSET Ids,
                  ids : SUBSET Ids, full : BOOLEAN]

\* The shapes of the keys in Redis and of the sweeps.
TypeOK ==
    /\ clock \in Nat
    /\ slot \in [Ids -> [kind : Kinds, state : LiveStates \cup TerminalStates \cup UnknownStates,
                         ct : Nat, tokens : SUBSET Tokens, commitment : BOOLEAN, expires : Nat]]
    /\ goneAt \in [Ids -> Nat \cup {Never}]
    /\ expiry \in [Ids -> Nat \cup {Never}]
    /\ removal \in [Ids -> Nat \cup {Never}]
    /\ live \in Int /\ bytes \in Int
    /\ sweep \in [Replicas -> SweepState]
    /\ delivered \in [Ids -> Nat]

LiveIds == {id \in Ids : Live(id)}

\* The counter live, which Create holds against MaxLive and Stats reports as
\* "slots that are not tombstones", is their number, although slots are
\* released by callers on any replica, by two scripts of any replica's sweep,
\* and not at all when Redis drops a key by itself.
LiveCounted ==
    /\ live = Cardinality(LiveIds)
    /\ MaxLive > 0 => live <= MaxLive

\* One element for every byte of ciphertext in some slot.
HeldBytes == UNION {{id} \X (1 .. slot[id].ct) : id \in Ids}

\* The counter bytes is the ciphertext held over all slots.
BytesCounted ==
    /\ bytes = Cardinality(HeldBytes)
    /\ MaxBytes > 0 => bytes <= MaxBytes

\* Replies with a slot's ciphertext: at most one, and none from a slot that was
\* revoked or expired, whichever replicas the calls go to.
ReadOnce ==
    \A id \in Ids :
        /\ delivered[id] <= 1
        /\ slot[id].state \in LiveStates \cup {"fresh", "revoked", "expired"}
              => delivered[id] = 0

\* The sorted sets are true indexes of the slots: expiry holds every live slot
\* at its expiry and no tombstone, removal holds every slot at its end, so a
\* sweep of any replica finds what is due.
Indexed ==
    \A id \in Ids :
        /\ Live(id) => expiry[id] = slot[id].expires
        /\ Present(id) /\ ~Live(id) => expiry[id] = Never
        /\ Present(id) => removal[id] = slot[id].expires + Grace

\* Relays on one Redis implement the slot contract of store.go up to what
\* their clocks are ahead: a slot goes forward only, what it holds is handed out
\* once and before its expiry, and none expires or is forgotten earlier than the
\* furthest clock says, sweeps listed long ago, sweeps that failed half way and
\* Redis's own key expiry included.
Contract == INSTANCE ReplicatedStore WITH
    now <- clock,
    slot <- [id \in Ids |-> [kind |-> slot[id].kind, state |-> slot[id].state,
                             held |-> slot[id].ct, expires |-> slot[id].expires]],
    handed <- delivered,
    Slack <- Ahead

ReplicaContract == Contract!ReplicatedSpec

\* The contract of store.go to the letter, for clocks in step.
SlotContract == Contract!Spec

\* Nothing stays in the indexes for ever: what Create put into the sorted sets
\* is taken out again, also for a slot whose key Redis dropped, once sweeps are
\* no longer cut short, however many were before.
Calm == \A r \in Replicas : ~(SweepError(r) \/ Crash(r))
IndexesDrain ==
    <>[][Calm]_vars =>
       \A id \in Ids : removal[id] # Never ~> removal[id] = Never /\ expiry[id] = Never /\ ~Present(id)
============================================================================
