---------------------------- MODULE RelayMemory ----------------------------
(***************************************************************************)
(* The in-memory slot store of the relay: internal/relay/memory.go with    *)
(* the slot type of internal/relay/types.go.  One mutex guards everything, *)
(* so every method is one step, except the two that are not: Sweep, which  *)
(* holds the mutex over many heap pops (one step each here, every other    *)
(* method blocked meanwhile), and Wait, which registers a channel, lets go *)
(* of the mutex, blocks, and takes it again.                               *)
(*                                                                         *)
(* A call that is refused changes nothing, unless its slot's time is up:   *)
(* get() then expires the slot first.  Refused calls are therefore stutter *)
(* steps or the "Due" branch of the method's action; the order in which a  *)
(* method rules a call out is kept in the *Reply operators.                *)
(*                                                                         *)
(* A ciphertext is represented by its length and a token by its role (the  *)
(* slot's first or second token, or a token that is neither).              *)
(***************************************************************************)
EXTENDS Integers, FiniteSets

CONSTANTS
    Ids,       \* identifiers crypto.RandomToken can draw, each at most once
    Polls,     \* long polls, one Wait call at a time each
    Sizes,     \* lengths of the ciphertexts callers send
    TTLs,      \* lifetimes the configuration allows (Config.ClampTTL)
    Grace,     \* StoreOptions.TombstoneGrace
    MaxLive,   \* StoreOptions.MaxLive, 0 means unlimited
    MaxBytes,  \* StoreOptions.MaxBytes, 0 means unlimited
    Horizon    \* bound on the clock; slots are created only if they end before it

ASSUME IdsAssumption == IsFiniteSet(Ids)
ASSUME SizesAssumption == Sizes \subseteq Nat \ {0}
ASSUME TimesAssumption == TTLs \subseteq Nat \ {0} /\ Grace \in Nat \ {0}
ASSUME LimitsAssumption == MaxLive \in Nat /\ MaxBytes \in Nat /\ Horizon \in Nat

VARIABLES
    clock,     \* StoreOptions.Now
    drops,     \* Memory.drops
    live,      \* Memory.live
    bytes,     \* Memory.bytes
    timers,    \* Memory.timers, the heap of expiry and removal entries
    waiters,   \* Memory.waiters: the polls whose channel is registered on a slot
    sweepNow,  \* the time a running Sweep works for; NoSweep when mu is free
    poll,      \* the local state of each Wait call
    signal,    \* whether a poll's channel holds its one buffered element
    delivered  \* history: how often a slot's ciphertext was returned to a caller

slotVars == <<drops, live, bytes, delivered>>
pollVars == <<waiters, poll>>
vars == <<clock, drops, live, bytes, timers, waiters, sweepNow, poll, signal, delivered>>

----------------------------------------------------------------------------
(* Slots, types.go.                                                        *)

Kinds == {"drop", "reveal"}
Tokens == {"A", "B"}                     \* Drop.TokenA and Drop.TokenB
Credentials == Tokens \cup {"other"}     \* what a caller may present
LiveStates == {"created", "uploaded"}
TerminalStates == {"fetched", "opened", "revoked", "expired"}
UnknownStates == {"fresh", "forgotten"}  \* not in Memory.drops: never was, or deleted

Terminal(s) == s \in TerminalStates

Drop == [kind : Kinds, state : LiveStates \cup TerminalStates \cup UnknownStates,
         ct : Nat, tokens : SUBSET Tokens, commitment : BOOLEAN, expires : Nat]

\* No slot under this identifier.
NoDrop(s) == [kind |-> "drop", state |-> s, ct |-> 0, tokens |-> {},
              commitment |-> FALSE, expires |-> 0]

\* Mutant: the tokens and the commitment survive.
Tombstone_KeepsTokens(d, final) == [d EXCEPT !.ct = 0, !.state = final]

\* tombstone clears everything except state and timestamps.
Tombstone(d, final) ==
    [d EXCEPT !.ct = 0, !.tokens = {}, !.commitment = FALSE, !.state = final]

Present(id) == drops[id].state \notin UnknownStates
Live(id) == drops[id].state \in LiveStates

\* Mutant: a slot is readable in the very instant of its expiry.
Due_Late(id) == Live(id) /\ clock > drops[id].expires

\* The condition under which get() expires the slot before the caller sees it.
Due(id) == Live(id) /\ clock >= drops[id].expires

NoSweep == -1
Unlocked == sweepNow = NoSweep

NoPoll == [pc |-> "idle"]
Entry(at, id, remove) == [at |-> at, id |-> id, remove |-> remove]

Init ==
    /\ clock = 0
    /\ drops = [id \in Ids |-> NoDrop("fresh")]
    /\ live = 0 /\ bytes = 0
    /\ timers = {}
    /\ waiters = [id \in Ids |-> {}]
    /\ sweepNow = NoSweep
    /\ poll = [p \in Polls |-> NoPoll]
    /\ signal = [p \in Polls |-> FALSE]
    /\ delivered = [id \in Ids |-> 0]

----------------------------------------------------------------------------
(* Steps shared by the methods.                                            *)

\* Mutants: nobody is told, everybody is told.
Notify_Nobody(id) == UNCHANGED signal
Notify_Everybody(id) ==
    signal' = [p \in Polls |-> signal[p] \/ (id \in Ids /\ poll[p].pc = "blocked")]

\* notify: a non-blocking send to every channel registered on the slot.  What
\* arrives in the channel of a poll that is past its select is never read.
Notify(id) ==
    signal' = [p \in Polls |-> signal[p] \/ (p \in waiters[id] /\ poll[p].pc = "blocked")]

\* Mutant: the size is read after the tombstone has cleared the ciphertext.
Retire_KeepsBytes(id, final) ==
    /\ bytes' = bytes
    /\ live' = live - 1
    /\ drops' = [drops EXCEPT ![id] = Tombstone(drops[id], final)]
    /\ Notify(id)

\* The end of a live slot, as Fetch, Open, Revoke and expire all spell it out:
\* out of the counters, tombstone, notify.
Retire(id, final) ==
    /\ bytes' = bytes - drops[id].ct
    /\ live' = live - 1
    /\ drops' = [drops EXCEPT ![id] = Tombstone(drops[id], final)]
    /\ Notify(id)

\* expire, reached from get() by any method and from Sweep.
Expire(id) == Retire(id, "expired") /\ UNCHANGED delivered

\* What a method that went past get() does not touch.
Untouched == UNCHANGED <<clock, timers, sweepNow, waiters, poll>>

Room(n) == MaxBytes > 0 => bytes + n <= MaxBytes

----------------------------------------------------------------------------
(* The methods.                                                            *)

\* Create, for a fresh random identifier.  The store keeps its own copy of the
\* ciphertext and schedules both timers.
Create(id, kind, n, ttl) ==
    /\ Unlocked
    /\ drops[id].state = "fresh"
    /\ n > 0 <=> kind = "reveal"         \* createReveal sends it along, createDrop does not
    /\ MaxLive > 0 => live < MaxLive
    /\ Room(n)
    /\ clock + ttl + Grace <= Horizon
    /\ drops' = [drops EXCEPT ![id] =
                   [kind |-> kind, state |-> "created", ct |-> n, tokens |-> Tokens,
                    commitment |-> kind = "drop", expires |-> clock + ttl]]
    /\ live' = live + 1
    /\ bytes' = bytes + n
    /\ timers' = timers \cup {Entry(clock + ttl, id, FALSE), Entry(clock + ttl + Grace, id, TRUE)}
    /\ UNCHANGED <<clock, waiters, sweepNow, poll, signal, delivered>>

UploadReply(d, token, commitment, n) ==
    IF d.kind # "drop" THEN "wrong_kind"
    ELSE IF Terminal(d.state) THEN "state"
    ELSE IF token # "A" \/ token \notin d.tokens THEN "bad_token"
    ELSE IF d.state # "created" THEN "state"
    ELSE IF d.commitment # commitment THEN "commitment"
    ELSE IF ~Room(n) THEN "full"
    ELSE "ok"

Upload(id, token, commitment, n) ==
    /\ Unlocked /\ Present(id)
    /\ \/ Due(id) /\ Expire(id)
       \/ /\ ~Due(id) /\ UploadReply(drops[id], token, commitment, n) = "ok"
          /\ drops' = [drops EXCEPT ![id].ct = n, ![id].state = "uploaded"]
          /\ bytes' = bytes + n
          /\ Notify(id)
          /\ UNCHANGED <<live, delivered>>
    /\ Untouched

FetchReply(d, token) ==
    IF d.kind # "drop" THEN "wrong_kind"
    ELSE IF Terminal(d.state) THEN "state"
    ELSE IF token # "B" \/ token \notin d.tokens THEN "bad_token"
    ELSE IF d.state # "uploaded" THEN "state"
    ELSE "ok"

\* Mutant: the ciphertext is returned and stays.
Fetch_Peeks(id, token) ==
    /\ Unlocked /\ Present(id)
    /\ \/ Due(id) /\ Expire(id)
       \/ /\ ~Due(id) /\ FetchReply(drops[id], token) = "ok"
          /\ delivered' = [delivered EXCEPT ![id] = @ + 1]
          /\ UNCHANGED <<drops, live, bytes, signal>>
    /\ Untouched

Fetch(id, token) ==
    /\ Unlocked /\ Present(id)
    /\ \/ Due(id) /\ Expire(id)
       \/ /\ ~Due(id) /\ FetchReply(drops[id], token) = "ok"
          /\ Retire(id, "fetched")
          /\ delivered' = [delivered EXCEPT ![id] = @ + 1]
    /\ Untouched

OpenReply(d, token) ==
    IF d.kind # "reveal" THEN "wrong_kind"
    ELSE IF Terminal(d.state) THEN "state"
    ELSE IF token # "A" \/ token \notin d.tokens THEN "bad_token"
    ELSE "ok"

Open(id, token) ==
    /\ Unlocked /\ Present(id)
    /\ \/ Due(id) /\ Expire(id)
       \/ /\ ~Due(id) /\ OpenReply(drops[id], token) = "ok"
          /\ Retire(id, "opened")
          /\ delivered' = [delivered EXCEPT ![id] = @ + 1]
    /\ Untouched

RevokeReply(d, token) ==
    IF Terminal(d.state) THEN "state"
    ELSE IF token \notin d.tokens THEN "bad_token"
    ELSE "ok"

Revoke(id, token) ==
    /\ Unlocked /\ Present(id)
    /\ \/ Due(id) /\ Expire(id)
       \/ /\ ~Due(id) /\ RevokeReply(drops[id], token) = "ok"
          /\ Retire(id, "revoked")
          /\ UNCHANGED delivered
    /\ Untouched

\* Status only reads, but get() may expire the slot on the way.
Status(id) ==
    /\ Unlocked /\ Due(id)
    /\ Expire(id)
    /\ Untouched

----------------------------------------------------------------------------
(* Wait.                                                                   *)

\* The first critical section: either get() expires the slot, which ends the
\* call because current is a live state (statusHandler never waits on a
\* tombstone), or the channel is registered.  A call whose slot is unknown, or
\* already differs from current, or whose timeout is 0, returns at once.
WaitBegin(p, id, current) ==
    /\ Unlocked /\ poll[p].pc = "idle" /\ Present(id)
    /\ \/ Due(id) /\ Expire(id) /\ UNCHANGED pollVars
       \/ /\ ~Due(id) /\ drops[id].state = current
          /\ waiters' = [waiters EXCEPT ![id] = @ \cup {p}]
          /\ poll' = [poll EXCEPT ![p] = [pc |-> "blocked", id |-> id, current |-> current]]
          /\ UNCHANGED slotVars /\ UNCHANGED signal       \* a new, empty channel
    /\ UNCHANGED <<clock, timers, sweepNow>>

\* The select, its first case: the channel has an element.
WaitNotified(p) ==
    /\ poll[p].pc = "blocked" /\ signal[p]
    /\ poll' = [poll EXCEPT ![p].pc = "notified"]
    /\ signal' = [signal EXCEPT ![p] = FALSE]
    /\ UNCHANGED <<clock, timers, sweepNow, waiters>> /\ UNCHANGED slotVars

\* Its other two cases: the timer fired or the caller went away.
WaitGiveUp(p) ==
    /\ poll[p].pc = "blocked"
    /\ poll' = [poll EXCEPT ![p].pc = "gave_up"]
    /\ signal' = [signal EXCEPT ![p] = FALSE]
    /\ UNCHANGED <<clock, timers, sweepNow, waiters>> /\ UNCHANGED slotVars

\* The second critical section: unregister the channel and read the slot, with
\* get()'s expiry.
WaitReturn(p) ==
    /\ Unlocked /\ poll[p].pc \in {"notified", "gave_up"}
    /\ poll' = [poll EXCEPT ![p] = NoPoll]
    /\ waiters' = [waiters EXCEPT ![poll[p].id] = @ \ {p}]
    /\ IF Due(poll[p].id)
       THEN Expire(poll[p].id)
       ELSE UNCHANGED slotVars /\ UNCHANGED signal
    /\ UNCHANGED <<clock, timers, sweepNow>>

----------------------------------------------------------------------------
(* Sweep.                                                                  *)

DueTimers(t) == {e \in timers : e.at <= t}

\* Mutant: the heap's order is lost (its Less compares the wrong way, or not).
Least_AnyOrder(e) == e \in timers

\* heap.Pop returns a least element; which one of several equal ones is open.
Least(e) == e \in timers /\ \A f \in timers : e.at <= f.at

SweepBegin ==
    /\ Unlocked /\ DueTimers(clock) # {}
    /\ sweepNow' = clock
    /\ UNCHANGED <<clock, timers, signal>> /\ UNCHANGED pollVars /\ UNCHANGED slotVars

\* A removal entry deletes the slot and its waiters, whatever its state, and
\* leaves the counters alone.
SweepRemove(e) ==
    /\ ~Unlocked /\ Least(e) /\ e.at <= sweepNow
    /\ e.remove /\ Present(e.id)
    /\ timers' = timers \ {e}
    /\ drops' = [drops EXCEPT ![e.id] = NoDrop("forgotten")]
    /\ waiters' = [waiters EXCEPT ![e.id] = {}]
    /\ UNCHANGED <<clock, live, bytes, delivered, sweepNow, poll, signal>>

\* An expiry entry expires the slot unless it ended before.
SweepExpire(e) ==
    /\ ~Unlocked /\ Least(e) /\ e.at <= sweepNow
    /\ ~e.remove /\ Live(e.id)
    /\ timers' = timers \ {e}
    /\ Expire(e.id)
    /\ UNCHANGED <<clock, waiters, sweepNow, poll>>

\* Mutant: an entry is dropped whatever its slot is in.
SweepSkip_Always(e) ==
    /\ ~Unlocked /\ Least(e) /\ e.at <= sweepNow
    /\ timers' = timers \ {e}
    /\ UNCHANGED <<clock, sweepNow, signal>> /\ UNCHANGED pollVars /\ UNCHANGED slotVars

\* An entry whose slot is gone, or ended before its expiry, is dropped.
SweepSkip(e) ==
    /\ ~Unlocked /\ Least(e) /\ e.at <= sweepNow
    /\ IF e.remove THEN ~Present(e.id) ELSE ~Live(e.id)
    /\ timers' = timers \ {e}
    /\ UNCHANGED <<clock, sweepNow, signal>> /\ UNCHANGED pollVars /\ UNCHANGED slotVars

SweepEnd ==
    /\ ~Unlocked /\ DueTimers(sweepNow) = {}
    /\ sweepNow' = NoSweep
    /\ UNCHANGED <<clock, timers, signal>> /\ UNCHANGED pollVars /\ UNCHANGED slotVars

\* Close forgets every slot; timers and registered channels stay behind.
Close ==
    /\ Unlocked
    /\ \E id \in Ids : Present(id)
    /\ drops' = [id \in Ids |-> IF Present(id) THEN NoDrop("forgotten") ELSE drops[id]]
    /\ live' = 0 /\ bytes' = 0
    /\ UNCHANGED <<clock, timers, waiters, sweepNow, poll, signal, delivered>>

\* Time passes, also while a sweep holds the mutex.
Tick ==
    /\ clock < Horizon
    /\ clock' = clock + 1
    /\ UNCHANGED <<timers, sweepNow, signal>> /\ UNCHANGED pollVars /\ UNCHANGED slotVars

SlotCall(id) ==
    \/ \E kind \in Kinds, n \in Sizes \cup {0}, ttl \in TTLs : Create(id, kind, n, ttl)
    \/ \E token \in Credentials, commitment \in BOOLEAN, n \in Sizes :
          Upload(id, token, commitment, n)
    \/ \E token \in Credentials : Fetch(id, token) \/ Open(id, token) \/ Revoke(id, token)
    \/ Status(id)

PollStep(p) ==
    \/ \E id \in Ids, current \in LiveStates : WaitBegin(p, id, current)
    \/ WaitNotified(p)
    \/ WaitGiveUp(p)
    \/ WaitReturn(p)

SweepStep ==
    \/ SweepBegin
    \/ \E e \in timers : SweepRemove(e) \/ SweepExpire(e) \/ SweepSkip(e)
    \/ SweepEnd

Next ==
    \/ \E id \in Ids : SlotCall(id)
    \/ \E p \in Polls : PollStep(p)
    \/ SweepStep
    \/ Close
    \/ Tick

Spec == Init /\ [][Next]_vars

----------------------------------------------------------------------------
(* Properties.                                                             *)

PollState ==
    {NoPoll} \cup [pc : {"blocked", "notified", "gave_up"}, id : Ids, current : LiveStates]

Timer == [at : Nat, id : Ids, remove : BOOLEAN]

\* The shapes of the store's fields.
TypeOK ==
    /\ clock \in Nat
    /\ drops \in [Ids -> Drop]
    /\ live \in Int /\ bytes \in Int
    /\ timers \subseteq Timer
    /\ waiters \in [Ids -> SUBSET Polls]
    /\ sweepNow \in Nat \cup {NoSweep}
    /\ poll \in [Polls -> PollState]
    /\ signal \in [Polls -> BOOLEAN]
    /\ delivered \in [Ids -> Nat]

LiveIds == {id \in Ids : Live(id)}

\* Memory.live is what Stats.Live says it is, the number of slots that are not
\* tombstones, so MaxLive bounds them.  SweepRemove deletes a slot without
\* looking at its state and without touching the counter: that this never
\* loses a live slot's count rests on the heap order, on both timers being
\* pushed by Create, and on a grace period that is not zero.
LiveCounted ==
    /\ live = Cardinality(LiveIds)
    /\ MaxLive > 0 => live <= MaxLive

\* One element for every byte of ciphertext that some slot holds.
HeldBytes == UNION {{id} \X (1 .. drops[id].ct) : id \in Ids}

\* Memory.bytes is the ciphertext held over all slots, so it can neither drift
\* away from what is stored nor let it grow past MaxBytes.
BytesCounted ==
    /\ bytes = Cardinality(HeldBytes)
    /\ MaxBytes > 0 => bytes <= MaxBytes

\* A slot holds ciphertext exactly while its reader may still come for it: an
\* uploaded drop or an unopened reveal.  Every end, by whichever path, leaves
\* neither ciphertext nor tokens nor the key commitment behind.
NothingLeftBehind ==
    \A id \in Ids :
        LET d == drops[id] IN
        /\ d.ct > 0 <=> d.state = "uploaded" \/ (d.kind = "reveal" /\ d.state = "created")
        /\ ~Live(id) => d.tokens = {} /\ ~d.commitment

\* Ciphertext is returned at most once, and never by a slot that was revoked
\* or expired, whatever calls race on it.
ReadOnce ==
    \A id \in Ids :
        /\ delivered[id] <= 1
        /\ drops[id].state \in LiveStates \cup {"fresh", "revoked", "expired"}
              => delivered[id] = 0

\* A poll is never left sleeping on a slot that moved on: once its slot has
\* left the state it waits out, or its channel is no longer registered, its
\* channel holds an element.
NoLostWakeup ==
    \A p \in Polls :
        LET w == poll[p] IN
        w.pc = "blocked" /\ (p \notin waiters[w.id] \/ (Present(w.id) /\ drops[w.id].state # w.current))
            => signal[p]

\* A poll that was woken by its channel finds its slot changed when it gets
\* the mutex back; only the timer and the caller end a poll with no news.
WokenWithNews ==
    \A p \in Polls :
        poll[p].pc = "notified" => drops[poll[p].id].state # poll[p].current

\* Every slot has its end scheduled: the expiry entry of a live slot and the
\* removal entry of any slot are in the heap, at the slot's own times.
EndScheduled ==
    \A id \in Ids :
        /\ Live(id) => Entry(drops[id].expires, id, FALSE) \in timers
        /\ Present(id) => Entry(drops[id].expires + Grace, id, TRUE) \in timers

\* The memory store implements the slot contract of store.go: one-way states,
\* ciphertext returned once and before expiry, nothing but tombstones past
\* their grace forgotten.
Contract == INSTANCE SlotStore WITH
    now <- clock,
    slot <- [id \in Ids |-> [kind |-> drops[id].kind, state |-> drops[id].state,
                             held |-> drops[id].ct, expires |-> drops[id].expires]],
    handed <- delivered

SlotContract == Contract!Spec

\* With the sweeper running, every slot is forgotten in the end, ciphertext and
\* tombstone alike, whether or not anyone ever calls again.
EverySlotForgotten == \A id \in Ids : Present(id) ~> ~Present(id)
============================================================================
