# Verification of burndrop

burndrop passes secrets between a human and an agent through a relay that
holds only ciphertext, hands it out once, and forgets it. This directory holds
TLA+ models of the parts that carry that promise, the TLC runs that check
them, and TLAPS proofs of what matters most. `PROJECT.json` is the machine
readable index: components, runs, mutants, source map, findings, hazards,
theorems.

## 1. Inventory

| Part | State | Operations | Hard behaviour | Correct when |
|---|---|---|---|---|
| Slot contract (`internal/relay/store.go`, `types.go`) | slots: kind, state, ciphertext, tokens, commitment, times | Create, Upload, Fetch, Open, Revoke, Status, Wait, Sweep, Close | concurrent callers, expiry without a sweep | states only go forward, ciphertext is returned once and before expiry, only tombstones past their grace are forgotten |
| Memory store (`memory.go`) | map of slots, timer heap, `live`, `bytes`, channels of long polls, one mutex | the above | Wait lets go of the mutex and takes it again; Sweep deletes without counting | counters exact, nothing left in tombstones, no wakeup lost |
| Redis store (`redis_store.go`) | one hash per slot, sorted sets `expiry` and `removal`, counters, PEXPIRE | one Lua script per method, Sweep of many scripts | several replicas, their clocks, failed calls, replicas that stop, keys Redis drops by itself | counters exact, indexes true and drained, the contract up to what the clocks are ahead |
| HTTP handlers (`handlers.go`, `server.go`) | number of long polls in flight | one handler per endpoint | status and revoke make several store calls; the waiter limit | waiter counter exact, answers never go back, every request answered |
| Sweeper (`server.go`), process (`cmd/burndrop-relay`) | none of their own | Sweep every ten seconds; shutdown closes the store | polls in flight at Close | every slot forgotten |
| Rate limits, configuration, authentication (`ratelimit.go`, `config.go`, `auth.go`) | token buckets with garbage collection, a global bucket | Allow, ClientIP, ClampTTL, authenticate | buckets dropped when idle, a clock read outside the lock, forged headers, integers that wrap | dropping a bucket changes nothing, the budget holds, every client is metered as itself |
| Relay client (`internal/client`) | none | one call per endpoint, long-poll loops | lost replies, retries, deadlines | a retry never hides an end |
| Agent (`internal/agent/agent.go`) | pending and sent records in storage | Request, Fetch, Send, Revoke, Delete | each is several calls to relay, storage and redactor, and any of them may fail | a usable link keeps its record; the end a caller is told of is the end the slot came to |
| Redactor, run (`redact.go`, `run.go`) | forms to mask | Add, Remove, Redact | forms shared between names, output in chunks | every known value is masked |
| Storage manager and index (`internal/storage/manager.go`, `index.go`, `memory.go`) | session map, backend, index file | Put, Get, Stat, Delete, List, PurgeExpired | three places that can disagree, any of them failing | index and Stat agree with backend and Get |
| Storage backends (`internal/storage`: eight vendors, age vault, dotenv file, keychain) | entries at the vendor; a file with its lock; keychain chunks | Put, Get, Delete, List | several vendor calls or entries per operation, unheard replies, other callers, abandoned locks | Get never answers with what was replaced or removed, nor with a value nobody stored, one writer, every call ends |
| Drop page (`web/src/page.ts`, `state.ts`, `api.ts`) | page state, countdown, delivery poll, ciphertext kept for a retry | boot, submit, reveal | clicks, timers, late or lost answers and a clock of its own interleave | what it says is so, an end stays, it never hangs |
| Extension, SDKs, cryptography, links, CLI, MCP server, deployment | none, or external | pure functions and adapters | | not modelled, see section 7 |

Interaction: the page, the client and the SDKs call the handlers over HTTP; the
handlers pass the limits and call one `Store`; the sweeper calls the same
store; the agent composes client, storage manager, redactor and audit log; the
manager calls one backend. What is shared, and therefore modelled with
interleaving, is the store (mutex or Redis), the waiter counter, the buckets,
the index and vault files, the entries at a vendor, and the page's state.

## 2. Plan

Done, in this order: `SlotStore`, `RelayMemory` with its proofs, `RelayRedis`,
`RelayServer`, `AgentFlow` with its proofs, `StorageManager`, the backends
(`BackendCalls`, `SecretBackend`, `RemoteBackends`, `FileBackends`, `Keychain`,
`Backends`), `RelayLimits` with its proofs, `RelayServer_proofs`, `DropPage`,
`RelayRedis_proofs`, `DropPage_proofs`, `StorageManager_proofs`,
`Backends_proofs`, `ReplicatedStore`. Except for those listed at the end of
section 5, every safety invariant and action property of a passing run
is stated by a theorem. What is left, most important first:

1. Proof: that the backends implement `SecretBackend` (`KeepsContract`), first
   those of a single vendor call, then dotenv, age vault and keychain, with
   `MixedTakesTwoFaults`.
2. `Redactor`: forms shared by several names, Delete racing Fetch, and the
   stream redaction at chunk boundaries of `run.go`.
3. The extension's registry, and the flows of the SDKs against `AgentFlow`.

## 3. Modules

**`SlotStore`** is the contract of `store.go`: a slot per identifier with kind,
state, bytes held and expiry, and a count of how often its ciphertext was
handed out. Its actions are the one-way transitions the interface documents.
It knows no tokens, limits, locks, timers or polls.

**`ReplicatedStore`** is what is left of that contract when several relays,
whose clocks are ahead of the store's by up to `Slack`, serve one set of slots:
`CreateAhead` may give a slot that much more time, `ExpireAhead` and
`ForgetAhead` may take that much away. The rest is `SlotStore`'s.

**`RelayMemory`** is `memory.go`. `drops`, `live`, `bytes`, `timers` and
`waiters` are the fields of `Memory`; `sweepNow` is held by a running `Sweep`
(and with it the mutex); `poll` and `signal` are the locals and the channel of
each `Wait` call; `delivered` is history. A method is one action, as it holds
the mutex throughout. `Wait` is three: `WaitBegin` (first critical section),
`WaitNotified` or `WaitGiveUp` (the select), `WaitReturn` (second critical
section). `Sweep` is one action per heap pop, during which only the clock and
the selects of sleeping polls may move. A refused call changes nothing unless
`get()` expires its slot first, which is the `Due` branch of every method; the
order of a method's checks is in its `...Reply` operator. `createDrop` and
`createReveal` compute the expiry just before they take the mutex; the model
does both in one step.

**`RelayRedis`** is `redis_store.go`. A script is one action, run for a replica
with that replica's clock (`Now(r) = clock + Offset[r]`, at most `Ahead`). `Sweep` is
`SweepBegin`, then `SweepList` (one ZRANGEBYSCORE) and `SweepRun` (one script)
over and over; `SweepError` and `Crash` cut it off anywhere. `KeyGone` is
Redis dropping a key whose PEXPIRE ran out; it happens before any script can
see the key (`Settled`). `Tick` lets a whole grace period pass without the live
slots being swept only if `Outage` is set: sweeps come every ten seconds and
the grace period is 24 hours. That sweeps come in time otherwise (`SweptInTime`,
a guard of `Tick`) is an assumption about the world, not something the model
shows. `Wait` polls, so it is `Status` repeated.

**`RelayServer`** extends `RelayMemory` with the handlers that make several
store calls. A client's request has a program counter: `StatusRequest` reads
the slot, `CheckWaiters` compares the counter, `CountWaiter` adds one,
`EnterWait`, `Select` and `LeaveWait` are the store's `Wait`, `DiscountWaiter`
takes one off and answers. `RevokeRequest` and `RevokeCall` are the two store
calls of the revoke handler, `OneCall` the handlers of a single one. `told` is
history: the last status each client heard.

**`RelayLimits`** is what a request passes before its first store call, one
action per stage: `Arrive` (with the clock reading of the global limiter),
`GlobalAllow`, `Cors`, authentication and the limiter of the route
(`LimitPage`, `LimitAgent`, `Unauthorized`), `BadRequest`, and `Accept` with
`ClampTTL` and `wait_seconds`. A token bucket is `golang.org/x/time/rate` seen
from its use. Rates are fractions with the denominator `Unit`, so rates below
one, and the floor of one of the global burst, are there; credit is counted in
`Unit`ths: a tick adds the rate and a token costs the length of the rate's
period (`Token`, `GlobalToken`). `ValidTTLs` and `ValidRates` are what
`Config.Validate` asks of the values used here. `Gc` runs inside `Allow` as in the code. A request
comes along a route of proxies that each append its sender to the header
(`Header`, `Peer`), behind whatever the client wrote there (`Forged`).
`ideal` (a bucket that is never dropped), `admitted` and `setBack` are history;
`quota` bounds the requests of each kind, one of the mixtures in `Quotas`.

**`AgentFlow`** is `agent.go` with the part of `client.go` it uses. `call` holds
the operations in flight, each with a program counter; `record` the pending and
sent records in storage, `store` the value of each name, `masked` what the
redactor knows, `slot` the relay. An operation is one action per call it makes
to relay, storage or redactor: `RequestCreate`, `Save`; `FetchBegin`, `Poll`,
`Take`, `StoreValue`, `Mask`, `DropRecord`; `SendBegin`, `SendCreate`, `Save`,
`SendDelete`; `RevokeBegin`, `RevokeCall`, `DropRecord`; `DeleteSecret`,
`Unmask`. What follows a call up to the next one is local and part of the same
step. Every call has its failures: `CallFails`, `PollFails`, `SaveFails`,
`StoreFails`, a `FALSE` parameter `heard` for a reply that is lost after the
call had its effect, or `deleted` for a delete that did nothing; `Restart` is
the process stopping anywhere. The relay is the slot contract seen from outside
(`Submit`, `Open`, `OtherFetch`, `Expire`, `Forget`); `TimeUp` starts the time
in which relay (`Expire`) and storage (`Lapse`) notice, in either order, that a
slot is over. `Past` gives the values that earlier runs of the agent left in
storage. `given`, `told` and `kept` are history: links that reached the
human, slots whose end a caller was told of, values that reached storage.

**`StorageManager`** is `manager.go` with `memory.go` and `index.go`. A method
is one action per backend call (`Store`, `Remove`) and two per change of the
index (`LoadIndex`, `SaveIndex`, which hold the process's mutex); each may fail
with or without its effect (`StoreFails`, `RemoveFails`, `IndexFails`), and
`Exit` ends the process anywhere. `List` purges first, as in the code.
`settled` is history: the names whose last change was neither cut off nor
interleaved with another.

**`BackendCalls`** keeps, for any backend, the Put and Delete calls under way and
what a Get may answer because of them. **`SecretBackend`** is the abstract
backend: a Get answers with the last value stored, or with one of a call that
overlaps or failed, and a change to one name never shows in another.
**`RemoteBackends`** (doppler, infisical, vault, aws, gcp, azure, bitwarden,
onepassword), **`FileBackends`** (age vault, dotenv file) and **`Keychain`** are
the eleven backends, one action per vendor call, file access or
credential store call. A vendor call may fail, with the error class the code
gives it (`VaultError`, `AwsClassify`, ...), or take effect without the caller
hearing of it. `StealLock` removes an abandoned lock file, or fails to and goes
round again without looking at the deadline, as the code does. The keychain's
Get joins the chunks its header counts, and `decodeRecord` looks only at JSON
and version: chunks of several records of one layout (`Alike`) decode, which is
the answer `Mixed`, a value nobody stored. `faults` is history: for each name
the failed calls and deaths since a change of it last went through. `Outside` is an operator at the console, `Crash` a process that
dies. **`Backends`** puts them together: the configuration picks one, and
`KeepsContract` says that it implements `SecretBackend`.

**`DropPage`** is `page.ts` with `state.ts` and `api.ts` against `SlotStore`. The
page has a state, a countdown and perhaps a ciphertext; `job` and `reply` are
the flow that is waiting for an answer, `poll` is `waitForDelivery`. The relay
answers with what it has at one time (`AnswerStatus`, `AnswerUpload`,
`AnswerOpen`, `PollAnswered`) and the page applies the answer at a later one
(`LoadStatus`, `Submitted`, `Opened`, `PollStep`); a call may not arrive, or
have its effect and not be heard, and reading its body may fail, which the page
treats differently. The agent, other browsers and expiry move the slot in
between (`Others`). The countdown goes by the browser's clock (`Today`),
which is off by `skew`, any of `Skews`. `seen` and `got` are history.

**`RelayMemory_proofs`**, **`RelayRedis_proofs`**, **`RelayServer_proofs`**,
**`RelayLimits_proofs`**, **`AgentFlow_proofs`**, **`StorageManager_proofs`**,
**`Backends_proofs`** and **`DropPage_proofs`** hold the theorems.

`MC...` modules and `.cfg` files instantiate these for TLC. Definitions named
`X_Something` and marked "Mutant" are deliberate bugs: putting one in the place
of `X` must make TLC report the property it is paired with in `PROJECT.json`,
which shows that the property can fail.

## 4. Runs

| Run | Configuration | Shows |
|---|---|---|
| `memory_safety` | `MCRelayMemory.cfg` | counters, empty tombstones, read-once, wakeups, scheduled ends, and that the memory store implements `SlotStore` |
| `server` | `MCRelayServer.cfg` | the waiter counter is exact, answers never go back, every request is answered, every slot is forgotten |
| `redis` | `MCRelayRedis.cfg` | with one replica's clock ahead: counters exact, read-once, indexes true and drained; the Redis store implements `ReplicatedStore` |
| `redis_outage` | `MCRelayRedisOutage.cfg` | violation: see below |
| `limits` | `MCRelayLimits.cfg` | dropped buckets change no verdict, the global budget holds, clients are metered as themselves, durations stay in range |
| `backends` | `MCBackends.cfg` | every backend implements `SecretBackend`; a List is true; the vault has one writer; one dotenv variable per name; a keychain answer made of two records takes two faults; every call ends unless it meets an abandoned lock it cannot remove |
| `vault_stale` | `MCBackendsStale.cfg` | violation: see below |
| `manager` | `MCStorageManager.cfg` | index and Stat agree with backend and Get; a List has nothing that was over when it began |
| `agent_race` | `MCAgentFlow.cfg` | a usable link keeps its record, nothing is lost unnoticed, reported ends are the slots' ends, every operation returns |
| `agent_elsewhere` | `MCAgentFlowGone.cfg` | violation: see below |
| `page` | `MCDropPage.cfg` | what the page says has happened, or is over by one of the two clocks; an end stays, the page never stays busy |
| `page_retry` | `MCDropPageRetry.cfg` | violation: see below |

Bounds. Slots interact only through the counters, the heap or sorted sets and
the sweep, so two slots that together fill the store (`MaxLive` 2, or bytes for
one and a half ciphertexts) reach every interaction; polls interact only
through the slot they wait on, so two are enough in the store, and against a
limit of one in the handlers. The clock runs to `Horizon`, long enough for a
slot to be created late, expire and be forgotten while another one lives.
`Batch` 1 instead of 256 makes the batch loop turn over, and one
of two replicas is ahead by as long as a slot lives. Identifiers are
drawn at random from 128 bits and never come back. Deadlock is not checked:
clock, calls and identifiers are bounded, so behaviours end. Symmetry is used
only in safety runs.

The agent's operations meet on one slot or on one name: `agent_race` has two
operations, one slot that becomes a drop or a reveal, and a value from an
earlier run that can be sent on; the theorems cover more, and names whose
values are kept for the session. `MaxFailures` is 1 instead of 5.

`limits` has three requests of two clients in any mixture of page and agent
endpoints, or five to endpoints that meet the global limit only: two fill its
burst, the others read the clock before and take their token after a tick, so
that the budget depends on the refill and on the set-back. Rates are in halves.
There are one agent key, routes without a
proxy, with one and with two, a minute of two ticks and an idle time in which
buckets refill exactly, and durations of eight bits of which one wraps to less
than the shortest lifetime. `backends` starts each backend from any content and
has two workers make three calls (two for the age vault and the keychain, whose
calls take most steps), two names that share one environment variable, and for
the keychain one value of one chunk and two of two chunks whose pieces fit
together. Three keychain calls were checked once, with the same result. The backends in `Shared` are used from
two processes, the others, which have only a mutex, from one. `manager` has two
goroutines and three calls on two names from any content, which is enough for
two changes and a third method that meets what they left. `page` has one page
on one slot, with time for the slot to expire and be forgotten, and two delivery
polls instead of 120; the browser's clock is right, or off by a tick either way.
`agent_elsewhere` needs one operation on one slot.

Fairness. `server` assumes that an accepted request is served to its end (Go's
timers fire and runnable goroutines get scheduled), that time passes, and that
the sweeper goroutine keeps sweeping (`Sweeper` loops until shutdown).
`redis` assumes the last two of each replica, and that Redis drops keys; sweeps
may fail and replicas stop as often as they like, but that they some day no
longer do is the premise of `IndexesDrain`. `backends` assumes of each worker
whose process lives that it goes on: vendor calls have timeouts.
`agent_race` assumes that an operation in flight goes on (a call returns or
fails: the HTTP client has a timeout) and that its deadline comes. `page`
assumes that a request is answered or fails, that the event loop runs what is
ready, and that a link that was opened is read. Callers, humans, operators and
the other parties are never assumed to do anything.

### Findings

* `redis_outage`. The PEXPIRE on a slot's key ends `live` slots too. If no relay
  sweeps from a slot's expiry until its grace is over (the relays are down and
  Redis is not), Redis drops the key, the sweep later finds no state to release,
  and `live` and `bytes` count the slot for ever: `Stats.Live` is no longer
  "slots that are not tombstones", and `MaxLive`/`MaxBytes` lose that room.
* `vault_stale`. `withLock` looks at the age of the lock file and then removes
  whatever is at its path. Of two processes that find the lock of a dead one
  abandoned, the second removes the lock the first has just created, and both
  are between load and save of the vault: one secret is lost.
* `agent_elsewhere`. Between the poll that finds a slot uploaded and the fetch
  call the slot may expire, be revoked, or be read by another `Fetch` of the same
  agent. The relay answers gone to all of these, and the agent says that "the
  submission was fetched by someone else" (`docs/agent-integration.md:153`:
  "treat the secret as exposed"). `AnswersTrue` shows that the slot is over by
  then, `ElsewhereTrue` asks who read it and is violated: nobody did.
* `page_retry`. After a wrong password the page holds the only ciphertext and
  asks the human to try again; the countdown does not know that and turns the
  page to expired when the link's time is up, which hides the password field.

Smaller things met on the way have no run of their own:

* `statusHandler` checks the number of waiters and counts itself in two steps,
  so polls that arrive together can exceed `BURNDROP_MAX_WAITERS`.
* The statement that the agent keeps no copy is sealed into ciphertext and link
  before the copy is deleted; if that fails, `Send` says so and the link does not.
* A value is registered with the redactor after it was stored, so an error of
  storing it is redacted without knowing it.
* A revoke of an uploaded slot whose reply was lost keeps its record, so that
  the next `Fetch` answers "revoked before the human submitted anything".
* After `already_uploaded` the page shows sent and never polls for the delivery.
* The page says "Nothing was sent" of every expired drop (`state.ts:22`), also of
  one that was uploaded, or fetched and forgotten; `PageTrue` covers that the
  link is over, not that text. Likewise the agent's "before the human submitted
  anything" of an expired or revoked slot (`agent.go:397, 401`).
* `withLock` ignores the error of removing an abandoned lock and goes round
  without looking at its deadline or sleeping (`agevault.go:209-210`): where the
  file cannot be removed, the call spins for ever.
* The keychain's chunks carry nothing of their record. Two faults in a row, such
  as two Puts of a name cut short, leave chunks of two records that Get joins to
  a value nobody stored.
* `backend.go:147-149` says the manager falls back to the index when a backend
  cannot list; the manager lists from the index always and never calls `List`.
* `PurgeExpired` and `delete_after` delete by name what they read before; a value
  stored under the name in between goes with it.

## 5. Proofs

`RelayMemory_proofs` proves, for any identifiers (a finite set), polls, sizes,
lifetimes, grace period above zero, limits and clock bound:

| Theorem | Statement |
|---|---|
| `TypeCorrect` | `Spec => []TypeOK` |
| `TimersCorrect` | `Spec => [](TypeOK /\ TimerInv)` |
| `EndIsScheduled` | `Spec => []EndScheduled` |
| `ReadAtMostOnce` | `Spec => []ReadOnce` |
| `TombstonesAreEmpty` | `Spec => []NothingLeftBehind` |
| `LiveIsCounted` | `Spec => []LiveCounted` |
| `BytesAreCounted` | `Spec => []BytesCounted` |
| `NoWakeupIsLost` | `Spec => [](NoLostWakeup /\ WokenWithNews)` |
| `WakeupsBringNews` | `Spec => []WokenWithNews` |
| `ImplementsContract` | `Spec => SlotContract` |

The argument. Everything hangs on one fact about the heap: a removal entry that
is due never meets a live slot. `Sweep`'s removal branch looks at no state and
touches no counter, so if it ever met one, the counters would be wrong for good
and a slot would be forgotten without having ended. `TimerInv` is the inductive
invariant behind it: a live slot's expiry entry and every slot's removal entry
are in the heap (`EndScheduled`), at the slot's own times and never for an
identifier not yet drawn (`TimersTrue`), and a sweep works for a time that has
come. As the removal entry is later by a grace period that is not zero, and the
heap pops least first, the expiry entry went first (lemma `RemovesTombstone`).

`StepCases` then reduces every step to six effects: create, upload, end, forget
a tombstone, close, or no slot changes. Each invariant is shown for these six.
`BytesCounted` is about a sum over slots; it is stated as the cardinality of a
set with one element per byte held, so that adding and removing a slot's bytes
are facts about disjoint unions (`HeldGrows`, `HeldShrinks`). For the polls,
`NoLostWakeup` is strengthened by where a poll beyond its idle state may be
registered. `ImplementsContract` maps each effect to an action of `SlotStore`.

`RelayServer_proofs` proves, for any number of requests and slots:

| Theorem | Statement |
|---|---|
| `WaitersAreCounted` | `ServerSpec => []WaitersCounted` |
| `HandlersUseTheStore` | `ServerSpec => Spec` (of `RelayMemory`) |
| `AnswersNeverGoBack` | `ServerSpec => AnswersGoForward` |

For the first, the invariant is strengthened by the types of requests and polls
and by the finiteness of the set of counted requests, which is what makes its
cardinality move by one; the store's own steps leave all of it alone. The second
says that the handlers drive the store through its own actions only; with it
everything proved of `RelayMemory` holds under the handlers. The third rests on
`ToldInv`: a slot is at or past what each client was told of it, or forgotten.
`SlotsMove` shows that slots only go forward, `ReportedIsAhead` that an answer is
the slot's state or the end it has come to because its time is up.

`RelayRedis_proofs` proves, for any replicas, clock offsets, identifiers, batch
size, limits and lifetimes:

| Theorem | Statement | Under |
|---|---|---|
| `TypeCorrect` | `Spec => []TypeOK` | |
| `SlotsCorrect` | `Spec => [](TypeOK /\ SlotInv)` | |
| `ReadAtMostOnce` | `Spec => []ReadOnce` | |
| `IndexesTrue` | `Spec => []Indexed` | |
| `LiveIsBounded` | `Spec => []LiveCovered` | |
| `BytesAreBounded` | `Spec => []BytesCovered` | |
| `LiveIsCounted` | `Spec => []LiveCounted` | `NoOutage` |
| `BytesAreCounted` | `Spec => []BytesCounted` | `NoOutage` |
| `ReplicasImplementContract` | `Spec => ReplicaContract` | |
| `ImplementsContract` | `Spec => SlotContract` | `NoOutage`, `ClocksInStep` |

`SlotInv` ties a slot's state to its ciphertext, its delivery count, its scores
in the two sorted sets and whether its key has an end. It is inductive with any
clocks, failed calls and crashes, because every script checks the state it finds
and a sweep that was cut off is repeated. The counters need more: that no live
slot's key runs out, which an outage breaks (run `redis_outage`). Under `NoOutage`
this is what `SweptInTime` grants, an assumption about how often relays sweep and
no result; lemma `KeysInTime` carries it from `Tick` to the other steps, and the
counters are exact under it. The bounds hold without it: an outage can only leave
the counters too high, so the store refuses too much and never admits too much.
The contract needs neither when the clocks' difference is allowed for
(`ReplicasImplementContract`, for any offsets up to `Ahead`); to the letter it
needs clocks in step, since a replica whose clock runs ahead forgets a slot before
its grace is over. `GraceInv` says that what a sweep is about to remove is past
its grace on the sweep's clock.

`RelayLimits_proofs` proves, for any clients, proxies, routes, forged headers,
keys, rates, widths and durations that meet the assumptions:

| Theorem | Statement |
|---|---|
| `LimitsTypeCorrect` | `Spec => []TypeOK` |
| `ForgettingIsHarmless` | `Spec => []ForgottenIsFull` |
| `BudgetIsKept` | `Spec => []GlobalBudget` |
| `NobodyElseIsMetered` | `Spec => []MeteredAsItself` |
| `LimitsHold` | `Spec => []WithinLimits` |

The inductive invariant has four parts: `Counters`, `GlobalOK` (credit plus what
was admitted is what was put in), `RequestsOK` (a request past `ClientIP` carries
its client's address; a served one has a clamped duration), and `BucketsOK` (a
bucket that is there agrees with the one never dropped; one that is not was
idle long enough to be full). The last needs `RefillAssumption`: a bucket
refills within the idle time. It holds for every rate above 60/580 a minute;
`Config.Validate` asks only for a positive rate, and for smaller ones dropping
a bucket hands out tokens early.

`AgentFlow_proofs` proves, for any identifiers, names (any of them for the
session only), values from earlier runs, operations in flight and number of
tolerated failures:

| Theorem | Statement |
|---|---|
| `AgentTypeCorrect` | `Spec => []TypeOK` |
| `RecordIsKept` | `Spec => []RecordKept` |
| `NothingLostSilently` | `Spec => []NoSilentLoss` |
| `AnswersAreTrue` | `Spec => []AnswersTrue` |

The argument. None of these is inductive alone. An answer is given steps after
the slot was read, while everyone else goes on, so what the operation has learnt
must still be so: `OperationFacts` says, for each program
counter, what holds of its slot whoever moves it (past the poll there was a
submission; a value being stored was read by the agent; a record is deleted only
when its slot is no longer live). `SlotFacts` says that slots with a record or a
link exist and that an uploaded one has a submission. The inductive invariant
is the conjunction of these two with `TypeOK`, `RecordKept`, `NoSilentLoss` and
`AnswersTrue`. `SlotMoves` shows that every step moves a slot only along its
one-way order, `RecordsMove` what it can do to records and history, and
`FactsStay` that what is known of an operation that does not itself move stays
true under both; each action then only has to answer for its own operation.
Of the answer that someone else fetched the submission, `AnswersTrue` asks only
that the slot is over; the rest of what it says is not so (`agent_elsewhere`).
`RecordKept` excuses slots whose time may be up for the agent's clock.

`StorageManager_proofs` proves, for any names, goroutines, entries and bounds:

| Theorem | Statement | Under |
|---|---|---|
| `TypeCorrect` | `Spec => [](TypeInv /\ TypeOK)` | |
| `ListsAreFresh` | `Spec => []ListFresh` | `SingleProcess` |
| `IndexKeepsInStep` | `Spec => []InStep` | `SingleProcess` |

The mutex of `index.go` is the process's own, and with two processes on one index
file TLC finds both properties violated, so the hypothesis is needed. Under it
`MutexInv` says that one goroutine at most is between reading and writing the
file, and that the copy it is about to write is the file with its one entry
changed. `SettledInv` adds, for a name no failure left half changed, that at most
one method is about to change it, and that between backend and index the backend
already holds what the index is to get. `FreshInv` says of a running purge that
each overdue name is still to do or already out of the index.

`Backends_proofs` proves, for any names, values, places, workers and bounds:

| Theorem | Statement | Under |
|---|---|---|
| `TypeCorrect` | `Spec => []TypeInv` | |
| `OneNamePerVariable` | `Spec => []OneVariableEach` | |
| `TwoWritersTakeTurns` | `Spec => []OneWriter` | `~Stalls`, `AtMostTwo` |
| `LivingWritersTakeTurns` | `Spec => [](NobodyDied => OneWriter)` | `~Stalls` |
| `ListsAreTrue` | `Spec => []ListTrue` | `"onepassword" \notin Shared` |

`TypeInv` is `TypeOK` with `WorkOK`, the local state of each worker by program
counter, which includes that a worker is in a call exactly when its caller is.
For the vault, `LockInv` says that the worker between taking and removing the
lock file is the file's owner, and that only a dead owner's lock gets old. It is preserved with any number of processes while
nobody dies, or with two of which one may die; a third that finds the same dead
lock is the finding `vault_stale`, and a holder that stalls for a minute is taken
for dead, so neither hypothesis can go. For the dotenv file `DotenvInv` says
that the rows a worker is about to write have one name to a variable, too.
For lists, `PlacedInv` and `ItemInv` say where a name's item may be and that a
name has one item; `ListInv` says of a list under way that each name stored since
it began is out already or its item is still to be fetched. Two processes that
both find no item in 1Password create two of one title; a list then shows a name
that no Get can answer for (TLC finds this with `onepassword` in `Shared`): hence
the last hypothesis.

`DropPage_proofs` proves, for any lifetimes, sizes, clock bound and polls:

| Theorem | Statement |
|---|---|
| `PageInvariant` | `PageSpec => []PageInv` |
| `PageIsTrue` | `PageSpec => []PageTrue` |
| `EndsStay` | `PageSpec => EndStays` |

`PageInv` has the types, `FlowOK` (which job, reply or poll can be pending in which
state, so that nothing is pending at an end), `StoreOK` (the slot's own facts) and
`TruthOK`: a reply that is still on its way is true of the slot when it is read,
although the slot has moved on, because what replies say of a slot stays so once
it is so. That the state cannot be overwritten by a late answer follows from
`FlowOK` alone. The browser's clock may be off by any amount: a page that says
expired was told so by the relay, or its own clock has reached the expiry, which
is before the slot's end when it is fast (`docs/troubleshooting.md:70, 174`).

Assumptions: the named `ASSUME`s of the modules, which TLC evaluates in every
run. That the grace period is not zero is what `StoreOptions.withDefaults`
guarantees. `TTLsAssumption` says that lifetimes are not negative;
`NamesAssumption` that the markers `"none"` and `"foreign"` are no names and
`"none"` no worker; `BackendsAssumption` that secret names have distinct remote
places and that a vendor's items have an order with a first one; `KindsAssumption`
that the configured backends are ones the registry knows.

Only model-checked: liveness (the prover has no fairness or ENABLED:
`EveryRequestAnswered`, `EverySlotForgotten`, `IndexesDrain`, `EveryCallEnds`,
`EveryCallReturns`, `PageSettles`), `KeepsContract`, the refinement of
`SecretBackend`, and `MixedTakesTwoFaults`. `TypeOK` of `RelayMemory`, `RelayRedis`, `StorageManager` and `Backends` is
proved and is part of no run.

## 6. Abstractions

A ciphertext is its length, a token its role (first, second, or neither), a
commitment whether it matches. Timestamps other than the expiry, the agent key
of a slot, logging and the wording of answers are left out: no transition
depends on them.

`RelayLimits` has rates that are fractions of one denominator where the library
has floats; a denominator can be any. The proxies merge what they append into one header line, and clients are addresses
no proxy is trusted under.

In `AgentFlow` a value is the drop it came by, and a submission is good (it
decrypts and matches the request) or bad. Storage is one place per name and a
name is always requested with the same retention: how session, backend and index
disagree is in `StorageManager`. Records are in persistent storage; with the
backend `memory`, or for a slot that lives no longer than a second, a restart
loses them together with everything else the process knew. That the relay and
the agent's clock may disagree about the end of a slot is in the independent
`Expire` and `Lapse`, both after `TimeUp`.

In `StorageManager` a backend call is one step; session values never expire, as
no retention policy gives them a date. The run has one process: with two on one
index file, two Puts that load the file before the other saves leave a stored
value without an entry, and `InStep` fails.

In the backends, a vendor's behaviour is taken from the commands the code sends
and from how it classifies their errors. A vendor call that timed out has its
effect at once or not at all, and a vendor answers with its latest state. The
lists of the age vault, the dotenv file and the keychain read one snapshot and
are left out. Backends that have only a mutex are used from one process; with
several the dotenv file loses updates. `Stalls = TRUE` (a writer holds the vault
lock for more than a minute) violates `OneWriter`, and `Together = TRUE` (two
processes generate the identity at once) violates `KeepsContract`; both are
`FALSE` in `backends`, and one process takes an abandoned lock over. The removal
of a process's own lock succeeds: when it does not, the lock is one that gets old
like a dead process's. `EveryCallEnds` excuses a call that goes round over a dead
process's lock (`Stuck`), and nothing else. Of chunks put together the keychain
model tells only whether they are one record, pieces of several that decode, or
neither; `KeepsContract` allows the second after a change that failed, and
`MixedTakesTwoFaults` says when. The quoting of dotenv values is not modelled.

In `DropPage` the browser's clock is off by a fixed amount, sealing, parsing and
decryption are outcomes, and a slot is the contract's.

## 7. Not modelled

Cryptography, envelopes, passwords and links are pure functions over bytes and
strings with test vectors of their own. The CLI, the MCP server, backend
detection, the relay's start-up and the configuration code adapt calls.
Deployment files and documentation have no behaviour. The redactor and `run.go`,
the extension's registry and the two SDKs (second and third implementations of
the flow in `AgentFlow`) are left to the plan; the hazards of the redactor are in
`PROJECT.json`.
