---------------------------- MODULE RelayServer ----------------------------
(***************************************************************************)
(* The relay's HTTP handlers over the memory store: internal/relay/        *)
(* handlers.go and the sweeper of server.go.  The handlers that make one   *)
(* store call are that call (SlotCall of RelayMemory).  Two make several,  *)
(* with other requests in between:                                         *)
(*   - the status handler reads the slot, checks the number of long polls  *)
(*     in flight, counts itself, waits, and discounts itself;              *)
(*   - the revoke handler reads the slot to check its kind, then revokes.  *)
(* Each is a request with its own program counter.  Authentication, rate   *)
(* limits and decoding come before the first store call and end a request  *)
(* without a trace in the state; they are not modelled here.               *)
(***************************************************************************)
EXTENDS RelayMemory

CONSTANT MaxWaiters     \* Config.MaxWaiters

ASSUME WaitersAssumption == MaxWaiters \in Nat \ {0}

VARIABLES
    request,            \* the request each client has in flight
    inflight,           \* Server.waiters
    told                \* history: the last status each client was told, and of which slot

storeVars == vars
serverVars == <<request, inflight, told>>
allVars == <<clock, drops, live, bytes, timers, waiters, sweepNow, poll, signal, delivered,
             request, inflight, told>>

NoRequest == [pc |-> "none"]
Nothing == [id |-> "none", state |-> "fresh"]

ServerInit ==
    /\ Init
    /\ request = [p \in Polls |-> NoRequest]
    /\ inflight = 0
    /\ told = [p \in Polls |-> Nothing]

\* Mutant: tombstones are reported as expired once their time is up.
Reported_AnyDue(id) == IF clock >= drops[id].expires THEN "expired" ELSE drops[id].state

\* The state a Status call reports: get() expires a due slot first.
Reported(id) == IF Due(id) THEN "expired" ELSE drops[id].state

\* The store's half of a Status call.
StatusCall(id) == IF Due(id) THEN Status(id) ELSE Unlocked /\ UNCHANGED storeVars

Tell(p, id, state) == told' = [told EXCEPT ![p] = [id |-> id, state |-> state]]

\* statusHandler up to its decision to wait.  A slot of the other kind is
\* answered like an unknown one.  waits are the states the caller would wait in:
\* none with wait_seconds 0, the one that wait_while names, or, without
\* wait_while, every live one.
StatusRequest(p, id, kind, waits) ==
    /\ request[p].pc = "none" /\ poll[p].pc = "idle" /\ Present(id)
    /\ StatusCall(id)
    /\ IF drops[id].kind # kind
       THEN UNCHANGED <<request, told>>
       ELSE IF Reported(id) \in waits
       THEN /\ request' = [request EXCEPT ![p] = [pc |-> "checking", id |-> id, state |-> Reported(id)]]
            /\ UNCHANGED told
       ELSE Tell(p, id, Reported(id)) /\ UNCHANGED request
    /\ UNCHANGED inflight

\* waiters.Load() >= MaxWaiters is answered too_many_waiters.
CheckWaiters(p) ==
    /\ request[p].pc = "checking"
    /\ request' = [request EXCEPT ![p] = IF inflight >= MaxWaiters THEN NoRequest
                                         ELSE [@ EXCEPT !.pc = "admitted"]]
    /\ UNCHANGED <<inflight, told>> /\ UNCHANGED storeVars

\* waiters.Add(1).
CountWaiter(p) ==
    /\ request[p].pc = "admitted"
    /\ inflight' = inflight + 1
    /\ request' = [request EXCEPT ![p].pc = "entering"]
    /\ UNCHANGED told /\ UNCHANGED storeVars

\* Store.Wait for the state the handler read before: it blocks only if the
\* slot is still in that state.
EnterWait(p) ==
    LET id == request[p].id IN
    /\ request[p].pc = "entering" /\ Unlocked
    /\ IF Present(id) /\ ~Due(id) /\ drops[id].state = request[p].state
       THEN /\ WaitBegin(p, id, request[p].state)
            /\ request' = [request EXCEPT ![p].pc = "waiting"]
            /\ UNCHANGED told
       ELSE /\ IF Present(id) THEN StatusCall(id) /\ Tell(p, id, Reported(id))
                              ELSE UNCHANGED storeVars /\ UNCHANGED told
            /\ request' = [request EXCEPT ![p].pc = "returning"]
    /\ UNCHANGED inflight

\* The select inside Wait.
Select(p) ==
    /\ WaitNotified(p) \/ WaitGiveUp(p)
    /\ UNCHANGED serverVars

\* Mutants: an error from Wait returns before the counter is taken down; a poll
\* whose slot is gone never comes back.
LeaveWait_SkipsDiscount(p) ==
    LET id == poll[p].id IN
    /\ request[p].pc = "waiting"
    /\ WaitReturn(p)
    /\ request' = [request EXCEPT ![p] = IF Present(id) THEN [@ EXCEPT !.pc = "returning"] ELSE NoRequest]
    /\ IF Present(id) THEN Tell(p, id, Reported(id)) ELSE UNCHANGED told
    /\ UNCHANGED inflight
LeaveWait_KnownSlot(p) ==
    LET id == poll[p].id IN
    /\ request[p].pc = "waiting" /\ Present(id)
    /\ WaitReturn(p)
    /\ request' = [request EXCEPT ![p].pc = "returning"]
    /\ Tell(p, id, Reported(id))
    /\ UNCHANGED inflight

\* Wait returns the slot's state, or not found.
LeaveWait(p) ==
    LET id == poll[p].id IN
    /\ request[p].pc = "waiting"
    /\ WaitReturn(p)
    /\ request' = [request EXCEPT ![p].pc = "returning"]
    /\ IF Present(id) THEN Tell(p, id, Reported(id)) ELSE UNCHANGED told
    /\ UNCHANGED inflight

\* waiters.Add(-1), then the answer.
DiscountWaiter(p) ==
    /\ request[p].pc = "returning"
    /\ inflight' = inflight - 1
    /\ request' = [request EXCEPT ![p] = NoRequest]
    /\ UNCHANGED told /\ UNCHANGED storeVars

\* revokeHandler: Status and the kind check, then Revoke.
RevokeRequest(p, id, kind, token) ==
    /\ request[p].pc = "none" /\ Present(id)
    /\ StatusCall(id)
    /\ request' = IF drops[id].kind = kind
                  THEN [request EXCEPT ![p] = [pc |-> "revoking", id |-> id, token |-> token]]
                  ELSE request
    /\ UNCHANGED <<inflight, told>>

RevokeCall(p) ==
    LET id == request[p].id IN
    /\ request[p].pc = "revoking" /\ Unlocked
    /\ IF Present(id) /\ (Due(id) \/ RevokeReply(drops[id], request[p].token) = "ok")
       THEN Revoke(id, request[p].token)
       ELSE UNCHANGED storeVars
    /\ request' = [request EXCEPT ![p] = NoRequest]
    /\ UNCHANGED <<inflight, told>>

\* createDrop, upload, fetch, createReveal and open: one store call each.
OneCall(id) ==
    /\ \/ \E kind \in Kinds, n \in Sizes \cup {0}, ttl \in TTLs : Create(id, kind, n, ttl)
       \/ \E n \in Sizes : Upload(id, "A", TRUE, n)
       \/ Fetch(id, "B")
       \/ Open(id, "A")
    /\ UNCHANGED serverVars

Sweeper == SweepStep /\ UNCHANGED serverVars

ServerTick == Tick /\ UNCHANGED serverVars

StatusStep(p) ==
    \/ CheckWaiters(p)
    \/ CountWaiter(p)
    \/ EnterWait(p)
    \/ Select(p)
    \/ LeaveWait(p)
    \/ DiscountWaiter(p)

ServerNext ==
    \/ \E p \in Polls, id \in Ids, kind \in Kinds :
          \/ \E waits \in SUBSET LiveStates : StatusRequest(p, id, kind, waits)
          \/ \E token \in Credentials : RevokeRequest(p, id, kind, token)
    \/ \E p \in Polls : StatusStep(p) \/ RevokeCall(p)
    \/ \E id \in Ids : OneCall(id)
    \/ Sweeper
    \/ ServerTick

ServerSpec == ServerInit /\ [][ServerNext]_allVars

\* A request that was accepted is served to its end: goroutines are scheduled,
\* the long poll's timer fires.  Time passes and the sweeper's ticker fires.  New
\* requests come as they come.
ServerFairSpec ==
    /\ ServerSpec
    /\ \A p \in Polls : WF_allVars(StatusStep(p)) /\ WF_allVars(RevokeCall(p))
    /\ WF_allVars(Sweeper) /\ WF_allVars(ServerTick)

----------------------------------------------------------------------------
(* Properties.                                                             *)

Counted == {p \in Polls : request[p].pc \in {"entering", "waiting", "returning"}}

\* Server.waiters is the number of requests between their Add(1) and their
\* Add(-1), and every poll that sleeps in the store is one of them: no path
\* through Wait leaves the counter up, which would use up MaxWaiters for good.
WaitersCounted ==
    /\ inflight = Cardinality(Counted)
    /\ \A p \in Polls : poll[p].pc # "idle" <=> request[p].pc = "waiting"

Rank(state) == CASE state = "created" -> 1 [] state = "uploaded" -> 2 [] OTHER -> 3

\* What one client is told of one slot in successive answers never goes back:
\* neither from uploaded to created nor from one final state to another,
\* whatever the handler read before it waited.
AnswersGoForward ==
    [][\A p \in Polls :
          told'[p].id = told[p].id /\ told[p] # Nothing =>
             \/ told'[p].state = told[p].state
             \/ Rank(told[p].state) < Rank(told'[p].state)]_allVars

\* Every request in flight is answered.
EveryRequestAnswered == \A p \in Polls : request[p].pc # "none" ~> request[p].pc = "none"
============================================================================
