------------------------- MODULE RelayServer_proofs -------------------------
(***************************************************************************)
(* Proofs about the relay's handlers, for any number of clients and slots: *)
(* the counter of long polls is exact, the handlers use the store as its   *)
(* specification allows, and what a client is told never goes back.        *)
(***************************************************************************)
EXTENDS RelayServer, RelayMemory_proofs

RequestState ==
    {NoRequest}
    \cup [pc : {"checking", "admitted", "entering", "waiting", "returning"}, id : Ids, state : LiveStates]
    \cup [pc : {"revoking"}, id : Ids, token : Credentials]

\* The counter is exact; a request is inside the store's Wait exactly while its
\* poll is.  Only finitely many requests are counted, however many clients
\* there are.
IInv ==
    /\ request \in [Polls -> RequestState]
    /\ poll \in [Polls -> PollState]
    /\ IsFiniteSet(Counted)
    /\ WaitersCounted

LEMMA InitIInv == ServerInit => IInv
  <1> SUFFICES ASSUME ServerInit PROVE IInv
    OBVIOUS
  <1>1. request \in [Polls -> RequestState] /\ poll \in [Polls -> PollState]
    BY DEF ServerInit, Init, RequestState, PollState
  <1>2. Counted = {}
    BY DEF ServerInit, Counted, NoRequest
  <1>3. IsFiniteSet(Counted) /\ inflight = Cardinality(Counted)
    BY <1>2, FS_EmptySet DEF ServerInit
  <1>4. \A p \in Polls : poll[p].pc # "idle" <=> request[p].pc = "waiting"
    BY DEF ServerInit, Init, NoRequest, NoPoll
  <1>5. QED
    BY <1>1, <1>3, <1>4 DEF IInv, WaitersCounted

\* A step in which no request starts or stops being counted, and none enters or
\* leaves the store's Wait.
Aside ==
    /\ inflight' = inflight
    /\ request' \in [Polls -> RequestState] /\ poll' \in [Polls -> PollState]
    /\ \A p \in Polls :
          /\ p \in Counted' <=> p \in Counted
          /\ poll'[p].pc # "idle" <=> poll[p].pc # "idle"
          /\ request'[p].pc = "waiting" <=> request[p].pc = "waiting"

LEMMA AsideIInv == IInv /\ Aside => IInv'
  <1> SUFFICES ASSUME IInv, Aside PROVE IInv'
    OBVIOUS
  <1>1. Counted' = Counted
    BY DEF Aside, Counted
  <1>2. QED
    BY <1>1 DEF IInv, Aside, WaitersCounted

\* One request is counted, or no longer.
LEMMA CountedChanges ==
    ASSUME IInv, NEW p \in Polls, NEW q \in RequestState,
           request' = [request EXCEPT ![p] = q]
    PROVE  /\ request' \in [Polls -> RequestState]
           /\ Counted' = IF q.pc \in {"entering", "waiting", "returning"}
                         THEN Counted \cup {p} ELSE Counted \ {p}
  BY DEF IInv, Counted

LEMMA RequestRecords ==
    ASSUME NEW q \in RequestState, q.pc \in {"checking", "admitted", "entering", "waiting", "returning"},
           NEW pc \in {"checking", "admitted", "entering", "waiting", "returning"}
    PROVE  [q EXCEPT !.pc = pc] \in RequestState /\ [q EXCEPT !.pc = pc].pc = pc
           /\ q.id \in Ids /\ q.state \in LiveStates
  BY DEF RequestState, NoRequest

\* The store's calls of one slot leave the polls alone.
LEMMA StoreCalls ==
    ASSUME IInv, NEW id \in Ids, OneCall(id)
    PROVE  Aside
  <1>1. poll' = poll /\ UNCHANGED serverVars
    BY DEF OneCall, Create, Upload, Fetch, Open, Untouched
  <1>2. QED
    BY <1>1 DEF Aside, IInv, Counted, serverVars

LEMMA StatusCallPolls == ASSUME NEW id, StatusCall(id) PROVE poll' = poll
  BY DEF StatusCall, Status, Untouched, storeVars, vars

LEMMA StatusRequestIInv ==
    ASSUME IInv, NEW p \in Polls, NEW id \in Ids, NEW kind, NEW waits \in SUBSET LiveStates,
           StatusRequest(p, id, kind, waits)
    PROVE  IInv'
  <1>1. poll' = poll /\ inflight' = inflight /\ request[p].pc = "none"
    BY StatusCallPolls DEF StatusRequest
  <1>2. CASE request' = request
    BY <1>1, <1>2, AsideIInv DEF Aside, IInv, Counted
  <1>3. CASE /\ Reported(id) \in waits
             /\ request' = [request EXCEPT ![p] = [pc |-> "checking", id |-> id, state |-> Reported(id)]]
    <2> DEFINE q == [pc |-> "checking", id |-> id, state |-> Reported(id)]
    <2>1. q \in RequestState /\ q.pc = "checking"
      BY <1>3 DEF RequestState
    <2>2. request' = [request EXCEPT ![p] = q]
      BY <1>3
    <2> HIDE DEF q
    <2>3. Aside
      BY <1>1, <2>1, <2>2, CountedChanges DEF Aside, IInv, Counted
    <2>4. QED
      BY <2>3, AsideIInv
  <1>4. QED
    BY <1>2, <1>3 DEF StatusRequest

LEMMA RevokeIInv ==
    ASSUME IInv, NEW p \in Polls,
           \/ \E id \in Ids, kind \in Kinds, token \in Credentials : RevokeRequest(p, id, kind, token)
           \/ RevokeCall(p)
    PROVE  IInv'
  <1>1. CASE \E id \in Ids, kind \in Kinds, token \in Credentials : RevokeRequest(p, id, kind, token)
    <2> PICK id \in Ids, kind \in Kinds, token \in Credentials : RevokeRequest(p, id, kind, token)
      BY <1>1
    <2> DEFINE q == [pc |-> "revoking", id |-> id, token |-> token]
    <2>1. poll' = poll /\ inflight' = inflight /\ request[p].pc = "none"
      BY StatusCallPolls DEF RevokeRequest
    <2>2. q \in RequestState /\ q.pc = "revoking"
      BY DEF RequestState
    <2>3. request' = request \/ request' = [request EXCEPT ![p] = q]
      BY DEF RevokeRequest
    <2> HIDE DEF q
    <2>4. Aside
      BY <2>1, <2>2, <2>3, CountedChanges DEF Aside, IInv, Counted
    <2>5. QED
      BY <2>4, AsideIInv
  <1>2. CASE RevokeCall(p)
    <2>1. poll' = poll /\ inflight' = inflight /\ request[p].pc = "revoking"
      BY <1>2 DEF RevokeCall, Revoke, Untouched, storeVars, vars
    <2>2. NoRequest \in RequestState /\ NoRequest.pc = "none" /\ request' = [request EXCEPT ![p] = NoRequest]
      BY <1>2 DEF RequestState, NoRequest, RevokeCall
    <2>3. Aside
      BY <2>1, <2>2, CountedChanges DEF Aside, IInv, Counted
    <2>4. QED
      BY <2>3, AsideIInv
  <1>3. QED
    BY <1>1, <1>2

\* The status handler's way through checking, counting and waiting.
LEMMA StatusStepIInv ==
    ASSUME IInv, NEW p \in Polls, StatusStep(p)
    PROVE  IInv'
  <1>0. /\ request[p] \in RequestState /\ poll[p] \in PollState
        /\ inflight = Cardinality(Counted) /\ IsFiniteSet(Counted) /\ Cardinality(Counted) \in Nat
    BY FS_CardinalityType DEF IInv, WaitersCounted
  <1>n. NoRequest \in RequestState /\ NoRequest.pc = "none"
    BY DEF RequestState, NoRequest
  <1>1. CASE CheckWaiters(p)
    <2>1. poll' = poll /\ inflight' = inflight /\ request[p].pc = "checking"
      BY <1>1 DEF CheckWaiters, storeVars, vars
    <2> DEFINE q == [request[p] EXCEPT !.pc = "admitted"]
    <2>2. q \in RequestState /\ q.pc = "admitted"
      BY <1>0, <2>1, RequestRecords
    <2>3. request' = [request EXCEPT ![p] = NoRequest] \/ request' = [request EXCEPT ![p] = q]
      BY <1>1 DEF CheckWaiters, IInv
    <2> HIDE DEF q
    <2>4. Aside
      BY <1>n, <2>1, <2>2, <2>3, CountedChanges DEF Aside, IInv, Counted
    <2>5. QED
      BY <2>4, AsideIInv
  <1>2. CASE CountWaiter(p)
    <2>1. poll' = poll /\ inflight' = inflight + 1 /\ request[p].pc = "admitted"
      BY <1>2 DEF CountWaiter, storeVars, vars
    <2> DEFINE q == [request[p] EXCEPT !.pc = "entering"]
    <2>2. q \in RequestState /\ q.pc = "entering"
      BY <1>0, <2>1, RequestRecords
    <2>3. request' = [request EXCEPT ![p] = q]
      BY <1>2 DEF CountWaiter, IInv
    <2> HIDE DEF q
    <2>4. request' \in [Polls -> RequestState] /\ Counted' = Counted \cup {p} /\ p \notin Counted
      BY <2>1, <2>2, <2>3, CountedChanges DEF Counted
    <2>5. IsFiniteSet(Counted') /\ Cardinality(Counted') = Cardinality(Counted) + 1
      BY <1>0, <2>4, FS_AddElement
    <2>6. \A s \in Polls : poll'[s].pc # "idle" <=> request'[s].pc = "waiting"
      BY <2>1, <2>2, <2>3 DEF IInv, WaitersCounted
    <2>7. QED
      BY <1>0, <2>1, <2>4, <2>5, <2>6 DEF IInv, WaitersCounted
  <1>3. CASE EnterWait(p)
    <2> DEFINE id == request[p].id
               blocks == Present(id) /\ ~Due(id) /\ drops[id].state = request[p].state
    <2>1. inflight' = inflight /\ request[p].pc = "entering"
      BY <1>3 DEF EnterWait
    <2>2. id \in Ids /\ request[p].state \in LiveStates
      BY <1>0, <2>1, RequestRecords
    <2>3. CASE blocks
      <3> DEFINE q == [request[p] EXCEPT !.pc = "waiting"]
                 w == [pc |-> "blocked", id |-> id, current |-> request[p].state]
      <3>1. q \in RequestState /\ q.pc = "waiting"
        BY <1>0, <2>1, RequestRecords
      <3>2. request' = [request EXCEPT ![p] = q]
        BY <1>3, <2>3 DEF EnterWait, IInv
      <3>3. poll' = [poll EXCEPT ![p] = w]
        BY <1>3, <2>3 DEF EnterWait, WaitBegin
      <3>4. w \in PollState /\ w.pc = "blocked"
        BY <2>2 DEF PollState
      <3> HIDE DEF q, w
      <3>5. request' \in [Polls -> RequestState] /\ Counted' = Counted \cup {p} /\ p \in Counted
        BY <2>1, <3>1, <3>2, CountedChanges DEF Counted
      <3>6. Counted' = Counted
        BY <3>5
      <3>7. poll' \in [Polls -> PollState]
        BY <3>3, <3>4 DEF IInv
      <3>8. \A s \in Polls : poll'[s].pc # "idle" <=> request'[s].pc = "waiting"
        BY <3>1, <3>2, <3>3, <3>4 DEF IInv, WaitersCounted
      <3>9. QED
        BY <1>0, <2>1, <3>5, <3>6, <3>7, <3>8 DEF IInv, WaitersCounted
    <2>4. CASE ~blocks
      <3> DEFINE q == [request[p] EXCEPT !.pc = "returning"]
      <3>1. q \in RequestState /\ q.pc = "returning"
        BY <1>0, <2>1, RequestRecords
      <3>2. request' = [request EXCEPT ![p] = q]
        BY <1>3, <2>4 DEF EnterWait, IInv
      <3>3. poll' = poll
        BY <1>3, <2>4, StatusCallPolls DEF EnterWait, storeVars, vars
      <3> HIDE DEF q
      <3>4. Aside
        BY <2>1, <3>1, <3>2, <3>3, CountedChanges DEF Aside, IInv, Counted
      <3>5. QED
        BY <3>4, AsideIInv
    <2>5. QED
      BY <2>3, <2>4
  <1>4. CASE Select(p)
    <2>1. UNCHANGED serverVars /\ poll[p].pc = "blocked"
          /\ \E pc \in {"notified", "gave_up"} : poll' = [poll EXCEPT ![p].pc = pc]
      BY <1>4 DEF Select, WaitNotified, WaitGiveUp
    <2> PICK pc \in {"notified", "gave_up"} : poll' = [poll EXCEPT ![p].pc = pc]
      BY <2>1
    <2>2. poll[p] \in [pc : {"blocked", "notified", "gave_up"}, id : Ids, current : LiveStates]
      BY <1>0, <2>1 DEF PollState, NoPoll
    <2>3. poll' \in [Polls -> PollState] /\ poll'[p].pc = pc /\ \A s \in Polls : s # p => poll'[s] = poll[s]
      BY <2>2 DEF IInv, PollState
    <2>4. Aside
      BY <2>1, <2>3 DEF Aside, IInv, Counted, serverVars
    <2>5. QED
      BY <2>4, AsideIInv
  <1>5. CASE LeaveWait(p)
    <2>1. inflight' = inflight /\ request[p].pc = "waiting" /\ poll' = [poll EXCEPT ![p] = NoPoll]
      BY <1>5 DEF LeaveWait, WaitReturn
    <2> DEFINE q == [request[p] EXCEPT !.pc = "returning"]
    <2>2. q \in RequestState /\ q.pc = "returning"
      BY <1>0, <2>1, RequestRecords
    <2>3. request' = [request EXCEPT ![p] = q]
      BY <1>5 DEF LeaveWait, IInv
    <2>4. NoPoll \in PollState /\ NoPoll.pc = "idle"
      BY DEF PollState, NoPoll
    <2> HIDE DEF q
    <2>5. request' \in [Polls -> RequestState] /\ Counted' = Counted \cup {p} /\ p \in Counted
      BY <2>1, <2>2, <2>3, CountedChanges DEF Counted
    <2>6. Counted' = Counted
      BY <2>5
    <2>7. poll' \in [Polls -> PollState]
      BY <2>1, <2>4 DEF IInv
    <2>8. \A s \in Polls : poll'[s].pc # "idle" <=> request'[s].pc = "waiting"
      BY <2>1, <2>2, <2>3, <2>4 DEF IInv, WaitersCounted
    <2>9. QED
      BY <1>0, <2>1, <2>5, <2>6, <2>7, <2>8 DEF IInv, WaitersCounted
  <1>6. CASE DiscountWaiter(p)
    <2>1. /\ poll' = poll /\ inflight' = inflight - 1 /\ request[p].pc = "returning"
          /\ request' = [request EXCEPT ![p] = NoRequest]
      BY <1>6 DEF DiscountWaiter, storeVars, vars
    <2>2. request' \in [Polls -> RequestState] /\ Counted' = Counted \ {p} /\ p \in Counted
      BY <1>n, <2>1, CountedChanges DEF Counted
    <2>3. IsFiniteSet(Counted') /\ Cardinality(Counted') = Cardinality(Counted) - 1
      BY <1>0, <2>2, FS_RemoveElement
    <2>4. \A s \in Polls : poll'[s].pc # "idle" <=> request'[s].pc = "waiting"
      BY <1>n, <2>1 DEF IInv, WaitersCounted
    <2>5. QED
      BY <1>0, <2>1, <2>2, <2>3, <2>4 DEF IInv, WaitersCounted
  <1>7. QED
    BY <1>1, <1>2, <1>3, <1>4, <1>5, <1>6 DEF StatusStep

LEMMA NextIInv == IInv /\ [ServerNext]_allVars => IInv'
  <1> SUFFICES ASSUME IInv, [ServerNext]_allVars PROVE IInv'
    OBVIOUS
  <1>1. ASSUME NEW p \in Polls, NEW id \in Ids, NEW kind \in Kinds, NEW waits \in SUBSET LiveStates,
               StatusRequest(p, id, kind, waits)
        PROVE  IInv'
    BY <1>1, StatusRequestIInv
  <1>2. ASSUME NEW p \in Polls, NEW id \in Ids, NEW kind \in Kinds, NEW token \in Credentials,
               RevokeRequest(p, id, kind, token)
        PROVE  IInv'
    BY <1>2, RevokeIInv
  <1>3. ASSUME NEW p \in Polls, StatusStep(p) PROVE IInv'
    BY <1>3, StatusStepIInv
  <1>4. ASSUME NEW p \in Polls, RevokeCall(p) PROVE IInv'
    BY <1>4, RevokeIInv
  <1>5. ASSUME NEW id \in Ids, OneCall(id) PROVE IInv'
    BY <1>5, StoreCalls, AsideIInv
  <1>6. CASE Sweeper \/ ServerTick
    <2>1. poll' = poll /\ UNCHANGED serverVars
      BY <1>6 DEF Sweeper, SweepStep, SweepBegin, SweepRemove, SweepExpire, SweepSkip, SweepEnd,
                  ServerTick, Tick, pollVars
    <2>2. Aside
      BY <2>1 DEF Aside, IInv, Counted, serverVars
    <2>3. QED
      BY <2>2, AsideIInv
  <1>7. CASE UNCHANGED allVars
    <2>1. Aside
      BY <1>7 DEF Aside, IInv, Counted, allVars
    <2>2. QED
      BY <2>1, AsideIInv
  <1>8. QED
    BY <1>1, <1>2, <1>3, <1>4, <1>5, <1>6, <1>7 DEF ServerNext

\* Whatever the polls, revokes and sweeps do, Server.waiters is the number of
\* status requests between their Add(1) and their Add(-1) (statusHandler,
\* handlers.go:246-248).
THEOREM WaitersAreCounted == ServerSpec => []WaitersCounted
  <1>1. IInv => WaitersCounted
    BY DEF IInv
  <1>2. QED
    BY <1>1, InitIInv, NextIInv, PTL DEF ServerSpec

----------------------------------------------------------------------------
(* The handlers over the store.                                            *)

LEMMA StatusCallSteps ==
    ASSUME NEW id \in Ids, StatusCall(id)
    PROVE  [Next]_vars
  BY DEF StatusCall, Next, SlotCall, storeVars

LEMMA StoreSteps ==
    ASSUME IInv, [ServerNext]_allVars
    PROVE  [Next]_vars
  <1>1. ASSUME NEW p \in Polls, NEW id \in Ids, NEW kind \in Kinds,
               \/ \E waits \in SUBSET LiveStates : StatusRequest(p, id, kind, waits)
               \/ \E token \in Credentials : RevokeRequest(p, id, kind, token)
        PROVE  [Next]_vars
    BY <1>1, StatusCallSteps DEF StatusRequest, RevokeRequest
  <1>2. ASSUME NEW p \in Polls, StatusStep(p) PROVE [Next]_vars
    <2>0. request[p] \in RequestState
      BY DEF IInv
    <2>1. CASE CheckWaiters(p) \/ CountWaiter(p) \/ DiscountWaiter(p)
      BY <2>1 DEF CheckWaiters, CountWaiter, DiscountWaiter, storeVars
    <2>2. CASE EnterWait(p)
      <3>1. request[p].id \in Ids /\ request[p].state \in LiveStates
        BY <2>0, <2>2, RequestRecords DEF EnterWait
      <3>2. CASE WaitBegin(p, request[p].id, request[p].state)
        BY <3>1, <3>2 DEF Next, PollStep
      <3>3. CASE StatusCall(request[p].id)
        BY <3>1, <3>3, StatusCallSteps
      <3>4. CASE UNCHANGED storeVars
        BY <3>4 DEF storeVars
      <3> QED
        BY <2>2, <3>2, <3>3, <3>4 DEF EnterWait
    <2>3. CASE Select(p) \/ LeaveWait(p)
      BY <2>3 DEF Select, LeaveWait, Next, PollStep
    <2> QED
      BY <1>2, <2>1, <2>2, <2>3 DEF StatusStep
  <1>3. ASSUME NEW p \in Polls, RevokeCall(p) PROVE [Next]_vars
    <2>1. request[p].id \in Ids /\ request[p].token \in Credentials
      BY <1>3 DEF IInv, RevokeCall, RequestState, NoRequest
    <2> QED
      BY <1>3, <2>1 DEF RevokeCall, Next, SlotCall, storeVars
  <1>4. ASSUME NEW id \in Ids, OneCall(id) PROVE [Next]_vars
    <2>1. "A" \in Credentials /\ "B" \in Credentials /\ TRUE \in BOOLEAN
      BY DEF Credentials, Tokens
    <2>2. SlotCall(id)
      BY <1>4, <2>1 DEF OneCall, SlotCall
    <2> QED
      BY <2>2 DEF Next
  <1>5. CASE Sweeper \/ ServerTick
    BY <1>5 DEF Sweeper, ServerTick, Next
  <1>6. CASE UNCHANGED allVars
    BY <1>6 DEF allVars, vars
  <1> QED
    BY <1>1, <1>2, <1>3, <1>4, <1>5, <1>6 DEF ServerNext

\* Everything the handlers do to the store is a behaviour of the store on its
\* own, so what is proved of Memory (memory.go) holds under the relay's requests.
THEOREM HandlersUseTheStore == ServerSpec => Spec
  <1>1. ServerInit => Init
    BY DEF ServerInit
  <1>2. IInv /\ [ServerNext]_allVars => [Next]_vars
    BY StoreSteps
  <1> QED
    BY <1>1, <1>2, InitIInv, NextIInv, PTL DEF ServerSpec, Spec

----------------------------------------------------------------------------
(* What a client is told of a slot.                                        *)

States == LiveStates \cup TerminalStates

\* A slot in the first state may come to be in the second.
Behind(a, b) == a = b \/ Rank(a) < Rank(b)

\* A slot is at least where each client was told it is, or forgotten.
ToldInv ==
    /\ told \in [Polls -> {Nothing} \cup [id : Ids, state : States]]
    /\ \A p \in Polls : told[p] # Nothing =>
          LET now == drops[told[p].id].state IN
          now = "forgotten" \/ (now \in States /\ Behind(told[p].state, now))

LEMMA SlotsMove ==
    ASSUME TypeOK, TimerInv, [Next]_vars, NEW id \in Ids, drops[id].state # "fresh"
    PROVE  \/ drops'[id].state = "forgotten"
           \/ drops[id].state \in States /\ drops'[id].state \in States
              /\ Behind(drops[id].state, drops'[id].state)
  <1> DEFINE Moved == \/ drops'[id].state = "forgotten"
                      \/ drops[id].state \in States /\ drops'[id].state \in States
                         /\ Behind(drops[id].state, drops'[id].state)
  <1> USE DEF States, Behind, Rank, LiveStates, TerminalStates
  <1>0. drops[id] \in Drop /\ drops[id].state \in States \cup {"forgotten"}
    BY DEF TypeOK, Drop, UnknownStates
  <1>1. ASSUME drops'[id].state = drops[id].state PROVE Moved
    BY <1>0, <1>1
  <1>2. CASE CreateStep
    BY <1>1, <1>2 DEF CreateStep, Create, TypeOK
  <1>3. ASSUME NEW i \in Ids, NEW n \in Sizes, UploadStep(i, n) PROVE Moved
    <2>1. drops' = [drops EXCEPT ![i].ct = n, ![i].state = "uploaded"] /\ drops[i].state = "created"
      BY <1>3 DEF UploadStep
    <2>2. drops'[id].state = IF i = id THEN "uploaded" ELSE drops[id].state
      BY <2>1 DEF TypeOK, Drop
    <2> QED
      BY <1>0, <1>1, <2>1, <2>2
  <1>4. ASSUME NEW i \in Ids, NEW final \in TerminalStates, EndStep(i, final) PROVE Moved
    <2>1. drops'[i].state = final /\ (id # i => drops'[id] = drops[id]) /\ Live(i)
      BY <1>4, EndEffect DEF EndStep
    <2> QED
      BY <1>0, <1>1, <2>1 DEF Live
  <1>5. ASSUME NEW e \in timers, ForgetStep(e) PROVE Moved
    BY <1>1, <1>5, ForgetEffect DEF NoDrop
  <1>6. CASE Close
    BY <1>0, <1>1, <1>6 DEF Close, NoDrop
  <1>7. CASE QuietStep
    BY <1>1, <1>7 DEF QuietStep, slotVars
  <1> QED
    BY <1>2, <1>3, <1>4, <1>5, <1>6, <1>7, StepCases

\* Client p is told where slot id is after the step, get()'s expiry included.
Tells(p, id) ==
    /\ Present(id) /\ drops'[id].state = Reported(id)
    /\ told' = [told EXCEPT ![p] = [id |-> id, state |-> Reported(id)]]

LEMMA ExpireReports ==
    ASSUME TypeOK, NEW id \in Ids, Due(id), Expire(id)
    PROVE  drops'[id].state = Reported(id)
  <1>1. "expired" \in TerminalStates
    BY DEF TerminalStates
  <1> QED
    BY <1>1, EndEffect DEF Expire, Reported

LEMMA StatusReports ==
    ASSUME TypeOK, NEW id \in Ids, StatusCall(id)
    PROVE  drops'[id].state = Reported(id)
  <1>1. CASE Due(id)
    BY <1>1, ExpireReports DEF StatusCall, Status
  <1>2. CASE ~Due(id)
    BY <1>2 DEF StatusCall, storeVars, vars, Reported
  <1> QED
    BY <1>1, <1>2

LEMMA ToldCases ==
    ASSUME IInv, TypeOK, [ServerNext]_allVars
    PROVE  told' = told \/ \E p \in Polls, id \in Ids : Tells(p, id)
  <1>1. ASSUME NEW p \in Polls, NEW id \in Ids, NEW kind \in Kinds, NEW waits \in SUBSET LiveStates,
               StatusRequest(p, id, kind, waits)
        PROVE  told' = told \/ Tells(p, id)
    BY <1>1, StatusReports DEF StatusRequest, Tell, Tells
  <1>2. ASSUME NEW p \in Polls, StatusStep(p) PROVE told' = told \/ \E id \in Ids : Tells(p, id)
    <2>0. request[p] \in RequestState /\ poll[p] \in PollState
      BY DEF IInv
    <2>1. CASE EnterWait(p)
      <3>1. request[p].id \in Ids
        BY <2>0, <2>1, RequestRecords DEF EnterWait
      <3> QED
        BY <2>1, <3>1, StatusReports DEF EnterWait, Tell, Tells
    <2>2. CASE LeaveWait(p)
      <3> DEFINE id == poll[p].id
      <3>1. id \in Ids /\ WaitReturn(p)
        BY <2>0, <2>2 DEF LeaveWait, WaitReturn, PollState, NoPoll
      <3>2. drops'[id].state = Reported(id)
        <4>1. CASE Due(id)
          BY <3>1, <4>1, ExpireReports DEF WaitReturn
        <4>2. CASE ~Due(id)
          BY <3>1, <4>2 DEF WaitReturn, slotVars, Reported
        <4> QED
          BY <4>1, <4>2
      <3> QED
        BY <2>2, <3>1, <3>2 DEF LeaveWait, Tell, Tells
    <2>3. CASE CheckWaiters(p) \/ CountWaiter(p) \/ Select(p) \/ DiscountWaiter(p)
      BY <2>3 DEF CheckWaiters, CountWaiter, Select, DiscountWaiter, serverVars
    <2> QED
      BY <1>2, <2>1, <2>2, <2>3 DEF StatusStep
  <1>3. ASSUME NEW p \in Polls, RevokeCall(p) PROVE told' = told
    BY <1>3 DEF RevokeCall
  <1>4. ASSUME NEW p \in Polls, NEW id \in Ids, NEW kind \in Kinds, NEW token \in Credentials,
               RevokeRequest(p, id, kind, token)
        PROVE  told' = told
    BY <1>4 DEF RevokeRequest
  <1>5. CASE Sweeper \/ ServerTick \/ (\E id \in Ids : OneCall(id)) \/ UNCHANGED allVars
    BY <1>5 DEF Sweeper, ServerTick, OneCall, serverVars, allVars
  <1> QED
    BY <1>1, <1>2, <1>3, <1>4, <1>5 DEF ServerNext

\* What a client is told of a slot is where the slot is, or where it is about
\* to be because its time is up.
LEMMA ReportedIsAhead ==
    ASSUME TypeOK, NEW id \in Ids, Present(id)
    PROVE  /\ Reported(id) \in States
           /\ \A s \in States : Behind(s, drops[id].state) => Behind(s, Reported(id))
  <1>1. drops[id].state \in States
    BY DEF TypeOK, Drop, Present, UnknownStates, States
  <1> QED
    BY <1>1 DEF Reported, Due, Live, States, Behind, Rank, LiveStates, TerminalStates

LEMMA ToldStep ==
    ASSUME IInv, TypeOK, TimerInv, ToldInv, [ServerNext]_allVars
    PROVE  /\ ToldInv'
           /\ \A p \in Polls : told'[p].id = told[p].id /\ told[p] # Nothing =>
                                 Behind(told[p].state, told'[p].state)
  <1>0. [Next]_vars
    BY StoreSteps
  <1>1. \A p \in Polls : told[p] # Nothing =>
           /\ told[p].id \in Ids /\ told[p].state \in States
           /\ \/ drops[told[p].id].state = "forgotten"
              \/ drops[told[p].id].state \in States /\ Behind(told[p].state, drops[told[p].id].state)
    BY DEF ToldInv
  <1>2. ASSUME NEW p \in Polls, told[p] # Nothing
        PROVE  LET now == drops'[told[p].id].state IN
               now = "forgotten" \/ (now \in States /\ Behind(told[p].state, now))
    <2>1. drops[told[p].id].state # "fresh" /\ told[p].id \in Ids
      BY <1>1, <1>2 DEF States, LiveStates, TerminalStates
    <2>2. \/ drops'[told[p].id].state = "forgotten"
          \/ /\ drops[told[p].id].state \in States /\ drops'[told[p].id].state \in States
             /\ Behind(drops[told[p].id].state, drops'[told[p].id].state)
      BY <1>0, <2>1, SlotsMove
    <2>3. ASSUME NEW a \in States, NEW b \in States, NEW c \in States, Behind(a, b), Behind(b, c)
          PROVE  Behind(a, c)
      BY <2>3 DEF Behind, Rank, States, LiveStates, TerminalStates
    <2>4. "forgotten" \notin States
      BY DEF States, LiveStates, TerminalStates
    <2> QED
      BY <1>1, <1>2, <2>2, <2>3, <2>4
  <1>3. CASE told' = told
    <2>1. ToldInv'
      BY <1>2, <1>3 DEF ToldInv
    <2> QED
      BY <1>3, <2>1 DEF Behind
  <1>4. ASSUME NEW p \in Polls, NEW id \in Ids, Tells(p, id)
        PROVE  /\ ToldInv'
               /\ \A q \in Polls : told'[q].id = told[q].id /\ told[q] # Nothing =>
                                     Behind(told[q].state, told'[q].state)
    <2>1. PICK new : new = [id |-> id, state |-> Reported(id)]
      OBVIOUS
    <2>2. Present(id) /\ drops'[id].state = Reported(id) /\ Reported(id) \in States
      BY <1>4, ReportedIsAhead DEF Tells
    <2>3. new.id = id /\ new.state = Reported(id) /\ new \in [id : Ids, state : States]
      BY <2>1, <2>2
    <2>4. told' = [told EXCEPT ![p] = new] /\ \A q \in Polls : told'[q] = IF q = p THEN new ELSE told[q]
      BY <1>4, <2>1 DEF Tells, ToldInv
    <2>5. ToldInv'
      <3>1. told' \in [Polls -> {Nothing} \cup [id : Ids, state : States]]
        BY <2>3, <2>4 DEF ToldInv
      <3>2. ASSUME NEW q \in Polls, told'[q] # Nothing
            PROVE  LET now == drops'[told'[q].id].state IN
                   now = "forgotten" \/ (now \in States /\ Behind(told'[q].state, now))
        BY <1>2, <2>2, <2>3, <2>4, <3>2 DEF Behind
      <3> QED
        BY <3>1, <3>2 DEF ToldInv
    <2>6. ASSUME told[p].id = id, told[p] # Nothing PROVE Behind(told[p].state, Reported(id))
      <3>1. drops[id].state \in States /\ Behind(told[p].state, drops[id].state) /\ told[p].state \in States
        BY <1>1, <2>2, <2>6 DEF Present, UnknownStates
      <3> QED
        BY <2>2, <3>1, ReportedIsAhead
    <2>7. ASSUME NEW q \in Polls, told'[q].id = told[q].id, told[q] # Nothing
          PROVE  Behind(told[q].state, told'[q].state)
      BY <2>3, <2>4, <2>6, <2>7 DEF Behind
    <2> QED
      BY <2>5, <2>7
  <1> QED
    BY <1>3, <1>4, ToldCases

\* What a client is told of a slot in successive answers of statusHandler never
\* goes back, whatever it was told before it waited and whatever uploads,
\* fetches, revokes, expiries and sweeps come in between (handlers.go:213-257).
THEOREM AnswersNeverGoBack == ServerSpec => AnswersGoForward
  <1>1. ServerInit => ToldInv
    BY DEF ServerInit, ToldInv
  <1>2. IInv /\ TypeOK /\ TimerInv /\ ToldInv /\ [ServerNext]_allVars
        => /\ ToldInv'
           /\ \A p \in Polls : told'[p].id = told[p].id /\ told[p] # Nothing =>
                                 Behind(told[p].state, told'[p].state)
    BY ToldStep
  <1>3. (\A p \in Polls : told'[p].id = told[p].id /\ told[p] # Nothing =>
                            Behind(told[p].state, told'[p].state))
        => [\A p \in Polls :
              told'[p].id = told[p].id /\ told[p] # Nothing =>
                 \/ told'[p].state = told[p].state
                 \/ Rank(told[p].state) < Rank(told'[p].state)]_allVars
    BY DEF Behind
  <1> QED
    BY <1>1, <1>2, <1>3, InitIInv, NextIInv, HandlersUseTheStore, TimersCorrect, PTL
    DEF ServerSpec, AnswersGoForward
============================================================================
