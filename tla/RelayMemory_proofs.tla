------------------------- MODULE RelayMemory_proofs -------------------------
(***************************************************************************)
(* Proofs about the in-memory slot store, for any identifiers, polls,      *)
(* sizes, lifetimes, grace period, limits and clock bound.                 *)
(***************************************************************************)
EXTENDS RelayMemory, FiniteSetTheorems, TLAPS

----------------------------------------------------------------------------
(* Types.                                                                  *)

\* Ending a slot keeps the store's fields in their types.
LEMMA RetireType ==
    ASSUME TypeOK, NEW id \in Ids, NEW final \in TerminalStates, Retire(id, final)
    PROVE  /\ drops' \in [Ids -> Drop]
           /\ live' \in Int /\ bytes' \in Int
           /\ signal' \in [Polls -> BOOLEAN]
  <1>1. Tombstone(drops[id], final) \in Drop
    BY DEF TypeOK, Drop, Tombstone
  <1>2. drops' \in [Ids -> Drop]
    BY <1>1 DEF TypeOK, Retire
  <1>3. live' \in Int /\ bytes' \in Int
    BY DEF TypeOK, Retire, Drop
  <1>4. signal' \in [Polls -> BOOLEAN]
    BY DEF Retire, Notify
  <1> QED
    BY <1>2, <1>3, <1>4

\* So does every step.
LEMMA TypeStep ==
    ASSUME TypeOK, [Next]_vars
    PROVE  TypeOK'
  <1> USE TimesAssumption, SizesAssumption
  <1>1. ASSUME NEW id \in Ids, NEW kind \in Kinds, NEW n \in Sizes \cup {0}, NEW ttl \in TTLs,
               Create(id, kind, n, ttl)
        PROVE  TypeOK'
    <2>1. /\ clock + ttl \in Nat /\ clock + ttl + Grace \in Nat /\ n \in Nat
      BY DEF TypeOK
    <2>2. [kind |-> kind, state |-> "created", ct |-> n, tokens |-> Tokens,
           commitment |-> kind = "drop", expires |-> clock + ttl] \in Drop
      BY <2>1 DEF Drop, LiveStates
    <2>3. drops' \in [Ids -> Drop]
      BY <1>1, <2>2 DEF Create, TypeOK
    <2>4. timers' \subseteq Timer
      <3>1. /\ Entry(clock + ttl, id, FALSE) \in Timer
            /\ Entry(clock + ttl + Grace, id, TRUE) \in Timer
        BY <2>1 DEF Timer, Entry
      <3>2. timers' = timers \cup {Entry(clock + ttl, id, FALSE), Entry(clock + ttl + Grace, id, TRUE)}
        BY <1>1 DEF Create
      <3> QED
        BY <3>1, <3>2 DEF TypeOK
    <2>5. /\ live' = live + 1 /\ bytes' = bytes + n
          /\ UNCHANGED <<clock, waiters, sweepNow, poll, signal, delivered>>
      BY <1>1 DEF Create
    <2> QED
      BY <2>1, <2>3, <2>4, <2>5 DEF TypeOK
  <1>2. ASSUME NEW id \in Ids, NEW token \in Credentials, NEW commitment \in BOOLEAN, NEW n \in Sizes,
               Upload(id, token, commitment, n)
        PROVE  TypeOK'
    <2>1. CASE Expire(id)
      BY <1>2, <2>1, RetireType DEF Upload, Expire, Untouched, TypeOK, TerminalStates
    <2>2. CASE ~Expire(id)
      <3>1. drops' = [drops EXCEPT ![id].ct = n, ![id].state = "uploaded"]
        BY <1>2, <2>2 DEF Upload
      <3>2. drops' \in [Ids -> Drop]
        BY <3>1 DEF TypeOK, Drop, LiveStates
      <3>3. /\ bytes' = bytes + n /\ Notify(id)
            /\ UNCHANGED <<clock, live, timers, waiters, sweepNow, poll, delivered>>
        BY <1>2, <2>2 DEF Upload, Untouched
      <3>4. signal' \in [Polls -> BOOLEAN] /\ bytes' \in Int
        BY <3>3 DEF Notify, TypeOK
      <3> QED
        BY <3>2, <3>3, <3>4 DEF TypeOK
    <2> QED
      BY <2>1, <2>2
  <1>3. ASSUME NEW id \in Ids, NEW token \in Credentials,
               Fetch(id, token) \/ Open(id, token) \/ Revoke(id, token)
        PROVE  TypeOK'
    <2>1. PICK final \in TerminalStates : Retire(id, final)
      BY <1>3 DEF Fetch, Open, Revoke, Expire, TerminalStates
    <2>2. delivered' \in [Ids -> Nat]
      BY <1>3 DEF Fetch, Open, Revoke, Expire, TypeOK
    <2> QED
      BY <1>3, <2>1, <2>2, RetireType DEF Fetch, Open, Revoke, Untouched, TypeOK
  <1>4. ASSUME NEW id \in Ids, Status(id)
        PROVE  TypeOK'
    BY <1>4, RetireType DEF Status, Expire, Untouched, TypeOK, TerminalStates
  <1>5. ASSUME NEW p \in Polls, NEW id \in Ids, NEW current \in LiveStates, WaitBegin(p, id, current)
        PROVE  TypeOK'
    <2>1. CASE Expire(id) /\ UNCHANGED pollVars
      BY <1>5, <2>1, RetireType DEF WaitBegin, Expire, pollVars, TypeOK, TerminalStates
    <2>2. CASE ~(Expire(id) /\ UNCHANGED pollVars)
      <3>1. /\ poll' = [poll EXCEPT ![p] = [pc |-> "blocked", id |-> id, current |-> current]]
            /\ waiters' = [waiters EXCEPT ![id] = @ \cup {p}]
            /\ UNCHANGED <<clock, timers, sweepNow, signal, drops, live, bytes, delivered>>
        BY <1>5, <2>2 DEF WaitBegin, slotVars
      <3>2. poll' \in [Polls -> PollState]
        BY <3>1 DEF TypeOK, PollState
      <3>3. waiters' \in [Ids -> SUBSET Polls]
        BY <3>1 DEF TypeOK
      <3> QED
        BY <3>1, <3>2, <3>3 DEF TypeOK
    <2> QED
      BY <2>1, <2>2
  <1>6. ASSUME NEW p \in Polls, WaitNotified(p) \/ WaitGiveUp(p)
        PROVE  TypeOK'
    <2>1. poll[p] \in [pc : {"blocked", "notified", "gave_up"}, id : Ids, current : LiveStates]
      BY <1>6 DEF WaitNotified, WaitGiveUp, TypeOK, PollState, NoPoll
    <2>2. poll' \in [Polls -> PollState]
      BY <1>6, <2>1 DEF WaitNotified, WaitGiveUp, TypeOK, PollState
    <2> QED
      BY <1>6, <2>2 DEF WaitNotified, WaitGiveUp, TypeOK, slotVars
  <1>7. ASSUME NEW p \in Polls, WaitReturn(p)
        PROVE  TypeOK'
    <2>1. poll[p].id \in Ids
      BY <1>7 DEF WaitReturn, TypeOK, PollState, NoPoll
    <2>2. poll' \in [Polls -> PollState] /\ waiters' \in [Ids -> SUBSET Polls]
      BY <1>7, <2>1 DEF WaitReturn, TypeOK, PollState
    <2>3. CASE Due(poll[p].id)
      BY <1>7, <2>1, <2>2, <2>3, RetireType DEF WaitReturn, Expire, TypeOK, TerminalStates
    <2>4. CASE ~Due(poll[p].id)
      BY <1>7, <2>2, <2>4 DEF WaitReturn, slotVars, TypeOK
    <2> QED
      BY <2>3, <2>4
  <1>8. ASSUME NEW e \in timers, SweepRemove(e)
        PROVE  TypeOK'
    <2>1. e.id \in Ids /\ NoDrop("forgotten") \in Drop
      BY DEF TypeOK, Timer, NoDrop, Drop, UnknownStates, Kinds
    <2> QED
      BY <1>8, <2>1 DEF SweepRemove, TypeOK
  <1>9. ASSUME NEW e \in timers, SweepExpire(e)
        PROVE  TypeOK'
    <2>1. e.id \in Ids
      BY DEF TypeOK, Timer
    <2> QED
      BY <1>9, <2>1, RetireType DEF SweepExpire, Expire, TypeOK, TerminalStates
  <1>10. ASSUME NEW e \in timers, SweepSkip(e)
         PROVE  TypeOK'
    BY <1>10 DEF SweepSkip, TypeOK, slotVars, pollVars
  <1>11. CASE SweepBegin \/ SweepEnd \/ Tick
    BY <1>11 DEF SweepBegin, SweepEnd, Tick, TypeOK, slotVars, pollVars
  <1>12. CASE Close
    <2>1. NoDrop("forgotten") \in Drop
      BY DEF NoDrop, Drop, UnknownStates, Kinds
    <2> QED
      BY <1>12, <2>1 DEF Close, TypeOK
  <1>13. CASE UNCHANGED vars
    BY <1>13 DEF vars, TypeOK
  <1> QED
    BY <1>1, <1>2, <1>3, <1>4, <1>5, <1>6, <1>7, <1>8, <1>9, <1>10, <1>11, <1>12, <1>13
    DEF Next, SlotCall, PollStep, SweepStep

\* The store's fields keep their types in every behaviour.
THEOREM TypeCorrect == Spec => []TypeOK
  <1>1. Init => TypeOK
    BY DEF Init, TypeOK, NoDrop, Drop, UnknownStates, Kinds, PollState
  <1> QED
    BY <1>1, TypeStep, PTL DEF Spec

----------------------------------------------------------------------------
(* The heap.  EndScheduled alone is not inductive: that a removal entry is *)
(* never popped before its slot's expiry entry needs the entries' times to *)
(* be the slot's own (TimersTrue) and identifiers not to come back.        *)

TimersTrue ==
    \A e \in timers :
        /\ drops[e.id].state # "fresh"
        /\ Present(e.id) =>
              e.at = IF e.remove THEN drops[e.id].expires + Grace ELSE drops[e.id].expires

TimerInv == EndScheduled /\ TimersTrue /\ sweepNow <= clock

\* The steps that leave the heap alone only move slots towards their end.
Onward(id) ==
    /\ Live(id)' => Live(id)
    /\ Present(id)' => Present(id) /\ drops'[id].expires = drops[id].expires
    /\ drops[id].state # "fresh" => drops'[id].state # "fresh"

\* Ending a slot (the tails of Fetch, Open, Revoke and expire) moves no slot
\* back and moves no slot's expiry.
LEMMA RetireOnward ==
    ASSUME TypeOK, NEW id \in Ids, NEW final \in TerminalStates, Retire(id, final), Present(id),
           NEW i \in Ids
    PROVE  Onward(i)
  BY DEF Retire, Onward, Tombstone, TypeOK, Drop, Live, Present, LiveStates, TerminalStates, UnknownStates

\* While the heap is left alone and slots only move on, it stays right.
LEMMA TimerFrame ==
    ASSUME TypeOK, TimerInv, timers' = timers, sweepNow' <= clock',
           \A id \in Ids : Onward(id)
    PROVE  TimerInv'
  <1>1. EndScheduled'
    BY DEF TimerInv, EndScheduled, Onward, Entry, Live, Present, LiveStates, UnknownStates
  <1>2. TimersTrue'
    BY DEF TimerInv, TimersTrue, Onward, TypeOK, Timer
  <1> QED
    BY <1>1, <1>2 DEF TimerInv

\* A removal entry that is due meets a tombstone: were its slot live, the
\* slot's expiry entry would still be in the heap, and is earlier.
LEMMA RemovesTombstone ==
    ASSUME TypeOK, TimerInv, NEW e \in timers, SweepRemove(e)
    PROVE  ~Live(e.id)
  <1> SUFFICES ASSUME Live(e.id) PROVE FALSE
    OBVIOUS
  <1>1. e.id \in Ids
    BY DEF TypeOK, Timer
  <1>2. Entry(drops[e.id].expires, e.id, FALSE) \in timers
    BY <1>1 DEF TimerInv, EndScheduled
  <1>3. e.at <= drops[e.id].expires
    BY <1>2 DEF SweepRemove, Least, Entry
  <1>4. e.at = drops[e.id].expires + Grace
    BY DEF SweepRemove, TimerInv, TimersTrue
  <1>5. drops[e.id].expires \in Nat
    BY <1>1 DEF TypeOK, Drop
  <1> QED
    BY <1>3, <1>4, <1>5, TimesAssumption

\* Every step keeps the heap right: Create pushes both entries of its slot, Sweep
\* pops an entry only when it has done what the entry stands for.
LEMMA TimerStep ==
    ASSUME TypeOK, TimerInv, [Next]_vars
    PROVE  TimerInv'
  <1>1. ASSUME NEW id \in Ids, NEW kind \in Kinds, NEW n \in Sizes \cup {0}, NEW ttl \in TTLs,
               Create(id, kind, n, ttl)
        PROVE  TimerInv'
    <2>1. /\ drops'[id].state = "created" /\ drops'[id].expires = clock + ttl
          /\ drops[id].state = "fresh"
          /\ \A i \in Ids : i # id => drops'[i] = drops[i]
      BY <1>1 DEF Create, TypeOK
    <2>2. timers' = timers \cup {Entry(clock + ttl, id, FALSE), Entry(clock + ttl + Grace, id, TRUE)}
      BY <1>1 DEF Create
    <2>3. EndScheduled'
      BY <2>1, <2>2 DEF TimerInv, EndScheduled, Live, Present
    <2>4. TimersTrue'
      <3> SUFFICES ASSUME NEW e \in timers'
                   PROVE  /\ drops'[e.id].state # "fresh"
                          /\ Present(e.id)' =>
                                e.at = IF e.remove THEN drops'[e.id].expires + Grace
                                                   ELSE drops'[e.id].expires
        BY DEF TimersTrue
      <3>1. CASE e \in timers
        <4>1. e.id \in Ids /\ e.id # id
          BY <3>1, <2>1 DEF TimerInv, TimersTrue, TypeOK, Timer
        <4> QED
          BY <3>1, <4>1, <2>1 DEF TimerInv, TimersTrue, Present
      <3>2. CASE e \notin timers
        BY <3>2, <2>1, <2>2 DEF Entry
      <3> QED
        BY <3>1, <3>2
    <2> QED
      BY <1>1, <2>3, <2>4 DEF TimerInv, Create
  <1>2. ASSUME NEW id \in Ids, NEW token \in Credentials, NEW commitment \in BOOLEAN, NEW n \in Sizes,
               Upload(id, token, commitment, n)
        PROVE  TimerInv'
    <2>1. \A i \in Ids : Onward(i)
      <3>1. CASE Expire(id)
        BY <1>2, <3>1, RetireOnward DEF Upload, Expire, TerminalStates
      <3>2. CASE ~Expire(id)
        <4>1. /\ drops' = [drops EXCEPT ![id].ct = n, ![id].state = "uploaded"]
              /\ drops[id].state = "created"
          BY <1>2, <3>2 DEF Upload, UploadReply
        <4> QED
          BY <4>1 DEF TypeOK, Drop, Onward, Live, Present, LiveStates, UnknownStates
      <3> QED
        BY <3>1, <3>2
    <2> QED
      BY <1>2, <2>1, TimerFrame DEF Upload, Untouched, TimerInv
  <1>3. ASSUME NEW id \in Ids, NEW token \in Credentials,
               Fetch(id, token) \/ Open(id, token) \/ Revoke(id, token)
        PROVE  TimerInv'
    <2>1. PICK final \in TerminalStates : Retire(id, final)
      BY <1>3 DEF Fetch, Open, Revoke, Expire, TerminalStates
    <2>2. Present(id) /\ UNCHANGED <<timers, clock, sweepNow>>
      BY <1>3 DEF Fetch, Open, Revoke, Untouched
    <2> QED
      BY <2>1, <2>2, RetireOnward, TimerFrame DEF TimerInv
  <1>4. ASSUME NEW id \in Ids, Status(id)
        PROVE  TimerInv'
    <2>1. Retire(id, "expired") /\ Present(id) /\ UNCHANGED <<timers, clock, sweepNow>>
      BY <1>4 DEF Status, Expire, Untouched, Due, Live, Present, LiveStates, UnknownStates
    <2> QED
      BY <2>1, RetireOnward, TimerFrame DEF TimerInv, TerminalStates
  <1>5. ASSUME NEW p \in Polls, NEW id \in Ids, NEW current \in LiveStates, WaitBegin(p, id, current)
        PROVE  TimerInv'
    <2>1. \A i \in Ids : Onward(i)
      <3>1. CASE Expire(id)
        BY <1>5, <3>1, RetireOnward DEF WaitBegin, Expire, TerminalStates
      <3>2. CASE ~Expire(id)
        BY <1>5, <3>2 DEF WaitBegin, slotVars, Onward, Live, Present
      <3> QED
        BY <3>1, <3>2
    <2> QED
      BY <1>5, <2>1, TimerFrame DEF WaitBegin, TimerInv
  <1>6. ASSUME NEW p \in Polls, WaitNotified(p) \/ WaitGiveUp(p)
        PROVE  TimerInv'
    BY <1>6, TimerFrame DEF WaitNotified, WaitGiveUp, slotVars, Onward, Live, Present, TimerInv
  <1>7. ASSUME NEW p \in Polls, WaitReturn(p)
        PROVE  TimerInv'
    <2>1. poll[p].id \in Ids
      BY <1>7 DEF WaitReturn, TypeOK, PollState, NoPoll
    <2>2. CASE Due(poll[p].id)
      <3>1. Retire(poll[p].id, "expired") /\ Present(poll[p].id)
        BY <1>7, <2>2 DEF WaitReturn, Expire, Due, Live, Present, LiveStates, UnknownStates
      <3> QED
        BY <1>7, <2>1, <3>1, RetireOnward, TimerFrame DEF WaitReturn, TimerInv, TerminalStates
    <2>3. CASE ~Due(poll[p].id)
      BY <1>7, <2>3, TimerFrame DEF WaitReturn, slotVars, Onward, Live, Present, TimerInv
    <2> QED
      BY <2>2, <2>3
  <1>8. ASSUME NEW e \in timers, SweepRemove(e)
        PROVE  TimerInv'
    <2>1. e.id \in Ids
      BY DEF TypeOK, Timer
    <2>2. /\ timers' = timers \ {e}
          /\ drops'[e.id].state = "forgotten"
          /\ \A i \in Ids : i # e.id => drops'[i] = drops[i]
      BY <1>8, <2>1 DEF SweepRemove, TypeOK, NoDrop
    <2>3. EndScheduled'
      BY <2>1, <2>2 DEF TimerInv, EndScheduled, Entry, Live, Present, LiveStates, UnknownStates
    <2>4. TimersTrue'
      BY <2>1, <2>2 DEF TimerInv, TimersTrue, Present, UnknownStates, TypeOK, Timer
    <2> QED
      BY <1>8, <2>3, <2>4 DEF SweepRemove, TimerInv
  <1>9. ASSUME NEW e \in timers, SweepExpire(e) \/ SweepSkip(e)
        PROVE  TimerInv'
    <2>1. e.id \in Ids
      BY DEF TypeOK, Timer
    <2>2. /\ timers' = timers \ {e} /\ UNCHANGED <<clock, sweepNow>>
          /\ ~Live(e.id)'
          /\ \A i \in Ids : Onward(i)
          /\ e.remove => ~Present(e.id)
      <3>1. CASE SweepExpire(e)
        <4>1. Retire(e.id, "expired") /\ Present(e.id)
          BY <3>1 DEF SweepExpire, Expire, Live, Present, LiveStates, UnknownStates
        <4>2. ~Live(e.id)'
          BY <2>1, <4>1 DEF Retire, Tombstone, TypeOK, Drop, Live, LiveStates
        <4> QED
          BY <2>1, <3>1, <4>1, <4>2, RetireOnward DEF SweepExpire, TerminalStates
      <3>2. CASE SweepSkip(e)
        BY <3>2 DEF SweepSkip, slotVars, Onward, Live, Present, LiveStates, UnknownStates
      <3> QED
        BY <1>9, <3>1, <3>2
    <2>3. EndScheduled'
      BY <2>1, <2>2 DEF TimerInv, EndScheduled, Entry, Onward, Live, Present, LiveStates, UnknownStates
    <2>4. TimersTrue'
      BY <2>2 DEF TimerInv, TimersTrue, Onward, TypeOK, Timer
    <2> QED
      BY <2>2, <2>3, <2>4 DEF TimerInv
  <1>10. CASE SweepBegin \/ SweepEnd \/ Tick
    BY <1>10, TimerFrame
    DEF SweepBegin, SweepEnd, Tick, slotVars, Onward, Live, Present, TimerInv, NoSweep, TypeOK
  <1>11. CASE Close
    <2>1. \A i \in Ids : Onward(i)
      BY <1>11 DEF Close, NoDrop, Onward, Live, Present, LiveStates, UnknownStates
    <2> QED
      BY <1>11, <2>1, TimerFrame DEF Close, TimerInv
  <1>12. CASE UNCHANGED vars
    BY <1>12, TimerFrame DEF vars, Onward, Live, Present, TimerInv
  <1> QED
    BY <1>1, <1>2, <1>3, <1>4, <1>5, <1>6, <1>7, <1>8, <1>9, <1>10, <1>11, <1>12
    DEF Next, SlotCall, PollStep, SweepStep

\* Every slot has its end scheduled, at its own times, whatever calls and sweeps
\* interleave (the timers heap of memory.go).
THEOREM TimersCorrect == Spec => [](TypeOK /\ TimerInv)
  <1>1. Init => TimerInv
    BY DEF Init, TimerInv, EndScheduled, TimersTrue, NoDrop, NoSweep, Live, Present, LiveStates, UnknownStates
  <1> QED
    BY <1>1, TypeCorrect, TimerStep, PTL DEF Spec

\* Every slot's end is on the heap, at the slot's own times, as long as the
\* slot is known (Memory.Create pushes both entries, memory.go:76-77).
THEOREM EndIsScheduled == Spec => []EndScheduled
  <1>1. TypeOK /\ TimerInv => EndScheduled
    BY DEF TimerInv
  <1> QED
    BY <1>1, TimersCorrect, PTL

----------------------------------------------------------------------------
(* The steps as the slots see them.  Whichever method takes it, a step     *)
(* creates a slot, stores an upload, ends a live slot, deletes a tombstone,*)
(* closes the store or leaves the slots alone.                             *)

CreateStep ==
    \E id \in Ids, kind \in Kinds, n \in Sizes \cup {0}, ttl \in TTLs : Create(id, kind, n, ttl)

UploadStep(id, n) ==
    /\ drops[id].kind = "drop" /\ drops[id].state = "created" /\ ~Due(id) /\ Room(n)
    /\ drops' = [drops EXCEPT ![id].ct = n, ![id].state = "uploaded"]
    /\ bytes' = bytes + n
    /\ Notify(id)
    /\ UNCHANGED <<live, delivered, clock, waiters, poll>>

EndStep(id, final) ==
    /\ Live(id) /\ Retire(id, final) /\ UNCHANGED clock
    /\ \/ /\ final = "fetched" /\ ~Due(id) /\ drops[id].kind = "drop" /\ drops[id].state = "uploaded"
          /\ delivered' = [delivered EXCEPT ![id] = @ + 1]
       \/ /\ final = "opened" /\ ~Due(id) /\ drops[id].kind = "reveal"
          /\ delivered' = [delivered EXCEPT ![id] = @ + 1]
       \/ final = "revoked" /\ ~Due(id) /\ UNCHANGED delivered
       \/ final = "expired" /\ Due(id) /\ UNCHANGED delivered
    /\ UNCHANGED <<waiters, poll>> \/ \E p \in Polls : WaitReturn(p)

ForgetStep(e) == SweepRemove(e) /\ ~Live(e.id)

\* A step that leaves the slots alone moves a poll, or nothing a poll looks at.
QuietStep ==
    /\ UNCHANGED slotVars
    /\ UNCHANGED clock \/ Tick
    /\ \/ UNCHANGED <<waiters, poll, signal>>
       \/ \E p \in Polls :
             \/ \E id \in Ids, current \in LiveStates : WaitBegin(p, id, current) /\ ~Due(id)
             \/ WaitNotified(p) \/ WaitGiveUp(p) \/ WaitReturn(p)

\* What every step of the store comes to: a slot is created, uploaded, ended or
\* forgotten as a tombstone, the store is closed, or no slot changes.
LEMMA StepCases ==
    ASSUME TypeOK, TimerInv, [Next]_vars
    PROVE  \/ CreateStep
           \/ \E id \in Ids, n \in Sizes : UploadStep(id, n)
           \/ \E id \in Ids, final \in TerminalStates : EndStep(id, final)
           \/ \E e \in timers : ForgetStep(e)
           \/ Close
           \/ QuietStep
  <1>1. ASSUME NEW id \in Ids, Due(id), Expire(id), UNCHANGED <<clock, waiters, poll>>
        PROVE  \E i \in Ids, final \in TerminalStates : EndStep(i, final)
    <2>1. EndStep(id, "expired")
      BY <1>1 DEF EndStep, Expire, Due
    <2> QED
      BY <2>1 DEF TerminalStates
  <1>2. ASSUME NEW id \in Ids, NEW token \in Credentials, NEW commitment \in BOOLEAN, NEW n \in Sizes,
               Upload(id, token, commitment, n)
        PROVE  \/ \E i \in Ids, final \in TerminalStates : EndStep(i, final)
               \/ UploadStep(id, n)
    <2>1. CASE Due(id)
      BY <1>1, <1>2, <2>1 DEF Upload, Untouched
    <2>2. CASE ~Due(id)
      BY <1>2, <2>2 DEF Upload, UploadReply, Untouched, UploadStep
    <2> QED
      BY <2>1, <2>2
  <1>3. ASSUME NEW id \in Ids, NEW token \in Credentials,
               Fetch(id, token) \/ Open(id, token) \/ Revoke(id, token)
        PROVE  \E i \in Ids, final \in TerminalStates : EndStep(i, final)
    <2>1. CASE Due(id)
      BY <1>1, <1>3, <2>1 DEF Fetch, Open, Revoke, Untouched, FetchReply, OpenReply, RevokeReply
    <2>2. CASE ~Due(id)
      <3>1. Present(id) /\ UNCHANGED <<clock, waiters, poll>>
        BY <1>3 DEF Fetch, Open, Revoke, Untouched
      <3>2. ~Terminal(drops[id].state) => Live(id)
        BY <3>1 DEF Present, Live, Terminal, TypeOK, Drop
      <3>3. CASE Fetch(id, token)
        <4>1. EndStep(id, "fetched")
          BY <2>2, <3>1, <3>2, <3>3 DEF Fetch, FetchReply, EndStep
        <4> QED
          BY <4>1 DEF TerminalStates
      <3>4. CASE Open(id, token)
        <4>1. EndStep(id, "opened")
          BY <2>2, <3>1, <3>2, <3>4 DEF Open, OpenReply, EndStep
        <4> QED
          BY <4>1 DEF TerminalStates
      <3>5. CASE Revoke(id, token)
        <4>1. EndStep(id, "revoked")
          BY <2>2, <3>1, <3>2, <3>5 DEF Revoke, RevokeReply, EndStep
        <4> QED
          BY <4>1 DEF TerminalStates
      <3> QED
        BY <1>3, <3>3, <3>4, <3>5
    <2> QED
      BY <2>1, <2>2
  <1>4. ASSUME NEW id \in Ids, Status(id)
        PROVE  \E i \in Ids, final \in TerminalStates : EndStep(i, final)
    BY <1>1, <1>4 DEF Status, Untouched
  <1>5. ASSUME NEW p \in Polls, NEW id \in Ids, NEW current \in LiveStates, WaitBegin(p, id, current)
        PROVE  \/ \E i \in Ids, final \in TerminalStates : EndStep(i, final)
               \/ QuietStep
    <2>1. CASE Due(id)
      BY <1>1, <1>5, <2>1 DEF WaitBegin, pollVars
    <2>2. CASE ~Due(id)
      <3>1. UNCHANGED slotVars /\ UNCHANGED clock
        BY <1>5, <2>2 DEF WaitBegin
      <3> QED
        BY <1>5, <2>2, <3>1 DEF QuietStep
    <2> QED
      BY <2>1, <2>2
  <1>6. ASSUME NEW p \in Polls, WaitReturn(p)
        PROVE  \/ \E i \in Ids, final \in TerminalStates : EndStep(i, final)
               \/ QuietStep
    <2>1. CASE Due(poll[p].id)
      <3>1. poll[p].id \in Ids
        BY <1>6 DEF WaitReturn, TypeOK, PollState, NoPoll
      <3>2. EndStep(poll[p].id, "expired")
        BY <1>6, <2>1 DEF WaitReturn, EndStep, Expire, Due
      <3> QED
        BY <3>1, <3>2 DEF TerminalStates
    <2>2. CASE ~Due(poll[p].id)
      <3>1. UNCHANGED slotVars /\ UNCHANGED clock
        BY <1>6, <2>2 DEF WaitReturn
      <3> QED
        BY <1>6, <3>1 DEF QuietStep
    <2> QED
      BY <2>1, <2>2
  <1>7. ASSUME NEW e \in timers, SweepExpire(e)
        PROVE  \E i \in Ids, final \in TerminalStates : EndStep(i, final)
    <2>1. e.id \in Ids /\ e.at \in Nat
      BY DEF TypeOK, Timer
    <2>2. Present(e.id)
      BY <1>7 DEF SweepExpire, Live, Present, LiveStates, UnknownStates
    <2>3. e.at = drops[e.id].expires
      BY <1>7, <2>2 DEF SweepExpire, TimerInv, TimersTrue
    <2>4. Due(e.id)
      BY <1>7, <2>1, <2>3 DEF SweepExpire, Due, TimerInv, TypeOK, NoSweep
    <2> QED
      BY <1>1, <1>7, <2>1, <2>4 DEF SweepExpire
  <1>8. ASSUME NEW e \in timers, SweepRemove(e)
        PROVE  ForgetStep(e)
    BY <1>8, RemovesTombstone DEF ForgetStep
  <1>9. ASSUME NEW e \in timers, SweepSkip(e)
        PROVE  QuietStep
    BY <1>9 DEF SweepSkip, QuietStep, pollVars
  <1>10. ASSUME NEW p \in Polls, WaitNotified(p) \/ WaitGiveUp(p)
         PROVE  QuietStep
    <2>1. UNCHANGED slotVars /\ UNCHANGED clock
      BY <1>10 DEF WaitNotified, WaitGiveUp
    <2> QED
      BY <1>10, <2>1 DEF QuietStep
  <1>11. CASE SweepBegin \/ SweepEnd \/ Tick
    BY <1>11 DEF SweepBegin, SweepEnd, Tick, QuietStep, pollVars
  <1>12. CASE UNCHANGED vars
    BY <1>12 DEF vars, slotVars, QuietStep
  <1> QED
    BY <1>2, <1>3, <1>4, <1>5, <1>6, <1>7, <1>8, <1>9, <1>10, <1>11, <1>12
    DEF Next, SlotCall, PollStep, SweepStep, CreateStep

----------------------------------------------------------------------------
(* Read once, and nothing left behind.                                     *)

\* What the steps that end a slot do to it, and to no other.
LEMMA EndEffect ==
    ASSUME TypeOK, NEW id \in Ids, NEW final \in TerminalStates, Retire(id, final)
    PROVE  /\ drops'[id].state = final /\ drops'[id].ct = 0 /\ drops'[id].tokens = {}
           /\ drops'[id].commitment = FALSE
           /\ drops'[id].kind = drops[id].kind /\ drops'[id].expires = drops[id].expires
           /\ \A i \in Ids : i # id => drops'[i] = drops[i]
  BY DEF Retire, Tombstone, TypeOK, Drop

\* What Sweep's removal branch does: one tombstone goes, the counters stay.
LEMMA ForgetEffect ==
    ASSUME TypeOK, NEW e \in timers, ForgetStep(e)
    PROVE  /\ e.id \in Ids /\ drops'[e.id] = NoDrop("forgotten")
           /\ Present(e.id) /\ ~Live(e.id)
           /\ \A i \in Ids : i # e.id => drops'[i] = drops[i]
           /\ UNCHANGED <<live, bytes, delivered, clock, poll, signal>>
  BY DEF ForgetStep, SweepRemove, TypeOK, Timer

\* No step returns a ciphertext a second time.
LEMMA ReadOnceStep ==
    ASSUME TypeOK, TimerInv, ReadOnce, [Next]_vars
    PROVE  ReadOnce'
  <1> USE DEF ReadOnce, LiveStates
  <1>1. CASE CreateStep
    BY <1>1 DEF CreateStep, Create, TypeOK
  <1>2. ASSUME NEW id \in Ids, NEW n \in Sizes, UploadStep(id, n)
        PROVE  ReadOnce'
    BY <1>2 DEF UploadStep, TypeOK, Drop
  <1>3. ASSUME NEW id \in Ids, NEW final \in TerminalStates, EndStep(id, final)
        PROVE  ReadOnce'
    <2>1. delivered[id] = 0
      BY <1>3 DEF EndStep, Live
    <2>2. \/ final \in {"fetched", "opened"} /\ delivered' = [delivered EXCEPT ![id] = @ + 1]
          \/ UNCHANGED delivered
      BY <1>3 DEF EndStep
    <2>3. drops'[id].state = final /\ \A i \in Ids : i # id => drops'[i] = drops[i]
      BY <1>3, EndEffect DEF EndStep
    <2> QED
      BY <2>1, <2>2, <2>3 DEF TypeOK
  <1>4. ASSUME NEW e \in timers, ForgetStep(e)
        PROVE  ReadOnce'
    BY <1>4, ForgetEffect DEF NoDrop
  <1>5. CASE Close
    BY <1>5 DEF Close, NoDrop
  <1>6. CASE UNCHANGED slotVars
    BY <1>6 DEF slotVars
  <1> QED
    BY <1>1, <1>2, <1>3, <1>4, <1>5, <1>6, StepCases DEF QuietStep

\* A slot's ciphertext is returned at most once, and never from a slot that
\* was revoked or expired (Fetch and Open of memory.go), under any
\* interleaving of calls, polls and sweeps.
THEOREM ReadAtMostOnce == Spec => []ReadOnce
  <1>1. Init => ReadOnce
    BY DEF Init, ReadOnce
  <1> QED
    BY <1>1, TimersCorrect, ReadOnceStep, PTL DEF Spec

\* No step leaves ciphertext, tokens or a commitment in a slot that ended.
LEMMA NothingLeftBehindStep ==
    ASSUME TypeOK, TimerInv, NothingLeftBehind, [Next]_vars
    PROVE  NothingLeftBehind'
  <1> USE DEF NothingLeftBehind, Live, LiveStates
  <1>1. CASE CreateStep
    <2>1. PICK id \in Ids, kind \in Kinds, n \in Sizes \cup {0}, ttl \in TTLs : Create(id, kind, n, ttl)
      BY <1>1 DEF CreateStep
    <2>2. /\ drops'[id].kind = kind /\ drops'[id].state = "created" /\ drops'[id].ct = n
          /\ n > 0 <=> kind = "reveal"
          /\ \A i \in Ids : i # id => drops'[i] = drops[i]
      BY <2>1 DEF Create, TypeOK
    <2> QED
      BY <2>2
  <1>2. ASSUME NEW id \in Ids, NEW n \in Sizes, UploadStep(id, n)
        PROVE  NothingLeftBehind'
    <2>1. /\ drops'[id].state = "uploaded" /\ drops'[id].ct = n
          /\ \A i \in Ids : i # id => drops'[i] = drops[i]
      BY <1>2 DEF UploadStep, TypeOK, Drop
    <2> QED
      BY <2>1, SizesAssumption
  <1>3. ASSUME NEW id \in Ids, NEW final \in TerminalStates, EndStep(id, final)
        PROVE  NothingLeftBehind'
    <2>1. /\ drops'[id].state = final /\ drops'[id].ct = 0
          /\ drops'[id].tokens = {} /\ drops'[id].commitment = FALSE
          /\ \A i \in Ids : i # id => drops'[i] = drops[i]
      BY <1>3, EndEffect DEF EndStep
    <2> QED
      BY <2>1 DEF TerminalStates
  <1>4. ASSUME NEW e \in timers, ForgetStep(e)
        PROVE  NothingLeftBehind'
    BY <1>4, ForgetEffect DEF NoDrop
  <1>5. CASE Close
    BY <1>5 DEF Close, NoDrop
  <1>6. CASE UNCHANGED slotVars
    BY <1>6 DEF slotVars
  <1> QED
    BY <1>1, <1>2, <1>3, <1>4, <1>5, <1>6, StepCases DEF QuietStep

\* Ciphertext is held exactly while a reader may still come for it; every end
\* of a slot clears ciphertext, token hashes and commitment (Drop.tombstone).
THEOREM TombstonesAreEmpty == Spec => []NothingLeftBehind
  <1>1. Init => NothingLeftBehind
    BY DEF Init, NothingLeftBehind, NoDrop, Live, LiveStates
  <1> QED
    BY <1>1, TimersCorrect, NothingLeftBehindStep, PTL DEF Spec

----------------------------------------------------------------------------
(* The counters.                                                           *)

\* There are finitely many live slots.
LEMMA LiveIdsFinite == IsFiniteSet(LiveIds) /\ Cardinality(LiveIds) \in Nat
  <1>1. LiveIds \in SUBSET Ids
    BY DEF LiveIds
  <1> QED
    BY <1>1, IdsAssumption, FS_Subset, FS_CardinalityType

\* Memory.live follows the number of live slots through every step.
LEMMA LiveCountedStep ==
    ASSUME TypeOK, TimerInv, LiveCounted, [Next]_vars
    PROVE  LiveCounted'
  <1> USE LimitsAssumption
  <1> USE DEF LiveCounted
  <1>0. IsFiniteSet(LiveIds) /\ Cardinality(LiveIds) \in Nat
    BY LiveIdsFinite
  <1>1. CASE CreateStep
    <2>1. PICK id \in Ids, kind \in Kinds, n \in Sizes \cup {0}, ttl \in TTLs : Create(id, kind, n, ttl)
      BY <1>1 DEF CreateStep
    <2>2. LiveIds' = LiveIds \cup {id} /\ id \notin LiveIds
      BY <2>1 DEF Create, TypeOK, LiveIds, Live, LiveStates
    <2>3. Cardinality(LiveIds') = Cardinality(LiveIds) + 1
      BY <1>0, <2>2, FS_AddElement
    <2>4. live' = live + 1 /\ (MaxLive > 0 => live < MaxLive)
      BY <2>1 DEF Create
    <2> QED
      BY <1>0, <2>3, <2>4
  <1>2. ASSUME NEW id \in Ids, NEW n \in Sizes, UploadStep(id, n)
        PROVE  LiveCounted'
    <2>1. LiveIds' = LiveIds
      BY <1>2 DEF UploadStep, TypeOK, Drop, LiveIds, Live, LiveStates
    <2> QED
      BY <1>2, <2>1 DEF UploadStep
  <1>3. ASSUME NEW id \in Ids, NEW final \in TerminalStates, EndStep(id, final)
        PROVE  LiveCounted'
    <2>1. LiveIds' = LiveIds \ {id} /\ id \in LiveIds
      BY <1>3, EndEffect DEF EndStep, LiveIds, Live, LiveStates, TerminalStates
    <2>2. Cardinality(LiveIds') = Cardinality(LiveIds) - 1
      BY <1>0, <2>1, FS_RemoveElement
    <2>3. live' = live - 1
      BY <1>3 DEF EndStep, Retire
    <2> QED
      BY <1>0, <2>2, <2>3
  <1>4. ASSUME NEW e \in timers, ForgetStep(e)
        PROVE  LiveCounted'
    <2>1. LiveIds' = LiveIds
      BY <1>4, ForgetEffect DEF NoDrop, LiveIds, Live, LiveStates
    <2> QED
      BY <1>4, <2>1, ForgetEffect
  <1>5. CASE Close
    <2>1. LiveIds' = {}
      BY <1>5 DEF Close, NoDrop, LiveIds, Live, Present, LiveStates, UnknownStates, TypeOK, Drop
    <2> QED
      BY <1>5, <2>1, FS_EmptySet DEF Close
  <1>6. CASE UNCHANGED slotVars
    <2>1. LiveIds' = LiveIds
      BY <1>6 DEF slotVars, LiveIds, Live
    <2> QED
      BY <1>6, <2>1 DEF slotVars
  <1> QED
    BY <1>1, <1>2, <1>3, <1>4, <1>5, <1>6, StepCases DEF QuietStep

\* Memory.live counts the slots that are not tombstones and never exceeds
\* MaxLive, although Sweep's removal branch deletes slots without counting.
THEOREM LiveIsCounted == Spec => []LiveCounted
  <1>1. Init => LiveCounted
    <2>1. ASSUME Init PROVE LiveIds = {}
      BY <2>1 DEF Init, NoDrop, LiveIds, Live, LiveStates
    <2> QED
      BY <2>1, FS_EmptySet, LimitsAssumption DEF Init, LiveCounted
  <1> QED
    BY <1>1, TimersCorrect, LiveCountedStep, PTL DEF Spec

\* A ciphertext of n bytes contributes n elements.
LEMMA UnitsOf ==
    ASSUME NEW id, NEW n \in Nat
    PROVE  IsFiniteSet({id} \X (1 .. n)) /\ Cardinality({id} \X (1 .. n)) = n
  <1>1. IsFiniteSet({id}) /\ Cardinality({id}) = 1
    BY FS_Singleton
  <1>2. IsFiniteSet(1 .. n) /\ Cardinality(1 .. n) = n
    BY FS_Interval
  <1>3. /\ IsFiniteSet({id} \X (1 .. n))
        /\ Cardinality({id} \X (1 .. n)) = Cardinality({id}) * Cardinality(1 .. n)
    BY <1>1, <1>2, FS_Product, Zenon
  <1> QED
    BY <1>1, <1>2, <1>3

\* Joining a set that is disjoint adds the cardinalities.
LEMMA DisjointUnion ==
    ASSUME NEW S, NEW T, IsFiniteSet(S), IsFiniteSet(T), S \cap T = {}
    PROVE  IsFiniteSet(S \cup T) /\ Cardinality(S \cup T) = Cardinality(S) + Cardinality(T)
  <1>1. Cardinality(S \cap T) = 0
    BY FS_EmptySet
  <1>2. Cardinality(S) \in Nat /\ Cardinality(T) \in Nat
    BY FS_CardinalityType
  <1>3. /\ IsFiniteSet(S \cup T)
        /\ Cardinality(S \cup T) = Cardinality(S) + Cardinality(T) - Cardinality(S \cap T)
    BY FS_Union, Zenon
  <1> QED
    BY <1>1, <1>2, <1>3

\* A slot that held nothing comes to hold n bytes.
LEMMA HeldGrows ==
    ASSUME TypeOK, IsFiniteSet(HeldBytes), NEW id \in Ids, NEW n \in Nat,
           drops[id].ct = 0, drops'[id].ct = n,
           \A i \in Ids : i # id => drops'[i].ct = drops[i].ct
    PROVE  IsFiniteSet(HeldBytes') /\ Cardinality(HeldBytes') = Cardinality(HeldBytes) + n
  <1>1. HeldBytes' = HeldBytes \cup ({id} \X (1 .. n))
    BY DEF HeldBytes
  <1>2. HeldBytes \cap ({id} \X (1 .. n)) = {}
    BY DEF HeldBytes
  <1>3. IsFiniteSet({id} \X (1 .. n)) /\ Cardinality({id} \X (1 .. n)) = n
    BY UnitsOf
  <1>4. /\ IsFiniteSet(HeldBytes \cup ({id} \X (1 .. n)))
        /\ Cardinality(HeldBytes \cup ({id} \X (1 .. n)))
              = Cardinality(HeldBytes) + Cardinality({id} \X (1 .. n))
    BY <1>2, <1>3, DisjointUnion, Zenon
  <1> QED
    BY <1>1, <1>3, <1>4

\* A slot comes to hold nothing.
LEMMA HeldShrinks ==
    ASSUME TypeOK, IsFiniteSet(HeldBytes), NEW id \in Ids, drops'[id].ct = 0,
           \A i \in Ids : i # id => drops'[i].ct = drops[i].ct
    PROVE  IsFiniteSet(HeldBytes') /\ Cardinality(HeldBytes') = Cardinality(HeldBytes) - drops[id].ct
  <1> DEFINE gone == {id} \X (1 .. drops[id].ct)
  <1>0. drops[id].ct \in Nat
    BY DEF TypeOK, Drop
  <1>1. HeldBytes = HeldBytes' \cup gone
    BY <1>0 DEF HeldBytes
  <1>2. HeldBytes' \cap gone = {}
    BY DEF HeldBytes
  <1>3. IsFiniteSet(HeldBytes')
    BY <1>1, FS_Subset
  <1>4. IsFiniteSet(gone) /\ Cardinality(gone) = drops[id].ct
    BY <1>0, UnitsOf
  <1>5. Cardinality(HeldBytes) = Cardinality(HeldBytes') + drops[id].ct
    BY <1>1, <1>2, <1>3, <1>4, DisjointUnion
  <1>6. Cardinality(HeldBytes') \in Nat
    BY <1>3, FS_CardinalityType
  <1> QED
    BY <1>0, <1>3, <1>5, <1>6

BytesInv == BytesCounted /\ IsFiniteSet(HeldBytes)

\* Memory.bytes follows the ciphertext held through every step.
LEMMA BytesStep ==
    ASSUME TypeOK, TimerInv, NothingLeftBehind, BytesInv, [Next]_vars
    PROVE  BytesInv'
  <1> USE LimitsAssumption, SizesAssumption
  <1> USE DEF BytesInv, BytesCounted
  <1>0. Cardinality(HeldBytes) \in Nat
    BY FS_CardinalityType
  <1>1. CASE CreateStep
    <2>1. PICK id \in Ids, kind \in Kinds, n \in Sizes \cup {0}, ttl \in TTLs : Create(id, kind, n, ttl)
      BY <1>1 DEF CreateStep
    <2>2. /\ drops[id].ct = 0 /\ drops'[id].ct = n
          /\ \A i \in Ids : i # id => drops'[i].ct = drops[i].ct
      BY <2>1 DEF Create, TypeOK, Drop, NothingLeftBehind
    <2>3. bytes' = bytes + n /\ (MaxBytes > 0 => bytes + n <= MaxBytes)
      BY <2>1 DEF Create, Room
    <2>4. n \in Nat
      OBVIOUS
    <2>5. IsFiniteSet(HeldBytes') /\ Cardinality(HeldBytes') = Cardinality(HeldBytes) + n
      BY <2>2, <2>4, HeldGrows
    <2> QED
      BY <2>3, <2>5
  <1>2. ASSUME NEW id \in Ids, NEW n \in Sizes, UploadStep(id, n)
        PROVE  BytesInv'
    <2>2. /\ drops[id].ct = 0 /\ drops'[id].ct = n
          /\ \A i \in Ids : i # id => drops'[i].ct = drops[i].ct
      BY <1>2 DEF UploadStep, TypeOK, Drop, NothingLeftBehind
    <2>3. bytes' = bytes + n /\ (MaxBytes > 0 => bytes + n <= MaxBytes)
      BY <1>2 DEF UploadStep, Room
    <2>4. IsFiniteSet(HeldBytes') /\ Cardinality(HeldBytes') = Cardinality(HeldBytes) + n
      BY <2>2, HeldGrows
    <2> QED
      BY <2>3, <2>4
  <1>3. ASSUME NEW id \in Ids, NEW final \in TerminalStates, EndStep(id, final)
        PROVE  BytesInv'
    <2>1. drops'[id].ct = 0 /\ \A i \in Ids : i # id => drops'[i].ct = drops[i].ct
      BY <1>3, EndEffect DEF EndStep
    <2>2. bytes' = bytes - drops[id].ct
      BY <1>3 DEF EndStep, Retire
    <2>3. IsFiniteSet(HeldBytes') /\ Cardinality(HeldBytes') = Cardinality(HeldBytes) - drops[id].ct
      BY <2>1, HeldShrinks
    <2>4. drops[id].ct \in Nat
      BY DEF TypeOK, Drop
    <2> QED
      BY <1>0, <2>2, <2>3, <2>4
  <1>4. ASSUME NEW e \in timers, ForgetStep(e)
        PROVE  BytesInv'
    <2>1. /\ e.id \in Ids /\ ~Live(e.id) /\ drops'[e.id] = NoDrop("forgotten")
          /\ \A i \in Ids : i # e.id => drops'[i] = drops[i]
          /\ bytes' = bytes
      BY <1>4, ForgetEffect
    <2>2. drops[e.id].ct = 0
      BY <2>1 DEF NothingLeftBehind, Live, LiveStates, TypeOK, Drop
    <2>3. \A i \in Ids : drops'[i].ct = drops[i].ct
      BY <2>1, <2>2 DEF NoDrop
    <2>4. HeldBytes' = HeldBytes
      BY <2>3 DEF HeldBytes
    <2> QED
      BY <2>1, <2>4
  <1>5. CASE Close
    <2>1. \A i \in Ids : drops'[i].ct = 0
      BY <1>5 DEF Close, NoDrop, NothingLeftBehind, Present, UnknownStates, TypeOK, Drop
    <2>2. HeldBytes' = {}
      BY <2>1 DEF HeldBytes
    <2> QED
      BY <1>5, <2>2, FS_EmptySet DEF Close
  <1>6. CASE UNCHANGED slotVars
    <2>1. HeldBytes' = HeldBytes
      BY <1>6 DEF slotVars, HeldBytes
    <2> QED
      BY <1>6, <2>1 DEF slotVars
  <1> QED
    BY <1>1, <1>2, <1>3, <1>4, <1>5, <1>6, StepCases DEF QuietStep

\* Memory.bytes is exactly the ciphertext held over all slots and never
\* exceeds MaxBytes.
THEOREM BytesAreCounted == Spec => []BytesCounted
  <1>1. Init => BytesInv
    <2>1. ASSUME Init PROVE HeldBytes = {}
      BY <2>1 DEF Init, NoDrop, HeldBytes
    <2> QED
      BY <2>1, FS_EmptySet, LimitsAssumption DEF Init, BytesCounted, BytesInv
  <1>2. BytesInv => BytesCounted
    BY DEF BytesInv
  <1> QED
    BY <1>1, <1>2, TimersCorrect, TombstonesAreEmpty, BytesStep, PTL DEF Spec

----------------------------------------------------------------------------
(* Long polls.  To show that no wakeup is lost, the invariant also says    *)
(* that an element in a channel is news, and that a poll's slot can only   *)
(* be further along than the state the poll waits out.                     *)

PollOK(p) ==
    LET w == poll[p] IN
    /\ \A i \in Ids : p \in waiters[i] => w.pc # "idle" /\ w.id = i
    /\ signal[p] => w.pc = "blocked"
    /\ w.pc # "idle" => /\ drops[w.id].state # "fresh"
                        /\ w.current = "uploaded" => drops[w.id].state # "created"
    /\ signal[p] \/ w.pc = "notified" => drops[w.id].state # w.current
    /\ /\ w.pc = "blocked"
       /\ p \notin waiters[w.id] \/ (Present(w.id) /\ drops[w.id].state # w.current)
       => signal[p]

PollInv == \A p \in Polls : PollOK(p)

\* What a poll beyond its idle state looks like.
LEMMA PollShape ==
    ASSUME TypeOK, NEW p \in Polls, poll[p].pc # "idle"
    PROVE  poll[p].id \in Ids /\ poll[p].current \in LiveStates
  BY DEF TypeOK, PollState, NoPoll

\* A poll is not disturbed by a step that leaves it, its channel, its
\* registration and its slot alone.
LEMMA PollFrame ==
    ASSUME TypeOK, NEW p \in Polls, PollOK(p), poll'[p] = poll[p], signal'[p] = signal[p],
           poll[p].pc # "idle" => drops'[poll[p].id].state = drops[poll[p].id].state,
           \A i \in Ids : p \in waiters'[i] <=> p \in waiters[i]
    PROVE  PollOK(p)'
  BY PollShape DEF PollOK, Present

\* A poll whose slot ends, or is uploaded, under its eyes is notified.
LEMMA PollNotified ==
    ASSUME TypeOK, NEW p \in Polls, PollOK(p), NEW id \in Ids, Live(id), Notify(id),
           drops'[id].state \in TerminalStates \/ (drops[id].state = "created" /\ drops'[id].state = "uploaded"),
           \A i \in Ids : i # id => drops'[i] = drops[i],
           poll'[p] = poll[p],
           \A i \in Ids : p \in waiters'[i] <=> p \in waiters[i]
    PROVE  PollOK(p)'
  <1>1. CASE poll[p].pc = "idle"
    <2>1. ~signal[p] /\ ~signal'[p]
      BY <1>1 DEF PollOK, Notify
    <2> QED
      BY <1>1, <2>1 DEF PollOK
  <1>2. CASE poll[p].pc # "idle" /\ poll[p].id # id
    <2>1. poll[p].id \in Ids /\ drops'[poll[p].id] = drops[poll[p].id]
      BY <1>2, PollShape
    <2>2. signal'[p] = signal[p]
      BY <1>2 DEF PollOK, Notify, TypeOK
    <2> QED
      BY <2>1, <2>2, PollFrame
  <1>3. CASE poll[p].pc # "idle" /\ poll[p].id = id
    <2>1. poll[p].current \in LiveStates
      BY <1>3, PollShape
    <2>2. drops'[id].state # poll[p].current
      BY <1>3, <2>1 DEF PollOK, Live, LiveStates, TerminalStates
    <2>3. poll[p].pc = "blocked" => signal'[p]
      BY <1>3 DEF PollOK, Notify
    <2>4. signal'[p] => poll[p].pc = "blocked"
      BY <1>3 DEF PollOK, Notify
    <2>5. drops'[id].state \notin {"fresh", "created"}
      BY DEF TerminalStates
    <2> QED
      BY <1>3, <2>2, <2>3, <2>4, <2>5 DEF PollOK
  <1> QED
    BY <1>1, <1>2, <1>3

\* No step puts a poll to sleep, or leaves it asleep, on a slot that moved on.
LEMMA PollStepOK ==
    ASSUME TypeOK, TimerInv, PollInv, [Next]_vars
    PROVE  PollInv'
  <1> SUFFICES ASSUME NEW p \in Polls PROVE PollOK(p)'
    BY DEF PollInv
  <1>0. PollOK(p)
    BY DEF PollInv
  <1>1. ASSUME NEW id \in Ids, NEW kind \in Kinds, NEW n \in Sizes \cup {0}, NEW ttl \in TTLs,
               Create(id, kind, n, ttl)
        PROVE  PollOK(p)'
    <2>1. poll[p].pc # "idle" => poll[p].id # id /\ poll[p].id \in Ids
      BY <1>0, <1>1, PollShape DEF Create, PollOK
    <2>2. \A i \in Ids : i # id => drops'[i] = drops[i]
      BY <1>1 DEF Create, TypeOK
    <2>3. UNCHANGED <<poll, signal, waiters>>
      BY <1>1 DEF Create
    <2> QED
      BY <1>0, <2>1, <2>2, <2>3, PollFrame
  <1>2. ASSUME NEW id \in Ids, NEW final \in TerminalStates, Live(id), Retire(id, final),
               UNCHANGED <<waiters, poll>>
        PROVE  PollOK(p)'
    <2>1. drops'[id].state = final /\ \A i \in Ids : i # id => drops'[i] = drops[i]
      BY <1>2, EndEffect
    <2>2. Notify(id)
      BY <1>2 DEF Retire
    <2> QED
      BY <1>0, <1>2, <2>1, <2>2, PollNotified
  <1>3. ASSUME NEW id \in Ids, NEW n \in Sizes, UploadStep(id, n)
        PROVE  PollOK(p)'
    <2>1. /\ drops[id].state = "created" /\ drops'[id].state = "uploaded"
          /\ \A i \in Ids : i # id => drops'[i] = drops[i]
      BY <1>3 DEF UploadStep, TypeOK, Drop
    <2>2. Live(id) /\ Notify(id) /\ UNCHANGED <<waiters, poll>>
      BY <1>3, <2>1 DEF UploadStep, Live, LiveStates
    <2> QED
      BY <1>0, <2>1, <2>2, PollNotified
  <1>4. ASSUME NEW q \in Polls, NEW id \in Ids, NEW current \in LiveStates, WaitBegin(q, id, current), ~Due(id)
        PROVE  PollOK(p)'
    <2>1. /\ drops[id].state = current /\ UNCHANGED <<drops, signal>> /\ poll[q].pc = "idle"
          /\ poll'[q] = [pc |-> "blocked", id |-> id, current |-> current]
          /\ waiters' = [waiters EXCEPT ![id] = @ \cup {q}]
          /\ p # q => poll'[p] = poll[p]
      BY <1>4 DEF WaitBegin, slotVars, TypeOK
    <2>2. \A i \in Ids : waiters'[i] = IF i = id THEN waiters[id] \cup {q} ELSE waiters[i]
      BY <2>1 DEF TypeOK
    <2>3. CASE p # q
      BY <1>0, <2>1, <2>2, <2>3, PollFrame
    <2>4. CASE p = q
      BY <1>0, <2>1, <2>2, <2>4 DEF PollOK, LiveStates
    <2> QED
      BY <2>3, <2>4
  <1>5. ASSUME NEW q \in Polls, WaitNotified(q) \/ WaitGiveUp(q)
        PROVE  PollOK(p)'
    <2>1. /\ UNCHANGED <<drops, waiters>> /\ signal'[q] = FALSE
          /\ \/ poll'[q] = [poll[q] EXCEPT !.pc = "notified"] /\ signal[q]
             \/ poll'[q] = [poll[q] EXCEPT !.pc = "gave_up"]
          /\ p # q => poll'[p] = poll[p] /\ signal'[p] = signal[p]
          /\ poll[q].pc = "blocked"
      BY <1>5 DEF WaitNotified, WaitGiveUp, slotVars, TypeOK
    <2>2. CASE p # q
      BY <1>0, <2>1, <2>2, PollFrame
    <2>3. CASE p = q
      <3>1. poll[q] \in [pc : {"blocked", "notified", "gave_up"}, id : Ids, current : LiveStates]
        BY <2>1 DEF TypeOK, PollState, NoPoll
      <3> QED
        BY <1>0, <2>1, <2>3, <3>1 DEF PollOK
    <2> QED
      BY <2>2, <2>3
  <1>6. ASSUME NEW q \in Polls, WaitReturn(q)
        PROVE  PollOK(p)'
    <2>1. poll[q].id \in Ids
      BY <1>6, PollShape DEF WaitReturn
    <2>2. /\ poll'[q] = NoPoll /\ (p # q => poll'[p] = poll[p])
          /\ \A i \in Ids : waiters'[i] = IF i = poll[q].id THEN waiters[i] \ {q} ELSE waiters[i]
      BY <1>6, <2>1 DEF WaitReturn, TypeOK
    <2>3. CASE p = q
      <3>1. \A i \in Ids : p \notin waiters'[i]
        BY <1>0, <2>2, <2>3 DEF PollOK
      <3>2. ~signal'[p]
        BY <1>0, <1>6, <2>3 DEF WaitReturn, PollOK, Expire, Retire, Notify
      <3> QED
        BY <2>2, <2>3, <3>1, <3>2 DEF PollOK, NoPoll
    <2>4. CASE p # q /\ Due(poll[q].id)
      <3>1. Live(poll[q].id) /\ Retire(poll[q].id, "expired")
        BY <1>6, <2>4 DEF WaitReturn, Expire, Due
      <3>2. drops'[poll[q].id].state = "expired" /\ \A i \in Ids : i # poll[q].id => drops'[i] = drops[i]
        BY <2>1, <3>1, EndEffect DEF TerminalStates
      <3>3. Notify(poll[q].id)
        BY <3>1 DEF Retire
      <3>4. "expired" \in TerminalStates
        BY DEF TerminalStates
      <3> QED
        BY <1>0, <2>1, <2>2, <2>4, <3>1, <3>2, <3>3, <3>4, PollNotified
    <2>5. CASE p # q /\ ~Due(poll[q].id)
      <3>1. UNCHANGED <<drops, signal>>
        BY <1>6, <2>5 DEF WaitReturn, slotVars
      <3> QED
        BY <1>0, <2>2, <2>5, <3>1, PollFrame
    <2> QED
      BY <2>3, <2>4, <2>5
  <1>7. ASSUME NEW e \in timers, ForgetStep(e)
        PROVE  PollOK(p)'
    <2>1. /\ e.id \in Ids /\ drops'[e.id].state = "forgotten" /\ Present(e.id) /\ ~Live(e.id)
          /\ \A i \in Ids : i # e.id => drops'[i] = drops[i]
          /\ UNCHANGED <<poll, signal>>
      BY <1>7, ForgetEffect DEF NoDrop
    <2>2. waiters' = [waiters EXCEPT ![e.id] = {}]
      BY <1>7 DEF ForgetStep, SweepRemove
    <2>3. \A i \in Ids : waiters'[i] = IF i = e.id THEN {} ELSE waiters[i]
      BY <2>1, <2>2 DEF TypeOK
    <2>4. CASE poll[p].pc = "idle"
      BY <1>0, <2>1, <2>3, <2>4 DEF PollOK
    <2>5. CASE poll[p].pc # "idle" /\ poll[p].id # e.id
      <3>1. poll[p].id \in Ids
        BY <2>5, PollShape
      <3>2. \A i \in Ids : p \in waiters'[i] <=> p \in waiters[i]
        BY <1>0, <2>3, <2>5 DEF PollOK
      <3> QED
        BY <1>0, <2>1, <2>5, <3>1, <3>2, PollFrame
    <2>6. CASE poll[p].pc # "idle" /\ poll[p].id = e.id
      <3>1. poll[p].current \in LiveStates
        BY <2>6, PollShape
      <3>2. drops[e.id].state # poll[p].current
        BY <2>1, <3>1 DEF Live
      <3>3. poll[p].pc = "blocked" => signal[p]
        BY <1>0, <2>1, <2>6, <3>2 DEF PollOK
      <3> QED
        BY <1>0, <2>1, <2>3, <2>6, <3>1, <3>3 DEF PollOK, LiveStates
    <2> QED
      BY <2>4, <2>5, <2>6
  <1>8. CASE Close
    <2>1. UNCHANGED <<poll, signal, waiters>>
      BY <1>8 DEF Close
    <2>2. CASE poll[p].pc = "idle"
      BY <1>0, <2>1, <2>2, PollFrame
    <2>3. CASE poll[p].pc # "idle"
      <3>1. poll[p].id \in Ids /\ poll[p].current \in LiveStates
        BY <2>3, PollShape
      <3>2. drops'[poll[p].id].state \in UnknownStates \ {"fresh"}
        BY <1>0, <1>8, <2>3, <3>1 DEF Close, PollOK, NoDrop, Present, UnknownStates
      <3> QED
        BY <1>0, <2>1, <2>3, <3>1, <3>2 DEF PollOK, Present, LiveStates, UnknownStates
    <2> QED
      BY <2>2, <2>3
  <1>9. ASSUME UNCHANGED <<drops, poll, signal, waiters>>
        PROVE  PollOK(p)'
    BY <1>0, <1>9, PollFrame
  <1>10. ASSUME QuietStep
         PROVE  PollOK(p)'
    BY <1>4, <1>5, <1>6, <1>9, <1>10 DEF QuietStep, slotVars
  <1>11. ASSUME NEW id \in Ids, NEW final \in TerminalStates, EndStep(id, final)
         PROVE  PollOK(p)'
    BY <1>2, <1>6, <1>11 DEF EndStep
  <1> QED
    BY <1>1, <1>3, <1>7, <1>8, <1>10, <1>11, StepCases DEF CreateStep

\* A poll sleeping on a slot that moved on, or that was deleted, has been
\* notified (Wait, notify and Sweep of memory.go): no wakeup is lost.
THEOREM NoWakeupIsLost == Spec => [](NoLostWakeup /\ WokenWithNews)
  <1>1. Init => PollInv
    BY DEF Init, PollInv, PollOK, NoPoll
  <1>2. PollInv => NoLostWakeup /\ WokenWithNews
    BY DEF PollInv, PollOK, NoLostWakeup, WokenWithNews
  <1> QED
    BY <1>1, <1>2, TimersCorrect, PollStepOK, PTL DEF Spec

\* A poll is only woken by a change of the slot it waits for, and so finds the
\* slot in another state than the one it saw (Memory.notify).
THEOREM WakeupsBringNews == Spec => []WokenWithNews
  <1>1. NoLostWakeup /\ WokenWithNews => WokenWithNews
    OBVIOUS
  <1> QED
    BY <1>1, NoWakeupIsLost, PTL

----------------------------------------------------------------------------
(* The store implements the slot contract.                                 *)

\* What the contract sees of the slots.
Seen == [id \in Ids |-> [kind |-> drops[id].kind, state |-> drops[id].state,
                         held |-> drops[id].ct, expires |-> drops[id].expires]]

\* Every step of the store is a step of the contract, or changes nothing the
\* contract sees.
LEMMA StepRefines ==
    ASSUME TypeOK, TimerInv, [Next]_vars
    PROVE  [Contract!Next]_(Contract!vars)
  <1> USE DEF Contract!vars
  <1>1. CASE CreateStep
    <2>1. PICK id \in Ids, kind \in Kinds, n \in Sizes \cup {0}, ttl \in TTLs : Create(id, kind, n, ttl)
      BY <1>1 DEF CreateStep
    <2>2. Contract!Create(id, kind, n, ttl)
      BY <2>1 DEF Create, Contract!Create, TypeOK
    <2> QED
      BY <2>2 DEF Contract!Next, Kinds, Contract!Kinds
  <1>2. ASSUME NEW id \in Ids, NEW n \in Sizes, UploadStep(id, n)
        PROVE  Contract!Next
    <2>2. Contract!Upload(id, n)
      BY <1>2 DEF UploadStep, Contract!Upload, Contract!Due, Due, Live, LiveStates, TypeOK, Drop
    <2> QED
      BY <2>2 DEF Contract!Next
  <1>3. ASSUME NEW id \in Ids, NEW final \in TerminalStates, EndStep(id, final)
        PROVE  Contract!Next
    <2>1. /\ drops'[id].state = final /\ drops'[id].ct = 0
          /\ drops'[id].kind = drops[id].kind /\ drops'[id].expires = drops[id].expires
          /\ \A i \in Ids : i # id => drops'[i] = drops[i]
      BY <1>3, EndEffect DEF EndStep
    <2>2. Seen' = [Seen EXCEPT ![id].state = final, ![id].held = 0]
      BY <2>1 DEF Seen
    <2>3. Live(id) /\ Seen[id].state = drops[id].state /\ Seen[id].kind = drops[id].kind
          /\ Seen[id].expires = drops[id].expires /\ UNCHANGED clock
      BY <1>3 DEF EndStep, Seen
    <2>4. CASE final \in {"fetched", "opened"}
      <3>1. Contract!Take(id, final)
        BY <1>3, <2>2, <2>3, <2>4
        DEF EndStep, Seen, Contract!Take, Contract!Due, Contract!Live, Contract!LiveStates, Due, Live, LiveStates
      <3> QED
        BY <2>4, <3>1 DEF Contract!Next
    <2>5. CASE final = "revoked"
      <3>1. Contract!Revoke(id)
        BY <1>3, <2>2, <2>3, <2>5
        DEF EndStep, Seen, Contract!Revoke, Contract!Due, Contract!Live, Contract!LiveStates, Due, Live, LiveStates
      <3> QED
        BY <3>1 DEF Contract!Next
    <2>6. CASE final = "expired"
      <3>1. Contract!Expire(id)
        BY <1>3, <2>2, <2>3, <2>6
        DEF EndStep, Seen, Contract!Expire, Contract!Due, Contract!Live, Contract!LiveStates, Due, Live, LiveStates
      <3> QED
        BY <3>1 DEF Contract!Next
    <2> QED
      BY <2>4, <2>5, <2>6 DEF TerminalStates
  <1>4. ASSUME NEW e \in timers, ForgetStep(e)
        PROVE  Contract!Next
    <2>1. /\ e.id \in Ids /\ drops'[e.id] = NoDrop("forgotten") /\ Present(e.id) /\ ~Live(e.id)
          /\ \A i \in Ids : i # e.id => drops'[i] = drops[i]
          /\ UNCHANGED <<delivered, clock>>
      BY <1>4, ForgetEffect
    <2>2. drops[e.id].state \in TerminalStates /\ drops[e.id].expires \in Nat
      BY <2>1 DEF Present, Live, TypeOK, Drop
    <2>3. clock >= drops[e.id].expires + Grace
      <3>1. e.at = drops[e.id].expires + Grace
        BY <1>4 DEF ForgetStep, SweepRemove, TimerInv, TimersTrue
      <3>2. e.at <= sweepNow /\ sweepNow <= clock
        BY <1>4 DEF ForgetStep, SweepRemove, TimerInv
      <3> QED
        BY <2>2, <3>1, <3>2, TimesAssumption DEF TypeOK, NoSweep
    <2>4. Contract!Forget(e.id)
      <3>1. Seen' = [Seen EXCEPT ![e.id] = Contract!Unknown("forgotten")]
        <4>1. /\ drops'[e.id].kind = "drop" /\ drops'[e.id].state = "forgotten"
              /\ drops'[e.id].ct = 0 /\ drops'[e.id].expires = 0
          BY <2>1 DEF NoDrop
        <4>2. \A i \in Ids : Seen'[i] = IF i = e.id THEN Contract!Unknown("forgotten") ELSE Seen[i]
          BY <2>1, <4>1 DEF Seen, Contract!Unknown
        <4> QED
          BY <4>2 DEF Seen
      <3>2. Seen[e.id].state = drops[e.id].state /\ Seen[e.id].expires = drops[e.id].expires
        BY <2>1 DEF Seen
      <3>3. Seen[e.id].state \in Contract!TerminalStates
        BY <2>2, <3>2 DEF TerminalStates, Contract!TerminalStates
      <3> QED
        BY <2>1, <2>3, <3>1, <3>2, <3>3 DEF Seen, Contract!Forget
    <2> QED
      BY <2>1, <2>4 DEF Contract!Next
  <1>5. CASE Close
    <2>1. Contract!Close
      BY <1>5 DEF Close, Contract!Close, Contract!UnknownStates, Contract!Unknown,
                  NoDrop, Present, UnknownStates
    <2> QED
      BY <2>1 DEF Contract!Next
  <1>6. CASE QuietStep
    BY <1>6 DEF QuietStep, slotVars, Tick, Contract!Next, Contract!Advance
  <1> QED
    BY <1>1, <1>2, <1>3, <1>4, <1>5, <1>6, StepCases

\* The memory store implements store.go's contract: one-way slot states,
\* ciphertext handed out once and only before expiry, and nothing forgotten
\* but tombstones whose grace is over.
THEOREM ImplementsContract == Spec => SlotContract
  <1>1. Init => Contract!Init
    BY DEF Init, NoDrop, Contract!Init, Contract!Unknown
  <1>2. TypeOK /\ TimerInv /\ [Next]_vars => [Contract!Next]_(Contract!vars)
    BY StepRefines
  <1> QED
    BY <1>1, <1>2, TimersCorrect, PTL DEF Spec, SlotContract, Contract!Spec
=============================================================================
