-------------------------- MODULE RelayRedis_proofs --------------------------
(***************************************************************************)
(* Proofs about the Redis slot store, for any identifiers, replicas, clock *)
(* offsets, sizes, lifetimes, grace period, limits, batch size and clock   *)
(* bound.                                                                  *)
(***************************************************************************)
EXTENDS RelayRedis, FiniteSetTheorems, TLAPS

----------------------------------------------------------------------------
(* Types.                                                                  *)

SlotRecord == [kind : Kinds, state : LiveStates \cup TerminalStates \cup UnknownStates,
               ct : Nat, tokens : SUBSET Tokens, commitment : BOOLEAN, expires : Nat]

Tombstone(d, final) == [d EXCEPT !.ct = 0, !.tokens = {}, !.commitment = FALSE, !.state = final]

\* What release and tombstone do to a slot, and to no other.
LEMMA EndEffect ==
    ASSUME TypeOK, NEW id \in Ids, NEW final \in TerminalStates, Retire(id, final)
    PROVE  /\ slot' \in [Ids -> SlotRecord]
           /\ slot'[id].state = final /\ slot'[id].ct = 0
           /\ slot'[id].kind = slot[id].kind /\ slot'[id].expires = slot[id].expires
           /\ \A i \in Ids : i # id => slot'[i] = slot[i]
           /\ live' = live - 1 /\ bytes' = bytes - slot[id].ct
           /\ live' \in Int /\ bytes' \in Int
           /\ expiry' = [expiry EXCEPT ![id] = Never]
           /\ expiry' \in [Ids -> Nat \cup {Never}]
  <1>1. slot \in [Ids -> SlotRecord]
    BY DEF TypeOK, SlotRecord
  <1>2. /\ Tombstone(slot[id], final) \in SlotRecord
        /\ Tombstone(slot[id], final).state = final /\ Tombstone(slot[id], final).ct = 0
        /\ Tombstone(slot[id], final).kind = slot[id].kind
        /\ Tombstone(slot[id], final).expires = slot[id].expires
    BY <1>1 DEF SlotRecord, Tombstone
  <1>3. slot' = [slot EXCEPT ![id] = Tombstone(slot[id], final)]
    BY <1>1 DEF Retire, Tombstone
  <1>4. slot[id].ct \in Nat
    BY <1>1 DEF SlotRecord
  <1>5. slot' \in [Ids -> SlotRecord]
    BY <1>1, <1>2, <1>3
  <1>6. slot'[id] = Tombstone(slot[id], final) /\ \A i \in Ids : i # id => slot'[i] = slot[i]
    BY <1>1, <1>3
  <1>7. /\ live' = live - 1 /\ bytes' = bytes - slot[id].ct
        /\ live' \in Int /\ bytes' \in Int
        /\ expiry' = [expiry EXCEPT ![id] = Never]
    BY <1>4 DEF Retire, TypeOK
  <1>8. expiry' \in [Ids -> Nat \cup {Never}]
    BY <1>7 DEF TypeOK
  <1> QED
    BY <1>2, <1>5, <1>6, <1>7, <1>8

\* What deleting a slot's key does.
LEMMA ForgetEffect ==
    ASSUME TypeOK, NEW id \in Ids,
           slot' = [slot EXCEPT ![id] = NoSlot("forgotten")],
           goneAt' = [goneAt EXCEPT ![id] = Never]
    PROVE  /\ slot' \in [Ids -> SlotRecord]
           /\ slot'[id] = NoSlot("forgotten")
           /\ slot'[id].state = "forgotten" /\ slot'[id].ct = 0
           /\ \A i \in Ids : i # id => slot'[i] = slot[i]
           /\ goneAt' \in [Ids -> Nat \cup {Never}]
           /\ goneAt'[id] = Never
           /\ \A i \in Ids : i # id => goneAt'[i] = goneAt[i]
  <1>1. NoSlot("forgotten") \in SlotRecord
    BY DEF NoSlot, SlotRecord, UnknownStates, Kinds
  <1> QED
    BY <1>1 DEF TypeOK, SlotRecord, NoSlot

\* The clock a replica sends is a time.
LEMMA NowType ==
    ASSUME TypeOK, NEW r \in Replicas
    PROVE  Now(r) \in Nat /\ Offset[r] \in Nat
  BY TimesAssumption DEF TypeOK, Now

\* Where a sweep goes after a set is a state of a sweep.
LEMMA NextSetType ==
    ASSUME NEW s \in SweepState, s.pc # "idle"
    PROVE  NextSet(s) \in SweepState /\ s.at \in Nat /\ s.last \in SUBSET Ids
           /\ s.set \in {"expiry", "removal"} /\ s.pc \in {"list", "run"}
  BY DEF SweepState, NextSet, Listing, Idle

\* A sweep that runs its scripts has a batch of identifiers.
LEMMA RunType ==
    ASSUME NEW s \in SweepState, s.pc = "run"
    PROVE  s \in [pc : {"run"}, set : {"expiry", "removal"}, at : Nat, last : SUBSET Ids,
                  ids : SUBSET Ids, full : BOOLEAN]
  BY DEF SweepState, Idle

\* What a step of a sweep leaves in its record.
LEMMA SweepType ==
    ASSUME TypeOK, NEW r \in Replicas,
           \/ SweepBegin(r) \/ SweepList(r) \/ SweepError(r) \/ Crash(r)
           \/ \E id \in Ids : SweepRun(r, id)
    PROVE  sweep' \in [Replicas -> SweepState]
  <1>0. sweep[r] \in SweepState
    BY DEF TypeOK
  <1>1. CASE SweepBegin(r)
    <2>1. Listing("expiry", Now(r), {}) \in SweepState
      BY NowType DEF Listing, SweepState
    <2> QED
      BY <1>1, <2>1 DEF SweepBegin, TypeOK
  <1>2. CASE SweepList(r)
    <2>1. PICK ids \in SUBSET Ids, first \in SUBSET Ids :
             sweep' = [sweep EXCEPT ![r] =
                IF ids = {} \/ first = sweep[r].last
                THEN NextSet(sweep[r])
                ELSE [pc |-> "run", set |-> sweep[r].set, at |-> sweep[r].at, last |-> first, ids |-> ids,
                      full |-> Cardinality(ids) = Batch]]
      BY <1>2 DEF SweepList
    <2>2. sweep[r].pc # "idle"
      BY <1>2 DEF SweepList
    <2>3. NextSet(sweep[r]) \in SweepState /\ sweep[r].at \in Nat /\ sweep[r].set \in {"expiry", "removal"}
      BY <1>0, <2>2, NextSetType
    <2>4. (Cardinality(ids) = Batch) \in BOOLEAN
      OBVIOUS
    <2>5. [pc |-> "run", set |-> sweep[r].set, at |-> sweep[r].at, last |-> first, ids |-> ids,
                      full |-> Cardinality(ids) = Batch] \in SweepState
      BY <2>3, <2>4 DEF SweepState
    <2> QED
      BY <2>1, <2>3, <2>5 DEF TypeOK
  <1>3. ASSUME NEW id \in Ids, SweepRun(r, id)
        PROVE  sweep' \in [Replicas -> SweepState]
    <2>1. sweep[r].pc = "run"
      BY <1>3 DEF SweepRun
    <2>2. sweep[r] \in [pc : {"run"}, set : {"expiry", "removal"}, at : Nat, last : SUBSET Ids,
                        ids : SUBSET Ids, full : BOOLEAN]
      BY <1>0, <2>1, RunType
    <2>3. NextSet(sweep[r]) \in SweepState
      BY <1>0, <2>1, NextSetType
    <2>4. Listing(sweep[r].set, sweep[r].at, sweep[r].last) \in SweepState
      BY <2>2 DEF Listing, SweepState
    <2>5. [sweep[r] EXCEPT !.ids = sweep[r].ids \ {id}] \in SweepState
      BY <2>2 DEF SweepState
    <2>6. sweep' = [sweep EXCEPT ![r] =
                   IF sweep[r].ids \ {id} # {} THEN [sweep[r] EXCEPT !.ids = sweep[r].ids \ {id}]
                   ELSE IF sweep[r].full THEN Listing(sweep[r].set, sweep[r].at, sweep[r].last)
                   ELSE NextSet(sweep[r])]
      BY <1>3 DEF SweepRun
    <2> QED
      BY <2>3, <2>4, <2>5, <2>6 DEF TypeOK
  <1>4. CASE SweepError(r) \/ Crash(r)
    <2>1. NextSet(sweep[r]) \in SweepState
      BY <1>0, <1>4, NextSetType DEF SweepError, Crash
    <2>2. Idle \in SweepState
      BY DEF SweepState
    <2> QED
      BY <1>4, <2>1, <2>2 DEF SweepError, Crash, TypeOK
  <1> QED
    BY <1>1, <1>2, <1>3, <1>4

----------------------------------------------------------------------------
(* The steps as the slots see them.  Whichever method or script takes it,  *)
(* a step creates a slot, stores an upload, ends a live slot, deletes a    *)
(* slot for a sweep or by Redis's own doing, strikes an identifier off the *)
(* set expiry, or leaves slots, sets and counters alone.                   *)

UploadStep(r, id, n) ==
    /\ slot[id].kind = "drop" /\ slot[id].state = "created" /\ ~Due(r, id) /\ Room(n)
    /\ slot' = [slot EXCEPT ![id].ct = n, ![id].state = "uploaded"]
    /\ bytes' = bytes + n
    /\ UNCHANGED <<live, expiry, delivered, clock, goneAt, removal>>

EndStep(r, id, final) ==
    /\ Live(id) /\ Retire(id, final) /\ UNCHANGED <<clock, goneAt, removal>>
    /\ \/ /\ final = "fetched" /\ ~Due(r, id) /\ slot[id].kind = "drop" /\ slot[id].state = "uploaded"
          /\ delivered' = [delivered EXCEPT ![id] = @ + 1]
       \/ /\ final = "opened" /\ ~Due(r, id) /\ slot[id].kind = "reveal"
          /\ delivered' = [delivered EXCEPT ![id] = @ + 1]
       \/ final = "revoked" /\ ~Due(r, id) /\ UNCHANGED delivered
       \/ final = "expired" /\ Due(r, id) /\ UNCHANGED delivered

RemoveStep(r, id) ==
    /\ sweep[r].pc = "run" /\ sweep[r].set = "removal" /\ id \in sweep[r].ids
    /\ RemoveScript(id) /\ UNCHANGED clock

UnlistStep(id) ==
    /\ ~Live(id)
    /\ expiry' = [expiry EXCEPT ![id] = Never]
    /\ UNCHANGED <<slot, goneAt, removal, live, bytes, delivered, clock>>

QuietStep == UNCHANGED slotVars /\ (UNCHANGED clock \/ Tick)

\* What every step of the relays and of Redis comes to.
LEMMA StepCases ==
    ASSUME TypeOK, [Next]_vars
    PROVE  \/ \E r \in Replicas, id \in Ids, kind \in Kinds, n \in Sizes \cup {0}, ttl \in TTLs :
                 Create(r, id, kind, n, ttl)
           \/ \E r \in Replicas, id \in Ids, n \in Sizes : UploadStep(r, id, n)
           \/ \E r \in Replicas, id \in Ids, final \in TerminalStates : EndStep(r, id, final)
           \/ \E r \in Replicas, id \in Ids : RemoveStep(r, id)
           \/ \E id \in Ids : UnlistStep(id)
           \/ \E id \in Ids : KeyGone(id)
           \/ QuietStep
  <1> DEFINE Ends == \E r \in Replicas, id \in Ids, final \in TerminalStates : EndStep(r, id, final)
  <1>1. ASSUME NEW r \in Replicas, NEW id \in Ids, Due(r, id), Expire(id), UNCHANGED <<clock, goneAt, removal>>
        PROVE  Ends
    <2>1. EndStep(r, id, "expired")
      BY <1>1 DEF EndStep, Expire, Due
    <2> QED
      BY <2>1 DEF TerminalStates
  <1>2. ASSUME NEW r \in Replicas, NEW id \in Ids, NEW token \in Credentials, NEW commitment \in BOOLEAN,
               NEW n \in Sizes, Upload(r, id, token, commitment, n)
        PROVE  Ends \/ UploadStep(r, id, n)
    <2>1. CASE Due(r, id)
      BY <1>1, <1>2, <2>1 DEF Upload, Untouched
    <2>2. CASE ~Due(r, id)
      BY <1>2, <2>2 DEF Upload, UploadReply, Untouched, UploadStep
    <2> QED
      BY <2>1, <2>2
  <1>3. ASSUME NEW r \in Replicas, NEW id \in Ids, NEW token \in Credentials,
               Fetch(r, id, token) \/ Open(r, id, token) \/ Revoke(r, id, token)
        PROVE  Ends
    <2>1. CASE Due(r, id)
      BY <1>1, <1>3, <2>1 DEF Fetch, Open, Revoke, Untouched
    <2>2. CASE ~Due(r, id)
      <3>1. Present(id) /\ UNCHANGED <<clock, goneAt, removal>>
        BY <1>3 DEF Fetch, Open, Revoke, Untouched
      <3>2. ~Terminal(slot[id].state) => Live(id)
        BY <3>1 DEF Present, Live, Terminal, TypeOK
      <3>3. CASE Fetch(r, id, token)
        <4>1. EndStep(r, id, "fetched")
          BY <2>2, <3>1, <3>2, <3>3 DEF Fetch, FetchReply, EndStep
        <4> QED
          BY <4>1 DEF TerminalStates
      <3>4. CASE Open(r, id, token)
        <4>1. EndStep(r, id, "opened")
          BY <2>2, <3>1, <3>2, <3>4 DEF Open, OpenReply, EndStep
        <4> QED
          BY <4>1 DEF TerminalStates
      <3>5. CASE Revoke(r, id, token)
        <4>1. EndStep(r, id, "revoked")
          BY <2>2, <3>1, <3>2, <3>5 DEF Revoke, RevokeReply, EndStep
        <4> QED
          BY <4>1 DEF TerminalStates
      <3> QED
        BY <1>3, <3>3, <3>4, <3>5
    <2> QED
      BY <2>1, <2>2
  <1>4. ASSUME NEW r \in Replicas, NEW id \in Ids, Status(r, id)
        PROVE  Ends
    BY <1>1, <1>4 DEF Status, Untouched
  <1>5. ASSUME NEW r \in Replicas, NEW id \in Ids, SweepRun(r, id)
        PROVE  Ends \/ RemoveStep(r, id) \/ UnlistStep(id) \/ QuietStep
    <2>0. sweep[r].pc = "run" /\ id \in sweep[r].ids /\ UNCHANGED clock
      BY <1>5 DEF SweepRun
    <2>1. CASE sweep[r].set = "expiry"
      <3>1. ExpireScript(r, id)
        BY <1>5, <2>1 DEF SweepRun
      <3>2. CASE ~Live(id)
        BY <2>0, <3>1, <3>2 DEF ExpireScript, UnlistStep
      <3>3. CASE Live(id) /\ Now(r) < slot[id].expires
        BY <2>0, <3>1, <3>3 DEF ExpireScript, QuietStep, slotVars
      <3>4. CASE Live(id) /\ ~(Now(r) < slot[id].expires)
        <4>1. Now(r) \in Nat /\ slot[id].expires \in Nat
          BY NowType DEF TypeOK
        <4>2. Due(r, id)
          BY <3>4, <4>1 DEF Due
        <4>3. Expire(id) /\ UNCHANGED <<clock, goneAt, removal>>
          BY <2>0, <3>1, <3>4 DEF ExpireScript, Expire
        <4> QED
          BY <1>1, <4>2, <4>3
      <3> QED
        BY <3>2, <3>3, <3>4
    <2>2. CASE sweep[r].set # "expiry"
      <3>1. sweep[r].set = "removal"
        BY <2>0, <2>2, NextSetType DEF TypeOK
      <3> QED
        BY <1>5, <2>0, <2>2, <3>1 DEF SweepRun, RemoveStep
    <2> QED
      BY <2>1, <2>2
  <1>6. ASSUME NEW r \in Replicas, SweepBegin(r) \/ SweepList(r) \/ SweepError(r) \/ Crash(r)
        PROVE  QuietStep
    BY <1>6 DEF SweepBegin, SweepList, SweepError, Crash, QuietStep
  <1>7. CASE Tick
    BY <1>7 DEF Tick, QuietStep
  <1>8. CASE UNCHANGED vars
    BY <1>8 DEF vars, slotVars, QuietStep
  <1> QED
    BY <1>2, <1>3, <1>4, <1>5, <1>6, <1>7, <1>8 DEF Next, SlotCall, SweepStep

\* Every step keeps the keys in Redis and the sweeps in their types.
LEMMA TypeStep ==
    ASSUME TypeOK, [Next]_vars
    PROVE  TypeOK'
  <1> USE TimesAssumption, SizesAssumption
  <1>1. sweep' \in [Replicas -> SweepState]
    <2>1. ASSUME NEW r \in Replicas, NEW id \in Ids, SlotCall(r, id)
          PROVE  UNCHANGED sweep
      BY <2>1 DEF SlotCall, Create, Upload, Fetch, Open, Revoke, Status, Untouched
    <2>2. CASE (\E id \in Ids : KeyGone(id)) \/ Tick \/ UNCHANGED vars
      BY <2>2 DEF KeyGone, Tick, vars, TypeOK
    <2> QED
      BY <2>1, <2>2, SweepType DEF Next, SweepStep, TypeOK
  <1>2. ASSUME NEW r \in Replicas, NEW id \in Ids, NEW kind \in Kinds, NEW n \in Sizes \cup {0},
               NEW ttl \in TTLs, Create(r, id, kind, n, ttl)
        PROVE  TypeOK'
    <2>1. /\ Now(r) + ttl \in Nat /\ Now(r) + ttl + Grace \in Nat /\ n \in Nat
          /\ clock + (Now(r) + ttl + Grace - Now(r)) \in Nat
      BY NowType DEF TypeOK
    <2>2. [kind |-> kind, state |-> "created", ct |-> n, tokens |-> Tokens,
           commitment |-> kind = "drop", expires |-> Now(r) + ttl] \in SlotRecord
      BY <2>1 DEF SlotRecord, LiveStates
    <2>3. slot' \in [Ids -> SlotRecord]
      BY <1>2, <2>2 DEF Create, TypeOK, SlotRecord
    <2>4. /\ live' = live + 1 /\ bytes' = bytes + n
          /\ expiry' = [expiry EXCEPT ![id] = Now(r) + ttl]
          /\ removal' = [removal EXCEPT ![id] = Now(r) + ttl + Grace]
          /\ goneAt' = [goneAt EXCEPT ![id] = clock + (Now(r) + ttl + Grace - Now(r))]
          /\ UNCHANGED <<clock, delivered>>
      BY <1>2 DEF Create
    <2> QED
      BY <1>1, <2>1, <2>3, <2>4 DEF TypeOK, SlotRecord
  <1>3. ASSUME NEW r \in Replicas, NEW id \in Ids, NEW n \in Sizes, UploadStep(r, id, n)
        PROVE  TypeOK'
    <2>1. slot' \in [Ids -> SlotRecord]
      BY <1>3 DEF UploadStep, TypeOK, SlotRecord, LiveStates
    <2> QED
      BY <1>1, <1>3, <2>1 DEF UploadStep, TypeOK, SlotRecord
  <1>4. ASSUME NEW r \in Replicas, NEW id \in Ids, NEW final \in TerminalStates, EndStep(r, id, final)
        PROVE  TypeOK'
    <2>1. /\ slot' \in [Ids -> SlotRecord] /\ live' \in Int /\ bytes' \in Int
          /\ expiry' \in [Ids -> Nat \cup {Never}]
      BY <1>4, EndEffect DEF EndStep
    <2>2. delivered' \in [Ids -> Nat]
      BY <1>4 DEF EndStep, TypeOK
    <2> QED
      BY <1>1, <1>4, <2>1, <2>2 DEF EndStep, TypeOK, SlotRecord
  <1>5. ASSUME NEW r \in Replicas, NEW id \in Ids, RemoveStep(r, id)
        PROVE  TypeOK'
    <2>1. slot' \in [Ids -> SlotRecord] /\ goneAt' \in [Ids -> Nat \cup {Never}]
      BY <1>5, ForgetEffect DEF RemoveStep, RemoveScript, TypeOK, SlotRecord
    <2>2. slot[id].ct \in Nat
      BY DEF TypeOK
    <2>3. live' \in Int /\ bytes' \in Int
      BY <1>5, <2>2 DEF RemoveStep, RemoveScript, TypeOK
    <2>4. removal' \in [Ids -> Nat \cup {Never}] /\ expiry' \in [Ids -> Nat \cup {Never}]
          /\ UNCHANGED <<clock, delivered>>
      BY <1>5 DEF RemoveStep, RemoveScript, TypeOK
    <2> QED
      BY <1>1, <2>1, <2>3, <2>4 DEF TypeOK, SlotRecord
  <1>6. ASSUME NEW id \in Ids, UnlistStep(id)
        PROVE  TypeOK'
    BY <1>1, <1>6 DEF UnlistStep, TypeOK
  <1>7. ASSUME NEW id \in Ids, KeyGone(id)
        PROVE  TypeOK'
    BY <1>1, <1>7, ForgetEffect DEF KeyGone, TypeOK, SlotRecord
  <1>8. CASE QuietStep
    BY <1>1, <1>8 DEF QuietStep, slotVars, Tick, TypeOK
  <1> QED
    BY <1>2, <1>3, <1>4, <1>5, <1>6, <1>7, <1>8, StepCases

\* The keys in Redis and the sweeps keep their types in every behaviour.
THEOREM TypeCorrect == Spec => []TypeOK
  <1>1. Init => TypeOK
    BY DEF Init, TypeOK, NoSlot, UnknownStates, Kinds, SweepState
  <1> QED
    BY <1>1, TypeStep, PTL DEF Spec

----------------------------------------------------------------------------
(* Keys, sets and slots.                                                   *)

\* The agreement each script has to keep for each slot, read once and the true
\* indexes among it.  Beyond those two: a key has its PEXPIRE exactly as long as
\* it is there, holds no ciphertext before an upload or after its slot's end,
\* and an identifier is in the set removal only once it was drawn.
SlotOK(id) ==
    /\ Present(id) <=> goneAt[id] # Never
    /\ ~Live(id) => slot[id].ct = 0
    /\ slot[id].kind = "drop" /\ slot[id].state = "created" => slot[id].ct = 0
    /\ slot[id].state = "fresh" => removal[id] = Never
    /\ Live(id) => expiry[id] = slot[id].expires
    /\ Present(id) /\ ~Live(id) => expiry[id] = Never
    /\ Present(id) => removal[id] = slot[id].expires + Grace
    /\ delivered[id] <= 1
    /\ slot[id].state \in LiveStates \cup {"fresh", "revoked", "expired"} => delivered[id] = 0

SlotInv == \A id \in Ids : SlotOK(id)

\* What redisCreate does to the slot, its key's lifetime and the sets.
LEMMA CreateEffect ==
    ASSUME TypeOK, NEW r \in Replicas, NEW id \in Ids, NEW kind \in Kinds, NEW n \in Sizes \cup {0},
           NEW ttl \in TTLs, Create(r, id, kind, n, ttl)
    PROVE  /\ n \in Nat /\ slot[id].state = "fresh"
           /\ slot'[id].kind = kind /\ slot'[id].state = "created" /\ slot'[id].ct = n
           /\ slot'[id].expires = Now(r) + ttl
           /\ expiry'[id] = Now(r) + ttl /\ removal'[id] = Now(r) + ttl + Grace
           /\ goneAt'[id] = clock + ttl + Grace /\ goneAt'[id] \in Nat /\ goneAt'[id] > clock
           /\ kind = "drop" => n = 0
           /\ \A i \in Ids : i # id => /\ slot'[i] = slot[i] /\ goneAt'[i] = goneAt[i]
                                       /\ expiry'[i] = expiry[i] /\ removal'[i] = removal[i]
           /\ live' = live + 1 /\ bytes' = bytes + n /\ UNCHANGED <<clock, delivered>>
  <1> USE TimesAssumption, SizesAssumption
  <1>1. n \in Nat /\ Now(r) \in Nat
    BY NowType
  <1>2. clock + (Now(r) + ttl + Grace - Now(r)) = clock + ttl + Grace
    BY <1>1 DEF TypeOK
  <1>3. clock + ttl + Grace \in Nat /\ clock + ttl + Grace > clock
    BY DEF TypeOK
  <1>4. kind = "drop" => n = 0
    BY <1>1 DEF Create
  <1>5. /\ slot' = [slot EXCEPT ![id] =
                  [kind |-> kind, state |-> "created", ct |-> n, tokens |-> Tokens,
                   commitment |-> kind = "drop", expires |-> Now(r) + ttl]]
        /\ expiry' = [expiry EXCEPT ![id] = Now(r) + ttl]
        /\ removal' = [removal EXCEPT ![id] = Now(r) + ttl + Grace]
        /\ goneAt' = [goneAt EXCEPT ![id] = clock + ttl + Grace]
        /\ slot[id].state = "fresh" /\ live' = live + 1 /\ bytes' = bytes + n
        /\ UNCHANGED <<clock, delivered>>
    BY <1>2 DEF Create
  <1> QED
    BY <1>1, <1>3, <1>4, <1>5 DEF TypeOK

\* What an upload does.
LEMMA UploadEffect ==
    ASSUME TypeOK, NEW r \in Replicas, NEW id \in Ids, NEW n \in Sizes, UploadStep(r, id, n)
    PROVE  /\ slot'[id].kind = "drop" /\ slot'[id].state = "uploaded" /\ slot'[id].ct = n
           /\ slot'[id].expires = slot[id].expires /\ slot[id].kind = "drop" /\ slot[id].state = "created"
           /\ \A i \in Ids : i # id => slot'[i] = slot[i]
           /\ bytes' = bytes + n /\ n \in Nat
           /\ UNCHANGED <<live, expiry, delivered, clock, goneAt, removal>>
  BY SizesAssumption DEF UploadStep, TypeOK

\* What redisRemove does: the identifier leaves both sets, the slot goes if it
\* is still there, and a live one is released.
LEMMA RemoveEffect ==
    ASSUME TypeOK, NEW r \in Replicas, NEW id \in Ids, RemoveStep(r, id)
    PROVE  /\ expiry'[id] = Never /\ removal'[id] = Never
           /\ \A i \in Ids : i # id => /\ slot'[i] = slot[i] /\ goneAt'[i] = goneAt[i]
                                       /\ expiry'[i] = expiry[i] /\ removal'[i] = removal[i]
           /\ Present(id) => slot'[id] = NoSlot("forgotten") /\ goneAt'[id] = Never
           /\ ~Present(id) => UNCHANGED <<slot, goneAt>>
           /\ Live(id) => Present(id) /\ live' = live - 1 /\ bytes' = bytes - slot[id].ct
           /\ ~Live(id) => UNCHANGED <<live, bytes>>
           /\ UNCHANGED <<clock, delivered>>
  <1>1. Live(id) => Present(id)
    BY DEF Live, Present, LiveStates, UnknownStates
  <1>2. /\ removal' = [removal EXCEPT ![id] = Never]
        /\ expiry' = [expiry EXCEPT ![id] = Never]
        /\ IF Live(id)
           THEN live' = live - 1 /\ bytes' = bytes - slot[id].ct
           ELSE UNCHANGED <<live, bytes>>
        /\ IF Present(id)
           THEN /\ slot' = [slot EXCEPT ![id] = NoSlot("forgotten")]
                /\ goneAt' = [goneAt EXCEPT ![id] = Never]
           ELSE UNCHANGED <<slot, goneAt>>
        /\ UNCHANGED <<clock, delivered>>
    BY DEF RemoveStep, RemoveScript
  <1>3. Present(id) => /\ slot'[id] = NoSlot("forgotten") /\ goneAt'[id] = Never
                       /\ \A i \in Ids : i # id => slot'[i] = slot[i] /\ goneAt'[i] = goneAt[i]
    BY <1>2, ForgetEffect
  <1>4. /\ expiry'[id] = Never /\ removal'[id] = Never
        /\ \A i \in Ids : i # id => expiry'[i] = expiry[i] /\ removal'[i] = removal[i]
    BY <1>2 DEF TypeOK
  <1> QED
    BY <1>1, <1>2, <1>3, <1>4

\* What Redis's own expiry of a key does.
LEMMA KeyGoneEffect ==
    ASSUME TypeOK, NEW id \in Ids, KeyGone(id)
    PROVE  /\ slot'[id] = NoSlot("forgotten") /\ goneAt'[id] = Never
           /\ \A i \in Ids : i # id => slot'[i] = slot[i] /\ goneAt'[i] = goneAt[i]
           /\ goneAt[id] # Never /\ goneAt[id] <= clock
           /\ UNCHANGED <<clock, expiry, removal, live, bytes, delivered>>
  BY ForgetEffect DEF KeyGone

\* A slot is not disturbed by a step that leaves its key, its place in the
\* sets and its history alone.
LEMMA SlotFrame ==
    ASSUME NEW i \in Ids, SlotOK(i), slot'[i] = slot[i], goneAt'[i] = goneAt[i],
           expiry'[i] = expiry[i], removal'[i] = removal[i], delivered'[i] = delivered[i]
    PROVE  SlotOK(i)'
  BY DEF SlotOK, Live, Present

\* Every script, and Redis itself, keeps keys, sets and slots in agreement and
\* hands out no ciphertext a second time.
LEMMA SlotStep ==
    ASSUME TypeOK, SlotInv, [Next]_vars
    PROVE  SlotInv'
  <1> SUFFICES ASSUME NEW i \in Ids PROVE SlotOK(i)'
    BY DEF SlotInv
  <1>0. SlotOK(i)
    BY DEF SlotInv
  <1>1. ASSUME NEW r \in Replicas, NEW id \in Ids, NEW kind \in Kinds, NEW n \in Sizes \cup {0},
               NEW ttl \in TTLs, Create(r, id, kind, n, ttl)
        PROVE  SlotOK(i)'
    <2>1. CASE i # id
      BY <1>0, <1>1, <2>1, CreateEffect, SlotFrame
    <2>2. CASE i = id
      <3>1. slot'[i].state = "created" /\ slot[i].state = "fresh"
        BY <1>1, <2>2, CreateEffect
      <3>2. Live(i)' /\ Present(i)' /\ delivered'[i] = 0
        BY <1>0, <1>1, <2>2, <3>1, CreateEffect DEF SlotOK, Live, Present, LiveStates, UnknownStates
      <3> QED
        BY <1>1, <2>2, <3>1, <3>2, CreateEffect DEF SlotOK, Never
    <2> QED
      BY <2>1, <2>2
  <1>2. ASSUME NEW r \in Replicas, NEW id \in Ids, NEW n \in Sizes, UploadStep(r, id, n)
        PROVE  SlotOK(i)'
    <2>1. CASE i # id
      BY <1>0, <1>2, <2>1, UploadEffect, SlotFrame
    <2>2. CASE i = id
      BY <1>0, <1>2, <2>2, UploadEffect DEF SlotOK, Live, Present, LiveStates, UnknownStates
    <2> QED
      BY <2>1, <2>2
  <1>3. ASSUME NEW r \in Replicas, NEW id \in Ids, NEW final \in TerminalStates, EndStep(r, id, final)
        PROVE  SlotOK(i)'
    <2>1. /\ slot'[id].state = final /\ slot'[id].ct = 0
          /\ slot'[id].kind = slot[id].kind /\ slot'[id].expires = slot[id].expires
          /\ \A j \in Ids : j # id => slot'[j] = slot[j]
          /\ expiry' = [expiry EXCEPT ![id] = Never]
          /\ Live(id) /\ UNCHANGED <<goneAt, removal>>
      BY <1>3, EndEffect DEF EndStep
    <2>2. \/ final \in {"fetched", "opened"} /\ delivered' = [delivered EXCEPT ![id] = @ + 1]
          \/ UNCHANGED delivered
      BY <1>3 DEF EndStep
    <2>3. CASE i # id
      BY <1>0, <2>1, <2>2, <2>3, SlotFrame DEF TypeOK
    <2>4. CASE i = id
      <3>1. Present(i) /\ Present(i)' /\ ~Live(i)' /\ slot'[i].state \notin LiveStates \cup {"fresh"}
        BY <2>1, <2>4 DEF Live, Present, LiveStates, UnknownStates, TerminalStates
      <3>2. delivered[i] = 0 /\ expiry'[i] = Never
        BY <1>0, <2>1, <2>4 DEF SlotOK, Live, TypeOK
      <3>3. delivered'[i] <= 1 /\ (slot'[i].state \in {"revoked", "expired"} => delivered'[i] = 0)
        BY <2>1, <2>2, <2>4, <3>2 DEF TypeOK
      <3> QED
        BY <1>0, <2>1, <2>4, <3>1, <3>2, <3>3 DEF SlotOK, LiveStates
    <2> QED
      BY <2>3, <2>4
  <1>4. ASSUME NEW r \in Replicas, NEW id \in Ids, RemoveStep(r, id)
        PROVE  SlotOK(i)'
    <2>1. CASE i # id
      BY <1>0, <1>4, <2>1, RemoveEffect, SlotFrame
    <2>2. CASE i = id /\ Present(id)
      <3>1. slot'[i] = NoSlot("forgotten") /\ goneAt'[i] = Never /\ UNCHANGED delivered
        BY <1>4, <2>2, RemoveEffect
      <3> QED
        BY <1>0, <3>1 DEF NoSlot, SlotOK, Live, Present, LiveStates, UnknownStates
    <2>3. CASE i = id /\ ~Present(id)
      <3>1. UNCHANGED <<slot, goneAt, delivered>> /\ removal'[i] = Never
        BY <1>4, <2>3, RemoveEffect
      <3> QED
        BY <1>0, <2>3, <3>1 DEF SlotOK, Live, Present, LiveStates, UnknownStates
    <2> QED
      BY <2>1, <2>2, <2>3
  <1>5. ASSUME NEW id \in Ids, UnlistStep(id)
        PROVE  SlotOK(i)'
    BY <1>0, <1>5 DEF UnlistStep, SlotOK, Live, Present, TypeOK
  <1>6. ASSUME NEW id \in Ids, KeyGone(id)
        PROVE  SlotOK(i)'
    <2>1. CASE i # id
      BY <1>0, <1>6, <2>1, KeyGoneEffect, SlotFrame
    <2>2. CASE i = id
      <3>1. slot'[i] = NoSlot("forgotten") /\ goneAt'[i] = Never /\ UNCHANGED delivered
        BY <1>6, <2>2, KeyGoneEffect
      <3> QED
        BY <1>0, <3>1 DEF NoSlot, SlotOK, Live, Present, LiveStates, UnknownStates
    <2> QED
      BY <2>1, <2>2
  <1>7. CASE QuietStep
    BY <1>0, <1>7, SlotFrame DEF QuietStep, slotVars
  <1> QED
    BY <1>1, <1>2, <1>3, <1>4, <1>5, <1>6, <1>7, StepCases

\* Keys, sets and slots agree in every behaviour, with any clocks and through
\* any outage.
THEOREM SlotsCorrect == Spec => [](TypeOK /\ SlotInv)
  <1>1. Init => SlotInv
    BY DEF Init, SlotInv, SlotOK, NoSlot, Live, Present, LiveStates, UnknownStates
  <1> QED
    BY <1>1, TypeCorrect, SlotStep, PTL DEF Spec

\* A slot's ciphertext is in at most one reply, and in none of a slot that was
\* revoked or expired, whichever replicas the scripts run for and however far
\* apart their clocks are (redisFetch, redisOpen).
THEOREM ReadAtMostOnce == Spec => []ReadOnce
  <1>1. SlotInv => ReadOnce
    BY DEF SlotInv, SlotOK, ReadOnce
  <1> QED
    BY <1>1, SlotsCorrect, PTL

\* The sorted sets are true indexes of the slots: what a sweep of any replica
\* has to find is in them, at its own time.
THEOREM IndexesTrue == Spec => []Indexed
  <1>1. SlotInv => Indexed
    BY DEF SlotInv, SlotOK, Indexed
  <1> QED
    BY <1>1, SlotsCorrect, PTL

----------------------------------------------------------------------------
(* The counters.  Only Redis's own expiry of a live slot's key moves them  *)
(* away from the slots, and only upwards.                                  *)

\* Redis drops the key of a slot that no sweep came to expire.
LostStep == \E id \in Ids : KeyGone(id) /\ Live(id)

\* There are finitely many live slots.
LEMMA LiveIdsFinite == IsFiniteSet(LiveIds) /\ Cardinality(LiveIds) \in Nat
  <1>1. LiveIds \in SUBSET Ids
    BY DEF LiveIds
  <1> QED
    BY <1>1, IdsAssumption, FS_Subset, FS_CardinalityType

\* What a step does to the counter live and to the number of live slots.
LEMMA LiveMoves ==
    ASSUME TypeOK, [Next]_vars
    PROVE  /\ Cardinality(LiveIds) \in Nat /\ Cardinality(LiveIds)' \in Nat
           /\ \/ live' - live = Cardinality(LiveIds)' - Cardinality(LiveIds)
              \/ LostStep /\ live' = live /\ Cardinality(LiveIds)' = Cardinality(LiveIds) - 1
           /\ live' <= live \/ (MaxLive > 0 => live' <= MaxLive)
  <1> USE DEF Live, LiveStates
  <1>0. /\ IsFiniteSet(LiveIds) /\ Cardinality(LiveIds) \in Nat
        /\ Cardinality(LiveIds)' \in Nat /\ live \in Int
    <2>1. LiveIds' \in SUBSET Ids
      BY DEF LiveIds
    <2> QED
      BY <2>1, LiveIdsFinite, IdsAssumption, FS_Subset, FS_CardinalityType DEF TypeOK
  <1>1. ASSUME NEW r \in Replicas, NEW id \in Ids, NEW kind \in Kinds, NEW n \in Sizes \cup {0},
               NEW ttl \in TTLs, Create(r, id, kind, n, ttl)
        PROVE  live' = live + 1 /\ (MaxLive > 0 => live < MaxLive)
               /\ Cardinality(LiveIds)' = Cardinality(LiveIds) + 1
    <2>1. LiveIds' = LiveIds \cup {id} /\ id \notin LiveIds
      BY <1>1, CreateEffect DEF LiveIds
    <2>2. Cardinality(LiveIds') = Cardinality(LiveIds) + 1
      BY <1>0, <2>1, FS_AddElement
    <2> QED
      BY <1>1, <2>2 DEF Create
  <1>2. ASSUME NEW id \in Ids, Live(id), ~Live(id)', \A i \in Ids : i # id => slot'[i] = slot[i]
        PROVE  Cardinality(LiveIds)' = Cardinality(LiveIds) - 1
    <2>1. LiveIds' = LiveIds \ {id} /\ id \in LiveIds
      BY <1>2 DEF LiveIds
    <2>2. Cardinality(LiveIds') = Cardinality(LiveIds) - 1
      BY <1>0, <2>1, FS_RemoveElement
    <2> QED
      BY <2>2
  <1>3. ASSUME \A i \in Ids : Live(i)' <=> Live(i)
        PROVE  Cardinality(LiveIds)' = Cardinality(LiveIds)
    <2>1. LiveIds' = LiveIds
      BY <1>3 DEF LiveIds
    <2> QED
      BY <2>1
  <1>4. ASSUME NEW r \in Replicas, NEW id \in Ids, NEW n \in Sizes, UploadStep(r, id, n)
        PROVE  live' = live /\ Cardinality(LiveIds)' = Cardinality(LiveIds)
    <2>1. \A i \in Ids : Live(i)' <=> Live(i)
      BY <1>4, UploadEffect
    <2> QED
      BY <1>3, <1>4, <2>1, UploadEffect
  <1>5. ASSUME NEW r \in Replicas, NEW id \in Ids, NEW final \in TerminalStates, EndStep(r, id, final)
        PROVE  live' = live - 1 /\ Cardinality(LiveIds)' = Cardinality(LiveIds) - 1
    <2>1. /\ slot'[id].state = final /\ Live(id) /\ live' = live - 1
          /\ \A i \in Ids : i # id => slot'[i] = slot[i]
      BY <1>5, EndEffect DEF EndStep
    <2>2. ~Live(id)'
      BY <2>1 DEF TerminalStates
    <2> QED
      BY <1>2, <2>1, <2>2
  <1>6. ASSUME NEW r \in Replicas, NEW id \in Ids, RemoveStep(r, id)
        PROVE  \/ live' = live - 1 /\ Cardinality(LiveIds)' = Cardinality(LiveIds) - 1
               \/ live' = live /\ Cardinality(LiveIds)' = Cardinality(LiveIds)
    <2>1. Present(id) => ~Live(id)'
      BY <1>6, RemoveEffect DEF NoSlot
    <2>2. CASE Live(id)
      BY <1>2, <1>6, <2>1, <2>2, RemoveEffect
    <2>3. CASE ~Live(id)
      <3>1. \A i \in Ids : Live(i)' <=> Live(i)
        BY <1>6, <2>1, <2>3, RemoveEffect
      <3> QED
        BY <1>3, <1>6, <2>3, <3>1, RemoveEffect
    <2> QED
      BY <2>2, <2>3
  <1>7. ASSUME NEW id \in Ids, KeyGone(id)
        PROVE  /\ live' = live
               /\ \/ Live(id) /\ Cardinality(LiveIds)' = Cardinality(LiveIds) - 1
                  \/ Cardinality(LiveIds)' = Cardinality(LiveIds)
    <2>1. ~Live(id)'
      BY <1>7, KeyGoneEffect DEF NoSlot
    <2>2. CASE Live(id)
      BY <1>2, <1>7, <2>1, <2>2, KeyGoneEffect
    <2>3. CASE ~Live(id)
      <3>1. \A i \in Ids : Live(i)' <=> Live(i)
        BY <1>7, <2>1, <2>3, KeyGoneEffect
      <3> QED
        BY <1>3, <1>7, <3>1, KeyGoneEffect
    <2> QED
      BY <2>2, <2>3
  <1>8. ASSUME (\E id \in Ids : UnlistStep(id)) \/ QuietStep
        PROVE  live' = live /\ Cardinality(LiveIds)' = Cardinality(LiveIds)
    BY <1>3, <1>8 DEF UnlistStep, QuietStep, slotVars
  <1> HIDE DEF Live
  <1>9. CASE \E r \in Replicas, id \in Ids, kind \in Kinds, n \in Sizes \cup {0}, ttl \in TTLs :
                Create(r, id, kind, n, ttl)
    BY <1>0, <1>1, <1>9, LimitsAssumption
  <1>10. CASE \E id \in Ids : KeyGone(id)
    <2>1. PICK id \in Ids : KeyGone(id)
      BY <1>10
    <2>2. Live(id) => LostStep
      BY <2>1 DEF LostStep
    <2> QED
      BY <1>0, <1>7, <2>1, <2>2
  <1> QED
    BY <1>0, <1>4, <1>5, <1>6, <1>8, <1>9, <1>10, StepCases

\* The counter live is never below the number of live slots, so MaxLive bounds
\* them through any outage: a leak costs room, never the limit.
LiveCovered ==
    /\ Cardinality(LiveIds) <= live
    /\ MaxLive > 0 => live <= MaxLive

\* The limit on live slots holds with any clocks and through any outage: the
\* scripts and Redis's own key expiry may leave the counter too high
\* (release, redis_store.go:102-107), never too low.
THEOREM LiveIsBounded == Spec => []LiveCovered
  <1>1. Init => LiveCovered
    <2>1. ASSUME Init PROVE LiveIds = {}
      BY <2>1 DEF Init, NoSlot, LiveIds, Live, LiveStates
    <2> QED
      BY <2>1, FS_EmptySet, LimitsAssumption DEF Init, LiveCovered
  <1>2. TypeOK /\ LiveCovered /\ [Next]_vars => LiveCovered'
    <2> SUFFICES ASSUME TypeOK, LiveCovered, [Next]_vars PROVE LiveCovered'
      OBVIOUS
    <2>1. live \in Int /\ live' \in Int
      BY TypeStep DEF TypeOK
    <2> QED
      BY <2>1, LiveMoves, LimitsAssumption DEF LiveCovered
  <1> QED
    BY <1>1, <1>2, TypeCorrect, PTL DEF Spec

----------------------------------------------------------------------------
(* Without an outage no key runs out under a live slot.                    *)

NoOutage == Outage = FALSE

KeyInTime == \A id \in Ids : Live(id) => clock < goneAt[id]

\* Create gives the key the grace period beyond the slot's life, and without
\* an outage time is assumed not to pass it over a live slot (SweptInTime).
LEMMA InTimeStep ==
    ASSUME NoOutage, TypeOK, SlotInv, KeyInTime, [Next]_vars
    PROVE  KeyInTime'
  <1> SUFFICES ASSUME NEW i \in Ids, Live(i)' PROVE clock' < goneAt'[i]
    BY DEF KeyInTime
  <1>0. Live(i) => clock < goneAt[i]
    BY DEF KeyInTime
  <1> USE DEF Live, LiveStates
  <1>1. ASSUME NEW r \in Replicas, NEW id \in Ids, NEW kind \in Kinds, NEW n \in Sizes \cup {0},
               NEW ttl \in TTLs, Create(r, id, kind, n, ttl)
        PROVE  clock' < goneAt'[i]
    <2>1. CASE i = id
      BY <1>1, <2>1, CreateEffect DEF TypeOK
    <2>2. CASE i # id
      BY <1>0, <1>1, <2>2, CreateEffect
    <2> QED
      BY <2>1, <2>2
  <1>2. ASSUME NEW r \in Replicas, NEW id \in Ids, NEW n \in Sizes, UploadStep(r, id, n)
        PROVE  clock' < goneAt'[i]
    BY <1>0, <1>2, UploadEffect
  <1>3. ASSUME NEW r \in Replicas, NEW id \in Ids, NEW final \in TerminalStates, EndStep(r, id, final)
        PROVE  clock' < goneAt'[i]
    BY <1>0, <1>3, EndEffect DEF EndStep, TerminalStates
  <1>4. ASSUME NEW r \in Replicas, NEW id \in Ids, RemoveStep(r, id)
        PROVE  clock' < goneAt'[i]
    <2>1. CASE i = id
      BY <1>0, <1>4, <2>1, RemoveEffect DEF NoSlot
    <2>2. CASE i # id
      BY <1>0, <1>4, <2>2, RemoveEffect
    <2> QED
      BY <2>1, <2>2
  <1>5. ASSUME NEW id \in Ids, KeyGone(id)
        PROVE  clock' < goneAt'[i]
    <2>1. CASE i = id
      BY <1>0, <1>5, <2>1, KeyGoneEffect DEF NoSlot
    <2>2. CASE i # id
      BY <1>0, <1>5, <2>2, KeyGoneEffect
    <2> QED
      BY <2>1, <2>2
  <1>6. CASE \E id \in Ids : UnlistStep(id)
    BY <1>0, <1>6 DEF UnlistStep
  <1>7. CASE QuietStep
    BY <1>0, <1>7 DEF QuietStep, slotVars, Tick, SweptInTime, NoOutage
  <1> QED
    BY <1>1, <1>2, <1>3, <1>4, <1>5, <1>6, <1>7, StepCases

\* So no slot is lost live.
LEMMA NoneLost ==
    ASSUME TypeOK, KeyInTime
    PROVE  ~LostStep
  <1> SUFFICES ASSUME NEW id \in Ids, KeyGone(id), Live(id) PROVE FALSE
    BY DEF LostStep
  <1>1. clock < goneAt[id] /\ goneAt[id] <= clock /\ goneAt[id] # Never
    BY DEF KeyInTime, KeyGone
  <1> QED
    BY <1>1 DEF TypeOK, Never

\* What the guard of Tick asks for without an outage holds in every state: no
\* live slot's key has run out.
LEMMA KeysInTime ==
    ASSUME NoOutage
    PROVE  Spec => [](TypeOK /\ SlotInv /\ KeyInTime)
  <1>1. Init => KeyInTime
    BY DEF Init, KeyInTime, NoSlot, Live, LiveStates
  <1>2. TypeOK /\ SlotInv /\ KeyInTime /\ [Next]_vars => KeyInTime'
    BY InTimeStep
  <1> QED
    BY <1>1, <1>2, SlotsCorrect, PTL DEF Spec

\* Without an outage the counter live is the number of slots that are not
\* tombstones and never exceeds MaxLive, whichever replicas release them.
THEOREM LiveIsCounted ==
    ASSUME NoOutage
    PROVE  Spec => []LiveCounted
  <1>1. Init => LiveCounted
    <2>1. ASSUME Init PROVE LiveIds = {}
      BY <2>1 DEF Init, NoSlot, LiveIds, Live, LiveStates
    <2> QED
      BY <2>1, FS_EmptySet, LimitsAssumption DEF Init, LiveCounted
  <1>2. TypeOK /\ KeyInTime /\ LiveCounted /\ [Next]_vars => LiveCounted'
    <2> SUFFICES ASSUME TypeOK, KeyInTime, LiveCounted, [Next]_vars PROVE LiveCounted'
      OBVIOUS
    <2>1. live \in Int /\ live' \in Int
      BY TypeStep DEF TypeOK
    <2> QED
      BY <2>1, LiveMoves, NoneLost, LimitsAssumption DEF LiveCounted
  <1> QED
    BY <1>1, <1>2, KeysInTime, PTL DEF Spec

----------------------------------------------------------------------------
(* The same of the counter bytes.                                          *)

\* A ciphertext of n bytes contributes n elements.
LEMMA UnitsOf ==
    ASSUME NEW id, NEW n \in Nat
    PROVE  IsFiniteSet({id} \X (1 .. n)) /\ Cardinality({id} \X (1 .. n)) = n
  <1>1. IsFiniteSet({id}) /\ Cardinality({id}) = 1
    BY FS_Singleton
  <1>2. IsFiniteSet(1 .. n) /\ Cardinality(1 .. n) = n
    BY FS_Interval
  <1>3. /\ IsFiniteSet({id} \X (1 .. n))
        /\ Cardinality({id} \X (1 .. n)) = Cardinality({id}) * Cardinality(1 .. n)
    BY <1>1, <1>2, FS_Product, Zenon
  <1> QED
    BY <1>1, <1>2, <1>3

\* Joining a set that is disjoint adds the cardinalities.
LEMMA DisjointUnion ==
    ASSUME NEW S, NEW T, IsFiniteSet(S), IsFiniteSet(T), S \cap T = {}
    PROVE  IsFiniteSet(S \cup T) /\ Cardinality(S \cup T) = Cardinality(S) + Cardinality(T)
  <1>1. Cardinality(S \cap T) = 0
    BY FS_EmptySet
  <1>2. Cardinality(S) \in Nat /\ Cardinality(T) \in Nat
    BY FS_CardinalityType
  <1>3. /\ IsFiniteSet(S \cup T)
        /\ Cardinality(S \cup T) = Cardinality(S) + Cardinality(T) - Cardinality(S \cap T)
    BY FS_Union, Zenon
  <1> QED
    BY <1>1, <1>2, <1>3

\* When one slot's ciphertext changes, what is held changes by the difference.
LEMMA HeldMoves ==
    ASSUME TypeOK, IsFiniteSet(HeldBytes), NEW id \in Ids, NEW n \in Nat, slot'[id].ct = n,
           \A i \in Ids : i # id => slot'[i].ct = slot[i].ct
    PROVE  /\ IsFiniteSet(HeldBytes')
           /\ Cardinality(HeldBytes') = Cardinality(HeldBytes) - slot[id].ct + n
  <1> DEFINE rest == UNION {{i} \X (1 .. slot[i].ct) : i \in Ids \ {id}}
             gone == {id} \X (1 .. slot[id].ct)
             come == {id} \X (1 .. n)
  <1>0. slot[id].ct \in Nat
    BY DEF TypeOK
  <1>1. HeldBytes = rest \cup gone /\ rest \cap gone = {}
    BY DEF HeldBytes
  <1>2. HeldBytes' = rest \cup come /\ rest \cap come = {}
    BY DEF HeldBytes
  <1>3. IsFiniteSet(gone) /\ Cardinality(gone) = slot[id].ct
    BY <1>0, UnitsOf
  <1>4. IsFiniteSet(come) /\ Cardinality(come) = n
    BY UnitsOf
  <1>5. IsFiniteSet(rest) /\ Cardinality(rest) \in Nat
    <2>1. rest \in SUBSET HeldBytes
      BY <1>1
    <2> QED
      BY <2>1, FS_Subset, FS_CardinalityType
  <1> HIDE DEF rest, gone, come
  <1>6. Cardinality(HeldBytes) = Cardinality(rest) + slot[id].ct
    BY <1>1, <1>3, <1>5, DisjointUnion
  <1>7. IsFiniteSet(HeldBytes') /\ Cardinality(HeldBytes') = Cardinality(rest) + n
    BY <1>2, <1>4, <1>5, DisjointUnion
  <1> QED
    BY <1>0, <1>5, <1>6, <1>7

\* What a step does to the counter bytes and to the ciphertext held.
LEMMA BytesMove ==
    ASSUME TypeOK, SlotInv, IsFiniteSet(HeldBytes), [Next]_vars
    PROVE  /\ IsFiniteSet(HeldBytes')
           /\ Cardinality(HeldBytes) \in Nat /\ Cardinality(HeldBytes') \in Nat
           /\ \/ bytes' - bytes = Cardinality(HeldBytes') - Cardinality(HeldBytes)
              \/ LostStep /\ bytes' = bytes /\ Cardinality(HeldBytes') <= Cardinality(HeldBytes)
           /\ bytes' <= bytes \/ (MaxBytes > 0 => bytes' <= MaxBytes)
  <1> DEFINE held == Cardinality(HeldBytes)
             heldNext == Cardinality(HeldBytes')
             Goal == /\ IsFiniteSet(HeldBytes') /\ heldNext \in Nat
                     /\ \/ bytes' - bytes = heldNext - held
                        \/ LostStep /\ bytes' = bytes /\ heldNext <= held
                     /\ bytes' <= bytes \/ (MaxBytes > 0 => bytes' <= MaxBytes)
  <1>0. held \in Nat /\ bytes \in Int /\ (\A i \in Ids : slot[i].ct \in Nat)
        /\ (IsFiniteSet(HeldBytes') => heldNext \in Nat)
    BY FS_CardinalityType DEF TypeOK
  <1>1. ASSUME NEW r \in Replicas, NEW id \in Ids, NEW kind \in Kinds, NEW n \in Sizes \cup {0},
               NEW ttl \in TTLs, Create(r, id, kind, n, ttl)
        PROVE  Goal
    <2>1. /\ n \in Nat /\ slot'[id].ct = n /\ bytes' = bytes + n
          /\ \A i \in Ids : i # id => slot'[i].ct = slot[i].ct
      BY <1>1, CreateEffect
    <2>2. slot[id].ct = 0
      BY <1>1, CreateEffect DEF SlotInv, SlotOK, Live, LiveStates
    <2>3. IsFiniteSet(HeldBytes') /\ heldNext = held - 0 + n
      BY <2>1, <2>2, HeldMoves
    <2>4. MaxBytes > 0 => bytes + n <= MaxBytes
      BY <1>1 DEF Create, Room
    <2> QED
      BY <1>0, <2>1, <2>3, <2>4
  <1>2. ASSUME NEW r \in Replicas, NEW id \in Ids, NEW n \in Sizes, UploadStep(r, id, n)
        PROVE  Goal
    <2>1. /\ n \in Nat /\ slot'[id].ct = n /\ bytes' = bytes + n
          /\ \A i \in Ids : i # id => slot'[i].ct = slot[i].ct
      BY <1>2, UploadEffect
    <2>2. slot[id].ct = 0
      BY <1>2, UploadEffect DEF SlotInv, SlotOK
    <2>3. IsFiniteSet(HeldBytes') /\ heldNext = held - 0 + n
      BY <2>1, <2>2, HeldMoves
    <2>4. MaxBytes > 0 => bytes + n <= MaxBytes
      BY <1>2 DEF UploadStep, Room
    <2> QED
      BY <1>0, <2>1, <2>3, <2>4
  <1>3. ASSUME NEW r \in Replicas, NEW id \in Ids, NEW final \in TerminalStates, EndStep(r, id, final)
        PROVE  Goal
    <2>1. /\ slot'[id].ct = 0 /\ bytes' = bytes - slot[id].ct
          /\ \A i \in Ids : i # id => slot'[i].ct = slot[i].ct
      BY <1>3, EndEffect DEF EndStep
    <2>2. IsFiniteSet(HeldBytes') /\ heldNext = held - slot[id].ct + 0
      BY <2>1, HeldMoves
    <2> QED
      BY <1>0, <2>1, <2>2
  <1>4. ASSUME NEW r \in Replicas, NEW id \in Ids, RemoveStep(r, id)
        PROVE  Goal
    <2>1. \A i \in Ids : i # id => slot'[i].ct = slot[i].ct
      BY <1>4, RemoveEffect
    <2>2. ~Live(id) => slot[id].ct = 0
      BY DEF SlotInv, SlotOK
    <2>3. slot'[id].ct = 0 /\ bytes' = bytes - slot[id].ct
      BY <1>0, <1>4, <2>2, RemoveEffect DEF NoSlot
    <2>4. IsFiniteSet(HeldBytes') /\ heldNext = held - slot[id].ct + 0
      BY <2>1, <2>3, HeldMoves
    <2> QED
      BY <1>0, <2>3, <2>4
  <1>5. ASSUME NEW id \in Ids, KeyGone(id)
        PROVE  Goal
    <2>1. /\ slot'[id].ct = 0 /\ bytes' = bytes
          /\ \A i \in Ids : i # id => slot'[i].ct = slot[i].ct
      BY <1>5, KeyGoneEffect DEF NoSlot
    <2>2. IsFiniteSet(HeldBytes') /\ heldNext = held - slot[id].ct + 0
      BY <2>1, HeldMoves
    <2>3. LostStep \/ slot[id].ct = 0
      BY <1>5 DEF LostStep, SlotInv, SlotOK
    <2> QED
      BY <1>0, <2>1, <2>2, <2>3
  <1>6. CASE (\E id \in Ids : UnlistStep(id)) \/ QuietStep
    <2>1. HeldBytes' = HeldBytes /\ bytes' = bytes
      BY <1>6 DEF UnlistStep, QuietStep, slotVars, HeldBytes
    <2> QED
      BY <1>0, <2>1
  <1>7. Goal
    BY <1>1, <1>2, <1>3, <1>4, <1>5, <1>6, StepCases, Zenon
  <1> QED
    BY <1>0, <1>7

\* The counter bytes is never below the ciphertext held.
BytesCovered ==
    /\ IsFiniteSet(HeldBytes)
    /\ Cardinality(HeldBytes) <= bytes
    /\ MaxBytes > 0 => bytes <= MaxBytes

\* At first nothing is held.
LEMMA NothingHeld ==
    ASSUME Init
    PROVE  HeldBytes = {} /\ IsFiniteSet(HeldBytes) /\ Cardinality(HeldBytes) = 0
  <1>1. HeldBytes = {}
    BY DEF Init, NoSlot, HeldBytes
  <1> QED
    BY <1>1, FS_EmptySet

\* The limit on stored ciphertext holds with any clocks and through any outage.
THEOREM BytesAreBounded == Spec => []BytesCovered
  <1>1. Init => BytesCovered
    BY NothingHeld, LimitsAssumption DEF Init, BytesCovered
  <1>2. TypeOK /\ SlotInv /\ BytesCovered /\ [Next]_vars => BytesCovered'
    <2> SUFFICES ASSUME TypeOK, SlotInv, BytesCovered, [Next]_vars PROVE BytesCovered'
      OBVIOUS
    <2>1. bytes \in Int /\ bytes' \in Int
      BY TypeStep DEF TypeOK
    <2> QED
      BY <2>1, BytesMove, LimitsAssumption DEF BytesCovered
  <1> QED
    BY <1>1, <1>2, SlotsCorrect, PTL DEF Spec

\* Without an outage the counter bytes is exactly the ciphertext held over all
\* slots and never exceeds MaxBytes.
THEOREM BytesAreCounted ==
    ASSUME NoOutage
    PROVE  Spec => []BytesCounted
  <1>1. Init => BytesCounted
    BY NothingHeld, LimitsAssumption DEF Init, BytesCounted
  <1>2. TypeOK /\ SlotInv /\ KeyInTime /\ BytesCovered /\ BytesCounted /\ [Next]_vars => BytesCounted'
    <2> SUFFICES ASSUME TypeOK, SlotInv, KeyInTime, BytesCovered, BytesCounted, [Next]_vars
                 PROVE  BytesCounted'
      OBVIOUS
    <2>1. bytes \in Int /\ bytes' \in Int
      BY TypeStep DEF TypeOK
    <2>2. IsFiniteSet(HeldBytes)
      BY DEF BytesCovered
    <2> QED
      BY <2>1, <2>2, BytesMove, NoneLost, LimitsAssumption DEF BytesCounted
  <1> QED
    BY <1>1, <1>2, KeysInTime, BytesAreBounded, PTL DEF Spec

----------------------------------------------------------------------------
(* The store implements the slot contract, when the clocks are in step and *)
(* there is no outage.                                                     *)

ClocksInStep == \A r \in Replicas : Offset[r] = 0

\* A key runs out when its slot's grace is over, and what a sweep is about to
\* remove is past that, on the sweep's clock.
RemovalOK(r) ==
    LET s == sweep[r] IN
    /\ s.pc # "idle" => s.at <= Now(r)
    /\ s.pc = "run" /\ s.set = "removal" =>
          \A id \in s.ids : slot[id].state # "fresh" /\ (Present(id) => removal[id] <= s.at)

GraceInv ==
    /\ \A id \in Ids : Present(id) => goneAt[id] = removal[id]
    /\ \A r \in Replicas : RemovalOK(r)

\* An identifier that was drawn never becomes fresh again, a slot that is there
\* was there before, at the same place in the set removal, and time goes on.
LEMMA Onward ==
    ASSUME TypeOK, [Next]_vars
    PROVE  /\ clock' >= clock
           /\ \A i \in Ids : slot[i].state # "fresh" =>
                 /\ slot'[i].state # "fresh"
                 /\ Present(i)' => Present(i) /\ removal'[i] = removal[i]
  <1> USE DEF Present, UnknownStates
  <1> DEFINE Goal == /\ clock' >= clock
                     /\ \A i \in Ids : slot[i].state # "fresh" =>
                           /\ slot'[i].state # "fresh"
                           /\ Present(i)' => Present(i) /\ removal'[i] = removal[i]
  <1>0. clock \in Nat
    BY DEF TypeOK
  <1>1. ASSUME NEW r \in Replicas, NEW id \in Ids, NEW kind \in Kinds, NEW n \in Sizes \cup {0},
               NEW ttl \in TTLs, Create(r, id, kind, n, ttl)
        PROVE  Goal
    BY <1>0, <1>1, CreateEffect
  <1>2. ASSUME NEW r \in Replicas, NEW id \in Ids, NEW n \in Sizes, UploadStep(r, id, n)
        PROVE  Goal
    BY <1>0, <1>2, UploadEffect
  <1>3. ASSUME NEW r \in Replicas, NEW id \in Ids, NEW final \in TerminalStates, EndStep(r, id, final)
        PROVE  Goal
    BY <1>0, <1>3, EndEffect DEF EndStep, TerminalStates, Live, LiveStates
  <1>4. ASSUME NEW r \in Replicas, NEW id \in Ids, RemoveStep(r, id)
        PROVE  Goal
    BY <1>0, <1>4, RemoveEffect DEF NoSlot
  <1>5. ASSUME NEW id \in Ids, KeyGone(id)
        PROVE  Goal
    BY <1>0, <1>5, KeyGoneEffect DEF NoSlot
  <1>6. CASE (\E id \in Ids : UnlistStep(id)) \/ QuietStep
    BY <1>0, <1>6 DEF UnlistStep, QuietStep, slotVars, Tick
  <1> QED
    BY <1>1, <1>2, <1>3, <1>4, <1>5, <1>6, StepCases, Zenon

\* A sweep that is in the middle of a batch keeps what it knows.
LEMMA RemovalFrame ==
    ASSUME TypeOK, [Next]_vars, NEW r \in Replicas, RemovalOK(r),
           \/ sweep'[r] = sweep[r]
           \/ sweep[r].pc # "idle" /\ sweep'[r].pc # "run" /\ sweep'[r].at = sweep[r].at
           \/ sweep'[r].pc = "idle"
           \/ /\ sweep[r].pc = "run" /\ sweep'[r].set = sweep[r].set /\ sweep'[r].at = sweep[r].at
              /\ sweep'[r].ids \subseteq sweep[r].ids
    PROVE  RemovalOK(r)'
  <1>1. sweep[r] \in SweepState /\ Offset[r] \in Nat /\ clock \in Nat /\ clock' \in Nat
    BY TypeStep, NowType DEF TypeOK
  <1>2. sweep[r].pc # "idle" => sweep[r].at \in Nat
    BY <1>1, NextSetType
  <1>3. sweep[r].pc = "run" => sweep[r].ids \subseteq Ids
    BY <1>1, RunType
  <1>4. sweep[r].pc # "idle" => sweep[r].at <= Now(r)'
    BY <1>1, <1>2, Onward DEF RemovalOK, Now
  <1>5. sweep[r].pc = "run" /\ sweep[r].set = "removal" =>
           \A id \in sweep[r].ids : slot'[id].state # "fresh" /\ (Present(id)' => removal'[id] <= sweep[r].at)
    BY <1>3, Onward DEF RemovalOK
  <1>6. sweep'[r].pc # "idle" => sweep'[r].at <= Now(r)'
    BY <1>4
  <1>7. sweep'[r].pc = "run" /\ sweep'[r].set = "removal" =>
           \A id \in sweep'[r].ids : slot'[id].state # "fresh" /\ (Present(id)' => removal'[id] <= sweep'[r].at)
    BY <1>5
  <1> QED
    BY <1>6, <1>7 DEF RemovalOK

\* No step lets a sweep remove what is not past its grace.
LEMMA RemovalStep ==
    ASSUME TypeOK, SlotInv, [Next]_vars, NEW r \in Replicas, RemovalOK(r)
    PROVE  RemovalOK(r)'
  <1>0. sweep \in [Replicas -> SweepState] /\ sweep[r] \in SweepState
    BY DEF TypeOK
  <1>1. CASE SweepBegin(r)
    <2>1. sweep'[r] = Listing("expiry", Now(r), {}) /\ clock' = clock
      BY <1>0, <1>1 DEF SweepBegin
    <2>2. Now(r)' = Now(r) /\ Now(r) \in Nat
      BY <2>1, NowType DEF Now
    <2> QED
      BY <2>1, <2>2 DEF RemovalOK, Listing
  <1>2. CASE SweepList(r)
    <2>1. PICK ids \in SUBSET Ids, first \in SUBSET Ids :
             /\ Lists(sweep[r], ids, first)
             /\ sweep' = [sweep EXCEPT ![r] =
                IF ids = {} \/ first = sweep[r].last
                THEN NextSet(sweep[r])
                ELSE [pc |-> "run", set |-> sweep[r].set, at |-> sweep[r].at, last |-> first, ids |-> ids,
                      full |-> Cardinality(ids) = Batch]]
      BY <1>2 DEF SweepList
    <2>2. sweep[r].pc = "list" /\ UNCHANGED clock /\ UNCHANGED slotVars
      BY <1>2 DEF SweepList
    <2>3. CASE sweep'[r] = NextSet(sweep[r])
      BY <2>2, <2>3, RemovalFrame DEF NextSet, Listing, Idle
    <2>4. CASE sweep'[r] = [pc |-> "run", set |-> sweep[r].set, at |-> sweep[r].at, last |-> first, ids |-> ids,
                            full |-> Cardinality(ids) = Batch]
      <3>1. sweep[r].set = "removal" => \A id \in ids : removal[id] # Never /\ removal[id] <= sweep[r].at
        BY <2>1 DEF Lists, Score
      <3>2. \A id \in ids : removal[id] # Never => slot[id].state # "fresh"
        BY DEF SlotInv, SlotOK
      <3>3. sweep[r].at <= Now(r) /\ Now(r)' = Now(r)
        BY <2>2 DEF RemovalOK, Now
      <3>4. /\ sweep'[r].pc = "run" /\ sweep'[r].set = sweep[r].set /\ sweep'[r].at = sweep[r].at
            /\ sweep'[r].ids = ids
        BY <2>4
      <3> QED
        BY <2>2, <3>1, <3>2, <3>3, <3>4 DEF RemovalOK, slotVars
    <2> QED
      BY <1>0, <2>1, <2>3, <2>4
  <1>3. ASSUME NEW id \in Ids, SweepRun(r, id)
        PROVE  RemovalOK(r)'
    <2>1. sweep[r].pc = "run"
      BY <1>3 DEF SweepRun
    <2>2. sweep[r] \in [pc : {"run"}, set : {"expiry", "removal"}, at : Nat, last : SUBSET Ids,
                        ids : SUBSET Ids, full : BOOLEAN]
      BY <1>0, <2>1, RunType
    <2>3. sweep'[r] = IF sweep[r].ids \ {id} # {} THEN [sweep[r] EXCEPT !.ids = sweep[r].ids \ {id}]
                      ELSE IF sweep[r].full THEN Listing(sweep[r].set, sweep[r].at, sweep[r].last)
                      ELSE NextSet(sweep[r])
      BY <1>0, <1>3 DEF SweepRun
    <2>4. CASE sweep'[r] = [sweep[r] EXCEPT !.ids = sweep[r].ids \ {id}]
      <3>1. /\ sweep'[r].set = sweep[r].set /\ sweep'[r].at = sweep[r].at
            /\ sweep'[r].ids \subseteq sweep[r].ids
        BY <2>2, <2>4
      <3> QED
        BY <2>1, <3>1, RemovalFrame
    <2>5. CASE sweep'[r] \in {Listing(sweep[r].set, sweep[r].at, sweep[r].last), NextSet(sweep[r])}
      BY <2>1, <2>5, RemovalFrame DEF NextSet, Listing, Idle
    <2> QED
      BY <2>3, <2>4, <2>5
  <1>4. CASE SweepError(r) \/ Crash(r)
    <2>1. sweep[r].pc # "idle" /\ sweep'[r] \in {NextSet(sweep[r]), Idle}
      BY <1>0, <1>4 DEF SweepError, Crash
    <2> QED
      BY <2>1, RemovalFrame DEF NextSet, Listing, Idle
  <1>5. ASSUME NEW q \in Replicas, q # r,
               \/ SweepBegin(q) \/ SweepList(q) \/ SweepError(q) \/ Crash(q)
               \/ \E id \in Ids : SweepRun(q, id)
        PROVE  RemovalOK(r)'
    <2>1. sweep'[r] = sweep[r]
      BY <1>0, <1>5 DEF SweepBegin, SweepList, SweepError, Crash, SweepRun
    <2> QED
      BY <2>1, RemovalFrame
  <1>6. ASSUME NEW q \in Replicas, NEW id \in Ids, SlotCall(q, id)
        PROVE  RemovalOK(r)'
    <2>1. sweep' = sweep
      BY <1>6 DEF SlotCall, Create, Upload, Fetch, Open, Revoke, Status, Untouched
    <2> QED
      BY <2>1, RemovalFrame
  <1>7. CASE (\E id \in Ids : KeyGone(id)) \/ Tick \/ UNCHANGED vars
    <2>1. sweep' = sweep
      BY <1>7 DEF KeyGone, Tick, vars
    <2> QED
      BY <2>1, RemovalFrame
  <1> QED
    BY <1>1, <1>2, <1>3, <1>4, <1>5, <1>6, <1>7 DEF Next, SweepStep

\* With clocks in step, keys and sweeps both go by the grace of the slot.
LEMMA GraceStep ==
    ASSUME ClocksInStep, TypeOK, SlotInv, GraceInv, [Next]_vars
    PROVE  GraceInv'
  <1>1. ASSUME NEW r \in Replicas PROVE RemovalOK(r)'
    BY RemovalStep DEF GraceInv
  <1>2. ASSUME NEW i \in Ids, Present(i)' PROVE goneAt'[i] = removal'[i]
    <2> USE DEF Present, UnknownStates
    <2>0. Present(i) => goneAt[i] = removal[i]
      BY DEF GraceInv
    <2>1. ASSUME NEW r \in Replicas, NEW id \in Ids, NEW kind \in Kinds, NEW n \in Sizes \cup {0},
                 NEW ttl \in TTLs, Create(r, id, kind, n, ttl)
          PROVE  goneAt'[i] = removal'[i]
      <3>1. Now(r) = clock
        BY DEF ClocksInStep, Now, TypeOK
      <3> QED
        BY <1>2, <2>0, <2>1, <3>1, CreateEffect
    <2>2. ASSUME NEW r \in Replicas, NEW id \in Ids, NEW n \in Sizes, UploadStep(r, id, n)
          PROVE  goneAt'[i] = removal'[i]
      BY <1>2, <2>0, <2>2, UploadEffect
    <2>3. ASSUME NEW r \in Replicas, NEW id \in Ids, NEW final \in TerminalStates, EndStep(r, id, final)
          PROVE  goneAt'[i] = removal'[i]
      BY <1>2, <2>0, <2>3, EndEffect DEF EndStep, Live, LiveStates
    <2>4. ASSUME NEW r \in Replicas, NEW id \in Ids, RemoveStep(r, id)
          PROVE  goneAt'[i] = removal'[i]
      BY <1>2, <2>0, <2>4, RemoveEffect DEF NoSlot
    <2>5. ASSUME NEW id \in Ids, KeyGone(id)
          PROVE  goneAt'[i] = removal'[i]
      BY <1>2, <2>0, <2>5, KeyGoneEffect DEF NoSlot
    <2>6. CASE (\E id \in Ids : UnlistStep(id)) \/ QuietStep
      BY <1>2, <2>0, <2>6 DEF UnlistStep, QuietStep, slotVars
    <2> QED
      BY <2>1, <2>2, <2>3, <2>4, <2>5, <2>6, StepCases
  <1> QED
    BY <1>1, <1>2 DEF GraceInv

\* What the contract sees of the slots.
Seen == [id \in Ids |-> [kind |-> slot[id].kind, state |-> slot[id].state,
                         held |-> slot[id].ct, expires |-> slot[id].expires]]

\* Deleting a tombstone whose grace is over, by whichever means, is Forget.
LEMMA ForgetRefines ==
    ASSUME TypeOK, NEW id \in Ids, slot[id].state \in TerminalStates, clock >= slot[id].expires + Grace,
           slot'[id] = NoSlot("forgotten"), \A i \in Ids : i # id => slot'[i] = slot[i],
           UNCHANGED <<clock, delivered>>
    PROVE  Contract!Forget(id)
  <1>1. /\ slot'[id].kind = "drop" /\ slot'[id].state = "forgotten"
        /\ slot'[id].ct = 0 /\ slot'[id].expires = 0
    BY DEF NoSlot
  <1>2. \A i \in Ids : Seen'[i] = IF i = id THEN Contract!Unknown("forgotten") ELSE Seen[i]
    BY <1>1 DEF Seen, Contract!Unknown
  <1>3. Seen' = [Seen EXCEPT ![id] = Contract!Unknown("forgotten")]
    BY <1>2 DEF Seen
  <1>4. /\ Seen[id].state = slot[id].state /\ Seen[id].expires = slot[id].expires
        /\ Seen[id].state \in Contract!TerminalStates
    BY DEF Seen, TerminalStates, Contract!TerminalStates
  <1> QED
    BY <1>3, <1>4 DEF Seen, Contract!Forget

\* Every step of the relays and of Redis is a step of the contract, or changes
\* nothing the contract sees.
LEMMA StepRefines ==
    ASSUME ClocksInStep, TypeOK, SlotInv, KeyInTime, GraceInv, [Next]_vars
    PROVE  [Contract!Next]_(Contract!vars)
  <1> USE DEF Contract!vars
  <1>0. \A r \in Replicas : Now(r) = clock
    BY DEF ClocksInStep, Now, TypeOK
  <1>1. ASSUME NEW r \in Replicas, NEW id \in Ids, NEW kind \in Kinds, NEW n \in Sizes \cup {0},
               NEW ttl \in TTLs, Create(r, id, kind, n, ttl)
        PROVE  Contract!Next
    <2>1. Contract!Create(id, kind, n, ttl)
      BY <1>0, <1>1 DEF Create, Contract!Create, TypeOK
    <2> QED
      BY <2>1 DEF Contract!Next, Kinds, Contract!Kinds
  <1>2. ASSUME NEW r \in Replicas, NEW id \in Ids, NEW n \in Sizes, UploadStep(r, id, n)
        PROVE  Contract!Next
    <2>1. Contract!Upload(id, n)
      BY <1>0, <1>2 DEF UploadStep, Contract!Upload, Contract!Due, Due, Live, LiveStates, TypeOK
    <2> QED
      BY <2>1 DEF Contract!Next
  <1>3. ASSUME NEW r \in Replicas, NEW id \in Ids, NEW final \in TerminalStates, EndStep(r, id, final)
        PROVE  Contract!Next
    <2>1. /\ slot'[id].state = final /\ slot'[id].ct = 0
          /\ slot'[id].kind = slot[id].kind /\ slot'[id].expires = slot[id].expires
          /\ \A i \in Ids : i # id => slot'[i] = slot[i]
      BY <1>3, EndEffect DEF EndStep
    <2>2. Seen' = [Seen EXCEPT ![id].state = final, ![id].held = 0]
      BY <2>1 DEF Seen
    <2>3. Live(id) /\ Seen[id].state = slot[id].state /\ Seen[id].kind = slot[id].kind
          /\ Seen[id].expires = slot[id].expires /\ UNCHANGED clock
          /\ (Due(r, id) <=> clock >= slot[id].expires)
      BY <1>0, <1>3 DEF EndStep, Seen, Due
    <2>4. CASE final \in {"fetched", "opened"}
      <3>1. Contract!Take(id, final)
        BY <1>3, <2>2, <2>3, <2>4
        DEF EndStep, Seen, Contract!Take, Contract!Due, Contract!Live, Contract!LiveStates, Live, LiveStates
      <3> QED
        BY <2>4, <3>1 DEF Contract!Next
    <2>5. CASE final = "revoked"
      <3>1. Contract!Revoke(id)
        BY <1>3, <2>2, <2>3, <2>5
        DEF EndStep, Seen, Contract!Revoke, Contract!Due, Contract!Live, Contract!LiveStates, Live, LiveStates
      <3> QED
        BY <3>1 DEF Contract!Next
    <2>6. CASE final = "expired"
      <3>1. Contract!Expire(id)
        BY <1>3, <2>2, <2>3, <2>6
        DEF EndStep, Seen, Contract!Expire, Contract!Due, Contract!Live, Contract!LiveStates, Live, LiveStates
      <3> QED
        BY <3>1 DEF Contract!Next
    <2> QED
      BY <2>4, <2>5, <2>6 DEF TerminalStates
  <1>4. ASSUME NEW id \in Ids, Present(id), clock >= removal[id],
               slot'[id] = NoSlot("forgotten"), \A i \in Ids : i # id => slot'[i] = slot[i],
               UNCHANGED <<clock, delivered>>
        PROVE  Contract!Next
    <2>1. removal[id] = slot[id].expires + Grace /\ removal[id] = goneAt[id]
      BY <1>4 DEF SlotInv, SlotOK, GraceInv
    <2>2. ~Live(id)
      <3>1. clock \in Nat /\ slot[id].expires + Grace \in Nat
        BY TimesAssumption DEF TypeOK
      <3> QED
        BY <1>4, <2>1, <3>1 DEF KeyInTime
    <2>3. slot[id].state \in TerminalStates
      BY <1>4, <2>2 DEF Present, Live, TypeOK
    <2>4. Contract!Forget(id)
      BY <1>4, <2>1, <2>3, ForgetRefines
    <2> QED
      BY <2>4 DEF Contract!Next
  <1>5. ASSUME NEW r \in Replicas, NEW id \in Ids, RemoveStep(r, id)
        PROVE  [Contract!Next]_(Contract!vars)
    <2>1. CASE ~Present(id)
      BY <1>5, <2>1, RemoveEffect
    <2>2. CASE Present(id)
      <3>1. removal[id] <= sweep[r].at /\ sweep[r].at <= clock
        BY <1>0, <1>5, <2>2 DEF RemoveStep, GraceInv, RemovalOK
      <3>2. clock \in Nat /\ removal[id] \in Int /\ sweep[r].at \in Nat
        BY <1>5, NextSetType DEF RemoveStep, TypeOK, Never
      <3> QED
        BY <1>4, <1>5, <2>2, <3>1, <3>2, RemoveEffect
    <2> QED
      BY <2>1, <2>2
  <1>6. ASSUME NEW id \in Ids, KeyGone(id)
        PROVE  Contract!Next
    <2>1. Present(id) /\ goneAt[id] = removal[id]
      BY <1>6, KeyGoneEffect DEF SlotInv, SlotOK, GraceInv
    <2>2. clock >= removal[id]
      BY <1>6, <2>1, KeyGoneEffect DEF TypeOK, Never
    <2> QED
      BY <1>4, <1>6, <2>1, <2>2, KeyGoneEffect
  <1>7. CASE (\E id \in Ids : UnlistStep(id)) \/ QuietStep
    BY <1>7 DEF UnlistStep, QuietStep, slotVars, Tick, Contract!Next, Contract!Advance
  <1> QED
    BY <1>1, <1>2, <1>3, <1>5, <1>6, <1>7, StepCases

\* With clocks in step and without an outage, any number of relays on one Redis
\* implement store.go's contract, sweeps that were listed long ago and Redis's
\* own key expiry included.
THEOREM ImplementsContract ==
    ASSUME NoOutage, ClocksInStep
    PROVE  Spec => SlotContract
  <1>1. Init => Contract!Init
    BY DEF Init, NoSlot, Contract!Init, Contract!Unknown
  <1>2. Init => GraceInv
    BY DEF Init, GraceInv, RemovalOK, NoSlot, Present, UnknownStates, Idle
  <1>3. TypeOK /\ SlotInv /\ GraceInv /\ [Next]_vars => GraceInv'
    BY GraceStep
  <1>4. TypeOK /\ SlotInv /\ KeyInTime /\ GraceInv /\ [Next]_vars => [Contract!Next]_(Contract!vars)
    BY StepRefines
  <1> QED
    BY <1>1, <1>2, <1>3, <1>4, KeysInTime, PTL DEF Spec, SlotContract, Contract!Spec

----------------------------------------------------------------------------
(* Whatever the clocks say and however long the relays are away, the store *)
(* implements the contract of replicated relays.                           *)

\* A key runs out when the grace of its slot is over on the furthest clock, or
\* later.
AheadInv ==
    /\ \A id \in Ids : Present(id) => removal[id] <= goneAt[id] + Ahead
    /\ \A r \in Replicas : RemovalOK(r)

\* No replica's clock is further ahead than Ahead.
LEMMA NowAhead ==
    ASSUME TypeOK, NEW r \in Replicas
    PROVE  /\ clock \in Nat /\ Ahead \in Nat /\ Offset[r] \in 0..Ahead
           /\ Now(r) = clock + Offset[r] /\ Now(r) \in Nat
           /\ clock <= Now(r) /\ Now(r) <= clock + Ahead
  BY TimesAssumption DEF TypeOK, Now

LEMMA AheadStep ==
    ASSUME TypeOK, SlotInv, AheadInv, [Next]_vars
    PROVE  AheadInv'
  <1>1. ASSUME NEW r \in Replicas PROVE RemovalOK(r)'
    BY RemovalStep DEF AheadInv
  <1>2. ASSUME NEW i \in Ids, Present(i)' PROVE removal'[i] <= goneAt'[i] + Ahead
    <2> USE DEF Present, UnknownStates
    <2>0. Present(i) => removal[i] <= goneAt[i] + Ahead
      BY DEF AheadInv
    <2>1. ASSUME NEW r \in Replicas, NEW id \in Ids, NEW kind \in Kinds, NEW n \in Sizes \cup {0},
                 NEW ttl \in TTLs, Create(r, id, kind, n, ttl)
          PROVE  removal'[i] <= goneAt'[i] + Ahead
      <3>1. ttl \in Nat /\ Grace \in Nat
        BY TimesAssumption
      <3>2. CASE i = id
        <4>1. removal'[i] = Now(r) + ttl + Grace /\ goneAt'[i] = clock + ttl + Grace
          BY <2>1, <3>2, CreateEffect
        <4> QED
          BY <3>1, <4>1, NowAhead
      <3>3. CASE i # id
        BY <1>2, <2>0, <2>1, <3>3, CreateEffect
      <3> QED
        BY <3>2, <3>3
    <2>2. ASSUME NEW r \in Replicas, NEW id \in Ids, NEW n \in Sizes, UploadStep(r, id, n)
          PROVE  removal'[i] <= goneAt'[i] + Ahead
      BY <1>2, <2>0, <2>2, UploadEffect
    <2>3. ASSUME NEW r \in Replicas, NEW id \in Ids, NEW final \in TerminalStates, EndStep(r, id, final)
          PROVE  removal'[i] <= goneAt'[i] + Ahead
      BY <1>2, <2>0, <2>3, EndEffect DEF EndStep, Live, LiveStates
    <2>4. ASSUME NEW r \in Replicas, NEW id \in Ids, RemoveStep(r, id)
          PROVE  removal'[i] <= goneAt'[i] + Ahead
      BY <1>2, <2>0, <2>4, RemoveEffect DEF NoSlot
    <2>5. ASSUME NEW id \in Ids, KeyGone(id)
          PROVE  removal'[i] <= goneAt'[i] + Ahead
      BY <1>2, <2>0, <2>5, KeyGoneEffect DEF NoSlot
    <2>6. CASE (\E id \in Ids : UnlistStep(id)) \/ QuietStep
      BY <1>2, <2>0, <2>6 DEF UnlistStep, QuietStep, slotVars
    <2> QED
      BY <2>1, <2>2, <2>3, <2>4, <2>5, <2>6, StepCases
  <1> QED
    BY <1>1, <1>2 DEF AheadInv

\* Deleting a slot whose grace is over on the furthest clock is ForgetAhead.
LEMMA ForgetAheadRefines ==
    ASSUME TypeOK, NEW id \in Ids, Present(id), clock + Ahead >= slot[id].expires + Grace,
           slot'[id] = NoSlot("forgotten"), \A i \in Ids : i # id => slot'[i] = slot[i],
           UNCHANGED <<clock, delivered>>
    PROVE  Contract!ForgetAhead(id)
  <1>1. /\ slot'[id].kind = "drop" /\ slot'[id].state = "forgotten"
        /\ slot'[id].ct = 0 /\ slot'[id].expires = 0
    BY DEF NoSlot
  <1>2. \A i \in Ids : Seen'[i] = IF i = id THEN Contract!Unknown("forgotten") ELSE Seen[i]
    BY <1>1 DEF Seen, Contract!Unknown
  <1>3. Seen' = [Seen EXCEPT ![id] = Contract!Unknown("forgotten")]
    BY <1>2 DEF Seen
  <1>4. /\ Seen[id].state = slot[id].state /\ Seen[id].expires = slot[id].expires
        /\ Seen[id].state \in Contract!LiveStates \cup Contract!TerminalStates
    BY DEF Seen, Present, UnknownStates, TypeOK, LiveStates, TerminalStates,
           Contract!LiveStates, Contract!TerminalStates
  <1> QED
    BY <1>3, <1>4 DEF Seen, Contract!ForgetAhead

LEMMA StepRefinesAhead ==
    ASSUME TypeOK, SlotInv, AheadInv, [Next]_vars
    PROVE  [Contract!ReplicatedNext]_(Contract!vars)
  <1> USE DEF Contract!vars
  <1>1. ASSUME NEW r \in Replicas, NEW id \in Ids, NEW kind \in Kinds, NEW n \in Sizes \cup {0},
               NEW ttl \in TTLs, Create(r, id, kind, n, ttl)
        PROVE  Contract!ReplicatedNext
    <2>1. Now(r) = clock + Offset[r] /\ Offset[r] \in 0..Ahead
      BY NowAhead
    <2>2. Contract!CreateAhead(id, kind, n, ttl, Offset[r])
      BY <1>1, <2>1 DEF Create, Contract!CreateAhead, TypeOK
    <2> QED
      BY <2>1, <2>2 DEF Contract!ReplicatedNext, Kinds, Contract!Kinds
  <1>2. ASSUME NEW r \in Replicas, NEW id \in Ids, NEW n \in Sizes, UploadStep(r, id, n)
        PROVE  Contract!ReplicatedNext
    <2>1. slot[id].expires \in Nat
      BY DEF TypeOK
    <2>2. ~(clock >= slot[id].expires)
      BY <1>2, <2>1, NowAhead DEF UploadStep, Due, Live, LiveStates
    <2>3. Contract!Upload(id, n)
      BY <1>2, <2>2 DEF UploadStep, Contract!Upload, Contract!Due, TypeOK
    <2> QED
      BY <2>3 DEF Contract!ReplicatedNext
  <1>3. ASSUME NEW r \in Replicas, NEW id \in Ids, NEW final \in TerminalStates, EndStep(r, id, final)
        PROVE  Contract!ReplicatedNext
    <2>1. /\ slot'[id].state = final /\ slot'[id].ct = 0
          /\ slot'[id].kind = slot[id].kind /\ slot'[id].expires = slot[id].expires
          /\ \A i \in Ids : i # id => slot'[i] = slot[i]
      BY <1>3, EndEffect DEF EndStep
    <2>2. Seen' = [Seen EXCEPT ![id].state = final, ![id].held = 0]
      BY <2>1 DEF Seen
    <2>a. slot[id].expires \in Nat /\ Live(id)
      BY <1>3 DEF TypeOK, EndStep
    <2>3. /\ Seen[id].state = slot[id].state /\ Seen[id].kind = slot[id].kind
          /\ Seen[id].expires = slot[id].expires /\ UNCHANGED clock
          /\ (~Due(r, id) => ~(clock >= slot[id].expires))
          /\ (Due(r, id) => clock + Ahead >= slot[id].expires)
      <3>1. Seen[id].state = slot[id].state /\ Seen[id].kind = slot[id].kind
            /\ Seen[id].expires = slot[id].expires /\ UNCHANGED clock
        BY <1>3 DEF EndStep, Seen
      <3>2. (~Due(r, id) => ~(clock >= slot[id].expires))
            /\ (Due(r, id) => clock + Ahead >= slot[id].expires)
        BY <2>a, NowAhead DEF Due
      <3> QED
        BY <3>1, <3>2
    <2>4. CASE final \in {"fetched", "opened"}
      <3>1. Contract!Take(id, final)
        BY <1>3, <2>2, <2>3, <2>4
        DEF EndStep, Seen, Contract!Take, Contract!Due, Contract!Live, Contract!LiveStates, Live, LiveStates
      <3> QED
        BY <2>4, <3>1 DEF Contract!ReplicatedNext
    <2>5. CASE final = "revoked"
      <3>1. Contract!Revoke(id)
        BY <1>3, <2>2, <2>3, <2>5
        DEF EndStep, Seen, Contract!Revoke, Contract!Due, Contract!Live, Contract!LiveStates, Live, LiveStates
      <3> QED
        BY <3>1 DEF Contract!ReplicatedNext
    <2>6. CASE final = "expired"
      <3>1. Contract!ExpireAhead(id)
        BY <1>3, <2>2, <2>3, <2>6
        DEF EndStep, Seen, Contract!ExpireAhead, Contract!Live, Contract!LiveStates, Live, LiveStates
      <3> QED
        BY <3>1 DEF Contract!ReplicatedNext
    <2> QED
      BY <2>4, <2>5, <2>6 DEF TerminalStates
  <1>4. ASSUME NEW r \in Replicas, NEW id \in Ids, RemoveStep(r, id)
        PROVE  [Contract!ReplicatedNext]_(Contract!vars)
    <2>1. CASE ~Present(id)
      BY <1>4, <2>1, RemoveEffect
    <2>2. CASE Present(id)
      <3>1. removal[id] <= sweep[r].at /\ sweep[r].at <= Now(r)
        BY <1>4, <2>2 DEF RemoveStep, AheadInv, RemovalOK
      <3>2. removal[id] \in Int /\ sweep[r].at \in Nat /\ removal[id] = slot[id].expires + Grace
        BY <1>4, <2>2, NextSetType DEF RemoveStep, TypeOK, Never, SlotInv, SlotOK
      <3>3. clock + Ahead >= slot[id].expires + Grace
        BY <3>1, <3>2, NowAhead
      <3>4. Contract!ForgetAhead(id)
        BY <1>4, <2>2, <3>3, RemoveEffect, ForgetAheadRefines
      <3> QED
        BY <3>4 DEF Contract!ReplicatedNext
    <2> QED
      BY <2>1, <2>2
  <1>5. ASSUME NEW id \in Ids, KeyGone(id)
        PROVE  Contract!ReplicatedNext
    <2>1. /\ Present(id) /\ removal[id] <= goneAt[id] + Ahead
          /\ removal[id] = slot[id].expires + Grace
      BY <1>5, KeyGoneEffect DEF SlotInv, SlotOK, AheadInv
    <2>2. goneAt[id] <= clock
      BY <1>5 DEF KeyGone
    <2>3. clock \in Nat /\ Ahead \in Nat /\ goneAt[id] \in Int /\ removal[id] \in Int
      BY TimesAssumption DEF TypeOK, Never
    <2>4. clock + Ahead >= slot[id].expires + Grace
      BY <2>1, <2>2, <2>3
    <2>5. Contract!ForgetAhead(id)
      BY <1>5, <2>1, <2>4, KeyGoneEffect, ForgetAheadRefines
    <2> QED
      BY <2>5 DEF Contract!ReplicatedNext
  <1>6. CASE (\E id \in Ids : UnlistStep(id)) \/ QuietStep
    BY <1>6 DEF UnlistStep, QuietStep, slotVars, Tick, Contract!ReplicatedNext, Contract!Advance
  <1> QED
    BY <1>1, <1>2, <1>3, <1>4, <1>5, <1>6, StepCases

\* Any number of relays on one Redis keep what is left of store.go's contract
\* when their clocks differ, through outages, failed sweeps and Redis's own key
\* expiry: slots only go forward, are read once, and never after their expiry.
THEOREM ReplicasImplementContract == Spec => ReplicaContract
  <1>1. Init => Contract!Init
    BY DEF Init, NoSlot, Contract!Init, Contract!Unknown
  <1>2. Init => AheadInv
    BY DEF Init, AheadInv, RemovalOK, NoSlot, Present, UnknownStates, Idle
  <1>3. TypeOK /\ SlotInv /\ AheadInv /\ [Next]_vars => AheadInv'
    BY AheadStep
  <1>4. TypeOK /\ SlotInv /\ AheadInv /\ [Next]_vars => [Contract!ReplicatedNext]_(Contract!vars)
    BY StepRefinesAhead
  <1> QED
    BY <1>1, <1>2, <1>3, <1>4, SlotsCorrect, PTL DEF Spec, ReplicaContract, Contract!ReplicatedSpec
=============================================================================
