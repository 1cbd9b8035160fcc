-------------------------- MODULE AgentFlow_proofs --------------------------
(***************************************************************************)
(* Proofs about AgentFlow, for any slots, names and operations in flight.  *)
(* IInv is inductive.  The argument goes through what a step may do to a   *)
(* slot and to a record (SlotMoves, RecordMoves): facts that an operation  *)
(* relies on stay true whatever the others do in between.                  *)
(***************************************************************************)
EXTENDS AgentFlow, TLAPS

IInv == TypeOK /\ SlotFacts /\ OperationFacts /\ AnswersTrue /\ RecordKept /\ NoSilentLoss

\* An end is final, a forgotten slot stays forgotten, a slot that exists stays
\* the one it is, a submission is not taken back; a new slot has a name, and what
\* is uploaded a content.
Moves(id) ==
    /\ slot[id].state \in TerminalStates =>
          /\ slot'[id].state = slot[id].state
          /\ slot'[id].by = slot[id].by
          /\ slot'[id].sent = slot[id].sent
    /\ slot[id].state # "fresh" =>
          /\ slot'[id].state # "fresh"
          /\ ~slot[id].known => ~slot'[id].known
          /\ slot[id].state # "created" => slot'[id].state # "created"
          /\ about'[id] = about[id]
    /\ slot[id].state = "fresh" /\ slot'[id].state # "fresh" => about'[id].name \in Names
    /\ slot'[id].state = "uploaded" =>
          slot'[id].sent # "nothing" \/ (slot[id].state = "uploaded" /\ slot'[id].sent = slot[id].sent)

\* Time does not run back, what was stored and said stays so, records and links
\* are of slots that exist, and a record goes only when its link has no use and a
\* caller is told, or with its time.
RecordMoves ==
    /\ kept \subseteq kept'
    /\ over \subseteq over'
    /\ told \subseteq told'
    /\ \A id \in record : id \notin record' => id \in over \/ (~Live(id) /\ id \in told')
    /\ \A id \in record' \cup given' : id \in record \cup given \/ slot[id].state # "fresh"

----------------------------------------------------------------------------
\* Records stay of their type when fields are replaced.
LEMMA IdleTyped == Idle \in Call
BY FailuresAssumption DEF Idle, Call, Ops, PCs, Answers

LEMMA BegunTyped ==
  ASSUME NEW op \in Ops, NEW pc \in PCs, NEW id \in Ids, NEW name \in Names, NEW v \in Ids,
         NEW copy \in BOOLEAN
  PROVE  /\ [Idle EXCEPT !.op = op, !.pc = pc, !.id = id] \in Call
         /\ [Idle EXCEPT !.op = op, !.pc = pc, !.name = name] \in Call
         /\ [Idle EXCEPT !.op = op, !.pc = pc, !.name = name, !.value = v, !.copy = copy] \in Call
BY IdleTyped DEF Call

LEMMA SlotTyped ==
  ASSUME NEW s \in Slot, NEW state \in LiveStates \cup TerminalStates,
         NEW by \in {"agent", "other"}, NEW sent \in {"good", "bad"}
  PROVE  /\ RevokedSlot(s) \in Slot
         /\ [s EXCEPT !.state = state] \in Slot
         /\ [s EXCEPT !.state = state, !.by = by] \in Slot
         /\ [s EXCEPT !.state = state, !.sent = sent] \in Slot
         /\ [s EXCEPT !.known = FALSE] \in Slot
<1>1. \A t \in LiveStates \cup TerminalStates : [s EXCEPT !.state = t] \in Slot
  BY DEF Slot
<1>2. RevokedSlot(s) \in Slot
  BY <1>1 DEF RevokedSlot, TerminalStates
<1>3. [s EXCEPT !.state = state, !.by = by] \in Slot
  BY DEF Slot
<1>4. [s EXCEPT !.state = state, !.sent = sent] \in Slot
  BY DEF Slot
<1>5. [s EXCEPT !.known = FALSE] \in Slot
  BY DEF Slot
<1> QED BY <1>1, <1>2, <1>3, <1>4, <1>5

\* The types hold at first: the program starts with no operation, and the slots
\* of earlier runs are over.
LEMMA Initially == Init => IInv
<1> SUFFICES ASSUME Init PROVE IInv
  OBVIOUS
<1>1. /\ FreshSlot \in Slot /\ FreshSlot.state = "fresh"
      /\ EndedSlot \in Slot /\ EndedSlot.state = "fetched" /\ ~EndedSlot.known
  <2>1. NewSlot("drop") \in Slot
    BY DEF NewSlot, Slot, LiveStates
  <2> QED BY <2>1 DEF Slot, FreshSlot, EndedSlot, TerminalStates
<1>2. Earlier \subseteq Ids
  BY PastAssumption DEF Earlier
<1>3. NoAbout \in About
  BY DEF NoAbout, About
<1>4. \A id \in Earlier : EndedAbout(id) \in About /\ EndedAbout(id).name \in Names
  <2> SUFFICES ASSUME NEW id \in Earlier
               PROVE  EndedAbout(id) \in About /\ EndedAbout(id).name \in Names
    OBVIOUS
  <2> DEFINE name == CHOOSE n \in Names : Past[n] = id
  <2>1. name \in Names
    BY DEF Earlier
  <2> HIDE DEF name
  <2>2. EndedAbout(id) = [name |-> name, value |-> id, sendable |-> TRUE, copy |-> TRUE]
    BY DEF EndedAbout, name
  <2> QED BY <1>2, <2>1, <2>2 DEF About
<1>5. TypeOK
  <2>1. slot \in [Ids -> Slot]
    BY <1>1 DEF Init
  <2>2. about \in [Ids -> About]
    BY <1>3, <1>4 DEF Init
  <2>3. store \in [Names -> Ids \cup {None}]
    BY PastAssumption DEF Init
  <2> QED BY <1>2, <2>1, <2>2, <2>3, IdleTyped DEF Init, TypeOK
<1>6. SlotFacts /\ RecordKept /\ NoSilentLoss
  <2>1. SlotFacts
    BY <1>1, <1>2, <1>4 DEF Init, SlotFacts
  <2>2. RecordKept
    BY <1>1, <1>2 DEF Init, RecordKept, Live
  <2>3. NoSilentLoss
    BY DEF Init, NoSilentLoss
  <2> QED BY <2>1, <2>2, <2>3
<1>7. \A c \in Calls : call[c].pc = "idle"
  BY DEF Init, Idle
<1>8. OperationFacts /\ AnswersTrue
  BY <1>7 DEF OperationFacts, CallFacts, AnswersTrue, AnswerTrue, Says, At
<1> QED BY <1>5, <1>6, <1>8 DEF IInv

\* A step of the agent, of the human, of the relay or of time keeps the types.
LEMMA TypeStep == IInv /\ [Next]_vars => TypeOK'
<1> SUFFICES ASSUME IInv, [Next]_vars PROVE TypeOK'
  OBVIOUS
<1> USE NoneAssumption, FailuresAssumption
<1> USE DEF TypeOK, At, Return, Goto, Conclude, relayVars, storageVars, historyVars
<1>0. TypeOK /\ SlotFacts /\ OperationFacts
  BY DEF IInv
<1>i. Idle \in Call /\ NoAbout \in About /\ \A k \in {"drop", "reveal"} : NewSlot(k) \in Slot
  BY DEF Idle, Call, Ops, PCs, Answers, NoAbout, About, NewSlot, Slot, LiveStates
<1>1. ASSUME NEW c \in Calls, Begin(c) PROVE TypeOK'
  <2>1. ASSUME NEW id \in Ids, NEW name \in Names, NEW s \in BOOLEAN, NEW h \in BOOLEAN,
               RequestCreate(c, id, name, s, h) PROVE TypeOK'
    <3>1. [Idle EXCEPT !.op = "request", !.pc = "saving", !.id = id] \in Call
      BY <1>i DEF Call, Ops, PCs
    <3>2. call' \in [Calls -> Call]
      BY <1>0, <2>1, <3>1 DEF RequestCreate
    <3>3. about' \in [Ids -> About]
      BY <1>0, <2>1 DEF RequestCreate, About
    <3>4. slot' \in [Ids -> Slot]
      BY <1>0, <1>i, <2>1 DEF RequestCreate
    <3> QED BY <1>0, <2>1, <3>2, <3>3, <3>4 DEF RequestCreate
  <2>2. ASSUME NEW id \in Ids, FetchBegin(c, id) \/ RevokeBegin(c, id) PROVE TypeOK'
    <3>1. /\ [Idle EXCEPT !.op = "fetch", !.pc = "polling", !.id = id] \in Call
          /\ [Idle EXCEPT !.op = "revoke", !.pc = "revoking", !.id = id] \in Call
      BY <1>i DEF Call, Ops, PCs
    <3>2. call' \in [Calls -> Call]
      BY <1>0, <2>2, <3>1 DEF FetchBegin, RevokeBegin
    <3> QED BY <1>0, <2>2, <3>2 DEF FetchBegin, RevokeBegin
  <2>3. ASSUME NEW name \in Names, NEW b \in BOOLEAN, SendBegin(c, name, b) PROVE TypeOK'
    <3>1. store[name] \in Ids
      BY <1>0, <2>3 DEF SendBegin
    <3>2. "send" \in Ops /\ "sending" \in PCs
      BY DEF Ops, PCs
    <3>3. call' \in [Calls -> Call]
      BY <1>0, <2>3, <3>1, <3>2, BegunTyped DEF SendBegin
    <3> QED BY <1>0, <2>3, <3>1, <3>3 DEF SendBegin
  <2>4. ASSUME NEW name \in Names, NEW b \in BOOLEAN, DeleteSecret(c, name, b) PROVE TypeOK'
    BY <1>0, <1>i, <2>4 DEF DeleteSecret, Call, Ops, PCs
  <2> QED BY <1>1, <2>1, <2>2, <2>3, <2>4 DEF Begin
<1>2. ASSUME NEW c \in Calls, Step(c) PROVE TypeOK'
  <2> USE DEF Call, PCs
  <2>0. call[c] \in Call /\ CallFacts(c)
    BY <1>0 DEF OperationFacts
  <2>1. CASE Save(c)
    BY <1>0, <1>i, <2>0, <2>1 DEF Save, CallFacts
  <2>2. ASSUME NEW b \in BOOLEAN, SaveFails(c, b) PROVE TypeOK'
    BY <1>0, <2>0, <2>2 DEF SaveFails, CallFacts
  <2>3. CASE Undo(c)
    <3>1. slot' \in [Ids -> Slot]
      BY <1>0, <2>3, SlotTyped DEF Undo, TerminalStates
    <3> QED BY <1>0, <1>i, <2>3, <3>1 DEF Undo
  <2>4. CASE CallFails(c)
    BY <1>0, <1>i, <2>4 DEF CallFails
  <2>5. CASE Poll(c)
    BY <1>0, <1>i, <2>0, <2>5 DEF Poll, Answers
  <2>6. CASE PollFails(c) \/ PollDeadline(c)
    BY <1>0, <1>i, <2>0, <2>6 DEF PollFails, PollDeadline
  <2>7. ASSUME NEW b \in BOOLEAN, Take(c, b) PROVE TypeOK'
    <3>1. slot' \in [Ids -> Slot]
      BY <1>0, <2>7, SlotTyped DEF Take, TerminalStates
    <3>2. call' \in [Calls -> Call]
      <4>1. Return(c) \/ Goto(c, "storing") \/ Conclude(c, "rejected")
        BY <2>7 DEF Take
      <4> QED BY <1>0, <1>i, <2>0, <4>1 DEF Answers
    <3> QED BY <1>0, <2>7, <3>1, <3>2 DEF Take
  <2>8. CASE TakeGone(c)
    BY <1>0, <1>i, <2>0, <2>8 DEF TakeGone, Answers
  <2>9. CASE StoreValue(c)
    BY <1>0, <2>0, <2>9 DEF StoreValue, CallFacts
  <2>10. ASSUME NEW b \in BOOLEAN, StoreFails(c, b) PROVE TypeOK'
    BY <1>0, <1>i, <2>0, <2>10 DEF StoreFails, CallFacts
  <2>11. CASE Mask(c)
    <3>1. call[c].id \in Ids /\ about[call[c].id].name \in Names
      BY <1>0, <2>0, <2>11 DEF Mask, CallFacts, SlotFacts
    <3>2. call' \in [Calls -> Call]
      BY <1>0, <2>0, <2>11 DEF Mask, Answers
    <3> QED BY <1>0, <2>11, <3>1, <3>2 DEF Mask
  <2>12. ASSUME NEW b \in BOOLEAN, DropRecord(c, b) PROVE TypeOK'
    BY <1>0, <1>i, <2>0, <2>12 DEF DropRecord, CallFacts
  <2>13. ASSUME NEW b \in BOOLEAN, NEW id \in Ids, SendCreate(c, id, b) PROVE TypeOK'
    BY <1>0, <1>i, <2>0, <2>13 DEF SendCreate, About
  <2>14. ASSUME NEW b \in BOOLEAN, SendDelete(c, b) PROVE TypeOK'
    BY <1>0, <1>i, <2>0, <2>14 DEF SendDelete, CallFacts
  <2>15. ASSUME NEW b \in BOOLEAN, RevokeCall(c, b) PROVE TypeOK'
    <3>1. RevokeState(slot[call[c].id]) \in Answers
      BY <1>0, <2>0, <2>15 DEF RevokeCall, RevokeState, CallFacts, Slot, LiveStates, TerminalStates, Answers
    <3>2. slot' \in [Ids -> Slot]
      BY <1>0, <2>15, SlotTyped DEF RevokeCall, TerminalStates
    <3> QED BY <1>0, <1>i, <2>0, <2>15, <3>1, <3>2 DEF RevokeCall
  <2>16. CASE Unmask(c)
    BY <1>0, <1>i, <2>16 DEF Unmask
  <2> QED BY <1>2, <2>1, <2>2, <2>3, <2>4, <2>5, <2>6, <2>7, <2>8, <2>9, <2>10, <2>11, <2>12, <2>13,
             <2>14, <2>15, <2>16 DEF Step
<1>3. ASSUME NEW id \in Ids, World(id) PROVE TypeOK'
  <2>0. slot[id] \in Slot
    BY <1>0
  <2>1. CASE TimeUp(id) \/ Lapse(id)
    BY <1>0, <2>1 DEF TimeUp, Lapse
  <2>2. ASSUME NEW sent \in {"good", "bad"}, Submit(id, sent) PROVE TypeOK'
    <3>1. [slot[id] EXCEPT !.state = "uploaded", !.sent = sent] \in Slot
      BY <2>0, SlotTyped DEF LiveStates
    <3> QED BY <1>0, <2>2, <3>1 DEF Submit
  <2>3. CASE Open(id) \/ OtherFetch(id) \/ Expire(id) \/ Forget(id)
    <3>1. /\ [slot[id] EXCEPT !.state = "opened"] \in Slot
          /\ [slot[id] EXCEPT !.state = "expired"] \in Slot
          /\ [slot[id] EXCEPT !.state = "fetched", !.by = "other"] \in Slot
          /\ [slot[id] EXCEPT !.known = FALSE] \in Slot
      BY <2>0, SlotTyped DEF TerminalStates
    <3>2. slot' \in [Ids -> Slot]
      <4>1. CASE Open(id)
        BY <1>0, <3>1, <4>1 DEF Open
      <4>2. CASE OtherFetch(id)
        BY <1>0, <3>1, <4>2 DEF OtherFetch
      <4>3. CASE Expire(id)
        BY <1>0, <3>1, <4>3 DEF Expire
      <4>4. CASE Forget(id)
        BY <1>0, <3>1, <4>4 DEF Forget
      <4> QED BY <2>3, <4>1, <4>2, <4>3, <4>4
    <3> QED BY <1>0, <2>3, <3>2 DEF Open, OtherFetch, Expire, Forget
  <2> QED BY <1>3, <2>1, <2>2, <2>3 DEF World
<1>4. CASE Restart
  BY <1>0, <1>i, <1>4 DEF Restart
<1>5. CASE UNCHANGED vars
  BY <1>0, <1>5 DEF vars
<1> QED BY <1>1, <1>2, <1>3, <1>4, <1>5 DEF Next

----------------------------------------------------------------------------
\* What the steps that change a slot make of it.
LEMMA SlotMoves == IInv /\ [Next]_vars => \A id \in Ids : Moves(id)
<1> SUFFICES ASSUME IInv, [Next]_vars, NEW id \in Ids PROVE Moves(id)
  OBVIOUS
<1> USE DEF Moves
<1>0. /\ slot \in [Ids -> Slot] /\ about \in [Ids -> About] /\ slot[id] \in Slot
      /\ \A c \in Calls : CallFacts(c)
  BY DEF IInv, TypeOK, OperationFacts
<1>1. ASSUME slot' = slot, about' = about PROVE Moves(id)
  BY <1>1
<1>2. ASSUME NEW c \in Calls, Begin(c) PROVE Moves(id)
  <2>1. ASSUME NEW i \in Ids, NEW name \in Names, NEW s \in BOOLEAN, NEW h \in BOOLEAN,
               RequestCreate(c, i, name, s, h) PROVE Moves(id)
    <3>1. CASE id = i
      <4>1. slot'[id].state = "created" /\ slot[id].state = "fresh"
        BY <1>0, <2>1, <3>1 DEF RequestCreate, NewSlot
      <4>2. about'[id].name = name
        BY <1>0, <2>1, <3>1 DEF RequestCreate
      <4> QED BY <4>1, <4>2 DEF TerminalStates
    <3>2. CASE id # i
      BY <1>0, <2>1, <3>2 DEF RequestCreate
    <3> QED BY <3>1, <3>2
  <2> QED BY <1>1, <1>2, <2>1
          DEF Begin, FetchBegin, RevokeBegin, SendBegin, DeleteSecret, relayVars, storageVars, historyVars
<1>3. ASSUME NEW c \in Calls, Step(c) PROVE Moves(id)
  <2>1. ASSUME slot' = [slot EXCEPT ![call[c].id] = RevokedSlot(@)], about' = about PROVE Moves(id)
    BY <1>0, <2>1 DEF RevokedSlot, Slot, LiveStates, TerminalStates
  <2>2. ASSUME NEW b \in BOOLEAN, Take(c, b) PROVE Moves(id)
    BY <1>0, <2>2 DEF Take, Live, Slot, LiveStates, TerminalStates
  <2>3. ASSUME NEW b \in BOOLEAN, NEW i \in Ids, SendCreate(c, i, b) PROVE Moves(id)
    <3>1. CASE id = i
      <4>1. slot'[id].state = "created" /\ slot[id].state = "fresh"
        BY <1>0, <2>3, <3>1 DEF SendCreate, NewSlot
      <4>2. call[c].name \in Names
        BY <1>0, <2>3 DEF SendCreate, At, CallFacts
      <4>3. about'[id].name = call[c].name
        BY <1>0, <2>3, <3>1 DEF SendCreate
      <4> QED BY <4>1, <4>2, <4>3 DEF TerminalStates
    <3>2. CASE id # i
      BY <1>0, <2>3, <3>2 DEF SendCreate
    <3> QED BY <3>1, <3>2
  <2>4. ASSUME NEW b \in BOOLEAN, RevokeCall(c, b) PROVE Moves(id)
    BY <2>1, <2>4 DEF RevokeCall
  <2>5. CASE Undo(c)
    BY <2>1, <2>5 DEF Undo
  <2> QED BY <1>1, <1>3, <2>2, <2>3, <2>4, <2>5
          DEF Step, Save, SaveFails, CallFails, Poll, PollFails, PollDeadline, TakeGone, StoreValue,
              StoreFails, Mask, DropRecord, SendDelete, Unmask, relayVars
<1>4. ASSUME NEW i \in Ids, World(i) PROVE Moves(id)
  <2>1. ASSUME NEW sent \in {"good", "bad"}, Submit(i, sent) PROVE Moves(id)
    BY <1>0, <2>1 DEF Submit, TerminalStates
  <2>2. CASE Open(i)
    BY <1>0, <2>2 DEF Open, Live, LiveStates, TerminalStates
  <2>3. CASE OtherFetch(i)
    BY <1>0, <2>3 DEF OtherFetch, TerminalStates
  <2>4. CASE Expire(i)
    BY <1>0, <2>4 DEF Expire, Live, LiveStates, TerminalStates
  <2>5. CASE Forget(i)
    BY <1>0, <2>5 DEF Forget, TerminalStates
  <2> QED BY <1>1, <1>4, <2>1, <2>2, <2>3, <2>4, <2>5 DEF World, TimeUp, Lapse, relayVars
<1> QED BY <1>1, <1>2, <1>3, <1>4 DEF Next, Restart, vars, relayVars

\* Only DropRecord, for a slot that has ended, and Lapse take a record away.
LEMMA RecordsMove == IInv /\ [Next]_vars => RecordMoves
<1> SUFFICES ASSUME IInv, [Next]_vars PROVE RecordMoves
  OBVIOUS
<1> USE DEF RecordMoves, relayVars, storageVars, historyVars
<1>0. \A c \in Calls : CallFacts(c)
  BY DEF IInv, OperationFacts
<1>1. ASSUME NEW c \in Calls, Begin(c) PROVE RecordMoves
  <2>1. ASSUME NEW id \in Ids, NEW name \in Names, NEW s \in BOOLEAN, NEW h \in BOOLEAN,
               RequestCreate(c, id, name, s, h) PROVE RecordMoves
    BY <2>1 DEF RequestCreate
  <2>2. ASSUME NEW id \in Ids, FetchBegin(c, id) \/ RevokeBegin(c, id) PROVE RecordMoves
    BY <2>2 DEF FetchBegin, RevokeBegin
  <2>3. ASSUME NEW name \in Names, NEW b \in BOOLEAN, SendBegin(c, name, b) \/ DeleteSecret(c, name, b)
        PROVE  RecordMoves
    BY <2>3 DEF SendBegin, DeleteSecret
  <2> QED BY <1>1, <2>1, <2>2, <2>3 DEF Begin
<1>2. ASSUME NEW c \in Calls, Step(c) PROVE RecordMoves
  <2>1. ASSUME NEW b \in BOOLEAN, DropRecord(c, b) PROVE RecordMoves
    <3>1. ~Live(call[c].id)
      BY <1>0, <2>1 DEF DropRecord, At, CallFacts
    <3> QED BY <2>1, <3>1 DEF DropRecord
  <2>2. CASE Save(c) \/ \E b \in BOOLEAN : SaveFails(c, b)
    <3>1. slot[call[c].id].state # "fresh"
      BY <1>0, <2>2 DEF Save, SaveFails, At, CallFacts
    <3> QED BY <2>2, <3>1 DEF Save, SaveFails
  <2>3. CASE Undo(c) \/ CallFails(c) \/ Poll(c) \/ PollFails(c) \/ PollDeadline(c) \/ TakeGone(c)
             \/ Mask(c) \/ Unmask(c)
    BY <2>3 DEF Undo, CallFails, Poll, PollFails, PollDeadline, TakeGone, Mask, Unmask
  <2>4. CASE StoreValue(c) \/ \E b \in BOOLEAN : Take(c, b) \/ StoreFails(c, b) \/ RevokeCall(c, b)
    BY <2>4 DEF StoreValue, Take, StoreFails, RevokeCall
  <2>5. ASSUME NEW b \in BOOLEAN, NEW id \in Ids, SendCreate(c, id, b) PROVE RecordMoves
    BY <2>5 DEF SendCreate
  <2>6. ASSUME NEW b \in BOOLEAN, SendDelete(c, b) PROVE RecordMoves
    <3>1. slot[call[c].id].state # "fresh"
      BY <1>0, <2>6 DEF SendDelete, At, CallFacts
    <3> QED BY <2>6, <3>1 DEF SendDelete
  <2> QED BY <1>2, <2>1, <2>2, <2>3, <2>4, <2>5, <2>6 DEF Step
<1>3. ASSUME NEW id \in Ids, World(id) PROVE RecordMoves
  BY <1>3 DEF World, Submit, Open, OtherFetch, TimeUp, Expire, Lapse, Forget
<1> QED BY <1>1, <1>2, <1>3 DEF Next, Restart, vars

\* What an operation relies on stays true while the others move.
LEMMA FactsStay ==
  ASSUME IInv, NEW d \in Calls, call'[d] = call[d], \A id \in Ids : Moves(id), RecordMoves
  PROVE  CallFacts(d)' /\ AnswerTrue(d)'
<1> DEFINE r == call[d]
           id == call[d].id
<1>0. CallFacts(d) /\ AnswerTrue(d) /\ slot \in [Ids -> Slot] /\ r \in Call
  BY DEF IInv, OperationFacts, AnswersTrue, TypeOK
<1>1. CASE r.pc \in {"idle", "sending", "unmasking"}
  BY <1>0, <1>1 DEF CallFacts, AnswerTrue, Says, At
<1>2. CASE r.pc \notin {"idle", "sending", "unmasking"}
  <2>1. id \in Ids /\ slot[id].state # "fresh" /\ Moves(id)
    BY <1>0, <1>2 DEF CallFacts
  <2>2. Live(id)' => Live(id)
    BY <1>0, <2>1 DEF Live, Moves, Slot, LiveStates, TerminalStates
  <2>3. CallFacts(d)'
    BY <1>0, <1>2, <2>1, <2>2 DEF CallFacts, Moves, RecordMoves, TerminalStates
  <2>4. AnswerTrue(d)'
    BY <1>0, <1>2, <2>1 DEF AnswerTrue, Says, At, Moves, RecordMoves, TerminalStates
  <2> QED BY <2>3, <2>4
<1> QED BY <1>1, <1>2

\* The same for the slots and records themselves, apart from what a step adds.
LEMMA SlotFactsStep == IInv /\ [Next]_vars => SlotFacts'
<1> SUFFICES ASSUME IInv, [Next]_vars, NEW id \in Ids
             PROVE  /\ slot'[id].state = "uploaded" => slot'[id].sent # "nothing"
                    /\ slot'[id].state # "fresh" => about'[id].name \in Names
                    /\ id \in record' \cup given' => slot'[id].state # "fresh"
  BY DEF SlotFacts
<1>0. SlotFacts /\ Moves(id) /\ RecordMoves
  BY SlotMoves, RecordsMove DEF IInv
<1> QED BY <1>0 DEF SlotFacts, Moves, RecordMoves

\* Every action establishes what the operation relies on next, and an answer
\* only when it is so.
LEMMA OperationStep == IInv /\ [Next]_vars => OperationFacts' /\ AnswersTrue'
<1> SUFFICES ASSUME IInv, [Next]_vars, NEW d \in Calls PROVE CallFacts(d)' /\ AnswerTrue(d)'
  BY DEF OperationFacts, AnswersTrue
<1> USE DEF At, Return, Goto, Conclude, relayVars, storageVars, historyVars
<1>0. /\ slot \in [Ids -> Slot] /\ call \in [Calls -> Call] /\ SlotFacts
      /\ CallFacts(d) /\ AnswerTrue(d) /\ (\A i \in Ids : Moves(i)) /\ RecordMoves
  BY SlotMoves, RecordsMove DEF IInv, TypeOK, OperationFacts, AnswersTrue
<1>1. ASSUME call'[d] = call[d] PROVE CallFacts(d)' /\ AnswerTrue(d)'
  BY <1>0, <1>1, FactsStay
<1>2. ASSUME call'[d].pc \in {"idle", "unmasking"} PROVE CallFacts(d)' /\ AnswerTrue(d)'
  BY <1>2 DEF CallFacts, AnswerTrue, Says
<1>i. Idle.pc = "idle"
  BY DEF Idle
<1>3. ASSUME Begin(d) PROVE CallFacts(d)' /\ AnswerTrue(d)'
  <2>1. ASSUME NEW id \in Ids, NEW name \in Names, NEW s \in BOOLEAN, NEW h \in BOOLEAN,
               RequestCreate(d, id, name, s, h) PROVE CallFacts(d)' /\ AnswerTrue(d)'
    <3>1. CASE ~h
      BY <1>1, <2>1, <3>1 DEF RequestCreate
    <3>2. CASE h
      <4>1. call'[d].pc = "saving" /\ call'[d].id = id /\ slot'[id].state = "created"
        BY <1>0, <2>1, <3>2, IdleTyped DEF RequestCreate, NewSlot, Call
      <4> QED BY <4>1 DEF CallFacts, AnswerTrue, Says
    <3> QED BY <3>1, <3>2
  <2>2. ASSUME NEW id \in Ids, FetchBegin(d, id) \/ RevokeBegin(d, id)
        PROVE  CallFacts(d)' /\ AnswerTrue(d)'
    <3>1. call'[d].pc \in {"polling", "revoking"} /\ call'[d].id = id
      <4>1. CASE FetchBegin(d, id)
        BY <1>0, <4>1, IdleTyped DEF FetchBegin, Call
      <4>2. CASE RevokeBegin(d, id)
        BY <1>0, <4>2, IdleTyped DEF RevokeBegin, Call
      <4> QED BY <2>2, <4>1, <4>2
    <3>2. slot'[id].state # "fresh"
      <4>1. id \in record /\ slot' = slot
        BY <2>2 DEF FetchBegin, RevokeBegin
      <4> QED BY <1>0, <4>1 DEF SlotFacts
    <3> QED BY <3>1, <3>2 DEF CallFacts, AnswerTrue, Says
  <2>3. ASSUME NEW name \in Names, NEW b \in BOOLEAN, SendBegin(d, name, b)
        PROVE  CallFacts(d)' /\ AnswerTrue(d)'
    <3>1. call'[d].pc = "sending" /\ call'[d].name = name
      BY <1>0, <2>3, IdleTyped DEF SendBegin, Call
    <3> QED BY <3>1 DEF CallFacts, AnswerTrue, Says
  <2>4. ASSUME NEW name \in Names, NEW b \in BOOLEAN, DeleteSecret(d, name, b)
        PROVE  CallFacts(d)' /\ AnswerTrue(d)'
    <3>1. call'[d].pc = "unmasking"
      BY <1>0, <2>4, IdleTyped DEF DeleteSecret, Call
    <3> QED BY <1>2, <3>1
  <2> QED BY <1>3, <2>1, <2>2, <2>3, <2>4 DEF Begin
<1>4. ASSUME Step(d) PROVE CallFacts(d)' /\ AnswerTrue(d)'
  <2> DEFINE id == call[d].id
  <2>0. /\ call[d] \in Call /\ call' \in [Calls -> Call]
        /\ call[d].pc \notin {"idle", "sending", "unmasking"} =>
              id \in Ids /\ slot[id] \in Slot /\ slot'[id].state # "fresh" /\ Moves(id)
    BY <1>0, TypeStep DEF CallFacts, Moves, TypeOK
  <2>1. ASSUME Return(d) PROVE CallFacts(d)' /\ AnswerTrue(d)'
    BY <1>0, <1>2, <1>i, <2>1
  <2>2. ASSUME NEW a \in Answers, Conclude(d, a), id \in Ids, slot'[id].state # "fresh",
               slot'[id].known => slot'[id].state \notin LiveStates,
               a = "stored" => id \in kept' /\ slot'[id].state = "fetched" /\ slot'[id].by = "agent",
               a = "rejected" => /\ slot'[id].state = "fetched" /\ slot'[id].by = "agent"
                                 /\ slot'[id].sent = "bad",
               a = "already" => slot'[id].state = "fetched",
               a = "elsewhere" => slot'[id].state \in TerminalStates,
               a = "unknown" => ~slot'[id].known,
               a \in TerminalStates => slot'[id].state = a
        PROVE  CallFacts(d)' /\ AnswerTrue(d)'
    <3>1. call'[d].pc = "dropping" /\ call'[d].id = id /\ call'[d].answer = a
      BY <1>0, <2>0, <2>2 DEF Call
    <3>2. CallFacts(d)'
      BY <2>2, <3>1 DEF CallFacts, Live
    <3>3. AnswerTrue(d)'
      BY <2>2, <3>1 DEF AnswerTrue, Says
    <3> QED BY <3>2, <3>3
  <2>3. ASSUME NEW pc \in PCs, Goto(d, pc) PROVE call'[d].pc = pc /\ call'[d].id = id
    BY <1>0, <2>0, <2>3 DEF Call
  <2>4. CASE Save(d)
    <3>1. CASE Return(d)
      BY <2>1, <3>1
    <3>2. CASE Goto(d, "deleting")
      <4>1. call'[d].pc = "deleting" /\ call'[d].id = id
        BY <2>3, <3>2 DEF PCs
      <4>2. id \in Ids /\ slot'[id].state # "fresh" /\ id \in record'
        BY <2>0, <2>4 DEF Save
      <4> QED BY <4>1, <4>2 DEF CallFacts, AnswerTrue, Says
    <3> QED BY <2>4, <3>1, <3>2 DEF Save
  <2>5. ASSUME NEW b \in BOOLEAN, SaveFails(d, b) PROVE CallFacts(d)' /\ AnswerTrue(d)'
    <3>1. call'[d].pc = "undoing" /\ call'[d].id = id
      BY <2>3, <2>5 DEF SaveFails, PCs
    <3>2. id \in Ids /\ slot'[id].state # "fresh"
      BY <2>0, <2>5 DEF SaveFails
    <3> QED BY <3>1, <3>2 DEF CallFacts, AnswerTrue, Says
  <2>6. CASE Undo(d) \/ CallFails(d) \/ PollDeadline(d) \/ Unmask(d)
    BY <2>1, <2>6 DEF Undo, CallFails, PollDeadline, Unmask
  <2>7. CASE Poll(d)
    <3>0. id \in Ids /\ slot' = slot /\ slot[id] \in Slot /\ slot'[id].state # "fresh"
      BY <2>0, <2>7 DEF Poll
    <3>1. CASE ~slot[id].known
      <4>1. Conclude(d, "unknown")
        BY <2>7, <3>1 DEF Poll
      <4>2. slot'[id].known => slot'[id].state \notin LiveStates
        BY <3>0, <3>1
      <4> QED BY <2>2, <3>0, <3>1, <4>1, <4>2 DEF Answers, TerminalStates
    <3>2. CASE slot[id].known /\ slot[id].state = "created"
      <4>1. call'[d] = [call[d] EXCEPT !.fails = 0]
        BY <1>0, <2>7, <3>2 DEF Poll
      <4>2. call'[d].pc = "polling" /\ call'[d].id = id
        BY <2>0, <2>7, <4>1 DEF Poll, Call
      <4> QED BY <3>0, <4>2 DEF CallFacts, AnswerTrue, Says
    <3>3. CASE slot[id].known /\ slot[id].state = "uploaded"
      <4>1. Goto(d, "taking")
        BY <2>7, <3>3 DEF Poll
      <4>2. call'[d].pc = "taking" /\ call'[d].id = id
        BY <2>3, <4>1 DEF PCs
      <4> QED BY <3>0, <3>3, <4>2 DEF CallFacts, AnswerTrue, Says
    <3>4. CASE slot[id].known /\ slot[id].state = "fetched"
      <4>1. Conclude(d, "already")
        BY <2>7, <3>4 DEF Poll
      <4>2. slot'[id].known => slot'[id].state \notin LiveStates
        BY <3>0, <3>4 DEF LiveStates
      <4> QED BY <2>2, <3>0, <3>4, <4>1, <4>2 DEF Answers, TerminalStates
    <3>5. CASE slot[id].known /\ slot[id].state \in {"revoked", "expired"}
      <4>1. Conclude(d, slot[id].state)
        BY <2>7, <3>5 DEF Poll
      <4>2. slot'[id].known => slot'[id].state \notin LiveStates
        BY <3>0, <3>5 DEF LiveStates
      <4> QED BY <2>2, <3>0, <3>5, <4>1, <4>2 DEF Answers, TerminalStates
    <3>6. CASE slot[id].known /\ slot[id].state \notin {"created", "uploaded", "fetched", "revoked", "expired"}
      <4>1. Return(d)
        BY <2>7, <3>6 DEF Poll
      <4> QED BY <2>1, <4>1
    <3> QED BY <3>1, <3>2, <3>3, <3>4, <3>5, <3>6
  <2>8. CASE PollFails(d)
    <3>1. CASE Return(d)
      BY <2>1, <3>1
    <3>2. CASE call' = [call EXCEPT ![d].fails = @ + 1]
      <4>1. call'[d].pc = "polling" /\ call'[d].id = id
        BY <1>0, <2>0, <2>8, <3>2 DEF PollFails, Call
      <4> QED BY <2>0, <2>8, <4>1 DEF PollFails, CallFacts, AnswerTrue, Says
    <3> QED BY <2>8, <3>1, <3>2 DEF PollFails
  <2>9. ASSUME NEW b \in BOOLEAN, Take(d, b) PROVE CallFacts(d)' /\ AnswerTrue(d)'
    <3>0. /\ id \in Ids /\ slot'[id].state = "fetched" /\ slot'[id].by = "agent"
          /\ slot'[id].sent = slot[id].sent /\ slot[id].sent \in {"good", "bad"}
      <4>1. id \in Ids /\ slot[id] \in Slot /\ slot[id].state = "uploaded"
        BY <1>0, <2>0, <2>9 DEF Take, CallFacts, Live, LiveStates
      <4>2. slot[id].sent \in {"good", "bad"}
        BY <1>0, <4>1 DEF SlotFacts, Slot
      <4> QED BY <1>0, <2>9, <4>1, <4>2 DEF Take, Slot
    <3>1. CASE ~b
      BY <2>1, <2>9, <3>1 DEF Take
    <3>2. CASE b /\ slot[id].sent = "good"
      <4>1. Goto(d, "storing")
        BY <2>9, <3>2 DEF Take
      <4>2. call'[d].pc = "storing" /\ call'[d].id = id
        BY <2>3, <4>1 DEF PCs
      <4> QED BY <3>0, <4>2 DEF CallFacts, AnswerTrue, Says
    <3>3. CASE b /\ slot[id].sent # "good"
      <4>1. Conclude(d, "rejected")
        BY <2>9, <3>3 DEF Take
      <4> QED BY <2>2, <3>0, <3>3, <4>1 DEF Answers, TerminalStates, LiveStates
    <3> QED BY <3>1, <3>2, <3>3
  <2>10. CASE TakeGone(d)
    <3>0. id \in Ids /\ slot' = slot /\ slot'[id].state # "fresh"
      BY <2>0, <2>10 DEF TakeGone
    <3>1. CASE slot[id].known
      <4>1. Conclude(d, "elsewhere") /\ ~Live(id)
        BY <2>10, <3>1 DEF TakeGone
      <4>2. slot'[id].state \notin LiveStates /\ slot[id].state \in TerminalStates
        BY <2>0, <2>10, <3>0, <3>1, <4>1 DEF TakeGone, At, Live, Slot
      <4> QED BY <2>2, <3>0, <4>1, <4>2 DEF Answers, TerminalStates
    <3>2. CASE ~slot[id].known
      BY <2>1, <2>10, <3>2 DEF TakeGone
    <3> QED BY <3>1, <3>2
  <2>11. CASE StoreValue(d)
    <3>1. call'[d].pc = "masking" /\ call'[d].id = id
      BY <2>3, <2>11 DEF StoreValue, PCs
    <3>2. id \in Ids /\ id \in kept' /\ slot' = slot /\ slot[id].state = "fetched" /\ slot[id].by = "agent"
      BY <1>0, <2>0, <2>11 DEF StoreValue, CallFacts
    <3> QED BY <3>1, <3>2 DEF CallFacts, AnswerTrue, Says
  <2>12. ASSUME NEW b \in BOOLEAN, StoreFails(d, b) \/ DropRecord(d, b) \/ SendDelete(d, b)
         PROVE  CallFacts(d)' /\ AnswerTrue(d)'
    BY <2>1, <2>12 DEF StoreFails, DropRecord, SendDelete
  <2>13. CASE Mask(d)
    <3>1. /\ id \in Ids /\ id \in kept' /\ slot' = slot /\ slot[id].state = "fetched"
          /\ slot[id].by = "agent" /\ Conclude(d, "stored")
      BY <1>0, <2>0, <2>13 DEF Mask, CallFacts
    <3> QED BY <2>2, <3>1 DEF Answers, TerminalStates, LiveStates
  <2>14. ASSUME NEW b \in BOOLEAN, NEW i \in Ids, SendCreate(d, i, b)
         PROVE  CallFacts(d)' /\ AnswerTrue(d)'
    <3>1. CASE ~b
      BY <2>1, <2>14, <3>1 DEF SendCreate
    <3>2. CASE b
      <4>1. call'[d].pc = "saving" /\ call'[d].id = i
        BY <1>0, <2>0, <2>14, <3>2 DEF SendCreate, Call
      <4>2. slot'[i].state = "created"
        BY <1>0, <2>14 DEF SendCreate, NewSlot
      <4> QED BY <4>1, <4>2 DEF CallFacts, AnswerTrue, Says
    <3> QED BY <3>1, <3>2
  <2>15. ASSUME NEW b \in BOOLEAN, RevokeCall(d, b) PROVE CallFacts(d)' /\ AnswerTrue(d)'
    <3>0. /\ id \in Ids /\ slot[id] \in Slot /\ slot'[id] = RevokedSlot(slot[id])
          /\ slot'[id].state # "fresh" /\ slot[id].state # "fresh"
      BY <1>0, <2>0, <2>15 DEF RevokeCall, CallFacts
    <3>1. CASE ~b
      BY <2>1, <2>15, <3>1 DEF RevokeCall
    <3>2. CASE b
      <4>1. Conclude(d, RevokeState(slot[id]))
        BY <2>15, <3>2 DEF RevokeCall
      <4>2. CASE ~slot[id].known
        BY <2>2, <3>0, <4>1, <4>2 DEF RevokeState, RevokedSlot, Answers, TerminalStates
      <4>3. CASE slot[id].known /\ slot[id].state \in LiveStates
        <5>1. RevokeState(slot[id]) = "revoked" /\ slot'[id].state = "revoked"
          BY <3>0, <4>3 DEF RevokeState, RevokedSlot, Slot
        <5> QED BY <2>2, <3>0, <4>1, <5>1 DEF Answers, TerminalStates, LiveStates
      <4>4. CASE slot[id].known /\ slot[id].state \notin LiveStates
        <5>1. RevokeState(slot[id]) = slot[id].state /\ slot'[id] = slot[id]
          BY <3>0, <4>4 DEF RevokeState, RevokedSlot
        <5>2. slot[id].state \in TerminalStates
          BY <3>0, <4>4 DEF Slot
        <5> QED BY <2>2, <3>0, <4>1, <4>4, <5>1, <5>2 DEF Answers, TerminalStates
      <4> QED BY <4>2, <4>3, <4>4
    <3> QED BY <3>1, <3>2
  <2> QED BY <1>4, <2>4, <2>5, <2>6, <2>7, <2>8, <2>9, <2>10, <2>11, <2>12, <2>13, <2>14, <2>15 DEF Step
<1>5. ASSUME NEW c \in Calls, c # d, Begin(c) \/ Step(c) PROVE call'[d] = call[d]
  <2>1. CASE Begin(c)
    BY <1>0, <1>5, <2>1 DEF Begin, RequestCreate, FetchBegin, RevokeBegin, SendBegin, DeleteSecret
  <2>2. CASE Step(c)
    <3>1. CASE Poll(c)
      <4>1. \/ Return(c) \/ Goto(c, "taking") \/ call' = [call EXCEPT ![c].fails = 0]
            \/ \E a : Conclude(c, a)
        BY <3>1 DEF Poll
      <4> QED BY <1>0, <1>5, <4>1
    <3>2. ASSUME NEW b \in BOOLEAN, Take(c, b) PROVE call'[d] = call[d]
      <4>1. Return(c) \/ Goto(c, "storing") \/ Conclude(c, "rejected")
        BY <3>2 DEF Take
      <4> QED BY <1>0, <1>5, <4>1
    <3>3. CASE Save(c) \/ Undo(c) \/ CallFails(c) \/ PollFails(c) \/ PollDeadline(c) \/ TakeGone(c)
               \/ StoreValue(c) \/ Mask(c) \/ Unmask(c)
      BY <1>0, <1>5, <3>3
         DEF Save, Undo, CallFails, PollFails, PollDeadline, TakeGone, StoreValue, Mask, Unmask
    <3>4. ASSUME NEW b \in BOOLEAN, SaveFails(c, b) \/ StoreFails(c, b) \/ DropRecord(c, b) \/ SendDelete(c, b)
          PROVE  call'[d] = call[d]
      BY <1>0, <1>5, <3>4 DEF SaveFails, StoreFails, DropRecord, SendDelete
    <3>5. ASSUME NEW b \in BOOLEAN, RevokeCall(c, b) PROVE call'[d] = call[d]
      BY <1>0, <1>5, <3>5 DEF RevokeCall
    <3>6. ASSUME NEW b \in BOOLEAN, NEW i \in Ids, SendCreate(c, i, b) PROVE call'[d] = call[d]
      BY <1>0, <1>5, <3>6 DEF SendCreate
    <3> QED BY <2>2, <3>1, <3>2, <3>3, <3>4, <3>5, <3>6 DEF Step
  <2> QED BY <1>5, <2>1, <2>2
<1>6. ASSUME NEW id \in Ids, World(id) PROVE call'[d] = call[d]
  BY <1>6 DEF World, Submit, Open, OtherFetch, TimeUp, Expire, Lapse, Forget
<1>7. CASE Restart
  BY <1>2, <1>7, <1>i DEF Restart
<1> QED BY <1>1, <1>3, <1>4, <1>5, <1>6, <1>7 DEF Next, vars

\* A link reaches the human with its record saved; what was given keeps its
\* record as RecordMoves says.
LEMMA GivenStep == IInv /\ [Next]_vars => RecordKept' /\ NoSilentLoss'
<1> SUFFICES ASSUME IInv, [Next]_vars, NEW id \in given'
             PROVE  /\ Live(id)' => id \in record' \cup over'
                    /\ id \in record' \cup told' \cup over'
  BY DEF RecordKept, NoSilentLoss
<1>0. /\ slot \in [Ids -> Slot] /\ given \subseteq Ids /\ given' \subseteq Ids /\ SlotFacts
      /\ RecordKept /\ NoSilentLoss /\ RecordMoves /\ \A i \in Ids : Moves(i)
  BY SlotMoves, RecordsMove, TypeStep DEF IInv, TypeOK
<1>1. slot[id].state # "fresh" /\ Live(id)' => Live(id)
  BY <1>0 DEF Moves, Live, Slot, LiveStates, TerminalStates
<1>2. CASE id \in given
  <2>1. slot[id].state # "fresh"
    BY <1>0, <1>2 DEF SlotFacts
  <2> QED BY <1>0, <1>1, <1>2, <2>1 DEF RecordKept, NoSilentLoss, RecordMoves
<1>3. CASE id \notin given
  <2>1. PICK c \in Calls : Save(c) \/ \E b \in BOOLEAN : SendDelete(c, b)
    <3> USE DEF relayVars, storageVars, historyVars
    <3>1. CASE given' = given
      BY <1>3, <3>1
    <3>2. ASSUME NEW c \in Calls, Begin(c) PROVE given' = given
      <4>1. ASSUME NEW i \in Ids, NEW name \in Names, NEW s \in BOOLEAN, NEW h \in BOOLEAN,
                   RequestCreate(c, i, name, s, h) PROVE given' = given
        BY <4>1 DEF RequestCreate
      <4> QED BY <3>2, <4>1 DEF Begin, FetchBegin, RevokeBegin, SendBegin, DeleteSecret
    <3>3. ASSUME NEW c \in Calls, Step(c), ~Save(c), \A b \in BOOLEAN : ~SendDelete(c, b)
          PROVE  given' = given
      <4>1. ASSUME NEW b \in BOOLEAN, NEW i \in Ids, SendCreate(c, i, b) PROVE given' = given
        BY <4>1 DEF SendCreate
      <4>2. ASSUME NEW b \in BOOLEAN, SaveFails(c, b) \/ Take(c, b) \/ StoreFails(c, b) \/ DropRecord(c, b)
                                      \/ RevokeCall(c, b)
            PROVE  given' = given
        BY <4>2 DEF SaveFails, Take, StoreFails, DropRecord, RevokeCall
      <4> QED BY <3>3, <4>1, <4>2 DEF Step, Undo, CallFails, Poll, PollFails, PollDeadline, TakeGone,
                 StoreValue, Mask, Unmask
    <3>4. ASSUME NEW i \in Ids, World(i) PROVE given' = given
      BY <3>4 DEF World, Submit, Open, OtherFetch, TimeUp, Expire, Lapse, Forget
    <3> QED BY <3>1, <3>2, <3>3, <3>4 DEF Next, Restart, vars
  <2>2. CASE Save(c)
    BY <1>3, <2>2 DEF Save
  <2>3. ASSUME NEW b \in BOOLEAN, SendDelete(c, b)
        PROVE  /\ Live(id)' => id \in record' \cup over'
               /\ id \in record' \cup told' \cup over'
    <3>1. id = call[c].id /\ call[c].pc = "deleting" /\ slot' = slot /\ over' = over
          /\ record' = record /\ told' = told
      BY <1>3, <2>3 DEF SendDelete, At, relayVars
    <3>2. CallFacts(c)
      BY DEF IInv, OperationFacts
    <3> QED BY <3>1, <3>2 DEF CallFacts, Live
  <2> QED BY <2>1, <2>2, <2>3
<1> QED BY <1>2, <1>3

----------------------------------------------------------------------------
\* IInv holds of every reachable state.
LEMMA Inductive == Spec => []IInv
<1>1. IInv /\ [Next]_vars => IInv'
  BY TypeStep, SlotFactsStep, OperationStep, GivenStep DEF IInv
<1> QED BY Initially, <1>1, PTL DEF Spec

\* The agent's state keeps its types, whatever fails, races or restarts.
THEOREM AgentTypeCorrect == Spec => []TypeOK
<1>1. IInv => TypeOK
  BY DEF IInv
<1> QED BY Inductive, <1>1, PTL

\* As long as a link the human holds can be used, the agent can fetch or revoke
\* it: no failure, lost answer, race or restart takes its record away.
THEOREM RecordIsKept == Spec => []RecordKept
<1>1. IInv => RecordKept
  BY DEF IInv
<1> QED BY Inductive, <1>1, PTL

\* A link is only given up with its time, or when a caller was told of its end.
THEOREM NothingLostSilently == Spec => []NoSilentLoss
<1>1. IInv => NoSilentLoss
  BY DEF IInv
<1> QED BY Inductive, <1>1, PTL

\* The end of a slot that fetch_secret and revoke_request report is the end it came
\* to, and a value they call stored or rejected was fetched by this agent
\* (agent.go:385-490).  That someone else fetched the submission does not follow
\* from the answer that says so, only that the slot is over (ElsewhereTrue).
THEOREM AnswersAreTrue == Spec => []AnswersTrue
<1>1. IInv => AnswersTrue
  BY DEF IInv
<1> QED BY Inductive, <1>1, PTL
=============================================================================
